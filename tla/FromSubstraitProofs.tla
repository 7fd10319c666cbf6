------------------------- MODULE FromSubstraitProofs -------------------------
(***************************************************************************)
(* Proofs about FromSubstrait, for any clients, tables and plans.          *)
(***************************************************************************)
EXTENDS FromSubstrait, TLAPS

-----------------------------------------------------------------------------
(* The columns of plans.                                                   *)

LEMMA PlanFields ==
    ASSUME NEW p \in Plans
    PROVE  /\ p.op \in {"read", "insert"}
           /\ p.base \in Seq(Names) /\ p.base # <<>> /\ Len(p.base) > 0
           /\ p.projection \in Seq(Nat)
           /\ \A k \in DOMAIN p.projection :
                  p.projection[k] \in Nat /\ p.projection[k] < Len(p.base)
<1>1. /\ p.op \in {"read", "insert"}
      /\ p.base \in Seq(Names) /\ p.base # <<>>
      /\ p.projection \in Seq(Nat)
      /\ \A k \in DOMAIN p.projection : p.projection[k] < Len(p.base)
  BY PlansAssumption
<1>2. Len(p.base) > 0
  BY <1>1
<1>. QED  BY <1>1, <1>2

\* A name that a table has is found, at the one position that has it.
LEMMA PositionOfName ==
    ASSUME NEW s \in Schemas, NEW name, \E j \in DOMAIN s : s[j] = name
    PROVE  PositionOf(name, s) \in DOMAIN s /\ s[PositionOf(name, s)] = name
BY DEF PositionOf

\* What a consumable read selects are columns of the table.
LEMMA PositionsType ==
    ASSUME NEW p \in Plans, NEW s \in Schemas
    PROVE  Consumable(p, s) /\ p.op = "read" =>
               Positions(p, s) \in Seq(Nat) /\ InRange(Positions(p, s), s)
<1> SUFFICES ASSUME Consumable(p, s), p.op = "read"
             PROVE  Positions(p, s) \in Seq(Nat) /\ InRange(Positions(p, s), s)
  OBVIOUS
<1>1. /\ InRange(Positions(p, s), s)
      /\ Narrows(p, s) => HasColumns(p, s)
  BY DEF Consumable
<1>2. s \in Seq(Names)
  BY SchemasAssumption
<1>3. CASE p.projection # <<>>
  <2>1. Positions(p, s) = [k \in DOMAIN p.projection |-> p.projection[k] + 1]
    BY <1>3 DEF Positions
  <2>2. DOMAIN p.projection = 1..Len(p.projection) /\ Len(p.projection) \in Nat
    BY PlanFields
  <2>3. \A k \in 1..Len(p.projection) : p.projection[k] + 1 \in Nat
    BY PlanFields, <2>2
  <2>. QED  BY <1>1, <2>1, <2>2, <2>3
<1>4. CASE p.projection = <<>>
  <2>2. DOMAIN p.base = 1..Len(p.base) /\ Len(p.base) \in Nat
    BY PlanFields
  <2>3. CASE Narrows(p, s)
    <3>1. Positions(p, s) = [k \in DOMAIN p.base |-> PositionOf(p.base[k], s)]
      BY <1>4, <2>3 DEF Positions
    <3>2. \A k \in DOMAIN p.base : PositionOf(p.base[k], s) \in DOMAIN s
      BY <1>1, <2>3, PositionOfName DEF HasColumns
    <3>3. DOMAIN s \subseteq Nat
      BY <1>2
    <3>. QED  BY <1>1, <2>2, <3>1, <3>2, <3>3
  <2>4. CASE ~Narrows(p, s)
    <3>1. Positions(p, s) = [k \in DOMAIN p.base |-> k]
      BY <1>4, <2>4 DEF Positions
    <3>. QED  BY <1>1, <2>2, <3>1
  <2>. QED  BY <2>3, <2>4
<1>. QED  BY <1>3, <1>4

\* A read of a table that has the declared columns is consumed.
LEMMA FittingReadIsConsumable ==
    ASSUME NEW p \in Plans, p.op = "read", NEW s \in Schemas, Fits(p, s)
    PROVE  Consumable(p, s)
<1>1. s \in Seq(Names) /\ Len(s) \in Nat /\ DOMAIN s = 1..Len(s)
  BY SchemasAssumption
<1>2. /\ p.base \in Seq(Names) /\ Len(p.base) \in Nat /\ Len(p.base) > 0
      /\ DOMAIN p.base = 1..Len(p.base)
  BY PlanFields
<1>3. Len(p.base) <= Len(s)
  BY <1>1, <1>2 DEF Fits, Narrows
<1>4. s # Absent
  BY <1>1, <1>2, <1>3 DEF Absent
<1>5. Narrows(p, s) => HasColumns(p, s)
  <2>1. CASE p.base = s
    BY <2>1, <1>1 DEF Narrows
  <2>2. CASE Narrows(p, s) /\ HasColumns(p, s)
    BY <2>2
  <2>. QED  BY <2>1, <2>2 DEF Fits
<1>6. InRange(Positions(p, s), s)
  <2>1. CASE p.projection # <<>>
    <3>1. Positions(p, s) = [k \in DOMAIN p.projection |-> p.projection[k] + 1]
      BY <2>1 DEF Positions
    <3>2. \A k \in DOMAIN p.projection : p.projection[k] + 1 \in 1..Len(s)
      BY PlanFields, <1>1, <1>2, <1>3
    <3>. QED  BY <3>1, <3>2, <1>1 DEF InRange
  <2>2. CASE p.projection = <<>> /\ Narrows(p, s)
    <3>1. Positions(p, s) = [k \in DOMAIN p.base |-> PositionOf(p.base[k], s)]
      BY <2>2 DEF Positions
    <3>. QED  BY <3>1, <1>5, <2>2, PositionOfName DEF InRange, HasColumns
  <2>3. CASE p.projection = <<>> /\ ~Narrows(p, s)
    <3>1. Positions(p, s) = [k \in DOMAIN p.base |-> k]
      BY <2>3 DEF Positions
    <3>. QED  BY <3>1, <1>1, <1>2, <1>3 DEF InRange
  <2>. QED  BY <2>1, <2>2, <2>3
<1>7. p.op # "insert"
  OBVIOUS
<1>. QED  BY <1>4, <1>5, <1>6, <1>7 DEF Consumable

\* And it gets the columns that it names.
LEMMA FittingReadColumns ==
    ASSUME NEW p \in Plans, NEW s \in Schemas, Fits(p, s)
    PROVE  [k \in DOMAIN Positions(p, s) |-> s[Positions(p, s)[k]]]
               = NamedColumns(p)
<1>1. s \in Seq(Names) /\ Len(s) \in Nat /\ DOMAIN s = 1..Len(s)
  BY SchemasAssumption
<1>2. /\ p.base \in Seq(Names) /\ Len(p.base) \in Nat
      /\ DOMAIN p.base = 1..Len(p.base)
  BY PlanFields
<1>3. CASE p.projection # <<>>
  <2>1. Positions(p, s) = [k \in DOMAIN p.projection |-> p.projection[k] + 1]
    BY <1>3 DEF Positions
  <2>2. p.base = s
    BY <1>3 DEF Fits, Narrows
  <2>. QED  BY <1>3, <2>1, <2>2 DEF NamedColumns
<1>4. CASE p.projection = <<>> /\ Narrows(p, s)
  <2>1. Positions(p, s) = [k \in DOMAIN p.base |-> PositionOf(p.base[k], s)]
    BY <1>4 DEF Positions
  <2>2. HasColumns(p, s)
    <3>1. p.base # s
      BY <1>1, <1>4 DEF Narrows
    <3>. QED  BY <3>1 DEF Fits
  <2>3. \A k \in DOMAIN p.base : s[PositionOf(p.base[k], s)] = p.base[k]
    BY <2>2, PositionOfName DEF HasColumns
  <2>4. p.base = [k \in DOMAIN p.base |-> p.base[k]]
    BY <1>2
  <2>5. [k \in DOMAIN Positions(p, s) |-> s[Positions(p, s)[k]]]
            = [k \in DOMAIN p.base |-> p.base[k]]
    BY <2>1, <2>3
  <2>6. NamedColumns(p) = p.base
    BY <1>4 DEF NamedColumns
  <2>. QED  BY <2>4, <2>5, <2>6
<1>5. CASE p.projection = <<>> /\ ~Narrows(p, s)
  <2>1. Positions(p, s) = [k \in DOMAIN p.base |-> k]
    BY <1>5 DEF Positions
  <2>2. p.base = s
    BY <1>5 DEF Fits
  <2>3. p.base = [k \in DOMAIN p.base |-> p.base[k]]
    BY <1>2
  <2>. QED  BY <1>5, <2>1, <2>2, <2>3 DEF NamedColumns
<1>. QED  BY <1>3, <1>4, <1>5
-----------------------------------------------------------------------------
(* Types.                                                                  *)

\* A statement that has run a plan holds one that writes.
PreparedWrites ==
    \A c \in Clients : Prepared(c) => Plan(c) \in Plans /\ Plan(c).op = "insert"

AlteredToTable == \A c \in Clients : Altered(c) => txn[c].schema \in Schemas

Types == TypeOK /\ PreparedWrites /\ AlteredToTable

LEMMA InitTypes == Init => Types
<1> SUFFICES ASSUME Init PROVE Types
  OBVIOUS
<1>1. <<>> \in Seq(Names) /\ <<>> \in Seq(Nat)
  OBVIOUS
<1>2. NoTransaction \in Transactions
  BY <1>1 DEF NoTransaction, Transactions, Absent
<1>3. NoStatement \in Statements
  BY <1>1 DEF NoStatement, Statements
<1>4. NoResult \in Results
  BY <1>1 DEF NoResult, Results
<1>. QED
  BY <1>2, <1>3, <1>4
  DEF Init, Types, TypeOK, PreparedWrites, Prepared, Labels, NoStatement,
      AlteredToTable, Altered, NoTransaction

LEMMA SnapshotType ==
    TypeOK => \A kind \in {"auto", "explicit"} :
                  /\ Snapshot(kind) \in Transactions
                  /\ Snapshot(kind).schema = Snapshot(kind).seen
BY SchemasAssumption DEF TypeOK, Snapshot, Transactions

LEMMA AddOwnType ==
    ASSUME TypeOK, NEW c \in Clients, NEW row \in AllRows
    PROVE  /\ AddOwn(c, row) \in [Clients -> Transactions]
           /\ \A d \in Clients : /\ AddOwn(c, row)[d].schema = txn[d].schema
                                /\ AddOwn(c, row)[d].seen = txn[d].seen
<1>1. /\ txn \in [Clients -> Transactions]
      /\ txn[c] \in Transactions
  BY DEF TypeOK
<1>. QED  BY <1>1 DEF AddOwn, Transactions

LEMMA StartTransactionType ==
    ASSUME TypeOK, AlteredToTable, NEW c \in Clients, StartTransaction(c)
    PROVE  txn' \in [Clients -> Transactions] /\ AlteredToTable'
<1>1. Snapshot("auto") \in Transactions
      /\ Snapshot("auto").schema = Snapshot("auto").seen
  BY SnapshotType
<1>. QED  BY <1>1 DEF TypeOK, StartTransaction, AlteredToTable, Altered

LEMMA ThrowType ==
    ASSUME TypeOK, NEW c \in Clients, Throw(c)
    PROVE  /\ pc' = [pc EXCEPT ![c] = "done"] /\ pc' \in [Clients -> Labels]
           /\ result' = [result EXCEPT ![c] = Error]
           /\ result' \in [Clients -> Results]
<1>. <<>> \in Seq(Names)
  OBVIOUS
<1>1. Error \in Results
  BY DEF Error, NoResult, Results
<1>. QED  BY <1>1 DEF TypeOK, Throw, Goto, Labels

\* The statement remembers the table, and nothing else of it changes.
LEMMA FoundType ==
    ASSUME TypeOK, NEW c \in Clients
    PROVE  /\ Found(c) \in [Clients -> Statements]
           /\ \A d \in Clients \ {c} : Found(c)[d] = statement[d]
           /\ Found(c)[c].plan = Plan(c)
           /\ Found(c)[c].found = statement[c].found \cup {schema}
           /\ Found(c)[c].positions = statement[c].positions
           /\ Found(c)[c].res = statement[c].res
           /\ Found(c)[c].writes = statement[c].writes
<1>1. /\ statement \in [Clients -> Statements]
      /\ statement[c] \in Statements
      /\ schema \in Schemas
  BY DEF TypeOK
<1>. QED  BY <1>1 DEF Found, Statements, Plan

\* Fields of a statement change within its type.
LEMMA StatementWithPositions ==
    ASSUME NEW r \in Statements, NEW positions \in Seq(Nat),
           NEW n, n = [r EXCEPT !.positions = positions]
    PROVE  /\ n \in Statements /\ n.plan = r.plan /\ n.res = r.res
           /\ n.found = r.found /\ n.writes = r.writes
           /\ n.positions = positions
BY DEF Statements

LEMMA StatementFailed ==
    ASSUME NEW r \in Statements, NEW n, n = [r EXCEPT !.res = "failed"]
    PROVE  /\ n \in Statements /\ n.plan = r.plan /\ n.res = "failed"
           /\ n.found = r.found /\ n.writes = r.writes
BY DEF Statements

LEMMA StatementRun ==
    ASSUME NEW r \in Statements,
           NEW n, n = [r EXCEPT !.res = "ok", !.writes = @ + 1]
    PROVE  /\ n \in Statements /\ n.plan = r.plan /\ n.res = "ok"
           /\ n.found = r.found /\ n.writes = r.writes + 1
<1>1. r.writes + 1 \in Nat
  BY DEF Statements
<1>2. n = [[r EXCEPT !.res = "ok"] EXCEPT !.writes = r.writes + 1]
  BY DEF Statements
<1>. QED  BY <1>1, <1>2 DEF Statements

\* What a read that can be carried out gives.
LEMMA ReadResultType ==
    ASSUME NEW positions \in Seq(Nat), NEW s \in Seq(Names),
           InRange(positions, s), NEW visible \in SUBSET AllRows,
           NEW optimize \in BOOLEAN
    PROVE  ReadResult(positions, s, visible, optimize) \in Results
<1>1. \A k \in 1..Len(positions) : s[positions[k]] \in Names
  BY DEF InRange
<1>2. DOMAIN positions = 1..Len(positions) /\ Len(positions) \in Nat
  OBVIOUS
<1>3. [k \in 1..Len(positions) |-> s[positions[k]]] \in Seq(Names)
  BY <1>1, <1>2
<1>. QED  BY <1>2, <1>3 DEF ReadResult, Results

LEMMA ClientStepTypes ==
    ASSUME Types, NEW c \in Clients, ClientStep(c)
    PROVE  Types'
<1>. USE DEF Types, TypeOK, PreparedWrites, Prepared, Plan, AlteredToTable,
            Altered
<1>1. CASE Begin(c)
  <2>1. /\ Snapshot("explicit") \in Transactions
        /\ Snapshot("explicit").schema = Snapshot("explicit").seen
    BY SnapshotType
  <2>. QED  BY <1>1, <2>1 DEF Begin, database
<1>2. CASE Commit(c)
  <2>1. NoTransaction \in Transactions
    BY DEF NoTransaction, Transactions, Absent
  <2>2. /\ txn[c].schema \in Schemas \cup {Absent}
        /\ txn[c].inserted \subseteq AllRows
    BY DEF Transactions
  <2>3. schema' \in Schemas
    BY <1>2, <2>2 DEF Commit
  <2>4. NoTransaction.schema = NoTransaction.seen
    BY DEF NoTransaction
  <2>. QED  BY <1>2, <2>1, <2>2, <2>3, <2>4 DEF Commit
<1>3. CASE Rollback(c)
  <2>1. NoTransaction \in Transactions
    BY DEF NoTransaction, Transactions, Absent
  <2>2. NoTransaction.schema = NoTransaction.seen
    BY DEF NoTransaction
  <2>. QED  BY <1>3, <2>1, <2>2 DEF Rollback, database
<1>4. CASE Insert(c)
  <2>1. <<c, "insert">> \in AllRows
    BY DEF AllRows
  <2> DEFINE own == AddOwn(c, <<c, "insert">>)
  <2>2. /\ own \in [Clients -> Transactions]
        /\ \A d \in Clients : own[d].schema = txn[d].schema
                             /\ own[d].seen = txn[d].seen
    BY <2>1, AddOwnType
  <2>3. txn' = own \/ txn' = txn
    BY <1>4 DEF Insert
  <2>4. rows' \subseteq AllRows
    BY <1>4, <2>1 DEF Insert
  <2>5. UNCHANGED <<schema, optimizer, statement, pc, result, acknowledged>>
    BY <1>4 DEF Insert
  <2> HIDE DEF own
  <2>. QED  BY <2>2, <2>3, <2>4, <2>5
<1>5. ASSUME NEW s \in Schemas, ChangeTable(c, s)
      PROVE  Types'
  <2>1. s \in Seq(Names) /\ txn[c] \in Transactions
    BY SchemasAssumption
  <2>2. /\ [txn EXCEPT ![c].schema = s] \in [Clients -> Transactions]
        /\ [txn EXCEPT ![c].schema = s][c].schema = s
    BY <2>1 DEF Transactions
  <2>. QED  BY <1>5, <2>2 DEF ChangeTable
<1>. QED  BY <1>1, <1>2, <1>3, <1>4, <1>5 DEF ClientStep

LEMMA CallerStepTypes ==
    ASSUME Types, NEW c \in Clients, CallerStep(c)
    PROVE  Types'
<1>. USE DEF Types, TypeOK, PreparedWrites, Prepared, Plan
<1>1. ASSUME NEW b \in BOOLEAN, SetOptimizer(c, b)
      PROVE  Types'
  BY <1>1 DEF SetOptimizer, database, AlteredToTable, Altered
<1>. NoResult \in Results
  <2>. <<>> \in Seq(Names)
    OBVIOUS
  <2>. QED  BY DEF NoResult, Results
<1>2. ASSUME NEW p \in Plans, Call(c, p)
      PROVE  Types'
  <2>1. <<>> \in Seq(Nat)
    OBVIOUS
  <2>2. p \in [op: {"none", "read", "insert"}, base: Seq(Names),
               projection: Seq(Nat)]
    BY PlansAssumption
  <2> DEFINE new == [NoStatement EXCEPT !.plan = p]
  <2>3. new \in Statements /\ new.res = "none" /\ new.plan = p
    BY <2>1, <2>2 DEF NoStatement, Statements
  <2>4. statement' = [statement EXCEPT ![c] = new]
    BY <1>2 DEF Call
  <2>5. txn' \in [Clients -> Transactions] /\ AlteredToTable'
    BY <1>2, StartTransactionType DEF Call
  <2>6. UNCHANGED <<schema, rows, optimizer, acknowledged>>
    BY <1>2 DEF Call, database
  <2>7. /\ pc' = [pc EXCEPT ![c] = "replace"]
        /\ result' = [result EXCEPT ![c] = NoResult]
    BY <1>2 DEF Call, Goto
  <2> HIDE DEF new
  <2>. QED  BY <2>3, <2>4, <2>5, <2>6, <2>7 DEF Labels
<1>3. CASE Execute(c)
  <2>5. txn' \in [Clients -> Transactions] /\ AlteredToTable'
    BY <1>3, StartTransactionType DEF Execute
  <2>. QED  BY <1>3, <2>5 DEF Execute, Goto, database, Labels
<1>. QED  BY <1>1, <1>2, <1>3 DEF CallerStep

LEMMA CallStepTypes ==
    ASSUME Types, NEW c \in Clients, CallStep(c)
    PROVE  Types'
<1>. USE DEF Types, TypeOK, PreparedWrites, Prepared, Plan
<1>1. CASE BindReplace(c)
  <2>1. /\ Plan(c) \in Plans /\ pc[c] = "replace"
        /\ UNCHANGED <<schema, rows, txn, optimizer, acknowledged>>
    BY <1>1 DEF BindReplace, database
  <2>2. CASE Throw(c) /\ statement' = Found(c)
    BY <2>1, <2>2, ThrowType, FoundType DEF AlteredToTable, Altered
  <2>3. CASE /\ Consumable(Plan(c), schema) /\ ReadOnly(Plan(c))
             /\ statement' = [Found(c) EXCEPT
                   ![c].positions = Positions(Plan(c), schema)]
             /\ Goto(c, "reference") /\ UNCHANGED result
    <3>1. Positions(Plan(c), schema) \in Seq(Nat)
      BY <2>1, <2>3, PositionsType DEF ReadOnly
    <3> DEFINE found == Found(c)
    <3>2. /\ found \in [Clients -> Statements]
          /\ \A d \in Clients : /\ found[d].plan = statement[d].plan
                               /\ found[d].res = statement[d].res
      BY FoundType
    <3> DEFINE new == [found[c] EXCEPT !.positions = Positions(Plan(c), schema)]
    <3>3. statement' = [found EXCEPT ![c] = new]
      BY <2>3
    <3>6. new \in Statements /\ new.plan = found[c].plan /\ new.res = found[c].res
      BY <3>1, <3>2, StatementWithPositions
    <3> HIDE DEF found, new
    <3>4. /\ statement' \in [Clients -> Statements]
          /\ \A d \in Clients : /\ statement'[d].plan = found[d].plan
                               /\ statement'[d].res = found[d].res
      BY <3>2, <3>3, <3>6
    <3>5. /\ pc' = [pc EXCEPT ![c] = "reference"] /\ UNCHANGED result
      BY <2>3 DEF Goto
    <3>. QED  BY <2>1, <3>2, <3>4, <3>5 DEF Labels, AlteredToTable, Altered
  <2>4. CASE /\ ~ReadOnly(Plan(c))
             /\ Goto(c, "bind") /\ statement' = Found(c) /\ UNCHANGED result
    <3>1. Plan(c).op = "insert"
      BY <2>1, <2>4, PlanFields DEF ReadOnly
    <3>. QED  BY <2>1, <2>4, <3>1, FoundType
              DEF Goto, Labels, AlteredToTable, Altered
  <2>. QED  BY <1>1, <2>2, <2>3, <2>4 DEF BindReplace
<1>2. CASE RunReference(c)
  <2>1. /\ UNCHANGED <<schema, rows, txn, optimizer, statement, acknowledged>>
    BY <1>2 DEF RunReference, database
  <2>2. CASE Throw(c)
    BY <2>1, <2>2, ThrowType DEF AlteredToTable, Altered
  <2>3. CASE ~Throw(c)
    <3> DEFINE got == ReadResult(statement[c].positions, txn[c].schema,
                                 txn[c].rows, optimizer[c])
    <3>1. /\ InRange(statement[c].positions, txn[c].schema)
          /\ result' = [result EXCEPT ![c] = got]
          /\ pc' = [pc EXCEPT ![c] = "done"]
      BY <1>2, <2>3 DEF RunReference, Goto
    <3>2. /\ statement[c].positions \in Seq(Nat)
          /\ txn[c].rows \subseteq AllRows
          /\ txn[c].schema \in Schemas \cup {Absent}
      BY DEF Statements, Transactions
    <3>3. txn[c].schema \in Seq(Names)
      <4>. <<>> \in Seq(Names)
        OBVIOUS
      <4>. QED  BY <3>2, SchemasAssumption DEF Absent
    <3>4. got \in Results
      BY <3>1, <3>2, <3>3, ReadResultType
    <3> HIDE DEF got
    <3>. QED  BY <2>1, <3>1, <3>4 DEF Labels, AlteredToTable, Altered
  <2>. QED  BY <2>2, <2>3
<1>3. CASE SubstraitBind(c)
  <2>1. /\ UNCHANGED <<schema, rows, txn, optimizer, acknowledged>>
        /\ statement' = Found(c) /\ pc[c] = "bind"
    BY <1>3 DEF SubstraitBind, database
  <2>2. CASE ~Consumable(Plan(c), schema)
    <3>1. Throw(c)
      BY <1>3, <2>2 DEF SubstraitBind
    <3>. QED  BY <2>1, <3>1, ThrowType, FoundType DEF AlteredToTable, Altered
  <2>3. CASE Consumable(Plan(c), schema)
    <3>1. pc' = [pc EXCEPT ![c] = "run"] /\ UNCHANGED result
      BY <1>3, <2>3 DEF SubstraitBind, Goto
    <3>2. Plan(c) \in Plans /\ Plan(c).op = "insert"
      BY <2>1
    <3>. QED  BY <2>1, <3>1, <3>2, FoundType DEF Labels, AlteredToTable, Altered
  <2>. QED  BY <2>2, <2>3
<1>4. CASE FromSubFunction(c)
  <2>1. /\ UNCHANGED <<schema, optimizer>>
        /\ pc[c] = "run" /\ Plan(c) \in Plans /\ Plan(c).op = "insert"
    BY <1>4 DEF FromSubFunction
  <2>2. CASE Fails(c)
    <3>1. /\ statement' = [Found(c) EXCEPT ![c].res = "failed"]
          /\ Throw(c) /\ UNCHANGED <<rows, txn, acknowledged>>
      BY <1>4, <2>2 DEF FromSubFunction
    <3>2. /\ statement' \in [Clients -> Statements]
          /\ statement'[c].plan = statement[c].plan
          /\ \A d \in Clients \ {c} : statement'[d] = statement[d]
      <4> DEFINE found == Found(c)
      <4>1. /\ found \in [Clients -> Statements]
            /\ found[c].plan = statement[c].plan
            /\ \A d \in Clients \ {c} : found[d] = statement[d]
        BY FoundType
      <4> DEFINE new == [found[c] EXCEPT !.res = "failed"]
      <4>2. statement' = [found EXCEPT ![c] = new]
        BY <3>1
      <4>3. new \in Statements /\ new.plan = found[c].plan
        BY <4>1, StatementFailed
      <4> HIDE DEF found, new
      <4>. QED  BY <4>1, <4>2, <4>3
    <3>. QED  BY <2>1, <3>1, <3>2, ThrowType DEF AlteredToTable, Altered
  <2>3. CASE ~Fails(c)
    <3> DEFINE written == [NoResult EXCEPT !.kind = "written",
                                           !.optimized = DefaultOptimizer]
    <3>1. /\ statement' = [Found(c) EXCEPT ![c].res = "ok",
                                            ![c].writes = @ + 1]
          /\ pc' = [pc EXCEPT ![c] = "done"]
          /\ result' = [result EXCEPT ![c] = written]
          /\ rows' = rows \cup {<<c, "plan">>} /\ UNCHANGED txn
          /\ acknowledged' = acknowledged \cup {<<c, "plan">>}
      BY <1>4, <2>1, <2>3 DEF FromSubFunction, Goto, WriteRow
    <3>2. /\ statement' \in [Clients -> Statements]
          /\ statement'[c].plan = statement[c].plan
          /\ \A d \in Clients \ {c} : statement'[d] = statement[d]
      <4> DEFINE found == Found(c)
      <4>1. /\ found \in [Clients -> Statements]
            /\ found[c].plan = statement[c].plan
            /\ \A d \in Clients \ {c} : found[d] = statement[d]
        BY FoundType
      <4> DEFINE new == [found[c] EXCEPT !.res = "ok", !.writes = @ + 1]
      <4>2. statement' = [found EXCEPT ![c] = new]
        BY <3>1
      <4>3. new \in Statements /\ new.plan = found[c].plan
        BY <4>1, StatementRun
      <4> HIDE DEF found, new
      <4>. QED  BY <4>1, <4>2, <4>3
    <3>3. <<>> \in Seq(Names)
      OBVIOUS
    <3>4. written \in Results
      BY <3>3 DEF NoResult, Results, DefaultOptimizer
    <3>5. <<c, "plan">> \in AllRows
      BY DEF AllRows
    <3> HIDE DEF written
    <3>. QED  BY <2>1, <3>1, <3>2, <3>4, <3>5
              DEF Labels, AlteredToTable, Altered
  <2>. QED  BY <2>2, <2>3
<1>5. CASE FetchAgain(c)
  <2>1. UNCHANGED <<schema, rows, txn, optimizer, statement, acknowledged>>
    BY <1>5 DEF FetchAgain, database
  <2>2. CASE Throw(c)
    BY <2>1, <2>2, ThrowType DEF AlteredToTable, Altered
  <2>3. CASE ~Throw(c)
    <3> DEFINE empty == [NoResult EXCEPT !.kind = "empty"]
    <3>1. /\ result' = [result EXCEPT ![c] = empty]
          /\ pc' = [pc EXCEPT ![c] = "done"]
      BY <1>5, <2>3 DEF FetchAgain, Goto
    <3>2. <<>> \in Seq(Names)
      OBVIOUS
    <3>3. empty \in Results
      BY <3>2 DEF NoResult, Results
    <3> HIDE DEF empty
    <3>. QED  BY <2>1, <3>1, <3>3 DEF Labels, AlteredToTable, Altered
  <2>. QED  BY <2>2, <2>3
<1>6. CASE Finish(c)
  <2>1. /\ NoTransaction \in Transactions
        /\ NoTransaction.schema = NoTransaction.seen
    BY DEF NoTransaction, Transactions, Absent
  <2>. <<>> \in Seq(Names) /\ <<>> \in Seq(Nat)
    OBVIOUS
  <2>2. NoResult \in Results
    BY DEF NoResult, Results
  <2>3. NoStatement \in Statements /\ NoStatement.res = "none"
    BY DEF NoStatement, Statements
  <2>4. /\ txn' \in [Clients -> Transactions] /\ AlteredToTable'
    BY <1>6, <2>1 DEF Finish, AlteredToTable, Altered
  <2>5. /\ statement' \in [Clients -> Statements]
        /\ \A d \in Clients : d # c => statement'[d] = statement[d]
        /\ statement'[c].res # "none" => /\ statement[c].res # "none"
                                        /\ statement'[c] = statement[c]
    BY <1>6, <2>3 DEF Finish
  <2>6. /\ pc' \in [Clients -> Labels] /\ result' \in [Clients -> Results]
        /\ \A d \in Clients \ {c} : pc'[d] = pc[d]
        /\ pc'[c] = IF Prepared(c) THEN "bound" ELSE "idle"
        /\ Prepared(c) => statement'[c] = statement[c]
        /\ UNCHANGED <<schema, rows, optimizer, acknowledged>>
    BY <1>6, <2>2 DEF Finish, Goto, Labels, database
  <2>7. ASSUME NEW d \in Clients, pc'[d] \notin {"idle", "done"}
        PROVE  /\ statement'[d] = statement[d]
               /\ Plan(d) \in Plans
               /\ pc'[d] \in {"bind", "run", "bound"} => Plan(d).op = "insert"
    <3>1. CASE d = c
      BY <2>6, <2>7, <3>1
    <3>2. CASE d # c
      <4>1. pc'[d] = pc[d]
        BY <2>6, <3>2
      <4>2. statement'[d] = statement[d]
        BY <2>5, <3>2
      <4>3. pc[d] \notin {"idle", "done"}
        BY <2>7, <4>1
      <4>. QED  BY <4>1, <4>2, <4>3
    <3>. QED  BY <3>1, <3>2
  <2>8. PreparedWrites'
    <3>1. ASSUME NEW d \in Clients, Prepared(d)'
          PROVE  Plan(d)' \in Plans /\ Plan(d)'.op = "insert"
      <4>1. CASE d = c
        BY <2>5, <3>1, <4>1
      <4>2. CASE d # c
        <5>1. statement'[d] = statement[d]
          BY <2>5, <4>2
        <5>. QED  BY <3>1, <5>1
      <4>. QED  BY <4>1, <4>2
    <3>. QED  BY <3>1
  <2>9. TypeOK'
    BY <2>4, <2>5, <2>6, <2>7
  <2>. QED  BY <2>4, <2>8, <2>9
<1>. QED  BY <1>1, <1>2, <1>3, <1>4, <1>5, <1>6 DEF CallStep

LEMMA NextTypes == Types /\ [Next]_vars => Types'
<1> SUFFICES ASSUME Types, [Next]_vars PROVE Types'
  OBVIOUS
<1>1. ASSUME NEW c \in Clients, ClientStep(c) PROVE Types'
  BY <1>1, ClientStepTypes
<1>2. ASSUME NEW c \in Callers, CallStep(c) \/ CallerStep(c) PROVE Types'
  BY <1>2, CallStepTypes, CallerStepTypes, CallersAssumption
<1>3. CASE UNCHANGED vars
  BY <1>3 DEF vars, Types, TypeOK, PreparedWrites, Prepared, Plan,
              AlteredToTable, Altered
<1>. QED  BY <1>1, <1>2, <1>3 DEF Next

\* The state has its types, and only plans that write get to the functions
\* that run them on a connection of the extension's own.
THEOREM TypeCorrect == Spec => []TypeOK
<1>1. Spec => []Types
  BY InitTypes, NextTypes, PTL DEF Spec
<1>2. Types => TypeOK
  BY DEF Types
<1>. QED  BY <1>1, <1>2, PTL

-----------------------------------------------------------------------------
(* Calls.  What is said of a call depends on its own client's state only.  *)

\* A read that is about to run selects columns of the one table that the
\* extension's connection saw.
ReferenceFits(c) ==
    pc[c] = "reference" =>
        /\ Plan(c).op = "read"
        /\ \E s \in Schemas : /\ statement[c].found = {s}
                              /\ Consumable(Plan(c), s)
                              /\ statement[c].positions = Positions(Plan(c), s)

ReadInTransaction(c) == HasRead(c) => result[c].rows = txn[c].rows
SawTheSame(c) == /\ statement[c].found = {txn[c].schema}
                 /\ Fits(Plan(c), txn[c].schema)
ColumnsNamed(c) ==
    HasRead(c) /\ SawTheSame(c) => result[c].columns = NamedColumns(Plan(c))
ReadSucceeds(c) ==
    pc[c] = "done" /\ Plan(c).op = "read" /\ SawTheSame(c) =>
        result[c].kind = "read"
WriteDoneOnce(c) ==
    statement[c].writes = IF statement[c].res = "ok" THEN 1 ELSE 0

CallInv(c) ==
    /\ pc[c] = "replace" => statement[c].found = {}
    /\ ReferenceFits(c)
    /\ ReadInTransaction(c)
    /\ ColumnsNamed(c)
    /\ ReadSucceeds(c)
    /\ WriteDoneOnce(c)

LEMMA InitCalls == Init => \A c \in Clients : CallInv(c)
<1> SUFFICES ASSUME Init, NEW c \in Clients PROVE CallInv(c)
  OBVIOUS
<1>1. pc[c] = "idle"
  BY DEF Init
<1>2. WriteDoneOnce(c)
  BY DEF Init, WriteDoneOnce, NoStatement
<1>. QED
  BY <1>1, <1>2 DEF CallInv, ReferenceFits, ReadInTransaction, ColumnsNamed,
                    HasRead, ReadSucceeds

\* A step that leaves a client's state alone.
LEMMA FrameCalls ==
    ASSUME NEW c \in Clients, CallInv(c), pc'[c] = pc[c],
           statement'[c] = statement[c], txn'[c] = txn[c],
           result'[c] = result[c]
    PROVE  CallInv(c)'
BY DEF CallInv, ReferenceFits, ReadInTransaction, ColumnsNamed, HasRead,
       ReadSucceeds, WriteDoneOnce, SawTheSame, Plan

\* A client that is between calls, whatever is left of the last one.
LEMMA IdleCalls ==
    ASSUME NEW c \in Clients, WriteDoneOnce(c)',
           pc'[c] \in {"idle", "bound", "bind", "run"}
    PROVE  CallInv(c)'
BY DEF CallInv, ReferenceFits, ReadInTransaction, ColumnsNamed, HasRead,
       ReadSucceeds

\* A call that ends without having read, and was not to read.
LEMMA WriteEndCalls ==
    ASSUME NEW c \in Clients, WriteDoneOnce(c)', pc'[c] = "done",
           result'[c].kind # "read", Plan(c)'.op # "read"
    PROVE  CallInv(c)'
BY DEF CallInv, ReferenceFits, ReadInTransaction, ColumnsNamed, HasRead,
       ReadSucceeds

\* The state of other clients is left alone.
LEMMA OthersUnchanged ==
    ASSUME Types, NEW c \in Clients,
           ClientStep(c) \/ CallerStep(c) \/ CallStep(c),
           NEW d \in Clients, d # c
    PROVE  /\ pc'[d] = pc[d] /\ statement'[d] = statement[d]
           /\ txn'[d] = txn[d] /\ result'[d] = result[d]
<1>. /\ pc \in [Clients -> Labels] /\ statement \in [Clients -> Statements]
     /\ txn \in [Clients -> Transactions] /\ result \in [Clients -> Results]
     /\ TypeOK
  BY DEF Types, TypeOK
<1>1. CASE ClientStep(c)
  BY <1>1 DEF ClientStep, Begin, Commit, Rollback, Insert, ChangeTable, AddOwn
<1>2. CASE CallerStep(c)
  BY <1>2 DEF CallerStep, SetOptimizer, Call, Execute, StartTransaction, Goto
<1>3. CASE BindReplace(c)
  <2>1. Found(c)[d] = statement[d]
    BY DEF Found
  <2>. QED  BY <1>3, <2>1, FoundType DEF BindReplace, Throw, Goto
<1>4. CASE RunReference(c)
  BY <1>4 DEF RunReference, Throw, Goto
<1>5. CASE SubstraitBind(c)
  BY <1>5 DEF SubstraitBind, Found, Throw, Goto
<1>6. CASE FromSubFunction(c)
  <2>1. Found(c)[d] = statement[d] /\ Found(c) \in [Clients -> Statements]
    BY FoundType
  <2>2. statement'[d] = statement[d]
    BY <1>6, <2>1 DEF FromSubFunction
  <2>3. pc'[d] = pc[d] /\ result'[d] = result[d]
    BY <1>6 DEF FromSubFunction, Throw, Goto
  <2>4. txn'[d] = txn[d]
    BY <1>6 DEF FromSubFunction, WriteRow
  <2>. QED  BY <2>2, <2>3, <2>4
<1>7. CASE FetchAgain(c)
  BY <1>7 DEF FetchAgain, Throw, Goto
<1>8. CASE Finish(c)
  BY <1>8 DEF Finish, Goto
<1>. QED  BY <1>1, <1>2, <1>3, <1>4, <1>5, <1>6, <1>7, <1>8 DEF CallStep

LEMMA ClientStepCalls ==
    ASSUME Types, NEW c \in Clients, CallInv(c), ClientStep(c)
    PROVE  CallInv(c)'
<1>1. /\ Idle(c) /\ pc' = pc /\ statement' = statement
  BY DEF ClientStep, Begin, Commit, Rollback, Insert, ChangeTable
<1>2. WriteDoneOnce(c)'
  BY <1>1 DEF CallInv, WriteDoneOnce
<1>. QED  BY <1>1, <1>2, IdleCalls DEF Idle

LEMMA CallerStepCalls ==
    ASSUME Types, NEW c \in Clients, CallInv(c), CallerStep(c)
    PROVE  CallInv(c)'
<1>. /\ pc \in [Clients -> Labels] /\ statement \in [Clients -> Statements]
  BY DEF Types, TypeOK
<1>. WriteDoneOnce(c)
  BY DEF CallInv
<1>1. ASSUME NEW b \in BOOLEAN, SetOptimizer(c, b)
      PROVE  CallInv(c)'
  BY <1>1, FrameCalls DEF SetOptimizer
<1>2. ASSUME NEW p \in Plans, Call(c, p)
      PROVE  CallInv(c)'
  <2>1. /\ pc'[c] = "replace"
        /\ statement'[c] = [NoStatement EXCEPT !.plan = p]
    BY <1>2 DEF Call, Goto
  <2>2. /\ statement'[c].found = {} /\ statement'[c].res = "none"
        /\ statement'[c].writes = 0
    BY <2>1 DEF NoStatement
  <2>. QED  BY <2>1, <2>2 DEF CallInv, ReferenceFits, ReadInTransaction,
               ColumnsNamed, HasRead, ReadSucceeds, WriteDoneOnce
<1>3. CASE Execute(c)
  <2>1. pc'[c] = "run" /\ statement' = statement
    BY <1>3 DEF Execute, Goto
  <2>2. WriteDoneOnce(c)'
    BY <2>1 DEF WriteDoneOnce
  <2>. QED  BY <2>1, <2>2, IdleCalls
<1>. QED  BY <1>1, <1>2, <1>3 DEF CallerStep

\* The plan is consumed over the table that is committed now, which is the
\* only one that the call has seen.
LEMMA BindReplaceCalls ==
    ASSUME Types, NEW c \in Clients, CallInv(c), BindReplace(c)
    PROVE  CallInv(c)'
<1>1. /\ pc[c] = "replace" /\ UNCHANGED txn
      /\ WriteDoneOnce(c) /\ statement[c].found = {}
  BY DEF BindReplace, CallInv
<1>2. /\ pc \in [Clients -> Labels] /\ statement \in [Clients -> Statements]
      /\ result \in [Clients -> Results] /\ schema \in Schemas
      /\ Plan(c) \in Plans /\ TypeOK
  BY <1>1 DEF Types, TypeOK
<1> DEFINE found == Found(c)
<1>3. /\ found \in [Clients -> Statements] /\ found[c].plan = Plan(c)
      /\ found[c].found = {schema}
      /\ found[c].res = statement[c].res /\ found[c].writes = statement[c].writes
  BY <1>1, <1>2, FoundType
<1>4. CASE ~Consumable(Plan(c), schema)
  <2>1. statement' = found /\ pc'[c] = "done" /\ result'[c].kind = "error"
    BY <1>2, <1>4 DEF BindReplace, Throw, Goto, Error, NoResult
  <2> HIDE DEF found
  <2>2. Plan(c)' = Plan(c) /\ WriteDoneOnce(c)'
    BY <1>1, <1>3, <2>1 DEF Plan, WriteDoneOnce
  <2>3. Plan(c).op = "read" => ~Fits(Plan(c), schema)
    BY <1>2, <1>4, FittingReadIsConsumable
  <2>4. Plan(c).op = "read" => ~SawTheSame(c)'
    BY <1>1, <1>3, <2>1, <2>2, <2>3 DEF SawTheSame
  <2>. QED  BY <2>1, <2>2, <2>4 DEF CallInv, ReferenceFits, ReadInTransaction,
               ColumnsNamed, HasRead, ReadSucceeds
<1>5. CASE Consumable(Plan(c), schema) /\ ReadOnly(Plan(c))
  <2> DEFINE new == [found[c] EXCEPT !.positions = Positions(Plan(c), schema)]
  <2>1. /\ statement' = [found EXCEPT ![c] = new]
        /\ pc'[c] = "reference"
    BY <1>2, <1>5 DEF BindReplace, Goto
  <2>2. Positions(Plan(c), schema) \in Seq(Nat)
    BY <1>2, <1>5, PositionsType DEF ReadOnly
  <2>3. /\ new.plan = Plan(c) /\ new.found = {schema}
        /\ new.res = statement[c].res /\ new.writes = statement[c].writes
        /\ new.positions = Positions(Plan(c), schema)
    BY <1>3, <2>2, StatementWithPositions
  <2> HIDE DEF found, new
  <2>4. statement'[c] = new
    BY <1>3, <2>1
  <2>5. Plan(c)' = Plan(c) /\ WriteDoneOnce(c)'
    BY <1>1, <2>3, <2>4 DEF Plan, WriteDoneOnce
  <2>6. ReferenceFits(c)'
    BY <1>2, <1>5, <2>3, <2>4, <2>5 DEF ReferenceFits, ReadOnly
  <2>. QED  BY <2>1, <2>5, <2>6 DEF CallInv, ReadInTransaction, ColumnsNamed,
               HasRead, ReadSucceeds
<1>6. CASE Consumable(Plan(c), schema) /\ ~ReadOnly(Plan(c))
  <2>1. statement' = found /\ pc'[c] = "bind"
    BY <1>2, <1>6 DEF BindReplace, Goto
  <2> HIDE DEF found
  <2>2. WriteDoneOnce(c)'
    BY <1>1, <1>3, <2>1 DEF WriteDoneOnce
  <2>. QED  BY <2>1, <2>2, IdleCalls
<1>. QED  BY <1>4, <1>5, <1>6

\* The positions mean the same to the caller if the caller has the table that
\* they were taken from.
LEMMA RunReferenceCalls ==
    ASSUME Types, NEW c \in Clients, CallInv(c), RunReference(c)
    PROVE  CallInv(c)'
<1>1. /\ pc[c] = "reference" /\ UNCHANGED <<txn, statement>>
      /\ WriteDoneOnce(c) /\ ReferenceFits(c)
  BY DEF RunReference, CallInv
<1>2. /\ pc \in [Clients -> Labels] /\ statement \in [Clients -> Statements]
      /\ result \in [Clients -> Results] /\ Plan(c) \in Plans
  BY <1>1 DEF Types, TypeOK
<1>3. PICK s \in Schemas : /\ statement[c].found = {s}
                           /\ Consumable(Plan(c), s)
                           /\ statement[c].positions = Positions(Plan(c), s)
  BY <1>1 DEF ReferenceFits
<1>4. Plan(c).op = "read"
  BY <1>1 DEF ReferenceFits
<1>5. SawTheSame(c) => s = txn[c].schema
  BY <1>3 DEF SawTheSame
<1>6. InRange(Positions(Plan(c), s), s)
  BY <1>2, <1>3, <1>4, PositionsType
<1>7. /\ Plan(c)' = Plan(c) /\ SawTheSame(c)' = SawTheSame(c)
      /\ WriteDoneOnce(c)'
  BY <1>1 DEF Plan, SawTheSame, WriteDoneOnce
<1>8. CASE ~InRange(statement[c].positions, txn[c].schema)
  <2>1. pc'[c] = "done" /\ result'[c].kind = "error"
    BY <1>2, <1>8 DEF RunReference, Throw, Goto, Error, NoResult
  <2>2. ~SawTheSame(c)
    BY <1>3, <1>5, <1>6, <1>8
  <2>. QED  BY <1>7, <2>1, <2>2 DEF CallInv, ReferenceFits, ReadInTransaction,
               ColumnsNamed, HasRead, ReadSucceeds
<1>9. CASE InRange(statement[c].positions, txn[c].schema)
  <2> DEFINE positions == statement[c].positions
             columns == [k \in DOMAIN positions |-> txn[c].schema[positions[k]]]
  <2>1. /\ pc'[c] = "done"
        /\ result'[c] = ReadResult(positions, txn[c].schema, txn[c].rows,
                                   optimizer[c])
    BY <1>2, <1>9 DEF RunReference, Goto
  <2>2. /\ result'[c].kind = "read" /\ result'[c].rows = txn[c].rows
        /\ result'[c].columns = columns
    BY <2>1 DEF ReadResult
  <2>3. SawTheSame(c) => columns = NamedColumns(Plan(c))
    BY <1>2, <1>3, <1>5, FittingReadColumns DEF SawTheSame
  <2> HIDE DEF columns
  <2>. QED  BY <1>1, <1>7, <2>1, <2>2, <2>3 DEF CallInv, ReferenceFits,
               ReadInTransaction, ColumnsNamed, HasRead, ReadSucceeds
<1>. QED  BY <1>8, <1>9

LEMMA WriteStepCalls ==
    ASSUME Types, NEW c \in Clients, CallInv(c),
           SubstraitBind(c) \/ FromSubFunction(c) \/ FetchAgain(c)
    PROVE  CallInv(c)'
<1>1. pc[c] \in {"bind", "run"} /\ WriteDoneOnce(c)
  BY DEF SubstraitBind, FromSubFunction, FetchAgain, CallInv
<1>2. /\ pc \in [Clients -> Labels] /\ statement \in [Clients -> Statements]
      /\ result \in [Clients -> Results] /\ TypeOK
      /\ Plan(c).op = "insert"
  BY <1>1 DEF Types, TypeOK
<1> DEFINE found == Found(c)
<1>3. /\ found \in [Clients -> Statements] /\ found[c].plan = Plan(c)
      /\ found[c].res = statement[c].res /\ found[c].writes = statement[c].writes
  BY <1>2, FoundType
<1>4. CASE SubstraitBind(c)
  <2>1. statement' = found
    BY <1>4 DEF SubstraitBind
  <2>2. \/ pc'[c] = "run"
        \/ pc'[c] = "done" /\ result'[c].kind = "error"
    BY <1>2, <1>4 DEF SubstraitBind, Throw, Goto, Error, NoResult
  <2> HIDE DEF found
  <2>3. Plan(c)'.op = "insert" /\ WriteDoneOnce(c)'
    BY <1>1, <1>2, <1>3, <2>1 DEF Plan, WriteDoneOnce
  <2>. QED  BY <2>2, <2>3, IdleCalls, WriteEndCalls
<1>5. CASE FromSubFunction(c) /\ Fails(c)
  <2> DEFINE new == [found[c] EXCEPT !.res = "failed"]
  <2>1. /\ statement' = [found EXCEPT ![c] = new]
        /\ pc'[c] = "done" /\ result'[c].kind = "error"
        /\ statement[c].res = "none"
    BY <1>2, <1>5 DEF FromSubFunction, Throw, Goto, Error, NoResult, Executed
  <2>2. /\ new.plan = Plan(c) /\ new.res = "failed"
        /\ new.writes = statement[c].writes
    BY <1>3, StatementFailed
  <2> HIDE DEF found, new
  <2>3. statement'[c] = new
    BY <1>3, <2>1
  <2>4. Plan(c)'.op = "insert" /\ WriteDoneOnce(c)'
    BY <1>1, <1>2, <2>1, <2>2, <2>3 DEF Plan, WriteDoneOnce
  <2>. QED  BY <2>1, <2>4, WriteEndCalls
<1>6. CASE FromSubFunction(c) /\ ~Fails(c)
  <2> DEFINE new == [found[c] EXCEPT !.res = "ok", !.writes = @ + 1]
  <2>1. /\ statement' = [found EXCEPT ![c] = new]
        /\ pc'[c] = "done" /\ result'[c].kind = "written"
        /\ statement[c].res = "none"
    BY <1>2, <1>6 DEF FromSubFunction, Goto, NoResult, Executed
  <2>2. /\ new.plan = Plan(c) /\ new.res = "ok"
        /\ new.writes = statement[c].writes + 1
    <3> DEFINE r == found[c]
    <3>1. r \in Statements
      BY <1>3
    <3>2. new = [r EXCEPT !.res = "ok", !.writes = @ + 1]
      OBVIOUS
    <3> HIDE DEF new, r
    <3>3. new.plan = r.plan /\ new.res = "ok" /\ new.writes = r.writes + 1
      BY <3>1, <3>2, StatementRun
    <3>. QED  BY <1>3, <3>3 DEF r
  <2> HIDE DEF found, new
  <2>3. statement'[c] = new
    BY <1>3, <2>1
  <2>4. Plan(c)'.op = "insert" /\ WriteDoneOnce(c)'
    BY <1>1, <1>2, <2>1, <2>2, <2>3 DEF Plan, WriteDoneOnce
  <2>. QED  BY <2>1, <2>4, WriteEndCalls
<1>7. CASE FetchAgain(c)
  <2>1. /\ pc'[c] = "done" /\ result'[c].kind # "read"
        /\ UNCHANGED statement
    BY <1>2, <1>7 DEF FetchAgain, Throw, Goto, Error, NoResult
  <2>2. Plan(c)'.op = "insert" /\ WriteDoneOnce(c)'
    BY <1>1, <1>2, <2>1 DEF Plan, WriteDoneOnce
  <2>. QED  BY <2>1, <2>2, WriteEndCalls
<1>. QED  BY <1>4, <1>5, <1>6, <1>7

LEMMA FinishCalls ==
    ASSUME Types, NEW c \in Clients, CallInv(c), Finish(c)
    PROVE  CallInv(c)'
<1>1. /\ pc \in [Clients -> Labels] /\ statement \in [Clients -> Statements]
  BY DEF Types, TypeOK
<1>2. pc'[c] \in {"idle", "bound"}
  BY <1>1 DEF Finish, Goto
<1>3. WriteDoneOnce(c)
  BY DEF CallInv
<1>4. WriteDoneOnce(c)'
  BY <1>1, <1>3 DEF Finish, WriteDoneOnce, NoStatement
<1>. QED  BY <1>2, <1>4, IdleCalls

Calls == \A c \in Clients : CallInv(c)

LEMMA NextCalls == Types /\ Calls /\ [Next]_vars => Calls'
<1> SUFFICES ASSUME Types, Calls, [Next]_vars, NEW c \in Clients
             PROVE  CallInv(c)'
  BY DEF Calls
<1>1. CallInv(c)
  BY DEF Calls
<1>2. ASSUME NEW d \in Clients, ClientStep(d) \/ CallerStep(d) \/ CallStep(d)
      PROVE  CallInv(c)'
  <2>1. CASE d # c
    BY <1>1, <1>2, <2>1, OthersUnchanged, FrameCalls
  <2>2. CASE d = c
    BY <1>1, <1>2, <2>2, ClientStepCalls, CallerStepCalls, BindReplaceCalls,
       RunReferenceCalls, WriteStepCalls, FinishCalls DEF CallStep
  <2>. QED  BY <2>1, <2>2
<1>3. CASE UNCHANGED vars
  BY <1>1, <1>3, FrameCalls DEF vars
<1>. QED  BY <1>2, <1>3, CallersAssumption DEF Next

LEMMA CallsInvariant == Spec => []Calls
<1>1. Init => Calls
  BY InitCalls DEF Calls
<1>. QED  BY <1>1, InitTypes, NextTypes, NextCalls, PTL DEF Spec

\* A plan that reads sees what its caller's transaction sees.
THEOREM ReadsSeeTheCallersTransaction == Spec => []ReadsAreTheCallers
<1>1. Calls => ReadsAreTheCallers
  BY DEF Calls, CallInv, ReadInTransaction, ReadsAreTheCallers
<1>. QED  BY <1>1, CallsInvariant, PTL

\* Over the table that its caller sees, a plan gets the columns it names.
THEOREM ReadsGetTheirColumns == Spec => []ColumnsAreThoseNamed
<1>1. Calls => ColumnsAreThoseNamed
  BY DEF Calls, CallInv, ColumnsNamed, SawTheSame, ColumnsAreThoseNamed
<1>. QED  BY <1>1, CallsInvariant, PTL

\* And it does not fail.
THEOREM ReadsOfTheCallersTableSucceed == Spec => []ReadsSucceed
<1>1. Calls => ReadsSucceed
  BY DEF Calls, CallInv, ReadSucceeds, SawTheSame, ReadsSucceed
<1>. QED  BY <1>1, CallsInvariant, PTL

\* A statement runs its plan at most once, however often it is executed.
THEOREM PlansRunOnce == Spec => []WritesAreDoneOnce
<1>1. Calls => WritesAreDoneOnce
  BY DEF Calls, CallInv, WriteDoneOnce, WritesAreDoneOnce
<1>. QED  BY <1>1, CallsInvariant, PTL

-----------------------------------------------------------------------------
(* Writes.                                                                 *)

\* What is committed stays, and a row is reported once it is committed.
LEMMA NextWrites == Types /\ WritesStay /\ [Next]_vars => WritesStay'
<1> SUFFICES ASSUME Types, WritesStay, [Next]_vars
             PROVE  rows \subseteq rows' /\ acknowledged' \subseteq acknowledged \cup rows'
  BY DEF WritesStay
<1>1. ASSUME NEW c \in Clients, ClientStep(c)
      PROVE  rows \subseteq rows' /\ acknowledged' = acknowledged
  BY <1>1 DEF ClientStep, Begin, Commit, Rollback, Insert, ChangeTable, database
<1>2. ASSUME NEW c \in Callers, CallerStep(c)
      PROVE  rows' = rows /\ acknowledged' = acknowledged
  BY <1>2 DEF CallerStep, SetOptimizer, Call, Execute, database
<1>3. ASSUME NEW c \in Clients, CallStep(c), ~FromSubFunction(c)
      PROVE  rows' = rows /\ acknowledged' = acknowledged
  BY <1>3 DEF CallStep, BindReplace, RunReference, SubstraitBind, FetchAgain,
              Finish, database
<1>4. ASSUME NEW c \in Clients, FromSubFunction(c)
      PROVE  /\ rows \subseteq rows'
             /\ acknowledged' \subseteq acknowledged \cup rows'
  BY <1>4 DEF FromSubFunction, WriteRow
<1>5. CASE UNCHANGED vars
  BY <1>5 DEF vars
<1>. QED  BY <1>1, <1>2, <1>3, <1>4, <1>5, CallersAssumption DEF Next

\* What a call has reported as written no rollback takes away.
THEOREM ReportedWritesStay == Spec => []WritesStay
<1>1. Init => WritesStay
  BY DEF Init, WritesStay
<1>. QED  BY <1>1, InitTypes, NextTypes, NextWrites, PTL DEF Spec
=============================================================================
