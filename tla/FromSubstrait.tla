---------------------------- MODULE FromSubstrait ----------------------------
(***************************************************************************)
(* The table functions from_substrait and from_substrait_json of           *)
(* src/src/substrait_extension.cpp.  A plan is consumed on a connection of *)
(* the extension's own, which sees what is committed; a plan that reads is *)
(* then bound and run by the caller, inside the caller's transaction; a    *)
(* plan that writes is consumed a second time and run on a third           *)
(* connection, as a transaction of its own.  Other clients change the      *)
(* table between these steps, and so may the caller's own transaction.     *)
(*                                                                         *)
(* There is one table, from which the plans read or to which they append a *)
(* row; an absent table has no columns.  A row is known by who inserted it *)
(* and how.  Transactions are DuckDB's: snapshots, whose commit fails if   *)
(* the table has been altered since.                                       *)
(***************************************************************************)
EXTENDS Naturals, Sequences

CONSTANTS Clients,   \* client connections of one database
          Callers,   \* those that call from_substrait
          Names,     \* column names
          Schemas,   \* the columns the table may have
          Plans      \* the plans that are given to from_substrait

ASSUME CallersAssumption == Callers \subseteq Clients

\* No table has two columns of one name.
ASSUME SchemasAssumption ==
    /\ Schemas \subseteq Seq(Names)
    /\ \A s \in Schemas : \A i, j \in DOMAIN s : s[i] = s[j] => i = j

\* A plan is [op, base, projection]: the columns that it declares and, for a
\* read, the fields that it selects of them, <<>> if it selects nothing.
ASSUME PlansAssumption ==
    /\ Plans \subseteq [op: {"read", "insert"}, base: Seq(Names),
                        projection: Seq(Nat)]
    /\ \A p \in Plans :
           /\ p.base # <<>>
           /\ \A k \in DOMAIN p.projection : p.projection[k] < Len(p.base)

VARIABLES schema, rows,  \* the table, as committed
          txn,           \* each client's transaction
          optimizer,     \* ClientConfig::enable_optimizer
          statement,     \* each client's bound statement
          pc,
          result,        \* what the latest execution gave
          acknowledged   \* rows that a call has reported as written

vars == <<schema, rows, txn, optimizer, statement, pc, result, acknowledged>>
database == <<schema, rows>>

Absent == <<>>
NoTransaction == [kind |-> "none", seen |-> Absent, schema |-> Absent,
                  rows |-> {}, inserted |-> {}]
NoResult == [kind |-> "none", columns |-> <<>>, rows |-> {},
             optimized |-> FALSE]
Error == [NoResult EXCEPT !.kind = "error"]

\* FromSubstraitFunctionData, and the positions a table reference names.
\* found (the tables that connections of the extension saw) and writes
\* (how often the plan was run) are kept for the properties.
NoStatement == [plan |-> [op |-> "none", base |-> <<>>, projection |-> <<>>],
                found |-> {}, positions |-> <<>>, res |-> "none",
                writes |-> 0]

Init ==
    /\ schema \in Schemas
    /\ rows = {}
    /\ txn = [c \in Clients |-> NoTransaction]
    /\ optimizer = [c \in Clients |-> TRUE]
    /\ statement = [c \in Clients |-> NoStatement]
    /\ pc = [c \in Clients |-> "idle"]
    /\ result = [c \in Clients |-> NoResult]
    /\ acknowledged = {}

Idle(c) == pc[c] \in {"idle", "bound"}
Goto(c, l) == pc' = [pc EXCEPT ![c] = l]

-----------------------------------------------------------------------------
(* Transactions and the statements of clients that are not from_substrait. *)

Snapshot(kind) == [kind |-> kind, seen |-> schema, schema |-> schema,
                   rows |-> rows, inserted |-> {}]
InTransaction(c) == txn[c].kind = "explicit"
Altered(c) == txn[c].schema # txn[c].seen
AlteredByOther(c) == \E d \in Clients \ {c} : Altered(d)

Begin(c) ==
    /\ Idle(c) /\ ~InTransaction(c)
    /\ txn' = [txn EXCEPT ![c] = Snapshot("explicit")]
    /\ UNCHANGED <<database, optimizer, statement, pc, result, acknowledged>>

\* CREATE or ALTER TABLE: one transaction at a time.
ChangeTable(c, s) ==
    /\ Idle(c) /\ s # Absent /\ ~AlteredByOther(c)
    /\ IF InTransaction(c)
       THEN /\ txn[c].seen = schema
            /\ txn' = [txn EXCEPT ![c].schema = s]
            /\ UNCHANGED schema
       ELSE schema' = s /\ UNCHANGED txn
    /\ UNCHANGED <<rows, optimizer, statement, pc, result, acknowledged>>

AddOwn(c, row) == [txn EXCEPT ![c].rows = @ \cup {row},
                              ![c].inserted = @ \cup {row}]

Insert(c) ==
    /\ Idle(c) /\ ~AlteredByOther(c)
    /\ IF InTransaction(c)
       THEN /\ txn[c].seen = schema /\ txn[c].schema # Absent
            /\ txn' = AddOwn(c, <<c, "insert">>)
            /\ UNCHANGED rows
       ELSE /\ schema # Absent
            /\ rows' = rows \cup {<<c, "insert">>} /\ UNCHANGED txn
    /\ UNCHANGED <<schema, optimizer, statement, pc, result, acknowledged>>

\* A transaction that has changed nothing always commits.
Conflicts(c) == (Altered(c) \/ txn[c].inserted # {}) /\ txn[c].seen # schema

Commit(c) ==
    /\ Idle(c) /\ InTransaction(c)
    /\ schema' = IF Conflicts(c) \/ ~Altered(c) THEN schema ELSE txn[c].schema
    /\ rows' = IF Conflicts(c) THEN rows ELSE rows \cup txn[c].inserted
    /\ txn' = [txn EXCEPT ![c] = NoTransaction]
    /\ UNCHANGED <<optimizer, statement, pc, result, acknowledged>>

Rollback(c) ==
    /\ Idle(c) /\ InTransaction(c)
    /\ txn' = [txn EXCEPT ![c] = NoTransaction]
    /\ UNCHANGED <<database, optimizer, statement, pc, result, acknowledged>>

SetOptimizer(c, b) ==
    /\ Idle(c)
    /\ optimizer' = [optimizer EXCEPT ![c] = b]
    /\ UNCHANGED <<database, txn, statement, pc, result, acknowledged>>

-----------------------------------------------------------------------------
(* Consuming a plan over a table with columns s (TransformReadOp).         *)

\* A narrower declaration than the table is matched by name, anything else
\* by position.
Narrows(p, s) ==
    p.projection = <<>> /\ 0 < Len(p.base) /\ Len(p.base) < Len(s)

PositionOf(name, s) == CHOOSE j \in DOMAIN s : s[j] = name

\* Mutant: the declared columns are taken in the order of the table.
PositionsInOrder(p, s) ==
    IF p.projection # <<>>
    THEN [k \in DOMAIN p.projection |-> p.projection[k] + 1]
    ELSE [k \in DOMAIN p.base |-> k]

\* Mutant: fields count from one.
PositionsFromOne(p, s) ==
    IF p.projection # <<>> THEN p.projection
    ELSE [k \in DOMAIN p.base |->
             IF Narrows(p, s) THEN PositionOf(p.base[k], s) ELSE k]

\* The positions, from one, of the columns that the plan's root projects.
Positions(p, s) ==
    IF p.projection # <<>>
    THEN [k \in DOMAIN p.projection |-> p.projection[k] + 1]
    ELSE [k \in DOMAIN p.base |->
             IF Narrows(p, s) THEN PositionOf(p.base[k], s) ELSE k]

InRange(list, s) == \A k \in DOMAIN list : list[k] \in DOMAIN s
HasColumns(p, s) ==
    \A k \in DOMAIN p.base : \E j \in DOMAIN s : s[j] = p.base[k]

\* Both kinds of relation are bound where they are built.
Consumable(p, s) ==
    /\ s # Absent
    /\ IF p.op = "insert" THEN Len(p.base) = Len(s)
       ELSE /\ Narrows(p, s) => HasColumns(p, s)
            /\ InRange(Positions(p, s), s)

-----------------------------------------------------------------------------
(* A call of from_substrait.  The caller's context is locked throughout.   *)

\* Mutant: the plan is consumed with the caller's own context.
ConsumerContextIsTheCallers(c) == [owner |-> c, locked |-> pc[c] # "idle"]

\* Connection(*context.db): nobody else knows it.
ConsumerContext(c) == [owner |-> "extension", locked |-> FALSE]

\* Outside a transaction the statement starts one.
StartTransaction(c) ==
    txn' = IF InTransaction(c) THEN txn
           ELSE [txn EXCEPT ![c] = Snapshot("auto")]

Call(c, p) ==
    /\ Idle(c)
    /\ StartTransaction(c)
    /\ statement' = [statement EXCEPT ![c] = [NoStatement EXCEPT !.plan = p]]
    /\ result' = [result EXCEPT ![c] = NoResult]
    /\ Goto(c, "replace")
    /\ UNCHANGED <<database, optimizer, acknowledged>>

\* An error ends the statement; a transaction around it would be aborted,
\* which here is left to the client.
Throw(c) ==
    /\ result' = [result EXCEPT ![c] = Error]
    /\ Goto(c, "done")

\* Mutant: every plan is run by FromSubFunction.
ReadOnlyNever(p) == FALSE

\* Relation::IsReadOnly.
ReadOnly(p) == p.op = "read"

Plan(c) == statement[c].plan
Found(c) == [statement EXCEPT ![c].found = @ \cup {schema}]

\* SubstraitBindReplace: a read becomes a table reference in the caller's
\* query, for anything else DuckDB goes on to SubstraitBind.
BindReplace(c) ==
    /\ pc[c] = "replace" /\ ~ConsumerContext(c).locked
    /\ IF ~Consumable(Plan(c), schema)
       THEN Throw(c) /\ statement' = Found(c)
       ELSE IF ReadOnly(Plan(c))
       THEN /\ statement' = [Found(c) EXCEPT
                   ![c].positions = Positions(Plan(c), schema)]
            /\ Goto(c, "reference") /\ UNCHANGED result
       ELSE Goto(c, "bind") /\ statement' = Found(c) /\ UNCHANGED result
    /\ UNCHANGED <<database, txn, optimizer, acknowledged>>

\* What a read gives over the columns s.
ReadResult(positions, s, visible, optimize) ==
    [kind |-> "read", columns |-> [k \in DOMAIN positions |-> s[positions[k]]],
     rows |-> visible, optimized |-> optimize]

\* The caller binds the reference in its own transaction and runs it under
\* its own settings.
RunReference(c) ==
    /\ pc[c] = "reference"
    /\ LET positions == statement[c].positions
       IN  IF ~InRange(positions, txn[c].schema) THEN Throw(c)
           ELSE /\ result' = [result EXCEPT ![c] =
                       ReadResult(positions, txn[c].schema, txn[c].rows,
                                  optimizer[c])]
                /\ Goto(c, "done")
    /\ UNCHANGED <<database, txn, optimizer, statement, acknowledged>>

\* SubstraitBind: consumed again, by a connection that the bind data keeps.
SubstraitBind(c) ==
    /\ pc[c] = "bind" /\ ~ConsumerContext(c).locked
    /\ statement' = Found(c)
    /\ IF Consumable(Plan(c), schema)
       THEN Goto(c, "run") /\ UNCHANGED result
       ELSE Throw(c)
    /\ UNCHANGED <<database, txn, optimizer, acknowledged>>

\* Mutant: the result of the first execution is not looked at.
ExecutedNever(c) == FALSE

\* The bind data holds a result already.
Executed(c) == statement[c].res # "none"

\* The settings of a connection that nobody has set anything on.
DefaultOptimizer == TRUE

\* Mutant: the row is written as part of the caller's transaction.
WriteRowInCallers(c, row) == txn' = AddOwn(c, row) /\ UNCHANGED rows

\* A transaction of its own, committed at once.
WriteRow(c, row) == rows' = rows \cup {row} /\ UNCHANGED txn

\* The write conflicts with any table change that is not committed.
Fails(c) == ~Consumable(Plan(c), schema) \/ \E d \in Clients : Altered(d)

\* FromSubFunction, first call: the plan runs on a third connection.
FromSubFunction(c) ==
    /\ pc[c] = "run" /\ ~Executed(c)
    /\ IF Fails(c)
       THEN /\ statement' = [Found(c) EXCEPT ![c].res = "failed"]
            /\ Throw(c) /\ UNCHANGED <<rows, txn, acknowledged>>
       ELSE /\ Goto(c, "done")
            /\ statement' = [Found(c) EXCEPT ![c].res = "ok",
                                             ![c].writes = @ + 1]
            /\ IF Plan(c).op = "read"
               THEN /\ result' = [result EXCEPT ![c] =
                           ReadResult(Positions(Plan(c), schema), schema,
                                      rows, DefaultOptimizer)]
                    /\ UNCHANGED <<rows, txn, acknowledged>>
               ELSE /\ result' = [result EXCEPT ![c] =
                           [NoResult EXCEPT !.kind = "written",
                                            !.optimized = DefaultOptimizer]]
                    /\ WriteRow(c, <<c, "plan">>)
                    /\ acknowledged' = acknowledged \cup {<<c, "plan">>}
    /\ UNCHANGED <<schema, optimizer>>

\* A statement that is executed again fetches from the result it has.
FetchAgain(c) ==
    /\ pc[c] = "run" /\ Executed(c)
    /\ IF statement[c].res = "failed" THEN Throw(c)
       ELSE /\ result' = [result EXCEPT ![c] = [NoResult EXCEPT !.kind = "empty"]]
            /\ Goto(c, "done")
    /\ UNCHANGED <<database, txn, optimizer, statement, acknowledged>>

Prepared(c) == statement[c].res # "none"

\* The statement ends, and a transaction that it started with it.
Finish(c) ==
    /\ pc[c] = "done"
    /\ Goto(c, IF Prepared(c) THEN "bound" ELSE "idle")
    /\ txn' = IF InTransaction(c) THEN txn
              ELSE [txn EXCEPT ![c] = NoTransaction]
    /\ result' = [result EXCEPT ![c] = NoResult]
    /\ statement' = IF Prepared(c) THEN statement
                    ELSE [statement EXCEPT ![c] = NoStatement]
    /\ UNCHANGED <<database, optimizer, acknowledged>>

\* A prepared statement keeps its bind data from one execution to the next.
Execute(c) ==
    /\ pc[c] = "bound"
    /\ StartTransaction(c)
    /\ result' = [result EXCEPT ![c] = NoResult]
    /\ Goto(c, "run")
    /\ UNCHANGED <<database, optimizer, statement, acknowledged>>

-----------------------------------------------------------------------------
CallStep(c) == \/ BindReplace(c) \/ RunReference(c) \/ SubstraitBind(c)
               \/ FromSubFunction(c) \/ FetchAgain(c) \/ Finish(c)

ClientStep(c) ==
    \/ Begin(c) \/ Commit(c) \/ Rollback(c) \/ Insert(c)
    \/ \E s \in Schemas : ChangeTable(c, s)

CallerStep(c) ==
    \/ \E b \in BOOLEAN : SetOptimizer(c, b)
    \/ \E p \in Plans : Call(c, p)
    \/ Execute(c)

Next == \/ \E c \in Clients : ClientStep(c)
        \/ \E c \in Callers : CallStep(c) \/ CallerStep(c)

\* A thread runs the statement that it has begun; no client is obliged to
\* begin one, or to end its transaction.
Spec == Init /\ [][Next]_vars /\ \A c \in Callers : WF_vars(CallStep(c))

-----------------------------------------------------------------------------
(* Properties.                                                             *)

Labels == {"idle", "bound", "replace", "reference", "bind", "run", "done"}
AllRows == Clients \X {"insert", "plan"}

Transactions == [kind: {"none", "auto", "explicit"},
                 seen: Schemas \cup {Absent}, schema: Schemas \cup {Absent},
                 rows: SUBSET AllRows, inserted: SUBSET AllRows]
Statements == [plan: [op: {"none", "read", "insert"}, base: Seq(Names),
                      projection: Seq(Nat)],
               found: SUBSET Schemas, positions: Seq(Nat),
               res: {"none", "ok", "failed"}, writes: Nat]
Results == [kind: {"none", "error", "read", "written", "empty"},
            columns: Seq(Names), rows: SUBSET AllRows, optimized: BOOLEAN]

\* The state has its types, and a read never reaches the functions that run
\* plans on a connection of the extension's own.
TypeOK ==
    /\ schema \in Schemas /\ rows \subseteq AllRows
    /\ acknowledged \subseteq AllRows
    /\ txn \in [Clients -> Transactions]
    /\ optimizer \in [Clients -> BOOLEAN]
    /\ statement \in [Clients -> Statements]
    /\ pc \in [Clients -> Labels]
    /\ result \in [Clients -> Results]
    /\ \A c \in Clients :
           /\ pc[c] \notin {"idle", "done"} => Plan(c) \in Plans
           /\ pc[c] \in {"bind", "run", "bound"} => Plan(c).op = "insert"

\* A call of from_substrait that has read.
HasRead(c) == pc[c] = "done" /\ result[c].kind = "read"

\* A plan that reads sees the caller's transaction: its snapshot and its own
\* rows, neither what others have committed since nor what plans have
\* written on their own, in its own name or in others'.
ReadsAreTheCallers == \A c \in Clients : HasRead(c) => result[c].rows = txn[c].rows

\* The columns a plan names: those it declares, or the fields selected.
NamedColumns(p) ==
    IF p.projection = <<>> THEN p.base
    ELSE [k \in DOMAIN p.projection |-> p.base[p.projection[k] + 1]]
Fits(p, s) == p.base = s \/ (Narrows(p, s) /\ HasColumns(p, s))

\* If the table that the plan was consumed over is the one that the caller
\* sees, and it has the declared columns, the plan gets the columns it names.
ColumnsAreThoseNamed ==
    \A c \in Clients :
        HasRead(c) /\ statement[c].found = {txn[c].schema}
            /\ Fits(Plan(c), txn[c].schema)
            => result[c].columns = NamedColumns(Plan(c))

\* A read of declared columns only fails if the extension's connection saw
\* another table than the caller.
ReadsSucceed ==
    \A c \in Clients :
        pc[c] = "done" /\ Plan(c).op = "read" /\ statement[c].found = {txn[c].schema}
            /\ Fits(Plan(c), txn[c].schema)
            => result[c].kind = "read"

\* However often its statement is executed, a plan is run once.
WritesAreDoneOnce ==
    \A c \in Clients : statement[c].writes = IF statement[c].res = "ok" THEN 1 ELSE 0

\* What a call has reported as written is there for good, also when the
\* transaction around the call is rolled back or fails to commit.
WritesStay == acknowledged \subseteq rows

\* Every call ends: nothing that it waits for is held by its own caller.
CallsEnd == \A c \in Callers : ~Idle(c) ~> Idle(c)

\* The connection's own setting decides whether a plan is optimized.
SettingsObeyed ==
    \A c \in Clients :
        pc[c] = "done" /\ result[c].kind \in {"read", "written"} =>
            result[c].optimized = optimizer[c]
=============================================================================
