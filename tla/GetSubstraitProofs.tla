------------------------- MODULE GetSubstraitProofs -------------------------
(***************************************************************************)
(* Proofs about GetSubstrait, for any set of connections, any optimizers   *)
(* and any choice of the forced ones.                                      *)
(***************************************************************************)
EXTENDS GetSubstrait, TLAPS

-----------------------------------------------------------------------------
(* Records: each update the actions make stays within its type.            *)

\* The settings PrepareConnection and SET give a connection are a Configs.
LEMMA ConfigUpdate ==
    ASSUME NEW cfg \in Configs, NEW a \in BOOLEAN, NEW b \in BOOLEAN
    PROVE  /\ [cfg EXCEPT !.enable_optimizer = a,
                          !.query_verification_enabled = b] \in Configs
           /\ [cfg EXCEPT !.enable_optimizer = a,
                          !.use_replacement_scans = FALSE] \in Configs
BY DEF Configs

\* The bind data stays a Data when options are saved or the flag is set.
LEMMA DataUpdate ==
    ASSUME NEW d \in Data, NEW cfg \in Configs, NEW S \in SUBSET Optimizers
    PROVE  /\ [d EXCEPT !.original_config = cfg,
                        !.original_disabled_optimizers = S] \in Data
           /\ [d EXCEPT !.finished = TRUE] \in Data
BY DEF Data

\* Freshly initialized bind data is a Data, and so is forgotten data.
LEMMA FreshDataType ==
    /\ DefaultConfig \in Configs
    /\ \A b \in BOOLEAN : FreshData(b) \in Data
    /\ \A d \in Data : Forget(d) \in Data
<1>1. DefaultConfig \in Configs
  BY DEF DefaultConfig, Configs
<1>2. \A b \in BOOLEAN : FreshData(b) \in Data
  BY <1>1 DEF FreshData, Data
<1>3. ASSUME NEW d \in Data PROVE Forget(d) \in Data
  BY <1>2 DEF Forget, Data
<1>4. QED
  BY <1>1, <1>2, <1>3

\* The plan under construction stays a Work.
LEMMA WorkUpdate ==
    /\ NoWork \in Work /\ NoPlan \in Plans
    /\ \A b \in BOOLEAN, S \in SUBSET Optimizers :
           [optimized |-> b, ran |-> {}, todo |-> S] \in Work
    /\ \A w \in Work, S, T \in SUBSET Optimizers :
           [w EXCEPT !.todo = w.todo \ T, !.ran = w.ran \cup S] \in Work
    /\ \A w \in Work : [optimized |-> w.optimized, ran |-> w.ran] \in Plans
BY DEF NoWork, NoPlan, Work, Plans

-----------------------------------------------------------------------------
(* Type correctness.                                                       *)

\* No step of any connection, whatever it interleaves with, takes a variable
\* out of its type.
LEMMA TypeStep == TypeOK /\ [Next]_vars => TypeOK'
<1> SUFFICES ASSUME TypeOK, [Next]_vars PROVE TypeOK'
  OBVIOUS
<1> USE OptimizerAssumption DEF TypeOK, Goto, Labels, settings, user
<1>1. CASE UNCHANGED vars
  BY <1>1 DEF vars
<1>2. ASSUME NEW c \in Connections, UserStep(c) PROVE TypeOK'
  <2>1. ASSUME NEW S \in UserSettings, UserSetDisabledOptimizers(c, S)
        PROVE TypeOK'
    BY <2>1 DEF UserSetDisabledOptimizers
  <2>2. ASSUME NEW b \in ScalarModes, UserSetScalarSubqueryError(c, b)
        PROVE TypeOK'
    BY <2>2 DEF UserSetScalarSubqueryError
  <2>3. ASSUME NEW mode \in UserModes, UserSetConfig(c, mode)
        PROVE TypeOK'
    <3> DEFINE new == [config[c] EXCEPT !.enable_optimizer = mode[1],
                           !.query_verification_enabled = mode[2]]
    <3>1. mode[1] \in BOOLEAN /\ mode[2] \in BOOLEAN
      BY <2>3
    <3>2. new \in Configs
      BY <3>1, ConfigUpdate
    <3> HIDE DEF new
    <3>3. config' = [config EXCEPT ![c] = new]
          /\ userConfig' = [userConfig EXCEPT ![c] = new]
      BY <2>3 DEF UserSetConfig, new
    <3>4. QED
      BY <2>3, <3>2, <3>3 DEF UserSetConfig
  <2>4. ASSUME NEW p \in Params, Bind(c, p) PROVE TypeOK'
    <3>1. (p = "true") \in BOOLEAN /\ config[c].enable_optimizer \in BOOLEAN
      BY <2>4 DEF Configs
    <3>2. data' \in [Connections -> Data]
      BY <2>4, <3>1, FreshDataType DEF Bind
    <3>3. QED
      BY <2>4, <3>2 DEF Bind
  <2>5. CASE Execute(c)
    BY <2>5 DEF Execute
  <2>6. QED
    BY <1>2, <2>1, <2>2, <2>3, <2>4, <2>5 DEF UserStep
<1>3. ASSUME NEW c \in Connections, SaveOptions(c) PROVE
        /\ data' \in [Connections -> Data]
        /\ config' \in [Connections -> Configs]
        /\ pc' \in [Connections -> Labels]
        /\ UNCHANGED <<dbDisabled, dbScalarError, userDisabled,
                       userScalarError, userConfig, merged, work, output,
                       rows>>
  <2>1. data[c].enable_optimizer \in BOOLEAN
    BY DEF Data
  <2>2. [config[c] EXCEPT !.enable_optimizer = data[c].enable_optimizer,
                          !.use_replacement_scans = FALSE] \in Configs
    BY <2>1, ConfigUpdate
  <2>3. [data[c] EXCEPT !.original_config = config[c],
                        !.original_disabled_optimizers = dbDisabled] \in Data
    BY DataUpdate
  <2>4. QED
    BY <1>3, <2>2, <2>3 DEF SaveOptions
<1>4. ASSUME NEW c \in Connections, CallStep(c) PROVE TypeOK'
  <2>1. CASE ToSubFunction(c)
    <3>1. CASE data[c].finished
      BY <2>1, <3>1 DEF ToSubFunction
    <3>2. CASE ~data[c].finished
      BY <1>3, <2>1, <3>2 DEF ToSubFunction
    <3>3. QED
      BY <3>1, <3>2
  <2>2. CASE MergeForced(c)
    BY <2>2 DEF MergeForced
  <2>3. CASE WriteOptions(c)
    BY <2>3 DEF WriteOptions
  <2>4. CASE CreatePlan(c)
    <3>1. config[c].enable_optimizer \in BOOLEAN
      BY DEF Configs
    <3>2. work' \in [Connections -> Work]
      BY <2>4, <3>1, WorkUpdate DEF CreatePlan
    <3>3. pc' \in [Connections -> Labels]
      BY <2>4, <3>1 DEF CreatePlan
    <3>4. QED
      BY <2>4, <3>2, <3>3 DEF CreatePlan
  <2>5. CASE ExtractThrows(c)
    BY <2>5, WorkUpdate DEF ExtractThrows
  <2>6. CASE CleanupConnection(c)
    <3>1. /\ data[c].original_config \in Configs
          /\ data[c].original_disabled_optimizers \in SUBSET Optimizers
      BY DEF Data
    <3>2. data' \in [Connections -> Data]
      BY <2>6, FreshDataType DEF CleanupConnection
    <3>3. QED
      BY <2>6, <3>1, <3>2 DEF CleanupConnection
  <2>7. ASSUME NEW o \in Optimizers, RunOptimizer(c, o) PROVE TypeOK'
    <3>1. {o} \in SUBSET Optimizers /\ {o} \ dbDisabled \in SUBSET Optimizers
      OBVIOUS
    <3>2. work[c] \in Work
      OBVIOUS
    <3>3. [work[c] EXCEPT !.todo = @ \ {o}, !.ran = @ \cup ({o} \ dbDisabled)]
            \in Work
      BY <3>1, <3>2, WorkUpdate
    <3>4. QED
      BY <2>7, <3>3 DEF RunOptimizer
  <2>8. CASE FinishOptimize(c)
    BY <2>8 DEF FinishOptimize
  <2>9. CASE Serialize(c)
    <3>1. work' \in [Connections -> Work]
      BY <2>9, WorkUpdate DEF Serialize
    <3>2. [data[c] EXCEPT !.finished = TRUE] \in Data
      <4>1. data[c] \in Data
        OBVIOUS
      <4>2. {} \in SUBSET Optimizers
        OBVIOUS
      <4>3. QED
        BY <4>1, <4>2, DataUpdate, FreshDataType
    <3>3. [optimized |-> work[c].optimized, ran |-> work[c].ran] \in Plans
      <4>1. work[c] \in Work
        OBVIOUS
      <4>2. QED
        BY <4>1, WorkUpdate
    <3>4. /\ output' \in [Connections -> Plans]
          /\ data' \in [Connections -> Data]
          /\ rows' \in [Connections -> Nat]
      <4>1. CASE pass[c] = 1
        <5>1. /\ output' = [output EXCEPT ![c] =
                    [optimized |-> work[c].optimized, ran |-> work[c].ran]]
              /\ data' = [data EXCEPT ![c] =
                    [data[c] EXCEPT !.finished = TRUE]]
              /\ rows' = [rows EXCEPT ![c] = rows[c] + 1]
          BY <2>9, <4>1 DEF Serialize
        <5>2. rows[c] + 1 \in Nat
          OBVIOUS
        <5>3. QED
          BY <3>2, <3>3, <5>1, <5>2
      <4>2. CASE pass[c] # 1
        BY <2>9, <4>2 DEF Serialize
      <4>3. QED
        BY <4>1, <4>2
    <3>5. pc' \in [Connections -> Labels]
      BY <2>9 DEF Serialize
    <3>6. QED
      BY <2>9, <3>1, <3>4, <3>5 DEF Serialize
  <2>10. CASE SerializeThrows(c)
    BY <2>10, WorkUpdate DEF SerializeThrows
  <2>11. CASE Verify(c)
    <3>1. CASE pass[c] = 1
      BY <1>3, <2>11, <3>1 DEF Verify
    <3>2. CASE pass[c] # 1
      BY <2>11, <3>2 DEF Verify
    <3>3. QED
      BY <3>1, <3>2
  <2>12. CASE VerifyThrows(c)
    BY <2>12 DEF VerifyThrows
  <2>13. QED
    BY <1>4, <2>1, <2>2, <2>3, <2>4, <2>5, <2>6, <2>7, <2>8, <2>9, <2>10,
       <2>11, <2>12 DEF CallStep
<1>5. QED
  BY <1>1, <1>2, <1>4 DEF Next

\* The initial values have their types.
LEMMA TypeInit == Init => TypeOK
<1> SUFFICES ASSUME Init PROVE TypeOK
  OBVIOUS
<1>1. FreshData(FALSE) \in Data
  BY FreshDataType
<1>2. QED
  BY <1>1, FreshDataType, WorkUpdate DEF Init, TypeOK, Labels

\* Every variable keeps its type in every behaviour, serialized or not.
THEOREM TypeCorrect == Spec => []TypeOK
BY TypeInit, TypeStep, PTL DEF Spec

-----------------------------------------------------------------------------
(* A connection's own options.                                             *)

\* In the window the caller's options wait in the bind data, and the decision
\* of the call stands in their place.
ConfigAt(c) ==
    /\ ~InWindow(c) => config[c] = userConfig[c]
    /\ InWindow(c) => /\ data[c].original_config = userConfig[c]
                      /\ config[c].enable_optimizer = data[c].enable_optimizer
OwnConfig == \A c \in Connections : ConfigAt(c)

\* Every step of every connection keeps OwnConfig: a step of c touches only
\* c's entries, so no serialization is needed.
LEMMA OwnConfigStep == TypeOK /\ OwnConfig /\ [Next]_vars => OwnConfig'
<1> SUFFICES ASSUME TypeOK, OwnConfig, [Next]_vars, NEW d \in Connections
             PROVE ConfigAt(d)'
  BY DEF OwnConfig
<1> USE DEF Goto, At, InWindow, settings, user
<1>1. ConfigAt(d)
  BY DEF OwnConfig
<1>2. CASE UNCHANGED vars
  BY <1>1, <1>2 DEF vars, ConfigAt
<1>3. ASSUME NEW c \in Connections, UserStep(c) PROVE ConfigAt(d)'
  <2>1. ASSUME NEW S \in UserSettings, UserSetDisabledOptimizers(c, S)
        PROVE ConfigAt(d)'
    BY <1>1, <2>1 DEF UserSetDisabledOptimizers, ConfigAt
  <2>2. ASSUME NEW b \in ScalarModes, UserSetScalarSubqueryError(c, b)
        PROVE ConfigAt(d)'
    BY <1>1, <2>2 DEF UserSetScalarSubqueryError, ConfigAt
  <2>3. ASSUME NEW mode \in UserModes, UserSetConfig(c, mode)
        PROVE ConfigAt(d)'
    BY <1>1, <2>3 DEF UserSetConfig, ConfigAt, TypeOK, Between
  <2>4. ASSUME NEW p \in Params, Bind(c, p) PROVE ConfigAt(d)'
    BY <1>1, <2>4 DEF Bind, ConfigAt, TypeOK, Between
  <2>5. CASE Execute(c)
    BY <1>1, <2>5 DEF Execute, ConfigAt, TypeOK
  <2>6. QED
    BY <1>3, <2>1, <2>2, <2>3, <2>4, <2>5 DEF UserStep
<1>4. ASSUME NEW c \in Connections, SaveOptions(c), pc[c] \in {"fetch", "verify"},
             UNCHANGED <<userConfig>>
      PROVE ConfigAt(d)'
  <2>1. CASE c = d
    <3>1. config[c] = userConfig[c]
      BY <1>1, <1>4, <2>1 DEF ConfigAt
    <3>2. /\ data'[c] = [data[c] EXCEPT !.original_config = config[c],
                            !.original_disabled_optimizers = dbDisabled]
          /\ config'[c] = [config[c] EXCEPT
                !.enable_optimizer = data[c].enable_optimizer,
                !.use_replacement_scans = FALSE]
      BY <1>4 DEF SaveOptions, TypeOK
    <3>3. data[c] \in Data /\ config[c] \in Configs
      BY DEF TypeOK
    <3>4. /\ data'[c].original_config = config[c]
          /\ data'[c].enable_optimizer = data[c].enable_optimizer
          /\ config'[c].enable_optimizer = data[c].enable_optimizer
      BY <3>2, <3>3 DEF Data, Configs
    <3>5. pc'[c] = "saved"
      BY <1>4 DEF SaveOptions, TypeOK
    <3>6. QED
      BY <1>4, <2>1, <3>1, <3>4, <3>5 DEF ConfigAt
  <2>2. CASE c # d
    BY <1>1, <1>4, <2>2 DEF SaveOptions, ConfigAt, TypeOK
  <2>3. QED
    BY <2>1, <2>2
<1>5. ASSUME NEW c \in Connections, CallStep(c) PROVE ConfigAt(d)'
  <2>1. CASE ToSubFunction(c)
    <3>1. CASE data[c].finished
      BY <1>1, <2>1, <3>1 DEF ToSubFunction, ConfigAt, TypeOK
    <3>2. CASE ~data[c].finished
      <4>1. SaveOptions(c) /\ UNCHANGED userConfig
        BY <2>1, <3>2 DEF ToSubFunction, SaveOptions
      <4>2. QED
        BY <1>4, <2>1, <4>1 DEF ToSubFunction
    <3>3. QED
      BY <3>1, <3>2
  <2>2. CASE MergeForced(c)
    BY <1>1, <2>2 DEF MergeForced, ConfigAt, TypeOK
  <2>3. CASE WriteOptions(c)
    BY <1>1, <2>3 DEF WriteOptions, ConfigAt, TypeOK
  <2>4. CASE CreatePlan(c)
    BY <1>1, <2>4 DEF CreatePlan, ConfigAt, TypeOK
  <2>5. CASE ExtractThrows(c)
    BY <1>1, <2>5 DEF ExtractThrows, ConfigAt, TypeOK
  <2>6. CASE CleanupConnection(c)
    BY <1>1, <2>6 DEF CleanupConnection, ConfigAt, TypeOK
  <2>7. ASSUME NEW o \in Optimizers, RunOptimizer(c, o) PROVE ConfigAt(d)'
    BY <1>1, <2>7 DEF RunOptimizer, ConfigAt
  <2>8. CASE FinishOptimize(c)
    BY <1>1, <2>8 DEF FinishOptimize, ConfigAt, TypeOK
  <2>9. CASE Serialize(c)
    BY <1>1, <2>9 DEF Serialize, ConfigAt, TypeOK
  <2>10. CASE SerializeThrows(c)
    BY <1>1, <2>10 DEF SerializeThrows, ConfigAt, TypeOK
  <2>11. CASE Verify(c)
    <3>1. CASE pass[c] = 1
      <4>1. SaveOptions(c) /\ UNCHANGED userConfig
        BY <2>11, <3>1 DEF Verify, SaveOptions
      <4>2. QED
        BY <1>4, <2>11, <4>1 DEF Verify
    <3>2. CASE pass[c] # 1
      BY <1>1, <2>11, <3>2 DEF Verify, ConfigAt, TypeOK
    <3>3. QED
      BY <3>1, <3>2
  <2>12. CASE VerifyThrows(c)
    BY <1>1, <2>12 DEF VerifyThrows, ConfigAt, TypeOK
  <2>13. QED
    BY <1>5, <2>1, <2>2, <2>3, <2>4, <2>5, <2>6, <2>7, <2>8, <2>9, <2>10,
       <2>11, <2>12 DEF CallStep
<1>6. QED
  BY <1>2, <1>3, <1>5 DEF Next

\* Under any interleaving, errors included, a connection that is not inside
\* ExtractPlan has the options its user gave it.
THEOREM ConfigIsRestored == Spec => []ConfigRestored
<1>1. Init => TypeOK /\ OwnConfig
  <2>1. Init => TypeOK
    BY TypeInit
  <2>2. Init => OwnConfig
    BY DEF Init, OwnConfig, ConfigAt, InWindow
  <2>3. QED
    BY <2>1, <2>2
<1>2. OwnConfig => ConfigRestored
  BY DEF OwnConfig, ConfigAt, ConfigRestored
<1>3. QED
  BY <1>1, <1>2, TypeStep, OwnConfigStep, PTL DEF Spec

-----------------------------------------------------------------------------
(* The scan protocol.                                                      *)

\* The requested form is converted at most once per bound statement.
RowAt(c) ==
    /\ Converting(c) /\ pass[c] = 1 => ~data[c].finished
    /\ rows[c] <= 1
    /\ rows[c] = 1 => data[c].finished
RowInv == \A c \in Connections : RowAt(c)

\* Saving the options changes neither the flag nor the row count.
LEMMA RowSave ==
    ASSUME TypeOK, NEW c \in Connections, NEW d \in Connections, RowAt(d),
           SaveOptions(c), pass' \in [Connections -> {1, 2}],
           pass'[c] = 1 => ~data[c].finished,
           c # d => pass'[d] = pass[d]
    PROVE  RowAt(d)'
<1>1. /\ rows' = rows
      /\ data'[c] = [data[c] EXCEPT !.original_config = config[c],
                        !.original_disabled_optimizers = dbDisabled]
      /\ c # d => data'[d] = data[d] /\ pc'[d] = pc[d]
  BY DEF SaveOptions, Goto, TypeOK
<1>2. data'[c].finished = data[c].finished
  BY <1>1 DEF TypeOK, Data
<1>3. QED
  BY <1>1, <1>2 DEF RowAt, Converting, InWindow

\* Every step of every connection keeps RowInv.
LEMMA RowStep == TypeOK /\ RowInv /\ [Next]_vars => RowInv'
<1> SUFFICES ASSUME TypeOK, RowInv, [Next]_vars, NEW d \in Connections
             PROVE RowAt(d)'
  BY DEF RowInv
<1> USE DEF Goto, At, InWindow, Converting, settings, user
<1>1. RowAt(d)
  BY DEF RowInv
<1>2. CASE UNCHANGED vars
  BY <1>1, <1>2 DEF vars, RowAt
<1>3. ASSUME NEW c \in Connections, UserStep(c) PROVE RowAt(d)'
  <2>1. ASSUME NEW S \in UserSettings, UserSetDisabledOptimizers(c, S)
        PROVE RowAt(d)'
    BY <1>1, <2>1 DEF UserSetDisabledOptimizers, RowAt
  <2>2. ASSUME NEW b \in ScalarModes, UserSetScalarSubqueryError(c, b)
        PROVE RowAt(d)'
    BY <1>1, <2>2 DEF UserSetScalarSubqueryError, RowAt
  <2>3. ASSUME NEW mode \in UserModes, UserSetConfig(c, mode)
        PROVE RowAt(d)'
    BY <1>1, <2>3 DEF UserSetConfig, RowAt
  <2>4. ASSUME NEW p \in Params, Bind(c, p) PROVE RowAt(d)'
    BY <1>1, <2>4 DEF Bind, RowAt, TypeOK
  <2>5. CASE Execute(c)
    BY <1>1, <2>5 DEF Execute, RowAt, TypeOK
  <2>6. QED
    BY <1>3, <2>1, <2>2, <2>3, <2>4, <2>5 DEF UserStep
<1>4. ASSUME NEW c \in Connections, CallStep(c) PROVE RowAt(d)'
  <2>1. CASE ToSubFunction(c)
    <3>1. CASE data[c].finished
      BY <1>1, <2>1, <3>1 DEF ToSubFunction, RowAt, TypeOK
    <3>2. CASE ~data[c].finished
      <4>1. SaveOptions(c) /\ pass' = [pass EXCEPT ![c] = 1]
        BY <2>1, <3>2 DEF ToSubFunction
      <4>2. QED
        BY <1>1, <3>2, <4>1, RowSave DEF TypeOK
    <3>3. QED
      BY <3>1, <3>2
  <2>2. CASE MergeForced(c)
    BY <1>1, <2>2 DEF MergeForced, RowAt, TypeOK
  <2>3. CASE WriteOptions(c)
    BY <1>1, <2>3 DEF WriteOptions, RowAt, TypeOK
  <2>4. CASE CreatePlan(c)
    BY <1>1, <2>4 DEF CreatePlan, RowAt, TypeOK
  <2>5. CASE ExtractThrows(c)
    BY <1>1, <2>5 DEF ExtractThrows, RowAt, TypeOK
  <2>6. CASE CleanupConnection(c)
    <3>1. Forget(data[c]).finished = data[c].finished
      BY DEF Forget, FreshData
    <3>2. QED
      BY <1>1, <2>6, <3>1 DEF CleanupConnection, RowAt, TypeOK
  <2>7. ASSUME NEW o \in Optimizers, RunOptimizer(c, o) PROVE RowAt(d)'
    BY <1>1, <2>7 DEF RunOptimizer, RowAt
  <2>8. CASE FinishOptimize(c)
    BY <1>1, <2>8 DEF FinishOptimize, RowAt, TypeOK
  <2>9. CASE Serialize(c)
    <3>1. RowAt(c)
      BY DEF RowInv
    <3>2. CASE pass[c] = 1
      <4>1. /\ rows' = [rows EXCEPT ![c] = rows[c] + 1]
            /\ data' = [data EXCEPT ![c] =
                            [data[c] EXCEPT !.finished = TRUE]]
            /\ pass' = pass /\ pc[c] = "extracted"
            /\ pc' = [pc EXCEPT ![c] = pc'[c]]
            /\ pc'[c] \in {"verify", "fetch"}
        BY <2>9, <3>2 DEF Serialize, TypeOK
      <4>2. rows[c] = 0
        BY <3>1, <3>2, <4>1 DEF RowAt, TypeOK
      <4>3. data'[c].finished
        BY <4>1 DEF TypeOK, Data
      <4>4. c # d => data'[d] = data[d] /\ rows'[d] = rows[d]
                     /\ pc'[d] = pc[d]
        BY <4>1 DEF TypeOK
      <4>5. rows'[c] = 1
        BY <4>1, <4>2 DEF TypeOK
      <4>6. QED
        BY <1>1, <4>1, <4>3, <4>4, <4>5 DEF RowAt
    <3>3. CASE pass[c] # 1
      BY <1>1, <2>9, <3>3 DEF Serialize, RowAt, TypeOK
    <3>4. QED
      BY <3>2, <3>3
  <2>10. CASE SerializeThrows(c)
    BY <1>1, <2>10 DEF SerializeThrows, RowAt, TypeOK
  <2>11. CASE Verify(c)
    <3>1. CASE pass[c] = 1
      <4>1. SaveOptions(c) /\ pass' = [pass EXCEPT ![c] = 2]
        BY <2>11, <3>1 DEF Verify
      <4>2. QED
        BY <1>1, <4>1, RowSave DEF TypeOK
    <3>2. CASE pass[c] # 1
      BY <1>1, <2>11, <3>2 DEF Verify, RowAt, TypeOK
    <3>3. QED
      BY <3>1, <3>2
  <2>12. CASE VerifyThrows(c)
    BY <1>1, <2>12 DEF VerifyThrows, RowAt, TypeOK
  <2>13. QED
    BY <1>4, <2>1, <2>2, <2>3, <2>4, <2>5, <2>6, <2>7, <2>8, <2>9, <2>10,
       <2>11, <2>12 DEF CallStep
<1>5. QED
  BY <1>2, <1>3, <1>4 DEF Next

\* The flag and the row count start at nothing.
LEMMA RowInit == Init => RowInv
BY DEF Init, RowInv, RowAt, Converting, InWindow

\* Under any interleaving and any error, one execution returns at most one
\* row, and a statement that returned it is marked finished.
THEOREM AtMostOneRow == Spec => []OneRow
<1>1. RowInv => OneRow
  BY DEF RowInv, RowAt, OneRow
<1>2. QED
  BY <1>1, TypeInit, TypeStep, RowInit, RowStep, PTL DEF Spec

-----------------------------------------------------------------------------
(* The decision of the call.                                               *)

\* From CreatePlan on the plan carries the decision, and an optimizer only
\* runs after one for optimizing.
HonourAt(c) ==
    /\ pc[c] \in {"optimizing", "cleanup", "extracted"} =>
           work[c].optimized = data[c].enable_optimizer
    /\ pc[c] = "optimizing" => data[c].enable_optimizer
    /\ pc[c] \in {"cleanup", "extracted"} =>
           data[c].enable_optimizer \/ work[c].ran = {}
HonourInv == \A c \in Connections : HonourAt(c)

\* Saving the options, a connection is before CreatePlan again.
LEMMA HonourSave ==
    ASSUME TypeOK, NEW c \in Connections, NEW d \in Connections, HonourAt(d),
           SaveOptions(c)
    PROVE  HonourAt(d)'
<1>1. CASE c = d
  <2>1. pc'[d] = "saved"
    BY <1>1 DEF SaveOptions, Goto, TypeOK
  <2>2. QED
    BY <2>1 DEF HonourAt
<1>2. CASE c # d
  <2>1. pc'[d] = pc[d] /\ data'[d] = data[d] /\ work' = work
    BY <1>2 DEF SaveOptions, Goto, TypeOK
  <2>2. QED
    BY <2>1 DEF HonourAt
<1>3. QED
  BY <1>1, <1>2

\* Every step of every connection keeps HonourInv; that the planner finds
\* the decision in the connection's own options is OwnConfig.
LEMMA HonourStep == TypeOK /\ OwnConfig /\ HonourInv /\ [Next]_vars => HonourInv'
<1> SUFFICES ASSUME TypeOK, OwnConfig, HonourInv, [Next]_vars,
                    NEW d \in Connections
             PROVE HonourAt(d)'
  BY DEF HonourInv
<1> USE DEF Goto, At, settings, user
<1>1. HonourAt(d)
  BY DEF HonourInv
<1>2. CASE UNCHANGED vars
  BY <1>1, <1>2 DEF vars, HonourAt
<1>3. ASSUME NEW c \in Connections, UserStep(c) PROVE HonourAt(d)'
  <2>1. ASSUME NEW S \in UserSettings, UserSetDisabledOptimizers(c, S)
        PROVE HonourAt(d)'
    BY <1>1, <2>1 DEF UserSetDisabledOptimizers, HonourAt
  <2>2. ASSUME NEW b \in ScalarModes, UserSetScalarSubqueryError(c, b)
        PROVE HonourAt(d)'
    BY <1>1, <2>2 DEF UserSetScalarSubqueryError, HonourAt
  <2>3. ASSUME NEW mode \in UserModes, UserSetConfig(c, mode)
        PROVE HonourAt(d)'
    BY <1>1, <2>3 DEF UserSetConfig, HonourAt
  <2>4. ASSUME NEW p \in Params, Bind(c, p) PROVE HonourAt(d)'
    BY <1>1, <2>4 DEF Bind, HonourAt, TypeOK
  <2>5. CASE Execute(c)
    BY <1>1, <2>5 DEF Execute, HonourAt, TypeOK
  <2>6. QED
    BY <1>3, <2>1, <2>2, <2>3, <2>4, <2>5 DEF UserStep
<1>4. ASSUME NEW c \in Connections, CallStep(c) PROVE HonourAt(d)'
  <2>1. CASE ToSubFunction(c)
    <3>1. CASE data[c].finished
      BY <1>1, <2>1, <3>1 DEF ToSubFunction, HonourAt, TypeOK
    <3>2. CASE ~data[c].finished
      BY <1>1, <2>1, <3>2, HonourSave DEF ToSubFunction
    <3>3. QED
      BY <3>1, <3>2
  <2>2. CASE MergeForced(c)
    BY <1>1, <2>2 DEF MergeForced, HonourAt, TypeOK
  <2>3. CASE WriteOptions(c)
    BY <1>1, <2>3 DEF WriteOptions, HonourAt, TypeOK
  <2>4. CASE CreatePlan(c)
    <3>1. config[c].enable_optimizer = data[c].enable_optimizer
      BY <2>4 DEF CreatePlan, OwnConfig, ConfigAt, InWindow
    <3>2. /\ work'[c].optimized = config[c].enable_optimizer
          /\ work'[c].ran = {}
          /\ pc'[c] = IF config[c].enable_optimizer THEN "optimizing"
                                                    ELSE "cleanup"
          /\ data' = data
          /\ c # d => work'[d] = work[d] /\ pc'[d] = pc[d]
      BY <2>4 DEF CreatePlan, TypeOK
    <3>3. QED
      BY <1>1, <3>1, <3>2 DEF HonourAt
  <2>5. CASE ExtractThrows(c)
    BY <1>1, <2>5 DEF ExtractThrows, HonourAt, TypeOK
  <2>6. CASE CleanupConnection(c)
    <3>1. Forget(data[c]).enable_optimizer = data[c].enable_optimizer
      BY DEF Forget, FreshData
    <3>2. QED
      BY <1>1, <2>6, <3>1 DEF CleanupConnection, HonourAt, TypeOK
  <2>7. ASSUME NEW o \in Optimizers, RunOptimizer(c, o) PROVE HonourAt(d)'
    <3>1. /\ work'[c].optimized = work[c].optimized
          /\ c # d => work'[d] = work[d]
          /\ data' = data /\ pc' = pc /\ pc[c] = "optimizing"
      BY <2>7 DEF RunOptimizer, TypeOK, Work
    <3>2. QED
      BY <1>1, <3>1 DEF HonourAt
  <2>8. CASE FinishOptimize(c)
    BY <1>1, <2>8 DEF FinishOptimize, HonourAt, TypeOK
  <2>9. CASE Serialize(c)
    BY <1>1, <2>9 DEF Serialize, HonourAt, TypeOK
  <2>10. CASE SerializeThrows(c)
    BY <1>1, <2>10 DEF SerializeThrows, HonourAt, TypeOK
  <2>11. CASE Verify(c)
    <3>1. CASE pass[c] = 1
      BY <1>1, <2>11, <3>1, HonourSave DEF Verify
    <3>2. CASE pass[c] # 1
      BY <1>1, <2>11, <3>2 DEF Verify, HonourAt, TypeOK
    <3>3. QED
      BY <3>1, <3>2
  <2>12. CASE VerifyThrows(c)
    BY <1>1, <2>12 DEF VerifyThrows, HonourAt, TypeOK
  <2>13. QED
    BY <1>4, <2>1, <2>2, <2>3, <2>4, <2>5, <2>6, <2>7, <2>8, <2>9, <2>10,
       <2>11, <2>12 DEF CallStep
<1>5. QED
  BY <1>2, <1>3, <1>4 DEF Next

\* Whatever other connections do, a plan is optimized exactly if its own call
\* asked for it, in the second pass of a verified call as in the first.
THEOREM PlansHonourParameter == Spec => []PlanHonoursParameter
<1>1. Init => OwnConfig /\ HonourInv
  BY DEF Init, OwnConfig, ConfigAt, InWindow, HonourInv, HonourAt
<1>2. HonourInv => PlanHonoursParameter
  BY DEF HonourInv, HonourAt, PlanHonoursParameter
<1>3. QED
  BY <1>1, <1>2, TypeInit, TypeStep, OwnConfigStep, HonourStep, PTL DEF Spec

-----------------------------------------------------------------------------
(* The damage overlapping calls can do.                                    *)

\* Every copy of the shared set, saved, merged or current, is a reachable one.
DamageInv ==
    /\ dbDisabled \in Reachable
    /\ \A c \in Connections :
           /\ data[c].original_disabled_optimizers \in Reachable
           /\ merged[c] \in Reachable

\* Adding the forced optimizers leads from a reachable set to a reachable one.
LEMMA ReachableClosed ==
    {} \in Reachable /\ \A S \in Reachable : S \cup Forced \in Reachable
<1>1. {} \in Reachable
  BY DEF Reachable, Asked
<1>2. ASSUME NEW S \in Reachable PROVE S \cup Forced \in Reachable
  <2>1. CASE S \in Asked
    BY <2>1 DEF Reachable
  <2>2. ASSUME NEW T \in Asked, S = T \cup Forced
        PROVE  S \cup Forced \in Reachable
    <3>1. S \cup Forced = T \cup Forced
      BY <2>2
    <3>2. QED
      BY <3>1 DEF Reachable
  <2>3. QED
    BY <1>2, <2>1, <2>2 DEF Reachable
<1>3. QED
  BY <1>1, <1>2

\* Saving copies the current set.
LEMMA DamageSave ==
    ASSUME TypeOK, DamageInv, NEW c \in Connections, SaveOptions(c)
    PROVE  DamageInv'
<1>1. /\ data' = [data EXCEPT ![c] = [data[c] EXCEPT
              !.original_config = config[c],
              !.original_disabled_optimizers = dbDisabled]]
      /\ UNCHANGED <<dbDisabled, merged>>
  BY DEF SaveOptions
<1>2. data'[c].original_disabled_optimizers = dbDisabled
  BY <1>1 DEF TypeOK, Data
<1>3. QED
  BY <1>1, <1>2 DEF DamageInv, TypeOK

\* Every step of every connection keeps DamageInv.
LEMMA DamageStep == TypeOK /\ DamageInv /\ [Next]_vars => DamageInv'
<1> SUFFICES ASSUME TypeOK, DamageInv, [Next]_vars PROVE DamageInv'
  OBVIOUS
<1> USE DEF Goto, settings, user
<1>1. CASE UNCHANGED vars
  BY <1>1 DEF vars, DamageInv
<1>2. ASSUME NEW c \in Connections, UserStep(c) PROVE DamageInv'
  <2>1. ASSUME NEW S \in UserSettings, UserSetDisabledOptimizers(c, S)
        PROVE DamageInv'
    BY <2>1 DEF UserSetDisabledOptimizers, DamageInv, Reachable, Asked
  <2>2. ASSUME NEW b \in ScalarModes, UserSetScalarSubqueryError(c, b)
        PROVE DamageInv'
    BY <2>2 DEF UserSetScalarSubqueryError, DamageInv
  <2>3. ASSUME NEW mode \in UserModes, UserSetConfig(c, mode)
        PROVE DamageInv'
    BY <2>3 DEF UserSetConfig, DamageInv
  <2>4. ASSUME NEW p \in Params, Bind(c, p) PROVE DamageInv'
    BY <2>4, ReachableClosed DEF Bind, FreshData, DamageInv, TypeOK
  <2>5. CASE Execute(c)
    BY <2>5 DEF Execute, DamageInv
  <2>6. QED
    BY <1>2, <2>1, <2>2, <2>3, <2>4, <2>5 DEF UserStep
<1>3. ASSUME NEW c \in Connections, CallStep(c) PROVE DamageInv'
  <2>1. CASE SaveOptions(c)
    BY <2>1, DamageSave
  <2>2. CASE MergeForced(c)
    BY <2>2, ReachableClosed DEF MergeForced, DamageInv, TypeOK
  <2>3. CASE WriteOptions(c)
    BY <2>3, ReachableClosed DEF WriteOptions, DamageInv, TypeOK
  <2>4. CASE CleanupConnection(c)
    BY <2>4, ReachableClosed
       DEF CleanupConnection, Forget, FreshData, DamageInv, TypeOK
  <2>5. CASE Serialize(c)
    <3>1. ASSUME NEW d \in Connections
          PROVE  data'[d].original_disabled_optimizers
                   = data[d].original_disabled_optimizers
      BY <2>5 DEF Serialize, TypeOK, Data
    <3>2. QED
      BY <2>5, <3>1 DEF Serialize, DamageInv
  <2>6. CASE UNCHANGED <<dbDisabled, data, merged>>
    BY <2>6 DEF DamageInv
  <2>7. QED
    BY <1>3, <2>1, <2>2, <2>3, <2>4, <2>5, <2>6
       DEF CallStep, ToSubFunction, CreatePlan, ExtractThrows, RunOptimizer,
           FinishOptimize, SerializeThrows, Verify, VerifyThrows
<1>4. QED
  BY <1>1, <1>2, <1>3 DEF Next

\* However calls and settings overlap, the shared set stays one that a user
\* asked for, with or without the forced optimizers.
THEOREM DamageBounded == Spec => []DamageIsBounded
<1>1. ASSUME Init PROVE DamageInv
  <2>1. \A c \in Connections :
            /\ data[c].original_disabled_optimizers = {}
            /\ merged[c] = {}
    BY <1>1 DEF Init, FreshData
  <2>2. QED
    BY <1>1, <2>1, ReachableClosed DEF Init, DamageInv
<1>2. DamageInv => DamageIsBounded
  BY DEF DamageInv, DamageIsBounded
<1>3. QED
  BY <1>1, <1>2, TypeInit, TypeStep, DamageStep, PTL DEF Spec

-----------------------------------------------------------------------------
(* Serialized calls.                                                       *)

\* At most one connection is converting.
OneConverting ==
    \A c, d \in Connections : Converting(c) /\ Converting(d) => c = d

\* What the shared set is at each point of c's conversion.
SharedAt(c) ==
    /\ InWindow(c) => data[c].original_disabled_optimizers = userDisabled
    /\ pc[c] \in {"saved", "merged"} => dbDisabled = userDisabled
    /\ At(c, "merged") => merged[c] = userDisabled \cup Forced
    /\ pc[c] \in {"planning", "optimizing", "cleanup", "catch"} =>
           dbDisabled = userDisabled \cup Forced

\* What has become of c's plan: exactly the permitted optimizers have run,
\* except for those still to be tried.
PlanAt(c) ==
    /\ pc[c] \notin {"optimizing", "cleanup", "extracted"} =>
           work[c] = NoWork
    /\ pc[c] \in {"optimizing", "cleanup", "extracted"} =>
           /\ work[c].optimized = data[c].enable_optimizer
           /\ work[c].ran = IF work[c].optimized
                            THEN (Optimizers \ work[c].todo)
                                 \ (userDisabled \cup Forced)
                            ELSE {}
    /\ At(c, "optimizing") => work[c].optimized
    /\ pc[c] \in {"cleanup", "extracted"} => work[c].todo = {}

SerialInv ==
    /\ OneConverting
    /\ SettingsRestored
    /\ \A c \in Connections : SharedAt(c) /\ PlanAt(c)

\* A step of one connection leaves the others where they are.
LEMMA OthersUnaffected ==
    ASSUME TypeOK, NEW c \in Connections, UserStep(c) \/ CallStep(c),
           NEW d \in Connections, c # d
    PROVE  /\ pc'[d] = pc[d] /\ work'[d] = work[d]
<1> USE DEF Goto, TypeOK
<1>1. CASE UserStep(c)
  BY <1>1 DEF UserStep, UserSetDisabledOptimizers, UserSetScalarSubqueryError,
              UserSetConfig, Bind, Execute
<1>2. CASE CallStep(c)
  <2>1. CASE ToSubFunction(c)
    BY <2>1 DEF ToSubFunction, SaveOptions
  <2>2. CASE Verify(c)
    BY <2>2 DEF Verify, SaveOptions
  <2>3. CASE MergeForced(c) \/ WriteOptions(c) \/ FinishOptimize(c)
                 \/ CleanupConnection(c) \/ VerifyThrows(c)
    BY <2>3 DEF MergeForced, WriteOptions, FinishOptimize, CleanupConnection,
                VerifyThrows
  <2>4. CASE CreatePlan(c) \/ ExtractThrows(c) \/ SerializeThrows(c)
    BY <2>4 DEF CreatePlan, ExtractThrows, SerializeThrows
  <2>5. CASE \E o \in Optimizers : RunOptimizer(c, o)
    BY <2>5 DEF RunOptimizer
  <2>6. CASE Serialize(c)
    BY <2>6 DEF Serialize
  <2>7. QED
    BY <1>2, <2>1, <2>2, <2>3, <2>4, <2>5, <2>6 DEF CallStep
<1>3. QED
  BY <1>1, <1>2

\* What a step of c must establish for SerialInv to survive it.
Reestablished(c) ==
    /\ ~InWindow(c) => dbDisabled = userDisabled
    /\ SharedAt(c) /\ PlanAt(c)

\* The statements of a user, made while nobody converts.
LEMMA SerialUserStep ==
    ASSUME TypeOK, NEW c \in Connections, Reestablished(c), UserStep(c)
    PROVE  Reestablished(c)'
<1> USE DEF Goto, At, InWindow, settings, user, Between, Reestablished
<1>1. ASSUME NEW S \in UserSettings, UserSetDisabledOptimizers(c, S)
      PROVE Reestablished(c)'
  BY <1>1 DEF UserSetDisabledOptimizers, SharedAt, PlanAt
<1>2. ASSUME NEW b \in ScalarModes, UserSetScalarSubqueryError(c, b)
      PROVE Reestablished(c)'
  BY <1>2 DEF UserSetScalarSubqueryError, SharedAt, PlanAt
<1>3. ASSUME NEW mode \in UserModes, UserSetConfig(c, mode)
      PROVE Reestablished(c)'
  BY <1>3 DEF UserSetConfig, SharedAt, PlanAt
<1>4. ASSUME NEW p \in Params, Bind(c, p) PROVE Reestablished(c)'
  BY <1>4 DEF Bind, TypeOK, SharedAt, PlanAt
<1>5. CASE Execute(c)
  BY <1>5 DEF Execute, TypeOK, SharedAt, PlanAt
<1>6. QED
  BY <1>1, <1>2, <1>3, <1>4, <1>5 DEF UserStep

\* Saving the options opens the window.
LEMMA SerialSave ==
    ASSUME TypeOK, NEW c \in Connections, Reestablished(c), SaveOptions(c),
           pc[c] \in {"fetch", "verify"}, UNCHANGED user
    PROVE  Reestablished(c)'
<1>1. /\ pc'[c] = "saved" /\ work'[c] = work[c] /\ dbDisabled' = dbDisabled
      /\ userDisabled' = userDisabled
      /\ data'[c] = [data[c] EXCEPT !.original_config = config[c],
                        !.original_disabled_optimizers = dbDisabled]
  BY DEF SaveOptions, Goto, TypeOK, user
<1>2. data'[c].original_disabled_optimizers = dbDisabled
  BY <1>1 DEF TypeOK, Data
<1>3. dbDisabled = userDisabled /\ work[c] = NoWork
  BY DEF Reestablished, InWindow, PlanAt
<1>4. QED
  BY <1>1, <1>2, <1>3 DEF Reestablished, InWindow, SharedAt, PlanAt, At

\* The steps of a conversion, made while nobody else converts.
LEMMA SerialCallStep ==
    ASSUME TypeOK, NEW c \in Connections, Reestablished(c), ConfigAt(c),
           CallStep(c)
    PROVE  Reestablished(c)'
<1> USE DEF Goto, At, InWindow, settings, user, Reestablished
<1>1. CASE ToSubFunction(c)
  <2>1. CASE data[c].finished
    BY <1>1, <2>1 DEF ToSubFunction, TypeOK, SharedAt, PlanAt
  <2>2. CASE ~data[c].finished
    <3>1. SaveOptions(c) /\ UNCHANGED user
      BY <1>1, <2>2 DEF ToSubFunction, SaveOptions
    <3>2. QED
      BY <1>1, <3>1, SerialSave DEF ToSubFunction
  <2>3. QED
    BY <2>1, <2>2
<1>2. CASE MergeForced(c)
  BY <1>2 DEF MergeForced, TypeOK, SharedAt, PlanAt
<1>3. CASE WriteOptions(c)
  BY <1>3 DEF WriteOptions, TypeOK, SharedAt, PlanAt
<1>4. CASE CreatePlan(c)
  <2>1. work'[c] = [optimized |-> config[c].enable_optimizer, ran |-> {},
                    todo |-> IF config[c].enable_optimizer
                             THEN Optimizers ELSE {}]
    BY <1>4 DEF CreatePlan, TypeOK
  <2>2. config[c].enable_optimizer = data[c].enable_optimizer
    BY <1>4 DEF CreatePlan, ConfigAt
  <2>3. PlanAt(c)'
    <3>1. CASE config[c].enable_optimizer
      BY <1>4, <2>1, <2>2, <3>1 DEF CreatePlan, TypeOK, PlanAt
    <3>2. CASE ~config[c].enable_optimizer
      BY <1>4, <2>1, <2>2, <3>2 DEF CreatePlan, TypeOK, PlanAt
    <3>3. QED
      BY <3>1, <3>2
  <2>4. QED
    BY <1>4, <2>3 DEF CreatePlan, TypeOK, SharedAt
<1>5. CASE ExtractThrows(c)
  BY <1>5 DEF ExtractThrows, TypeOK, SharedAt, PlanAt
<1>6. CASE CleanupConnection(c)
  <2>1. dbDisabled' = userDisabled'
    BY <1>6 DEF CleanupConnection, SharedAt
  <2>2. data'[c].enable_optimizer = data[c].enable_optimizer
    BY <1>6 DEF CleanupConnection, TypeOK, Forget, FreshData
  <2>3. PlanAt(c)'
    BY <1>6, <2>2 DEF CleanupConnection, TypeOK, PlanAt
  <2>4. QED
    BY <1>6, <2>1, <2>3 DEF CleanupConnection, TypeOK, SharedAt
<1>7. ASSUME NEW o \in Optimizers, RunOptimizer(c, o)
      PROVE Reestablished(c)'
  <2>1. /\ pc'[c] = "optimizing" /\ pc[c] = "optimizing"
        /\ work[c] \in Work /\ o \in work[c].todo
        /\ UNCHANGED <<dbDisabled, userDisabled, data, merged>>
        /\ work'[c] = [work[c] EXCEPT !.todo = @ \ {o},
                           !.ran = @ \cup ({o} \ dbDisabled)]
    BY <1>7 DEF RunOptimizer, TypeOK
  <2>2. /\ work'[c].todo = work[c].todo \ {o}
        /\ work'[c].ran = work[c].ran \cup ({o} \ dbDisabled)
        /\ work'[c].optimized = work[c].optimized
    BY <2>1 DEF Work
  <2>3. dbDisabled = userDisabled \cup Forced
    BY <2>1 DEF SharedAt
  <2>4. work[c].optimized
    BY <2>1 DEF PlanAt
  <2>5. PlanAt(c)'
    BY <2>1, <2>2, <2>3, <2>4 DEF PlanAt
  <2>6. QED
    BY <2>1, <2>3, <2>5 DEF SharedAt
<1>8. CASE FinishOptimize(c)
  BY <1>8 DEF FinishOptimize, TypeOK, SharedAt, PlanAt
<1>9. CASE Serialize(c)
  <2>1. /\ pc'[c] \in {"verify", "fetch"} /\ work'[c] = NoWork
        /\ UNCHANGED <<dbDisabled, userDisabled>> /\ pc[c] = "extracted"
    BY <1>9 DEF Serialize, TypeOK
  <2>2. QED
    BY <2>1 DEF SharedAt, PlanAt
<1>10. CASE SerializeThrows(c)
  BY <1>10 DEF SerializeThrows, TypeOK, SharedAt, PlanAt
<1>11. CASE Verify(c)
  <2>1. CASE pass[c] = 1
    <3>1. SaveOptions(c) /\ UNCHANGED user
      BY <1>11, <2>1 DEF Verify, SaveOptions
    <3>2. QED
      BY <1>11, <3>1, SerialSave DEF Verify
  <2>2. CASE pass[c] # 1
    BY <1>11, <2>2 DEF Verify, TypeOK, SharedAt, PlanAt
  <2>3. QED
    BY <2>1, <2>2
<1>12. CASE VerifyThrows(c)
  BY <1>12 DEF VerifyThrows, TypeOK, SharedAt, PlanAt
<1>13. QED
  BY <1>1, <1>2, <1>3, <1>4, <1>5, <1>6, <1>7, <1>8, <1>9, <1>10, <1>11,
     <1>12 DEF CallStep

\* SerialInv is inductive for serialized calls.
LEMMA SerialStep ==
    TypeOK /\ OwnConfig /\ SerialInv /\ [SerialNext]_vars => SerialInv'
<1> SUFFICES ASSUME TypeOK, OwnConfig, SerialInv, [SerialNext]_vars
             PROVE  SerialInv'
  OBVIOUS
<1>1. CASE UNCHANGED vars
  BY <1>1 DEF vars, SerialInv, OneConverting, SettingsRestored, Quiescent,
              Converting, InWindow, SharedAt, PlanAt, At
<1>2. ASSUME NEW c \in Connections,
             \A d \in Connections \ {c} : ~Converting(d),
             UserStep(c) \/ CallStep(c)
      PROVE SerialInv'
  <2>1. Reestablished(c)
    BY <1>2 DEF SerialInv, SettingsRestored, Quiescent, Reestablished,
                Converting
  <2>2. Reestablished(c)'
    BY <1>2, <2>1, SerialUserStep, SerialCallStep DEF OwnConfig
  <2>3. \A d \in Connections \ {c} :
            /\ pc'[d] = pc[d] /\ work'[d] = work[d]
            /\ ~Converting(d)' /\ ~InWindow(d)'
    BY <1>2, OthersUnaffected DEF Converting, InWindow
  <2>4. OneConverting'
    BY <2>3 DEF OneConverting
  <2>5. SettingsRestored'
    BY <2>2 DEF Reestablished, SettingsRestored, Quiescent
  <2>6. ASSUME NEW d \in Connections PROVE (SharedAt(d) /\ PlanAt(d))'
    <3>1. CASE d = c
      BY <2>2, <3>1 DEF Reestablished
    <3>2. CASE d # c
      <4>1. /\ pc'[d] = pc[d] /\ work'[d] = work[d] /\ PlanAt(d)
            /\ pc[d] \notin {"saved", "merged", "planning", "optimizing",
                             "cleanup", "catch", "extracted"}
        BY <1>2, <2>3, <3>2 DEF SerialInv, Converting, InWindow
      <4>2. QED
        BY <4>1 DEF SharedAt, PlanAt, At, InWindow
    <3>3. QED
      BY <3>1, <3>2
  <2>7. QED
    BY <2>4, <2>5, <2>6 DEF SerialInv
<1>3. QED
  BY <1>1, <1>2 DEF SerialNext

\* A serialized step is a step.
LEMMA SerialIsStep == [SerialNext]_vars => [Next]_vars
BY DEF SerialNext, Next

\* The serialized behaviours keep the whole invariant.
LEMMA SerialInvariance == SerialSpec => [](TypeOK /\ OwnConfig /\ SerialInv)
<1>1. Init => OwnConfig
  BY DEF Init, OwnConfig, ConfigAt, InWindow
<1>2. Init => SerialInv
  BY DEF Init, SerialInv, OneConverting, SettingsRestored, Converting,
         InWindow, SharedAt, PlanAt, At
<1>3. QED
  BY <1>1, <1>2, TypeInit, TypeStep, OwnConfigStep, SerialStep, SerialIsStep,
     PTL DEF SerialSpec

\* When calls do not overlap, the disabled optimizers of the database are the
\* users' again after every conversion, whichever way it ended.
THEOREM SettingsAreRestored == SerialSpec => []SettingsRestored
<1>1. SerialInv => SettingsRestored
  BY DEF SerialInv
<1>2. QED
  BY <1>1, SerialInvariance, PTL

\* When calls do not overlap, no optimizer shapes a plan that the user
\* disabled or that Substrait cannot express.
THEOREM PlansRespectSettings == SerialSpec => []PlanRespectsSettings
<1>1. TypeOK /\ SerialInv => PlanRespectsSettings
  <2> SUFFICES ASSUME SerialInv, NEW c \in Connections
               PROVE  work[c].ran \cap (Forced \cup userDisabled) = {}
    BY DEF PlanRespectsSettings
  <2>1. PlanAt(c)
    BY DEF SerialInv
  <2>2. CASE pc[c] \in {"optimizing", "cleanup", "extracted"}
    BY <2>1, <2>2 DEF PlanAt
  <2>3. CASE pc[c] \notin {"optimizing", "cleanup", "extracted"}
    BY <2>1, <2>3 DEF PlanAt, NoWork
  <2>4. QED
    BY <2>2, <2>3
<1>2. QED
  BY <1>1, SerialInvariance, PTL

-----------------------------------------------------------------------------
(* Serialized calls implement module Conversion.                           *)

\* The initial states are initial states of Conversion.
LEMMA RefinesInit == Init => Abstract!Init
<1> SUFFICES ASSUME Init PROVE Abstract!Init
  OBVIOUS
<1>1. Statement = [c \in Connections |-> Abstract!NoStatement]
  BY DEF Init, Statement, FreshData, At, Abstract!NoStatement
<1>2. [c \in Connections |-> userConfig[c].enable_optimizer]
        = [c \in Connections |-> TRUE]
  BY DEF Init, DefaultConfig
<1>3. QED
  BY <1>1, <1>2 DEF Init, Abstract!Init, NoPlan, Abstract!NoPlan

\* A step that keeps each connection's flag and decision, and moves between
\* bound locations, is invisible at the level of Conversion.
LEMMA Invisible ==
    ASSUME TypeOK, NEW c \in Connections, pc[c] # "idle", pc'[c] # "idle",
           pc' = [pc EXCEPT ![c] = pc'[c]],
           data' = [data EXCEPT ![c] = data'[c]],
           data'[c].finished = data[c].finished,
           data'[c].enable_optimizer = data[c].enable_optimizer,
           UNCHANGED <<userDisabled, userConfig, output>>
    PROVE  UNCHANGED Abstract!vars
<1>1. ASSUME NEW d \in Connections
      PROVE  /\ (pc'[d] = "idle") = (pc[d] = "idle")
             /\ data'[d].finished = data[d].finished
             /\ data'[d].enable_optimizer = data[d].enable_optimizer
  BY DEF TypeOK
<1>2. Statement' = Statement
  BY <1>1 DEF Statement, At
<1>3. QED
  BY <1>2 DEF Abstract!vars

\* The user's statements are those of Conversion.
LEMMA RefinesUserStep ==
    ASSUME TypeOK, OwnConfig, NEW c \in Connections, UserStep(c)
    PROVE  [Abstract!Next]_(Abstract!vars)
<1> USE OptimizerAssumption DEF Goto, At, settings, user
<1>1. ASSUME NEW S \in UserSettings, UserSetDisabledOptimizers(c, S)
      PROVE  [Abstract!Next]_(Abstract!vars)
  <2>1. Abstract!SetDisabled(S)
    BY <1>1 DEF UserSetDisabledOptimizers, Abstract!SetDisabled, Statement
  <2>2. QED
    BY <2>1 DEF Abstract!Next
<1>2. ASSUME NEW b \in ScalarModes, UserSetScalarSubqueryError(c, b)
      PROVE  [Abstract!Next]_(Abstract!vars)
  BY <1>2 DEF UserSetScalarSubqueryError, Abstract!vars, Statement
<1>3. ASSUME NEW mode \in UserModes, UserSetConfig(c, mode)
      PROVE  [Abstract!Next]_(Abstract!vars)
  <2>1. mode[1] \in BOOLEAN
    BY <1>3
  <2>2. /\ userConfig'[c].enable_optimizer = mode[1]
        /\ \A d \in Connections \ {c} : userConfig'[d] = userConfig[d]
    BY <1>3 DEF UserSetConfig, TypeOK, Configs
  <2>3. [d \in Connections |-> userConfig'[d].enable_optimizer]
          = [[d \in Connections |-> userConfig[d].enable_optimizer]
                EXCEPT ![c] = mode[1]]
    BY <2>2
  <2>4. Abstract!SetEnabled(c, mode[1])
    BY <1>3, <2>3 DEF UserSetConfig, Abstract!SetEnabled, Statement
  <2>5. QED
    BY <2>1, <2>4 DEF Abstract!Next
<1>4. ASSUME NEW p \in Params, Bind(c, p)
      PROVE  [Abstract!Next]_(Abstract!vars)
  <2> DEFINE enable == IF p = "unset" THEN config[c].enable_optimizer
                                      ELSE p = "true"
  <2>1. config[c] = userConfig[c]
    BY <1>4 DEF Bind, Between, OwnConfig, ConfigAt, InWindow
  <2>2. /\ pc' = [pc EXCEPT ![c] = "bound"]
        /\ data' = [data EXCEPT ![c] = FreshData(enable)]
    BY <1>4 DEF Bind
  <2>3. /\ FreshData(enable).finished = FALSE
        /\ FreshData(enable).enable_optimizer = enable
    BY DEF FreshData
  <2>4. Statement' = [Statement EXCEPT ![c] =
            [bound |-> TRUE, done |-> FALSE, optimize |-> enable]]
    BY <2>2, <2>3 DEF Statement, TypeOK
  <2>5. Abstract!Bind(c, p)
    BY <1>4, <2>1, <2>4 DEF Bind, Abstract!Bind
  <2>6. QED
    BY <1>4, <2>5 DEF Abstract!Next
<1>5. CASE Execute(c)
  <2>1. UNCHANGED Abstract!vars
    BY <1>5, Invisible DEF Execute, TypeOK
  <2>2. QED
    BY <2>1
<1>6. QED
  BY <1>1, <1>2, <1>3, <1>4, <1>5 DEF UserStep

\* Serializing the first pass is the conversion itself.
LEMMA RefinesSerialize ==
    ASSUME TypeOK, NEW c \in Connections, RowAt(c), PlanAt(c),
           Serialize(c), pass[c] = 1
    PROVE  Abstract!Convert(c)
<1> USE DEF Goto, At, settings, user
<1>1. pc[c] = "extracted" /\ ~data[c].finished
  BY DEF Serialize, RowAt, Converting
<1>2. /\ pc'[c] # "idle" /\ pc' = [pc EXCEPT ![c] = pc'[c]]
      /\ data' = [data EXCEPT ![c] = [data[c] EXCEPT !.finished = TRUE]]
  BY DEF Serialize, TypeOK
<1>3. /\ data'[c].finished = TRUE
      /\ data'[c].enable_optimizer = data[c].enable_optimizer
      /\ data[c].finished = FALSE
  BY <1>1, <1>2 DEF TypeOK, Data
<1>4. Statement' = [Statement EXCEPT ![c].done = TRUE]
  BY <1>1, <1>2, <1>3 DEF Statement, TypeOK
<1>5. /\ work[c].optimized = data[c].enable_optimizer
      /\ work[c].ran = IF data[c].enable_optimizer
                       THEN Optimizers \ (userDisabled \cup Forced) ELSE {}
  BY <1>1 DEF PlanAt
<1>6. output' = [output EXCEPT ![c] =
         [optimized |-> Statement[c].optimize,
          ran |-> IF Statement[c].optimize
                  THEN Optimizers \ (userDisabled \cup Forced) ELSE {}]]
  BY <1>5 DEF Serialize, Statement
<1>7. Statement[c].bound /\ ~Statement[c].done
  BY <1>1 DEF Statement
<1>8. UNCHANGED <<userDisabled, userConfig>>
  BY DEF Serialize
<1>9. QED
  BY <1>4, <1>6, <1>7, <1>8 DEF Abstract!Convert

\* The other steps of a call are invisible.
LEMMA RefinesCallStep ==
    ASSUME TypeOK, NEW c \in Connections, RowAt(c), PlanAt(c), CallStep(c)
    PROVE  [Abstract!Next]_(Abstract!vars)
<1> USE DEF Goto, At, settings, user
<1>1. ASSUME SaveOptions(c), pc[c] # "idle",
             UNCHANGED <<userDisabled, userConfig>>
      PROVE  UNCHANGED Abstract!vars
  <2>1. data[c] \in Data
    BY DEF TypeOK
  <2>2. /\ data' = [data EXCEPT ![c] = data'[c]]
        /\ data'[c].finished = data[c].finished
        /\ data'[c].enable_optimizer = data[c].enable_optimizer
    BY <1>1, <2>1 DEF SaveOptions, TypeOK, Data
  <2>3. pc' = [pc EXCEPT ![c] = pc'[c]] /\ pc'[c] = "saved"
        /\ UNCHANGED output
    BY <1>1 DEF SaveOptions, TypeOK
  <2>4. QED
    BY <1>1, <2>2, <2>3, Invisible
<1>2. CASE ToSubFunction(c)
  <2>1. CASE data[c].finished
    BY <1>2, <2>1, Invisible DEF ToSubFunction, TypeOK
  <2>2. CASE ~data[c].finished
    <3>1. SaveOptions(c) /\ UNCHANGED <<userDisabled, userConfig>>
      BY <1>2, <2>2 DEF ToSubFunction, SaveOptions
    <3>2. QED
      BY <1>1, <1>2, <3>1 DEF ToSubFunction
  <2>3. QED
    BY <2>1, <2>2
<1>3. CASE Verify(c)
  <2>1. CASE pass[c] = 1
    <3>1. SaveOptions(c) /\ UNCHANGED <<userDisabled, userConfig>>
      BY <1>3, <2>1 DEF Verify, SaveOptions
    <3>2. QED
      BY <1>1, <1>3, <3>1 DEF Verify
  <2>2. CASE pass[c] # 1
    BY <1>3, <2>2, Invisible DEF Verify, TypeOK
  <2>3. QED
    BY <2>1, <2>2
<1>4. CASE CleanupConnection(c)
  <2>1. /\ data' = [data EXCEPT ![c] = data'[c]]
        /\ data'[c].finished = data[c].finished
        /\ data'[c].enable_optimizer = data[c].enable_optimizer
    BY <1>4 DEF CleanupConnection, TypeOK, Forget, FreshData
  <2>2. /\ pc[c] # "idle" /\ pc'[c] # "idle"
        /\ pc' = [pc EXCEPT ![c] = pc'[c]]
        /\ UNCHANGED <<userDisabled, userConfig, output>>
    BY <1>4 DEF CleanupConnection, TypeOK
  <2>3. QED
    BY <2>1, <2>2, Invisible
<1>5. CASE Serialize(c)
  <2>1. CASE pass[c] = 1
    BY <1>5, <2>1, RefinesSerialize DEF Abstract!Next
  <2>2. CASE pass[c] # 1
    BY <1>5, <2>2, Invisible DEF Serialize, TypeOK
  <2>3. QED
    BY <2>1, <2>2
<1>6. CASE MergeForced(c) \/ WriteOptions(c) \/ CreatePlan(c)
               \/ ExtractThrows(c) \/ FinishOptimize(c)
               \/ SerializeThrows(c) \/ VerifyThrows(c)
  BY <1>6, Invisible
     DEF MergeForced, WriteOptions, CreatePlan, ExtractThrows, FinishOptimize,
         SerializeThrows, VerifyThrows, TypeOK
<1>7. CASE \E o \in Optimizers : RunOptimizer(c, o)
  BY <1>7 DEF RunOptimizer, Statement, Abstract!vars
<1>8. QED
  BY <1>2, <1>3, <1>4, <1>5, <1>6, <1>7 DEF CallStep

\* Serialized calls behave as indivisible conversions under the users' own
\* settings: nothing of an earlier call, failed or not, shows in a later one.
THEOREM SerialRefines == SerialSpec => IsAtomic
<1> DEFINE Inv == TypeOK /\ OwnConfig /\ SerialInv /\ RowInv
<1>1. Inv /\ [SerialNext]_vars => [Abstract!Next]_(Abstract!vars)
  <2> SUFFICES ASSUME Inv, [SerialNext]_vars
               PROVE  [Abstract!Next]_(Abstract!vars)
    OBVIOUS
  <2>1. CASE UNCHANGED vars
    BY <2>1 DEF vars, Abstract!vars, Statement, At
  <2>2. ASSUME NEW c \in Connections, UserStep(c)
        PROVE  [Abstract!Next]_(Abstract!vars)
    BY <2>2, RefinesUserStep
  <2>3. ASSUME NEW c \in Connections, CallStep(c)
        PROVE  [Abstract!Next]_(Abstract!vars)
    BY <2>3, RefinesCallStep DEF RowInv, SerialInv
  <2>4. QED
    BY <2>1, <2>2, <2>3 DEF SerialNext
<1>2. SerialSpec => []Inv
  BY SerialInvariance, TypeInit, TypeStep, RowInit, RowStep, SerialIsStep,
     PTL DEF SerialSpec
<1>3. SerialSpec => Init /\ [][SerialNext]_vars
  BY DEF SerialSpec
<1> HIDE DEF Inv
<1>4. QED
  BY <1>1, <1>2, <1>3, RefinesInit, PTL DEF IsAtomic, Abstract!Spec
=============================================================================
