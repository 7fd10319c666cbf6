---------------------------- MODULE GetSubstrait ----------------------------
(***************************************************************************)
(* The table functions get_substrait and get_substrait_json of             *)
(* src/src/substrait_extension.cpp, called on several connections of one   *)
(* database.  A conversion plans the query on the caller's own context     *)
(* after overwriting some of its settings; the disabled optimizers are a   *)
(* setting of the whole database (DBConfig), so the save, the merge, the   *)
(* write and the restore of one call interleave with those of another.     *)
(*                                                                         *)
(* The parser, the planner, the optimizer and the settings statements are  *)
(* DuckDB's: modelled from how this file calls them.  Whether a plan can   *)
(* be serialized is a choice here.                                         *)
(***************************************************************************)
EXTENDS FiniteSets, Naturals

CONSTANTS Connections,   \* client connections of one database
          Optimizers,    \* DuckDB's OptimizerType values
          Forced,        \* IN_CLAUSE, COMPRESSED_MATERIALIZATION, ...
          UserSettings,  \* values users give SET disabled_optimizers
          UserModes,     \* <<enable_optimizer, enable_verification>> pairs set
          ScalarModes,   \* values set for scalar_subquery_error_on_...
          Params         \* the enable_optimizer parameters calls give

ASSUME OptimizerAssumption ==
    /\ Forced \subseteq Optimizers
    /\ UserSettings \subseteq SUBSET Optimizers
    /\ UserModes \subseteq BOOLEAN \X BOOLEAN
    /\ ScalarModes \subseteq BOOLEAN
    /\ Params \subseteq {"unset", "true", "false"}

VARIABLES
    dbDisabled,    \* DBConfig::options.disabled_optimizers
    dbScalarError, \* DBConfig: scalar_subquery_error_on_multiple_rows
    config,        \* ClientContext::config of each connection
    data,          \* ToSubstraitFunctionData of each connection's statement
    merged,        \* PrepareConnection's local disabled_optimizers
    work,          \* the plan under construction, the optimizers still to try
    output,        \* the plan last written to the output chunk
    rows,          \* rows the running execution has returned
    pc,            \* where each connection is
    pass,          \* 1: the requested form, 2: the other one (verification)
    userDisabled, userScalarError, userConfig \* what users last asked for

settings == <<dbDisabled, dbScalarError, config>>
user     == <<userDisabled, userScalarError, userConfig>>
vars     == <<dbDisabled, dbScalarError, config, data, merged, work, output,
              rows, pc, pass, userDisabled, userScalarError, userConfig>>

Configs == [enable_optimizer: BOOLEAN, use_replacement_scans: BOOLEAN,
            query_verification_enabled: BOOLEAN]
Plans   == [optimized: BOOLEAN, ran: SUBSET Optimizers]
Data    == [enable_optimizer: BOOLEAN, finished: BOOLEAN,
            original_config: Configs,
            original_disabled_optimizers: SUBSET Optimizers]
Work    == [optimized: BOOLEAN, ran: SUBSET Optimizers,
            todo: SUBSET Optimizers]
Labels  == {"idle", "bound", "fetch", "saved", "merged", "planning",
            "optimizing", "cleanup", "catch", "extracted", "verify"}

DefaultConfig == [enable_optimizer |-> TRUE, use_replacement_scans |-> TRUE,
                  query_verification_enabled |-> FALSE]
NoPlan == [optimized |-> FALSE, ran |-> {}]
NoWork == [optimized |-> FALSE, ran |-> {}, todo |-> {}]

\* ToSubstraitFunctionData as its members are initialized.
FreshData(enable) ==
    [enable_optimizer |-> enable, finished |-> FALSE,
     original_config |-> DefaultConfig, original_disabled_optimizers |-> {}]

\* The saved options are not read again once restored: the model drops them.
Forget(d) == [FreshData(d.enable_optimizer) EXCEPT !.finished = d.finished]

Init ==
    /\ dbDisabled = {} /\ userDisabled = {}
    /\ dbScalarError = TRUE /\ userScalarError = TRUE
    /\ config = [c \in Connections |-> DefaultConfig]
    /\ userConfig = config
    /\ data = [c \in Connections |-> FreshData(FALSE)]
    /\ merged = [c \in Connections |-> {}]
    /\ work = [c \in Connections |-> NoWork]
    /\ output = [c \in Connections |-> NoPlan]
    /\ rows = [c \in Connections |-> 0]
    /\ pc = [c \in Connections |-> "idle"]
    /\ pass = [c \in Connections |-> 1]

At(c, l) == pc[c] = l
Goto(c, l) == pc' = [pc EXCEPT ![c] = l]

-----------------------------------------------------------------------------
(* A connection between two statements: settings, and binding a new call.  *)

Between(c) == pc[c] \in {"idle", "bound"}

UserSetDisabledOptimizers(c, S) ==
    /\ Between(c)
    /\ dbDisabled' = S /\ userDisabled' = S
    /\ UNCHANGED <<dbScalarError, config, data, merged, work, output, rows,
                   pc, pass, userScalarError, userConfig>>

UserSetScalarSubqueryError(c, b) ==
    /\ Between(c)
    /\ dbScalarError' = b /\ userScalarError' = b
    /\ UNCHANGED <<dbDisabled, config, data, merged, work, output, rows, pc,
                   pass, userDisabled, userConfig>>

UserSetConfig(c, mode) ==
    /\ Between(c)
    /\ LET new == [config[c] EXCEPT !.enable_optimizer = mode[1],
                                    !.query_verification_enabled = mode[2]]
       IN  /\ config' = [config EXCEPT ![c] = new]
           /\ userConfig' = [userConfig EXCEPT ![c] = new]
    /\ UNCHANGED <<dbDisabled, dbScalarError, data, merged, work, output,
                   rows, pc, pass, userDisabled, userScalarError>>

\* SetOptions: the named parameter wins, else the setting at bind time.
Bind(c, param) ==
    /\ Between(c)
    /\ data' = [data EXCEPT ![c] = FreshData(
           IF param = "unset" THEN config[c].enable_optimizer
                              ELSE param = "true")]
    /\ rows' = [rows EXCEPT ![c] = 0]
    /\ Goto(c, "bound")
    /\ UNCHANGED <<settings, user, merged, work, output, pass>>

Execute(c) ==
    /\ At(c, "bound")
    /\ rows' = [rows EXCEPT ![c] = 0]
    /\ Goto(c, "fetch")
    /\ UNCHANGED <<settings, user, data, merged, work, output, pass>>

-----------------------------------------------------------------------------
(* PrepareConnection, in the order in which it touches the shared set.     *)

\* Mutant: the decision of the call never reaches the planner.
SaveOptionsNoOverride(c) ==
    /\ data' = [data EXCEPT ![c] = [data[c] EXCEPT
           !.original_config = config[c],
           !.original_disabled_optimizers = dbDisabled]]
    /\ config' = [config EXCEPT ![c].use_replacement_scans = FALSE]
    /\ Goto(c, "saved")
    /\ UNCHANGED <<dbDisabled, dbScalarError, user, merged, work, output,
                   rows>>

\* Save both configurations, then overwrite the connection's own.
SaveOptions(c) ==
    /\ data' = [data EXCEPT ![c] = [data[c] EXCEPT
           !.original_config = config[c],
           !.original_disabled_optimizers = dbDisabled]]
    /\ config' = [config EXCEPT ![c] = [config[c] EXCEPT
           !.enable_optimizer = data[c].enable_optimizer,
           !.use_replacement_scans = FALSE]]
    /\ Goto(c, "saved")
    /\ UNCHANGED <<dbDisabled, dbScalarError, user, merged, work, output,
                   rows>>

\* Mutant: the user's own disabled optimizers are not merged in.
MergeForcedOnly(c) ==
    /\ At(c, "saved")
    /\ merged' = [merged EXCEPT ![c] = Forced]
    /\ Goto(c, "merged")
    /\ UNCHANGED <<settings, user, data, work, output, rows, pass>>

\* Read the shared set a second time and add the forced optimizers.
MergeForced(c) ==
    /\ At(c, "saved")
    /\ merged' = [merged EXCEPT ![c] = dbDisabled \cup Forced]
    /\ Goto(c, "merged")
    /\ UNCHANGED <<settings, user, data, work, output, rows, pass>>

WriteOptions(c) ==
    /\ At(c, "merged")
    /\ dbScalarError' = FALSE
    /\ dbDisabled' = merged[c]
    /\ merged' = [merged EXCEPT ![c] = {}]
    /\ Goto(c, "planning")
    /\ UNCHANGED <<config, user, data, work, output, rows, pass>>

-----------------------------------------------------------------------------
(* ExtractPlan: parse and plan, optimize if asked to, restore either way.  *)

CreatePlan(c) ==
    /\ At(c, "planning")
    /\ LET optimize == config[c].enable_optimizer IN
       /\ work' = [work EXCEPT ![c] =
              [optimized |-> optimize, ran |-> {},
               todo |-> IF optimize THEN Optimizers ELSE {}]]
       /\ Goto(c, IF optimize THEN "optimizing" ELSE "cleanup")
    /\ UNCHANGED <<settings, user, data, merged, output, rows, pass>>

\* Optimizer::Optimize looks the setting up anew before each optimizer.
RunOptimizer(c, o) ==
    /\ At(c, "optimizing")
    /\ o \in work[c].todo
    /\ work' = [work EXCEPT ![c] = [work[c] EXCEPT
           !.todo = @ \ {o}, !.ran = @ \cup ({o} \ dbDisabled)]]
    /\ UNCHANGED <<settings, user, data, merged, output, rows, pc, pass>>

FinishOptimize(c) ==
    /\ At(c, "optimizing")
    /\ work[c].todo = {}
    /\ Goto(c, "cleanup")
    /\ UNCHANGED <<settings, user, data, merged, work, output, rows, pass>>

\* Mutant: no catch block, the exception leaves the settings overwritten.
ExtractThrowsUncaught(c) ==
    /\ pc[c] \in {"planning", "optimizing"}
    /\ work' = [work EXCEPT ![c] = NoWork]
    /\ Goto(c, "bound")
    /\ UNCHANGED <<settings, user, data, merged, output, rows, pass>>

\* Parser, planner, optimizer or binding resolver throws: the catch block.
ExtractThrows(c) ==
    /\ pc[c] \in {"planning", "optimizing"}
    /\ work' = [work EXCEPT ![c] = NoWork]
    /\ Goto(c, "catch")
    /\ UNCHANGED <<settings, user, data, merged, output, rows, pass>>

\* Mutant: only the optimizers are restored.
CleanupKeepsConfig(c) ==
    /\ pc[c] \in {"cleanup", "catch"}
    /\ dbDisabled' = data[c].original_disabled_optimizers
    /\ data' = [data EXCEPT ![c] = Forget(data[c])]
    /\ Goto(c, IF At(c, "catch") THEN "bound" ELSE "extracted")
    /\ UNCHANGED <<config, dbScalarError, user, merged, work, output, rows,
                   pass>>

\* Mutant: instead of the saved set, the forced optimizers are taken out.
CleanupRemovesForced(c) ==
    /\ pc[c] \in {"cleanup", "catch"}
    /\ dbDisabled' = dbDisabled \ Forced
    /\ config' = [config EXCEPT ![c] = data[c].original_config]
    /\ data' = [data EXCEPT ![c] = Forget(data[c])]
    /\ Goto(c, IF At(c, "catch") THEN "bound" ELSE "extracted")
    /\ UNCHANGED <<dbScalarError, user, merged, work, output, rows, pass>>

\* CleanupConnection, from the catch block (which rethrows) or after it.
CleanupConnection(c) ==
    /\ pc[c] \in {"cleanup", "catch"}
    /\ dbDisabled' = data[c].original_disabled_optimizers
    /\ config' = [config EXCEPT ![c] = data[c].original_config]
    /\ data' = [data EXCEPT ![c] = Forget(data[c])]
    /\ Goto(c, IF At(c, "catch") THEN "bound" ELSE "extracted")
    /\ UNCHANGED <<dbScalarError, user, merged, work, output, rows, pass>>

-----------------------------------------------------------------------------
(* ToSubFunction and ToJsonFunction, and the verification they may run.    *)

ToSubFunction(c) ==
    /\ At(c, "fetch")
    /\ IF data[c].finished
       THEN /\ Goto(c, "bound")
            /\ UNCHANGED <<settings, user, data, merged, work, output, rows,
                           pass>>
       ELSE /\ pass' = [pass EXCEPT ![c] = 1]
            /\ SaveOptions(c)

\* Mutant: the finished flag is never set.
SerializeUnfinished(c) ==
    /\ At(c, "extracted")
    /\ work' = [work EXCEPT ![c] = NoWork]
    /\ output' = [output EXCEPT ![c] =
           [optimized |-> work[c].optimized, ran |-> work[c].ran]]
    /\ rows' = [rows EXCEPT ![c] = IF @ < 2 THEN @ + 1 ELSE @]
    /\ Goto(c, "fetch")
    /\ UNCHANGED <<settings, user, data, merged, pass>>

\* The first pass fills the output chunk; the second fills a scratch chunk.
Serialize(c) ==
    /\ At(c, "extracted")
    /\ work' = [work EXCEPT ![c] = NoWork]
    /\ IF pass[c] = 1
       THEN /\ output' = [output EXCEPT ![c] =
              [optimized |-> work[c].optimized, ran |-> work[c].ran]]
            /\ rows' = [rows EXCEPT ![c] = @ + 1]
            /\ data' = [data EXCEPT ![c] = [data[c] EXCEPT !.finished = TRUE]]
            /\ Goto(c, IF config[c].query_verification_enabled
                       THEN "verify" ELSE "fetch")
       ELSE /\ Goto(c, "verify")
            /\ UNCHANGED <<data, output, rows>>
    /\ UNCHANGED <<settings, user, merged, pass>>

SerializeThrows(c) ==
    /\ At(c, "extracted")
    /\ work' = [work EXCEPT ![c] = NoWork]
    /\ Goto(c, "bound")
    /\ UNCHANGED <<settings, user, data, merged, output, rows, pass>>

\* Mutant: the verification of the second form asks for yet another one.
VerifyEndless(c) ==
    /\ At(c, "verify")
    /\ pass' = [pass EXCEPT ![c] = @ + 1]
    /\ SaveOptions(c)

\* The round trip agrees: the other form is converted next, or all is done.
Verify(c) ==
    /\ At(c, "verify")
    /\ IF pass[c] = 1
       THEN /\ pass' = [pass EXCEPT ![c] = 2]
            /\ SaveOptions(c)
       ELSE /\ Goto(c, "fetch")
            /\ UNCHANGED <<settings, user, data, merged, work, output, rows,
                           pass>>

\* The results differ, or executing either of them fails.
VerifyThrows(c) ==
    /\ At(c, "verify")
    /\ Goto(c, "bound")
    /\ UNCHANGED <<settings, user, data, merged, work, output, rows, pass>>

-----------------------------------------------------------------------------
UserStep(c) ==
    \/ \E S \in UserSettings : UserSetDisabledOptimizers(c, S)
    \/ \E b \in ScalarModes : UserSetScalarSubqueryError(c, b)
    \/ \E mode \in UserModes : UserSetConfig(c, mode)
    \/ \E p \in Params : Bind(c, p)
    \/ Execute(c)

CallStep(c) ==
    \/ ToSubFunction(c) \/ MergeForced(c) \/ WriteOptions(c)
    \/ CreatePlan(c) \/ ExtractThrows(c) \/ CleanupConnection(c)
    \/ (\E o \in Optimizers : RunOptimizer(c, o)) \/ FinishOptimize(c)
    \/ Serialize(c) \/ SerializeThrows(c) \/ Verify(c) \/ VerifyThrows(c)

Next == \E c \in Connections : UserStep(c) \/ CallStep(c)

\* A call that has started is run to its end by the thread that executes it.
Fairness == \A c \in Connections : WF_vars(CallStep(c))

Spec == Init /\ [][Next]_vars /\ Fairness

-----------------------------------------------------------------------------
(* Callers that never let two conversions, or a conversion and a setting,  *)
(* overlap: the only use under which the shared set is safe.               *)

\* Between the save and the restore of the settings.
InWindow(c) == pc[c] \in {"saved", "merged", "planning", "optimizing",
                          "cleanup", "catch"}
Converting(c) == InWindow(c) \/ pc[c] = "extracted"

SerialNext ==
    \E c \in Connections :
        /\ \A d \in Connections \ {c} : ~Converting(d)
        /\ UserStep(c) \/ CallStep(c)

SerialSpec == Init /\ [][SerialNext]_vars /\ Fairness

-----------------------------------------------------------------------------
(* Properties.                                                             *)

\* Every variable has its type.
TypeOK ==
    /\ dbDisabled \in SUBSET Optimizers /\ userDisabled \in SUBSET Optimizers
    /\ dbScalarError \in BOOLEAN /\ userScalarError \in BOOLEAN
    /\ config \in [Connections -> Configs]
    /\ userConfig \in [Connections -> Configs]
    /\ data \in [Connections -> Data]
    /\ merged \in [Connections -> SUBSET Optimizers]
    /\ work \in [Connections -> Work]
    /\ output \in [Connections -> Plans]
    /\ rows \in [Connections -> Nat]
    /\ pc \in [Connections -> Labels]
    /\ pass \in [Connections -> {1, 2}]

Quiescent == \A c \in Connections : ~InWindow(c)

\* Whatever the other connections do and whichever step throws, a connection
\* has its own options back as soon as ExtractPlan is left (the catch block
\* and the normal path of CleanupConnection both restore context.config).
ConfigRestored ==
    \A c \in Connections : ~InWindow(c) => config[c] = userConfig[c]

\* With serialized calls the database-wide set is, whenever no conversion is
\* between PrepareConnection and CleanupConnection, what a user last set.
SettingsRestored == Quiescent => dbDisabled = userDisabled

\* With serialized calls no plan is shaped by an optimizer that Substrait
\* cannot express or that the user disabled (the comment in PrepareConnection
\* and the README's promise about SET disabled_optimizers).
PlanRespectsSettings ==
    \A c \in Connections :
        work[c].ran \cap (Forced \cup userDisabled) = {}

\* The plan is optimized exactly if the call asked for it, although the
\* decision travels through the connection's own enable_optimizer option.
PlanHonoursParameter ==
    \A c \in Connections :
        pc[c] \in {"optimizing", "cleanup", "extracted"} =>
            /\ work[c].optimized = data[c].enable_optimizer
            /\ ~data[c].enable_optimizer => work[c].ran = {}

\* One execution returns at most one row, and only while its statement is
\* marked finished: the scan protocol of ToSubFunction cannot run on.
OneRow ==
    \A c \in Connections :
        rows[c] <= 1 /\ (rows[c] = 1 => data[c].finished)

\* The sets users ask for, each also with the forced optimizers added.
Asked     == UserSettings \cup {{}}
Reachable == Asked \cup {S \cup Forced : S \in Asked}

\* Even under the worst interleaving the shared set is one a user asked for,
\* with or without the forced optimizers: a race loses a SET or leaks the
\* forced ones, and never invents any other combination.
DamageIsBounded == dbDisabled \in Reachable

\* A started execution ends: it returns its rows or raises an error.
ExecutionEnds ==
    \A c \in Connections : At(c, "fetch") ~> At(c, "bound")

\* The bound call as module Conversion sees it.
Statement ==
    [c \in Connections |-> [bound |-> ~At(c, "idle"),
                            optimize |-> data[c].enable_optimizer,
                            done |-> data[c].finished]]

Abstract == INSTANCE Conversion WITH
    disabled <- userDisabled, statement <- Statement, output <- output,
    enabled <- [c \in Connections |-> userConfig[c].enable_optimizer]

\* Serialized calls implement module Conversion: each plan is the one an
\* indivisible conversion under the users' own settings would produce, so no
\* earlier call, failed or not, shows through in a later one.
IsAtomic == Abstract!Spec

-----------------------------------------------------------------------------
(* What the comments promise and overlapping calls, or one setting, break.  *)

\* "Reset configuration": no optimizer stays disabled once all calls ended.
NothingLeaked == Quiescent => dbDisabled \subseteq userDisabled

\* "Reset configuration": the scalar subquery setting comes back as well.
ScalarErrorRestored == Quiescent => dbScalarError = userScalarError
=============================================================================
