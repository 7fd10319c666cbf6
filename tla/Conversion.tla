----------------------------- MODULE Conversion -----------------------------
(***************************************************************************)
(* What a caller of get_substrait is promised, with no trace of how it is  *)
(* done.  A statement is bound once; executing it converts the query in    *)
(* one indivisible step that obeys the settings as users last gave them,   *)
(* whatever was converted before: no optimizer runs that the user disabled *)
(* or that Substrait cannot express, and all the others do.                *)
(***************************************************************************)
CONSTANTS Connections,  \* client connections of one database
          Optimizers,   \* DuckDB's OptimizerType values
          Forced        \* those get_substrait never lets run

VARIABLES disabled,     \* what users last SET disabled_optimizers to
          enabled,      \* per connection, what users last set it to
          statement,    \* per connection, the bound call and its decision
          output        \* per connection, the plan last written to a chunk

vars == <<disabled, enabled, statement, output>>

NoStatement == [bound |-> FALSE, optimize |-> FALSE, done |-> FALSE]
NoPlan      == [optimized |-> FALSE, ran |-> {}]

Init ==
    /\ disabled = {}
    /\ enabled = [c \in Connections |-> TRUE]
    /\ statement = [c \in Connections |-> NoStatement]
    /\ output = [c \in Connections |-> NoPlan]

SetDisabled(S) ==
    /\ disabled' = S
    /\ UNCHANGED <<enabled, statement, output>>

SetEnabled(c, b) ==
    /\ enabled' = [enabled EXCEPT ![c] = b]
    /\ UNCHANGED <<disabled, statement, output>>

\* The parameter of the call decides, else the setting of the connection.
Bind(c, param) ==
    /\ statement' = [statement EXCEPT ![c] =
           [bound |-> TRUE, done |-> FALSE,
            optimize |-> IF param = "unset" THEN enabled[c]
                                            ELSE param = "true"]]
    /\ UNCHANGED <<disabled, enabled, output>>

Convert(c) ==
    /\ statement[c].bound /\ ~statement[c].done
    /\ statement' = [statement EXCEPT ![c].done = TRUE]
    /\ output' = [output EXCEPT ![c] =
           [optimized |-> statement[c].optimize,
            ran |-> IF statement[c].optimize
                    THEN Optimizers \ (disabled \cup Forced) ELSE {}]]
    /\ UNCHANGED <<disabled, enabled>>

Next ==
    \/ \E S \in SUBSET Optimizers : SetDisabled(S)
    \/ \E c \in Connections :
           \/ \E b \in BOOLEAN : SetEnabled(c, b)
           \/ \E param \in {"unset", "true", "false"} : Bind(c, param)
           \/ Convert(c)

Spec == Init /\ [][Next]_vars
=============================================================================
