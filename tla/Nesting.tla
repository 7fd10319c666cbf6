------------------------------- MODULE Nesting -------------------------------
(***************************************************************************)
(* Expressions within expressions.  DuckDB's expressions and Substrait's   *)
(* are both records with args, a sequence of expressions, and both         *)
(* translations and the meaning recurse over it.  The recursion is over    *)
(* the finitely many expressions within the one that is given.             *)
(***************************************************************************)
EXTENDS Integers, Sequences, Functions

MaxNesting == 4   \* how deep expressions are looked into

Arguments(S) == UNION {Range(x.args) : x \in S}

\* The expression e, its arguments, theirs and so on.
Within(e) ==
    LET from[n \in 0..MaxNesting] ==
            IF n = 0 THEN {e}
            ELSE LET S == from[n - 1] IN S \cup Arguments(S)
    IN  IF e.args = <<>> THEN {e} ELSE from[MaxNesting]

\* What step makes of e and of what it made of e's arguments.
Folded(step(_, _), e) ==
    LET made[x \in Within(e)] ==
            step(x, [k \in DOMAIN x.args |-> made[x.args[k]]])
    IN  made[e]
=============================================================================
