--------------------------- MODULE MCFromSubstrait ---------------------------
(* Two clients and one table, which is created late or has its columns put  *)
(* in another order while plans that declare all or some of them are run.   *)
EXTENDS FromSubstrait

CONSTANTS c1, c2, a, b

MCSchemas == {<<>>, <<a, b>>, <<b, a>>}
Read(base, projection) ==
    [op |-> "read", base |-> base, projection |-> projection]
Append1(base) == [op |-> "insert", base |-> base, projection |-> <<>>]
MCPlans == {Read(<<a, b>>, <<>>), Read(<<b>>, <<>>), Read(<<a, b>>, <<1, 0>>),
            Append1(<<a, b>>)}
Writes == {Append1(<<a, b>>)}
=============================================================================
