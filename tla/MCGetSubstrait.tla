--------------------------- MODULE MCGetSubstrait ---------------------------
(* GetSubstrait on two connections, one forced optimizer and one the user  *)
(* may disable; the user may also disable the forced one.                  *)
EXTENDS GetSubstrait, TLC

CONSTANTS c1, c2, in_clause, expression_rewriter

MCOptimizers == {in_clause, expression_rewriter}
MCForced == {in_clause}
NoneOrUser == {{}, {expression_rewriter}}
JustBoth == {MCOptimizers}

Plain    == {<<TRUE, FALSE>>}
OnOffVerified == {<<TRUE, FALSE>>, <<FALSE, FALSE>>, <<TRUE, TRUE>>}
Verified == {<<TRUE, TRUE>>}

ConnectionSymmetry == Permutations({c1, c2})
=============================================================================
