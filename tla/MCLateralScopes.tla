-------------------------- MODULE MCLateralScopes --------------------------
(* LateralScopes with two anchors and references that are off by one on    *)
(* either side.                                                            *)
EXTENDS LateralScopes

CONSTANTS a1, a2, none

FieldIndexes == -1..2
AnchorSymmetry == Permutations({a1, a2})
=============================================================================
