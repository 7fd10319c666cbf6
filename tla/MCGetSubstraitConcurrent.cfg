SPECIFICATION Spec
CONSTANTS
    c1 = c1
    c2 = c2
    in_clause = in_clause
    expression_rewriter = expression_rewriter
    Connections = {c1, c2}
    Optimizers <- MCOptimizers
    Forced <- MCForced
    UserSettings <- JustBoth
    UserModes <- Verified
    ScalarModes = {FALSE}
    Params = {"true", "false"}
INVARIANTS TypeOK ConfigRestored DamageIsBounded OneRow PlanHonoursParameter
SYMMETRY ConnectionSymmetry
