SPECIFICATION Spec
CONSTANTS
    c1 = c1
    c2 = c2
    in_clause = in_clause
    expression_rewriter = expression_rewriter
    Connections = {c1, c2}
    Optimizers <- MCOptimizers
    Forced <- MCForced
    UserSettings <- NoneOrUser
    UserModes <- Plain
    ScalarModes = {}
    Params = {"unset"}
INVARIANTS NothingLeaked
SYMMETRY ConnectionSymmetry
