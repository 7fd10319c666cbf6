SPECIFICATION Spec
CONSTANTS
    c1 = c1
    c2 = c2
    in_clause = in_clause
    expression_rewriter = expression_rewriter
    Connections = {c1}
    Optimizers <- MCOptimizers
    Forced <- MCForced
    UserSettings <- NoneOrUser
    UserModes <- Plain
    ScalarModes = {TRUE, FALSE}
    Params = {"unset"}
INVARIANTS ScalarErrorRestored
