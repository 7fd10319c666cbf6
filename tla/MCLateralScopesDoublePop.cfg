SPECIFICATION Spec
CONSTANTS
    a1 = a1
    a2 = a2
    none = none
    Anchors = {a1, a2}
    NoAnchor = none
    Widths = {1, 2}
    MaxDepth = 2
    StepsOut = {0, 1, 2, 3, 4, 5}
    Fields <- FieldIndexes
    NestedPostFilters = TRUE
INVARIANTS ReferencesResolve
SYMMETRY AnchorSymmetry
CHECK_DEADLOCK FALSE
