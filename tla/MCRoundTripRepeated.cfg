SPECIFICATION Spec
CONSTANTS
    Menus <- RepeatedMenu
    IntBits = 4
    Beyond = {"repeated_ref"}
INVARIANTS ComesBack
CHECK_DEADLOCK FALSE
