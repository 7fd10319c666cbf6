SPECIFICATION Spec
CONSTANTS
    Menus <- AllMenus
    IntBits = 4
    Beyond = {}
INVARIANTS ComesBack ResultNamesComeBack WritesComeBack LeftCountExact
CHECK_DEADLOCK FALSE
