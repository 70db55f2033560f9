SPECIFICATION Spec
CONSTANTS
    Texts <- MCChains
    Window <- MCWindow
    Context = 4
INVARIANT FormalModelA2
CHECK_DEADLOCK FALSE
