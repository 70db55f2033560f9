SPECIFICATION Spec
CONSTANTS
    Texts <- MCTexts
    Window <- MCWindow
    Context = 3
INVARIANTS DroppedForBetter ResultDisjoint NothingExposed IsTheFunction
CHECK_DEADLOCK FALSE
