\* Six keys, one of them with two items, and two traversers; and trees of up to fourteen
\* nodes whose keys are renumbered.
CONSTANTS
    Items <- MCItems
    Travs = {v1,v2}
    MaxNodes = 14
    NULL = NULL
    Junk = Junk
SPECIFICATION Spec
INVARIANTS RedBlack HoldsItems CopyOutcome
PROPERTIES TraverserInOrder
CHECK_DEADLOCK TRUE
