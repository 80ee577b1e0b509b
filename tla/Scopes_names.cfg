SPECIFICATION Spec
CONSTANTS
    Ids <- XY
    GlobalIds <- X
    Funcs <- TwoFunctions
    Sizes <- TwoWords
    MaxParams = 1
    MaxBlocks = 3
    MaxNodes = 4
    MaxDepth = 3
    MayRedeclare = FALSE
INVARIANT TypeOK
INVARIANT UsesFindInnermost
INVARIANT SymbolsFindEveryNode
INVARIANT FrameSlotsDisjoint
PROPERTY ImplementsScopes
CHECK_DEADLOCK FALSE
