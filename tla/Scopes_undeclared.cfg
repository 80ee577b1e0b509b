SPECIFICATION Spec
CONSTANTS
    Ids <- XY
    GlobalIds <- X
    Funcs <- TwoFunctions
    Sizes <- OneWord
    MaxParams = 1
    MaxBlocks = 1
    MaxNodes = 3
    MaxDepth = 2
    MayRedeclare = FALSE
INVARIANT UndeclaredIsCaught
CHECK_DEADLOCK FALSE
