SPECIFICATION Spec
CONSTANTS
    Ids <- XY
    GlobalIds <- X
    Funcs <- OneFunction
    Sizes <- OneWord
    MaxParams = 0
    MaxBlocks = 2
    MaxNodes = 4
    MaxDepth = 3
    MayRedeclare = TRUE
PROPERTY RedeclarationIsDropped
CHECK_DEADLOCK FALSE
