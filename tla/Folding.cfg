SPECIFICATION FoldSpec
CONSTANTS
    Ids <- XY
    GlobalIds <- XY
    Funcs <- OneFunction
    Sizes = {1}
    MaxParams = 1
    MaxBlocks = 1
    MaxNodes = 4
    MaxDepth = 2
    MayRedeclare = FALSE
    Inits <- MCInits
    Dims <- MCDims
    Exprs <- MCExprs
    NoValue = NoValue
    MaxCalls = 6
INVARIANT FoldTypeOK
INVARIANT FoldsToMeaning
PROPERTY FoldingEnds
CHECK_DEADLOCK FALSE
