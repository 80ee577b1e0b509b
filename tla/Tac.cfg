SPECIFICATION Spec
CONSTANTS
    Nodes <- MCNodes
    Bodies <- MCBodies
    NumVars = 2
    Dims <- MCDims
    Results = {0, 1, 2}
    Modulus = 13
    MaxCalls = 6
INVARIANT TypeOK
INVARIANT CallsAgree
INVARIANT EndAgrees
INVARIANT FitsAllocator
PROPERTY KeepsGoing
CHECK_DEADLOCK FALSE
