CONSTANTS
    NumRegs = 3
    NumArgRegs = 2
    Locals <- MCLocals
    Globals <- MCGlobals
    Arrays <- MCArrays
    Consts <- MCConsts
    Temps <- TwoTemps
    Labels <- NoLabels
    Params <- OneParam
    MaxParams = 1
    MaxStack = 2
    LabelsMayForget = FALSE
    x = x
    g = g
    a = a
    k = k
    t1 = t1
    t2 = t2
    t3 = t3
    L1 = L1
    L2 = L2
    NoVar = NoVar
    Junk = Junk
    Stale = Stale
    NoFlight = NoFlight
    EndLabel = EndLabel
    Gone = Gone
SPECIFICATION Spec
SYMMETRY Symmetry
INVARIANT PendingFindable
INVARIANT OperandsCorrect
INVARIANT TypeOK
INVARIANT OneRegisterPerVariable
INVARIANT DescriptorTruth
INVARIANT MemoryIsCurrent
