CONSTANTS
    NumRegs = 5
    NumArgRegs = 2
    Locals <- MCLocals
    Globals <- NoGlobals
    Arrays <- NoArrays
    Consts <- MCConsts
    Temps <- TwoTemps
    Labels <- TwoLabels
    Params <- OneParam
    MaxParams = 2
    MaxStack = 2
    LabelsMayForget = TRUE
    x = x
    g = g
    a = a
    k = k
    t1 = t1
    t2 = t2
    t3 = t3
    L1 = L1
    L2 = L2
    NoVar = NoVar
    Junk = Junk
    Stale = Stale
    NoFlight = NoFlight
    EndLabel = EndLabel
    Gone = Gone
SPECIFICATION Spec
SYMMETRY Symmetry
CHECK_DEADLOCK FALSE
INVARIANT OperandsCorrect
