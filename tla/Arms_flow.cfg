CONSTANTS
    NumRegs = 3
    NumArgRegs = 2
    Locals <- MCLocals
    Globals <- NoGlobals
    Arrays <- NoArrays
    Consts <- NoConsts
    Temps <- TwoTemps
    Labels <- TwoLabels
    Params <- OneParam
    MaxParams = 3
    MaxStack = 2
    LabelsMayForget = FALSE
    x = x
    g = g
    a = a
    k = k
    t1 = t1
    t2 = t2
    t3 = t3
    L1 = L1
    L2 = L2
    NoVar = NoVar
    Junk = Junk
    Stale = Stale
    NoFlight = NoFlight
    EndLabel = EndLabel
    Gone = Gone
SPECIFICATION Spec
SYMMETRY Symmetry
INVARIANT ArgumentsInPlace
INVARIANT OperandsCorrect
PROPERTY CallForgetsRegisters
CHECK_DEADLOCK FALSE
INVARIANT ResultInR0
PROPERTY LabelForgetsVariables
