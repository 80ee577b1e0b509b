SPECIFICATION Spec
CONSTANTS
    Shapes <- ShapesDeep
    ParamShapes <- ShapesParam
    Zero = TRUE
    WholeRows = FALSE
    NoElement = NoElement
INVARIANT TypeOK
INVARIANT LayoutIsC
INVARIANT IndexFindsElement
INVARIANT DataIsArray
CHECK_DEADLOCK FALSE
