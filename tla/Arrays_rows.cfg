SPECIFICATION Spec
CONSTANTS
    Shapes <- ShapesFlat
    ParamShapes <- NoShapes
    Zero = FALSE
    WholeRows = TRUE
    NoElement = NoElement
INVARIANT RowsAlwaysFilled
CHECK_DEADLOCK FALSE
