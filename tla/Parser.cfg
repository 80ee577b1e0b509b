SPECIFICATION Spec
CONSTANT Files <- MCFiles
INVARIANT TypeOK
INVARIANT OperatorsGroup
INVARIANT TreeIsSource
INVARIANT FaultsReported
PROPERTY MovesForward
PROPERTY EndsFile
CHECK_DEADLOCK FALSE
