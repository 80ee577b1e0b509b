SPECIFICATION Spec
CONSTANTS
    Sources <- MCSources
    Library <- MCLibrary
    Spelling <- MCSpelling
INVARIANT TypeOK
INVARIANT EveryCharOnce
INVARIANT LibraryIsSeen
INVARIANT ReportsPrint
PROPERTY LexEnds
PROPERTY ImplementsTokens
CHECK_DEADLOCK FALSE
