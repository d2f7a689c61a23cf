CONSTANTS
  MaxMessages = 5
  None = None
  Message <- Messages
SPECIFICATION FairSpec
INVARIANTS TypeOK ReturnsWholeFiles FilesDoNotOverlap
PROPERTIES ImplementsMessageStream ClientEnds
CHECK_DEADLOCK FALSE
