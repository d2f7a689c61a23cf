CONSTANTS
  MaxFiles = 2
  MaxChunks = 2
  MaxErrors = 1
  Modes <- AllModes
  None = None
SPECIFICATION FairSpec
INVARIANTS TypeOK StreamWellFormed WakeUpIsDue
PROPERTIES ImplementsMessageStream RequestEnds
CHECK_DEADLOCK FALSE
