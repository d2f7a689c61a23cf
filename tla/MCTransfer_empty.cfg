CONSTANTS
  MaxFiles = 1
  MaxChunks = 1
  MaxErrors = 0
  Modes <- PlainMode
  None = None
SPECIFICATION FairTransferSpec
PROPERTIES EmptyFileEnds
CHECK_DEADLOCK FALSE
