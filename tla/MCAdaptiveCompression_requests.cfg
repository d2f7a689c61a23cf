CONSTANTS
  r1 = r1  r2 = r2  server = server
  None = None
  Users <- AllUsers
  Requests <- BothRequests
  Strategies <- SomeAdaptive
  WINDOW = 2
  CHUNK = 2
  CHUNKS = 5
  MaxLines = 1
  MaxParts = 2
SPECIFICATION Spec
INVARIANTS TypeOK LinesWhole ExaminedInTime DecidedOnCompressible
PROPERTIES ImplementsAppendLog LogCloses
CHECK_DEADLOCK FALSE
