CONSTANTS
  w = 1
  BLOCK_SIZE = 2
  HashShift = 1
  HashDrop = 6
  StrideShift = 1
  StrideDrop = 5
  Doubles = {0, 1, 77, 200}
  MaxDoubles = 5
  MaxLevel = 9
  DOUBLE = 2
  Lengths = {2}
  tree <- MCTree
  labels <- MCLabels
  BASE = 4
  SNDBUF = 2
  Requests <- MCRequests
  Turns = {38}
  FILES = 2
  Sizes = {0, 3, 8}
  CHUNK = 4
  OUT = 5
  MODULUS = 1024
SPECIFICATION Spec
INVARIANTS TypeOK FilesRestored FPCRestores EstimateDrained
CHECK_DEADLOCK FALSE
