CONSTANTS
  Requests = {1, 2}
  Words = {"", "root", "sub", "a", "c"}
  Subdirectories <- MCSubdirectories
  Inodes = {1, 2, 3, 4, 5, 6, 7, 8}
  Trees <- MCTrees
  Asked <- MCAsked
  Tools <- MCTools
  CHUNK = 2
  MaxExtensions = 1
SPECIFICATION Spec
INVARIANTS OfferedOnce ChunksCoverFile TreeRestored
CHECK_DEADLOCK FALSE
