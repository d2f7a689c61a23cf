CONSTANTS
  MaxFiles = 2
  MaxChunks = 1
  MaxErrors = 0
  Modes <- CaughtModes
  None = None
SPECIFICATION TransferSpec
INVARIANTS InStep CompleteTransfer LeftWaiting KilledOnlyAfterErrors WritesOnlyChunks
CHECK_DEADLOCK FALSE
