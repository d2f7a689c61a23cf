CONSTANTS
  w1 = w1  w2 = w2
  t1 = t1  t2 = t2
  None = None
  Workers <- TwoWorkers
  Tasks <- TwoTasks
SPECIFICATION FairSpec
INVARIANTS TypeOK TasksConserved ShutdownDrains
PROPERTIES NoSleepAfterDone ImplementsTaskPool ShutdownReturns AwakeWorkerDrains
CHECK_DEADLOCK FALSE
