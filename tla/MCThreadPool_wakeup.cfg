CONSTANTS
  w1 = w1  w2 = w2
  t1 = t1  t2 = t2
  None = None
  Workers <- OneWorker
  Tasks <- TwoTasks
SPECIFICATION FairSpec
PROPERTIES OpenPoolRunsTasks
CHECK_DEADLOCK FALSE
