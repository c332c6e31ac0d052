SPECIFICATION FairSpec
CONSTANTS
  w1 = w1
  w2 = w2
  c1 = c1
  c2 = c2
  t1 = t1
  t2 = t2
  t3 = t3
  NoTask = NoTask
  Workers <- TwoWorkers
  Clients <- TwoClients
  Task <- ThreeTasks
  MaxWorkerWakes = 1
  MaxClientWakes = 1
CHECK_DEADLOCK FALSE
INVARIANTS
  CompleteIsExact
  TasksInv
PROPERTIES
  WaitCoversEarlierTasks
  EveryTaskRuns
  LoneWaitEnds
  DestructorEnds
