SPECIFICATION FairSpec
CONSTANTS
  w1 = w1
  w2 = w2
  c1 = c1
  c2 = c2
  t1 = t1
  t2 = t2
  t3 = t3
  NoTask = NoTask
  Workers <- OneWorker
  Clients <- TwoClients
  Task <- OneTask
  MaxWorkerWakes = 0
  MaxClientWakes = 0
CHECK_DEADLOCK FALSE
PROPERTY EveryWaitEnds
