SPECIFICATION FairSpec
CONSTANTS
  w1 = w1
  w2 = w2
  p1 = p1
  p2 = p2
  f1 = f1
  f2 = f2
  task1 = task1
  task2 = task2
  main = main
  NoTask = NoTask
  None = None
  Workers <- MCWorkers
  PoolWorkers <- MCPoolWorkers
  Tasks <- MCTasks
  Program <- MCProgram
  PoolProgram <- MCPoolProgram
  MaxServed = 2
INVARIANTS
  TypeOK
  PoolTasksAccounted
  NoStrandedPoolTask
  ServesAfterTasks
  AbortsOrderly
PROPERTIES
  StartsUp
  PoolTasksRun
  FatalErrorEnds
CHECK_DEADLOCK FALSE
