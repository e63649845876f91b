SPECIFICATION FairSpec
CONSTANTS
  w1 = w1
  w2 = w2
  w3 = w3
  main = main
  other = other
  a = a
  b = b
  c = c
  d = d
  NoTask = NoTask
  None = None
  Workers <- ThreeWorkers
  Clients <- TwoClients
  Tasks <- FourTasks
  Program <- TwoPrograms
  Child <- OneChild
  Throwing <- OneThrows
  Waiters <- MainOnly
INVARIANTS
  TypeOK
  FrontExists
  NoStrandedTask
  DestroyedIsDrained
PROPERTIES
  ImplementsService
  TasksEnd
  DestructorReturns
  NoneLeftAsleep
CHECK_DEADLOCK FALSE
