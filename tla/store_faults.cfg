SPECIFICATION Spec
CONSTANTS
  A = A
  B = B
  t1 = t1
  t2 = t2
  None = None
  Torn = Torn
  NoCall = NoCall
  NoId = NoId
  NotObject = NotObject
  Docs <- MCDocs
  Threads <- MCThreads
  Calls <- MCCalls
  InitialArrays <- MCInitialArrays
  Faults <- AllFaults
  MaxInserts = 2
INVARIANTS
  TypeOK
  IdsAscending
  SnapshotCurrent
