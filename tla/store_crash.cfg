SPECIFICATION Spec
CONSTANTS
  A = A
  B = B
  t1 = t1
  t2 = t2
  None = None
  Torn = Torn
  NoCall = NoCall
  NoId = NoId
  NotObject = NotObject
  Docs <- MCDocs
  Threads <- MCThreads
  Calls <- MCCallsServed
  InitialArrays <- MCInitialArrays
  Faults <- CrashOnly
  MaxInserts = 2
INVARIANTS
  Durable
