SPECIFICATION Spec
CONSTANTS
  ann = ann
  bob = bob
  pwA = pwA
  pwB = pwB
  pwShort = pwShort
  hashA = hashA
  hashB = hashB
  hashShort = hashShort
  A = A
  B = B
  t1 = t1
  t2 = t2
  k1 = k1
  k2 = k2
  NoId = NoId
  NoUser = NoUser
  NoToken = NoToken
  NoRequest = NoRequest
  NotObject = NotObject
  NotInt = NotInt
  EmptyTitle = EmptyTitle
  NotString = NotString
  Docs <- ItemDocs
  Threads <- MCThreads
  Tokens <- MCTokens
  Usernames <- OneUsername
  Passwords <- MCPasswords
  ShortPasswords <- MCShortPasswords
  Hash <- MCHash
  Requests <- ItemRequests
  InitialUsers <- OneUser
  InitialItems <- OneItem
  Lifetime = 1
  MaxNow = 1
  MaxId = 3
INVARIANTS
  ReadsNeedSession
