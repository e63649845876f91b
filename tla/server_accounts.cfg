SPECIFICATION Spec
CONSTANTS
  ann = ann
  bob = bob
  pwA = pwA
  pwB = pwB
  pwShort = pwShort
  hashA = hashA
  hashB = hashB
  hashShort = hashShort
  A = A
  B = B
  t1 = t1
  t2 = t2
  k1 = k1
  k2 = k2
  NoId = NoId
  NoUser = NoUser
  NoToken = NoToken
  NoRequest = NoRequest
  NotObject = NotObject
  NotInt = NotInt
  EmptyTitle = EmptyTitle
  NotString = NotString
  Docs <- AccountDocs
  Threads <- MCThreads
  Tokens <- MCTokens
  Usernames <- MCUsernames
  Passwords <- MCPasswords
  ShortPasswords <- MCShortPasswords
  Hash <- MCHash
  Requests <- AccountRequests
  InitialUsers <- NoRecords
  InitialItems <- NoRecords
  Lifetime = 1
  MaxNow = 2
  MaxId = 2
INVARIANTS
  TypeOK
  SessionsMatchHistory
  SessionsHaveAccounts
  LoginMatches
PROPERTIES
  UsersOnlyGrow
SYMMETRY Symmetry
