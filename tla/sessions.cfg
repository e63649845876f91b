SPECIFICATION Spec
CONSTANTS
  ann = ann
  bob = bob
  k1 = k1
  k2 = k2
  k3 = k3
  t1 = t1
  t2 = t2
  NoUser = NoUser
  Threads <- MCThreads
  Tokens <- MCTokens
  Usernames <- MCUsernames
  Lifetime = 2
  MaxNow = 5
INVARIANTS
  TypeOK
PROPERTIES
  ImplementsEager
