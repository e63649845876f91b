------------------------------ MODULE MCServer ------------------------------
(* Small instances of Server for TLC. *)
EXTENDS Server, TLC

CONSTANTS ann, bob, pwA, pwB, pwShort, hashA, hashB, hashShort, A, B, t1, t2, k1, k2

MCThreads == {t1, t2}
MCTokens == {k1, k2}
OneToken == {k1}
Symmetry == Permutations(MCThreads) \cup Permutations(MCTokens)
MCUsernames == {ann, bob}
OneUsername == {ann}
MCPasswords == {pwA, pwB, pwShort}
MCShortPasswords == {pwShort}
MCHash == [p \in MCPasswords |-> CASE p = pwA -> hashA [] p = pwB -> hashB [] OTHER -> hashShort]

\* Objects with any of the members below, whichever the kind of record.
Objects(Values) ==
  UNION {{f \in [keys -> UNION {Values[k] : k \in keys}] : \A k \in keys : f[k] \in Values[k]} :
           keys \in SUBSET DOMAIN Values}

\* Two users and no items; one user and items.
AccountDocs ==
  Objects([username |-> MCUsernames, password_hash |-> {hashA, hashB}, owner |-> MCUsernames])
ItemDocs ==
  Objects([username |-> {ann}, password_hash |-> {hashA, hashB}, owner |-> {ann},
           title |-> {A, B, NotString}])

Body(doc) == [id |-> NoId, doc |-> doc]

\* Who: a name with either password, another name, and the bodies that are refused.
Login(username, password) == [op |-> "login", body |-> [username |-> username, password |-> password]]
Register(username, password) == [Login(username, password) EXCEPT !.op = "register"]

AccountRequests ==
  {Register(ann, pwA), Register(ann, pwB), Register(bob, pwA), Register(bob, pwShort),
   [op |-> "register", body |-> NotObject],
   Login(ann, pwA), Login(ann, pwB),
   [op |-> "logout"], [op |-> "session"]}

\* Items: created well and badly, changed, deleted, and read.
ItemRequests ==
  {Login(ann, pwA), [op |-> "logout"],
   [op |-> "create", body |-> Body([title |-> A])],
   [op |-> "create", body |-> Body([title |-> NotString])],
   [op |-> "create", body |-> NotObject],
   [op |-> "update", id |-> 1, body |-> Body([title |-> B])],
   [op |-> "update", id |-> 2, body |-> NotObject],
   [op |-> "update", id |-> NotInt, body |-> Body([title |-> B])],
   [op |-> "delete", id |-> 1],
   [op |-> "delete", id |-> 2],
   [op |-> "get", id |-> 1], [op |-> "list"], [op |-> "static"]}

NoRecords == << >>
OneUser == <<[id |-> 1, doc |-> [username |-> ann, password_hash |-> hashA]]>>
OneItem == <<[id |-> 1, doc |-> [title |-> A, owner |-> ann]]>>
=============================================================================
