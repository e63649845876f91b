---------------------------- MODULE ServerProofs ----------------------------
(***************************************************************************)
(* Server for every set of connections, tokens, users and requests: its    *)
(* types, and the invariants that relate the session table to the history  *)
(* of logins and logouts, the handlers to the sessions they act for, the   *)
(* sessions to the accounts, and the items to what clients were told.      *)
(*                                                                         *)
(* A step of Next changes the stores, the sessions or the threads, and     *)
(* most steps change one of them; so the induction goes in three parts,    *)
(* which are joined at the end.                                            *)
(***************************************************************************)
EXTENDS Server, JsonArrayProofs

(***************************************************************************)
(* The inductive invariant, part by part.                                  *)
(***************************************************************************)

\* The stores: ids ascend, every user has a name, the items are accounted for.
Stores ==
  /\ users \in Arrays /\ Ascending(users)
  /\ items \in Arrays /\ Ascending(items)
  /\ \A i \in DOMAIN users : Username(users[i].doc) \in Usernames
  /\ balance = Len(items)

\* The session table holds sessions that were issued and not revoked, as they were
\* issued, and misses none of those but expired ones.
Table ==
  /\ Sessions!TypeOK
  /\ DOMAIN issued \subseteq Tokens
  /\ \A tok \in DOMAIN issued : issued[tok] \in Sessions!SessionData
  /\ revoked \subseteq DOMAIN issued
  /\ \A tok \in DOMAIN sessions : tok \in DOMAIN issued \ revoked /\ sessions[tok] = issued[tok]
  /\ \A tok \in DOMAIN issued \ revoked :
       tok \in DOMAIN sessions \/ Sessions!Expired(issued[tok], now)

ChangeRequests ==
  [op : {"create"}, body : Bodies \cup {NotObject}] \cup
  [op : {"update"}, id : Int, body : Bodies \cup {NotObject}] \cup
  [op : {"delete"}, id : Int]

\* Where a thread is fits the request it works on, and what was checked of it.
Routed(t) ==
  /\ pc[t] \in {"register", "login"} =>
       req[t] \in [op : {"register", "login"}, body : Credentials \cup {NotObject}]
  /\ pc[t] = "register_insert" =>
       req[t].body \in [username : Usernames, password : Passwords \ ShortPasswords]
  /\ pc[t] = "login_session" => req[t].body \in [username : Usernames, password : Passwords]
  /\ pc[t] \in {"auth", "create", "update", "delete"} => req[t] \in ChangeRequests
  /\ pc[t] \in {"create", "update", "delete"} => req[t].op = pc[t]

\* Every token that is about was issued.
Known(t) ==
  /\ token[t] \in DOMAIN issued \cup {NoToken}
  /\ response[t].cookie \in DOMAIN issued \cup {NoToken}

\* A cookie that came too late stays so.
Late(t) ==
  late[t] =>
    \/ token[t] \in revoked
    \/ token[t] \in DOMAIN issued /\ Sessions!Expired(issued[token[t]], now)

\* A handler that changes items acts for the user of its cookie.
Acting(t) ==
  pc[t] \in {"create", "update", "delete"} =>
    /\ token[t] \in DOMAIN issued
    /\ answer[t] = issued[token[t]].username
    /\ ~ late[t]

\* A login that has passed the password check still would.
Checked(t) ==
  pc[t] = "login_session" =>
    LET user == FindUser(req[t].body.username)
    IN user.ok /\ PasswordHash(user.recs[1].doc) = Hash[req[t].body.password]

Thread(t) == Routed(t) /\ Known(t) /\ Late(t) /\ Acting(t) /\ Checked(t)

\* The threads' variables have their types.
Shape ==
  /\ pc \in [Threads -> Points]
  /\ req \in [Threads -> RequestTypes \cup {NoRequest}]
  /\ token \in [Threads -> Tokens \cup {NoToken}]
  /\ response \in [Threads -> Responses]
  /\ late \in [Threads -> BOOLEAN]

Connections ==
  /\ Shape
  /\ \A t \in Threads : Thread(t)
  /\ cookies \subseteq DOMAIN issued

IInv == Stores /\ Table /\ SessionsHaveAccounts /\ Connections

LEMMA InvInit == Init => IInv
<1> SUFFICES ASSUME Init PROVE IInv
  OBVIOUS
<1>1. Stores
  BY InitialTyped, InitialAccounts DEF Init, Stores, Arrays
<1>2. DOMAIN sessions = {} /\ DOMAIN issued = {}
  BY DEF Init, Sessions!Init
<1>3. Table
  BY <1>2 DEF Init, Table, Sessions!Init, Sessions!TypeOK
<1>4. SessionsHaveAccounts
  BY <1>2 DEF SessionsHaveAccounts
<1>5. Shape
  BY DEF Init, Shape, Points, Responses, NoResponse
<1>6. \A t \in Threads : Thread(t)
  BY DEF Init, Thread, Routed, Known, Late, Acting, Checked, NoResponse
<1> QED
  BY <1>1, <1>3, <1>4, <1>5, <1>6 DEF IInv, Connections, Init

-----------------------------------------------------------------------------
(* The stores. *)

LEMMA StoresStep ==
  [Next]_vars =>
    \/ UNCHANGED storeVars
    \/ \E t \in Threads : RegisterInsert(t) \/ Create(t) \/ Update(t) \/ Delete(t)
    \/ Crash
<1> SUFFICES ASSUME [Next]_vars PROVE
      \/ UNCHANGED storeVars
      \/ \E t \in Threads : RegisterInsert(t) \/ Create(t) \/ Update(t) \/ Delete(t)
      \/ Crash
  OBVIOUS
<1> USE DEF sharedVars, vars
<1>1. ASSUME NEW t \in Threads, NEW r \in Requests, NEW tok, Receive(t, r, tok)
      PROVE  UNCHANGED storeVars
  BY <1>1 DEF Receive
<1>2. ASSUME NEW t \in Threads, Handle(t)
      PROVE  UNCHANGED storeVars \/ RegisterInsert(t) \/ Create(t) \/ Update(t) \/ Delete(t)
  BY <1>2 DEF Handle, Unreadable, RegisterInvalid, RegisterLookup, LoginLookup, LoginSession, Logout,
    SessionCheck, Authorize, List, Get, Static, CreateInvalid, CreateUnreadable, UpdateUnreadable,
    Drop, Finish
<1>3. ASSUME NEW t \in Threads, Send(t) \/ SendFails(t)
      PROVE  UNCHANGED storeVars
  BY <1>3 DEF Send, SendFails, Drop, Finish
<1>4. CASE Tick
  BY <1>4 DEF Tick
<1>5. CASE UNCHANGED vars
  BY <1>5
<1> QED
  BY <1>1, <1>2, <1>3, <1>4, <1>5 DEF Next

LEMMA RegisterStores ==
  ASSUME IInv, NEW t \in Threads, RegisterInsert(t)
  PROVE  /\ Stores'
         /\ \E r \in Records : users' = Append(users, r)
<1> DEFINE username == req[t].body.username
           password == req[t].body.password
           doc  == Account(username, password)
           body == [id |-> NoId, doc |-> doc]
<1>1. username \in Usernames /\ password \in Passwords \ ShortPasswords
  BY DEF IInv, Connections, Thread, Routed, RegisterInsert
<1>2. doc \in Docs /\ Username(doc) = username
  BY <1>1, AccountsAreDocs DEF Account, Username
<1>3. PICK o \in Outcomes(users, [op |-> "insert", body |-> body]) : users' = o.arr
  BY DEF RegisterInsert, NewUser
<1> HIDE DEF doc
<1>4. body \in Bodies /\ body.doc = doc
  BY <1>2 DEF Bodies
<1> HIDE DEF body
<1>5. users \in Arrays /\ Ascending(users)
  BY DEF IInv, Stores
<1>6. PICK r \in Records : r.doc = doc /\ users' = Append(users, r)
  BY <1>3, <1>4, <1>5, InsertOutcome
<1>7. users' \in Arrays /\ Ascending(users')
  BY <1>3, <1>4, <1>5, InsertOutcome
<1>8. \A i \in DOMAIN users' : Username(users'[i].doc) \in Usernames
  <2>1. ASSUME NEW i \in DOMAIN users' PROVE users'[i] = r \/ (i \in DOMAIN users /\ users'[i] = users[i])
    BY <1>5, <1>6, <2>1 DEF Arrays
  <2> QED
    BY <1>1, <1>2, <1>6, <2>1 DEF IInv, Stores
<1>9. items' = items /\ balance' = balance
  BY DEF RegisterInsert
<1> QED
  BY <1>6, <1>7, <1>8, <1>9 DEF IInv, Stores

LEMMA CreateStores ==
  ASSUME IInv, NEW t \in Threads, Create(t)
  PROVE  Stores'
<1> DEFINE body == NewItem(t).body
<1>1. req[t].body \in Bodies
  <2>1. req[t].body # NotObject
    BY DEF Create, TitleOf
  <2>2. req[t] \in ChangeRequests /\ req[t].op = "create"
    BY DEF IInv, Connections, Thread, Routed, Create
  <2> QED
    BY <2>1, <2>2 DEF ChangeRequests
<1>2. answer[t] \in Usernames
  BY DEF IInv, Connections, Thread, Acting, Create, Table, Sessions!SessionData
<1>3. Overlay(req[t].body.doc, [owner |-> answer[t]]) \in Docs
  BY <1>1, <1>2, OwnersAreDocs, OverlayType DEF Bodies
<1>4. body \in Bodies
  BY <1>1, <1>3 DEF NewItem, Bodies
<1>5. NewItem(t) = [op |-> "insert", body |-> body]
  BY DEF NewItem
<1> HIDE DEF body
<1>6. PICK o \in Outcomes(items, [op |-> "insert", body |-> body]) : items' = o.arr
  BY <1>5 DEF Create
<1>7. items \in Arrays /\ Ascending(items)
  BY DEF IInv, Stores
<1>8. items' \in Arrays /\ Ascending(items') /\ Len(items') = Len(items) + 1
  BY <1>4, <1>6, <1>7, InsertOutcome
<1>9. users' = users /\ balance' = balance + 1
  BY DEF Create
<1> QED
  BY <1>8, <1>9 DEF IInv, Stores

LEMMA UpdateStores ==
  ASSUME IInv, NEW t \in Threads, Update(t)
  PROVE  Stores'
<1>1. req[t].id \in Int /\ req[t].body \in Bodies \cup {NotObject}
  <2>1. req[t] \in ChangeRequests /\ req[t].op = "update"
    BY DEF IInv, Connections, Thread, Routed, Update
  <2> QED
    BY <2>1 DEF ChangeRequests
<1>2. PICK o \in Outcomes(items, [op |-> "update", id |-> req[t].id, patch |-> req[t].body]) :
        items' = o.arr
  BY DEF Update, Patch
<1>3. items \in Arrays /\ Ascending(items)
  BY DEF IInv, Stores
<1>4. items' \in Arrays /\ Ascending(items') /\ Len(items') = Len(items)
  BY <1>1, <1>2, <1>3, UpdateOutcome
<1>5. users' = users /\ balance' = balance
  BY DEF Update
<1> QED
  BY <1>4, <1>5 DEF IInv, Stores

LEMMA DeleteStores ==
  ASSUME IInv, NEW t \in Threads, Delete(t)
  PROVE  Stores'
<1>1. req[t].id \in Int
  <2>1. req[t] \in ChangeRequests /\ req[t].op = "delete"
    BY DEF IInv, Connections, Thread, Routed, Delete
  <2> QED
    BY <2>1 DEF ChangeRequests
<1>2. PICK o \in Outcomes(items, [op |-> "remove", id |-> req[t].id]) :
        items' = o.arr /\ balance' = IF o.reply.ok THEN balance - 1 ELSE balance
  BY DEF Delete, Removal
<1>3. items \in Arrays /\ Ascending(items)
  BY DEF IInv, Stores
<1>4. /\ items' \in Arrays /\ Ascending(items')
      /\ Len(items') = IF o.reply.ok THEN Len(items) - 1 ELSE Len(items)
  BY <1>1, <1>2, <1>3, RemoveOutcome
<1>5. users' = users
  BY DEF Delete
<1> QED
  BY <1>2, <1>4, <1>5 DEF IInv, Stores

LEMMA CrashStores ==
  ASSUME IInv, Crash
  PROVE  Stores'
<1>1. (users' = users \/ users' = << >>) /\ (items' = items \/ items' = << >>)
  BY DEF Crash
<1>2. << >> \in Arrays /\ Ascending(<< >>) /\ DOMAIN << >> = {}
  BY DEF Arrays, Ascending
<1> QED
  BY <1>1, <1>2 DEF Crash, IInv, Stores

LEMMA StoresNext == IInv /\ [Next]_vars => Stores'
<1>1. ASSUME IInv, UNCHANGED storeVars PROVE Stores'
  BY <1>1 DEF IInv, Stores, storeVars
<1> QED
  BY <1>1, StoresStep, RegisterStores, CreateStores, UpdateStores, DeleteStores, CrashStores

-----------------------------------------------------------------------------
(* What only grows: as long as the process lives, tokens stay issued and    *)
(* revoked, the clock does not go back and a user's record stays the first  *)
(* of that name.                                                            *)

Grows ==
  /\ DOMAIN issued \subseteq DOMAIN issued'
  /\ \A tok \in DOMAIN issued : issued'[tok] = issued[tok]
  /\ revoked \subseteq revoked'
  /\ now' \in Nat /\ now <= now'
  /\ users' = users \/ \E r \in Records : users' = Append(users, r)

\* The steps that touch the sessions or their history.
LEMMA SessionsStep ==
  [Next]_vars =>
    \/ UNCHANGED <<sessionVars, issued, revoked>>
    \/ \E t \in Threads : LoginSession(t) \/ Logout(t) \/ SessionCheck(t) \/ Authorize(t)
    \/ Crash
    \/ Tick
<1> SUFFICES ASSUME [Next]_vars PROVE
      \/ UNCHANGED <<sessionVars, issued, revoked>>
      \/ \E t \in Threads : LoginSession(t) \/ Logout(t) \/ SessionCheck(t) \/ Authorize(t)
      \/ Crash
      \/ Tick
  OBVIOUS
<1> USE DEF sharedVars, vars
<1>1. ASSUME NEW t \in Threads, NEW r \in Requests, NEW tok, Receive(t, r, tok)
      PROVE  UNCHANGED <<sessionVars, issued, revoked>>
  BY <1>1 DEF Receive
<1>2. ASSUME NEW t \in Threads, Handle(t)
      PROVE  \/ UNCHANGED <<sessionVars, issued, revoked>>
             \/ LoginSession(t) \/ Logout(t) \/ SessionCheck(t) \/ Authorize(t)
  BY <1>2 DEF Handle, Unreadable, RegisterInvalid, RegisterLookup, RegisterInsert, LoginLookup,
    List, Get, Static, CreateInvalid, CreateUnreadable, Create, Update, UpdateUnreadable, Delete,
    Drop, Finish
<1>3. ASSUME NEW t \in Threads, Send(t) \/ SendFails(t)
      PROVE  UNCHANGED <<sessionVars, issued, revoked>>
  BY <1>3 DEF Send, SendFails, Drop, Finish
<1>4. CASE UNCHANGED vars
  BY <1>4
<1> QED
  BY <1>1, <1>2, <1>3, <1>4 DEF Next

LEMMA GrowsStep ==
  ASSUME IInv, [Next]_vars, ~ Crash
  PROVE  Grows
<1>1. now \in Nat /\ now <= now
  BY DEF IInv, Table, Sessions!TypeOK
<1>2. users' = users \/ \E r \in Records : users' = Append(users, r)
  BY StoresStep, RegisterStores DEF Create, Update, Delete, storeVars
<1> DEFINE History ==
             /\ DOMAIN issued \subseteq DOMAIN issued'
             /\ \A tok \in DOMAIN issued : issued'[tok] = issued[tok]
             /\ revoked \subseteq revoked'
             /\ now' \in Nat /\ now <= now'
<1>3. ASSUME NEW t \in Threads, LoginSession(t)
      PROVE  History
  BY <1>1, <1>3 DEF LoginSession, Sessions!CreateSession
<1>4. ASSUME NEW t \in Threads, Logout(t)
      PROVE  History
  BY <1>1, <1>4 DEF Logout, Sessions!DestroySession, sessionVars
<1>5. ASSUME NEW t \in Threads, SessionCheck(t) \/ Authorize(t)
      PROVE  History
  BY <1>1, <1>5 DEF SessionCheck, Authorize, CurrentUser, Sessions!UsernameFor
<1>6. ASSUME Tick
      PROVE  History
  BY <1>1, <1>6 DEF Tick, Sessions!Tick
<1>7. ASSUME UNCHANGED <<sessionVars, issued, revoked>>
      PROVE  History
  BY <1>1, <1>7 DEF sessionVars
<1>8. History
  BY <1>3, <1>4, <1>5, <1>6, <1>7, SessionsStep
<1> QED
  BY <1>2, <1>8 DEF Grows

\* What has expired stays expired.
LEMMA ExpiredStays ==
  ASSUME NEW s \in Sessions!SessionData, NEW n \in Nat, NEW m \in Nat, n <= m,
         Sessions!Expired(s, n)
  PROVE  Sessions!Expired(s, m)
  BY LifetimeNat DEF Sessions!SessionData, Sessions!Expired

\* A user that is found stays found, in the same record.
LEMMA FoundStays ==
  ASSUME Stores, Grows, NEW username, FindUser(username).ok
  PROVE  FindUser(username)' = FindUser(username)
<1>1. CASE users' = users
  BY <1>1 DEF FindUser
<1>2. ASSUME NEW r \in Records, users' = Append(users, r)
      PROVE  FindUser(username)' = FindUser(username)
  <2> DEFINE S == {i \in DOMAIN users : Username(users[i].doc) = username}
             T == {i \in DOMAIN users' : Username(users'[i].doc) = username}
  <2>1. users \in Arrays
    BY DEF Stores
  <2>2. DOMAIN users' = DOMAIN users \cup {Len(users) + 1} /\ \A i \in DOMAIN users : users'[i] = users[i]
    BY <1>2, <2>1 DEF Arrays
  <2>3. S \subseteq T /\ T \subseteq S \cup {Len(users) + 1}
    BY <2>2
  <2>4. FindUser(username) = FirstOf(users, S) /\ FindUser(username)' = FirstOf(users', T)
    BY DEF FindUser
  <2>5. S # {}
    BY <2>4 DEF FirstOf, Nullopt
  <2> HIDE DEF S, T
  <2>6. S \in SUBSET DOMAIN users
    BY DEF S
  <2> QED
    BY <1>2, <2>1, <2>3, <2>4, <2>5, <2>6, FirstOfAppended
<1> QED
  BY <1>1, <1>2 DEF Grows

-----------------------------------------------------------------------------
(* The sessions. *)

\* current_user leaves every session that it does not find expired.
LEMMA LookupTable ==
  ASSUME IInv, NEW t \in Threads, CurrentUser(t), UNCHANGED <<issued, revoked>>
  PROVE  /\ Table'
         /\ DOMAIN sessions' \subseteq DOMAIN sessions
         /\ \A tok \in DOMAIN sessions' : sessions'[tok] = sessions[tok]
         /\ \A u \in Threads \ {t} : answer'[u] = answer[u]
<1>1. Table
  BY DEF IInv
<1>2. now' = now
  BY DEF CurrentUser, Sessions!UsernameFor
<1>3. CASE sessions' = sessions /\ answer' = [answer EXCEPT ![t] = NoUser]
  BY <1>1, <1>2, <1>3 DEF Table, Sessions!TypeOK
<1>4. CASE /\ token[t] \in DOMAIN sessions /\ sessions' = sessions
           /\ answer' = [answer EXCEPT ![t] = sessions[token[t]].username]
  BY <1>1, <1>2, <1>4 DEF Table, Sessions!TypeOK, Sessions!SessionData
<1>5. CASE /\ token[t] \in DOMAIN sessions /\ Sessions!Expired(sessions[token[t]], now)
           /\ sessions' = Sessions!Erased(token[t])
           /\ answer' = [answer EXCEPT ![t] = NoUser]
  <2>1. sessions' = [tok \in DOMAIN sessions \ {token[t]} |-> sessions[tok]]
    BY <1>5 DEF Sessions!Erased, Sessions!Restrict, Restrict
  <2>2. Sessions!TypeOK'
    BY <1>1, <1>2, <1>5, <2>1 DEF Table, Sessions!TypeOK
  <2> QED
    BY <1>1, <1>2, <1>5, <2>1, <2>2 DEF Table, Sessions!TypeOK
<1> QED
  BY <1>3, <1>4, <1>5 DEF CurrentUser, Sessions!UsernameFor

LEMMA LoginTable ==
  ASSUME IInv, NEW t \in Threads, LoginSession(t)
  PROVE  /\ Table'
         /\ \A tok \in DOMAIN sessions' :
              \/ tok \in DOMAIN sessions /\ sessions'[tok] = sessions[tok]
              \/ sessions'[tok].username = req[t].body.username
         /\ answer' = answer
<1> DEFINE s == [username |-> req[t].body.username, created_at |-> now]
<1>1. PICK tok \in Tokens \ DOMAIN issued :
        /\ sessions' = [k \in DOMAIN sessions \cup {tok} |-> IF k = tok THEN s ELSE sessions[k]]
        /\ issued' = [k \in DOMAIN issued \cup {tok} |-> IF k = tok THEN s ELSE issued[k]]
        /\ now' = now /\ answer' = answer
  BY DEF LoginSession, Sessions!CreateSession
<1>2. s \in Sessions!SessionData /\ s.username = req[t].body.username
  BY DEF IInv, Connections, Thread, Routed, LoginSession, Table, Sessions!TypeOK, Sessions!SessionData
<1>3. revoked' = revoked
  BY DEF LoginSession
<1> HIDE DEF s
<1>4. Table
  BY DEF IInv
<1>5. Sessions!TypeOK'
  BY <1>1, <1>2, <1>4 DEF Table, Sessions!TypeOK
<1>6. tok \notin DOMAIN sessions /\ tok \notin revoked
  BY <1>1, <1>4 DEF Table
<1>7. Table'
  BY <1>1, <1>2, <1>3, <1>4, <1>5, <1>6 DEF Table
<1> QED
  BY <1>1, <1>2, <1>7

LEMMA LogoutTable ==
  ASSUME IInv, NEW t \in Threads, Logout(t)
  PROVE  /\ Table'
         /\ DOMAIN sessions' \subseteq DOMAIN sessions
         /\ \A tok \in DOMAIN sessions' : sessions'[tok] = sessions[tok]
         /\ answer' = answer
<1>1. Table /\ token[t] \in DOMAIN issued \cup {NoToken}
  BY DEF IInv, Connections, Thread, Known
<1>2. issued' = issued /\ now' = now /\ answer' = answer
  BY DEF Logout, Sessions!DestroySession, sessionVars
<1>3. CASE token[t] = NoToken /\ UNCHANGED <<sessionVars, revoked>>
  BY <1>1, <1>2, <1>3 DEF Table, Sessions!TypeOK, sessionVars
<1>4. CASE /\ token[t] # NoToken /\ sessions' = Sessions!Erased(token[t])
           /\ revoked' = revoked \cup {token[t]}
  <2>1. sessions' = [tok \in DOMAIN sessions \ {token[t]} |-> sessions[tok]]
    BY <1>4 DEF Sessions!Erased, Sessions!Restrict, Restrict
  <2>2. Sessions!TypeOK'
    BY <1>1, <1>2, <2>1 DEF Table, Sessions!TypeOK
  <2> QED
    BY <1>1, <1>2, <1>4, <2>1, <2>2 DEF Table
<1> QED
  BY <1>3, <1>4 DEF Logout, Sessions!DestroySession

LEMMA CrashTable ==
  ASSUME IInv, Crash
  PROVE  Table' /\ SessionsHaveAccounts'
<1>1. /\ sessions' = << >> /\ answer' = [t \in Threads |-> NoUser]
      /\ revoked' = DOMAIN issued /\ issued' = issued /\ now' = now
  BY DEF Crash, Restarted
<1>2. DOMAIN sessions' = {}
  BY <1>1
<1> QED
  BY <1>1, <1>2 DEF IInv, Table, Sessions!TypeOK, SessionsHaveAccounts

LEMMA TickTable ==
  ASSUME IInv, Tick
  PROVE  Table'
<1>1. sessions' = sessions /\ answer' = answer /\ issued' = issued /\ revoked' = revoked /\ now' = now + 1
  BY DEF Tick, Sessions!Tick
<1>2. Table
  BY DEF IInv
<1>3. Sessions!TypeOK'
  BY <1>1, <1>2 DEF Table, Sessions!TypeOK
<1>4. ASSUME NEW tok \in DOMAIN issued, Sessions!Expired(issued[tok], now)
      PROVE  Sessions!Expired(issued[tok], now + 1)
  BY <1>2, <1>4, ExpiredStays DEF Table, Sessions!TypeOK
<1> QED
  BY <1>1, <1>2, <1>3, <1>4 DEF Table, Sessions!Expired

LEMMA SessionsNext ==
  ASSUME IInv, [Next]_vars
  PROVE  Table' /\ SessionsHaveAccounts'
<1>1. CASE Crash
  BY <1>1, CrashTable
<1>2. CASE ~ Crash
  <2>1. Grows /\ Stores /\ SessionsHaveAccounts
    BY <1>2, GrowsStep DEF IInv
  <2>2. \A username : FindUser(username).ok => FindUser(username)'.ok
    BY <2>1, FoundStays
  <2>3. ASSUME /\ DOMAIN sessions' \subseteq DOMAIN sessions
               /\ \A tok \in DOMAIN sessions' : sessions'[tok] = sessions[tok]
        PROVE  SessionsHaveAccounts'
    BY <2>1, <2>2, <2>3 DEF SessionsHaveAccounts, FindUser
  <2>4. ASSUME NEW t \in Threads, LoginSession(t)
        PROVE  SessionsHaveAccounts'
    <3>1. FindUser(req[t].body.username).ok
      BY <2>4 DEF LoginSession, IInv, Connections, Thread, Checked
    <3>2. ASSUME NEW tok \in DOMAIN sessions'
          PROVE  FindUser(sessions'[tok].username).ok
      <4>1. \/ tok \in DOMAIN sessions /\ sessions'[tok] = sessions[tok]
            \/ sessions'[tok].username = req[t].body.username
        BY <2>4, LoginTable
      <4> QED
        BY <2>1, <3>1, <4>1 DEF SessionsHaveAccounts
    <3> QED
      BY <2>2, <3>2 DEF SessionsHaveAccounts, FindUser
  <2>5. ASSUME UNCHANGED <<sessionVars, issued, revoked>>
        PROVE  Table'
    BY <2>5 DEF IInv, Table, Sessions!TypeOK, Sessions!Expired, sessionVars
  <2>6. ASSUME NEW t \in Threads, SessionCheck(t) \/ Authorize(t)
        PROVE  CurrentUser(t) /\ UNCHANGED <<issued, revoked>>
    BY <2>6 DEF SessionCheck, Authorize
  <2>7. Table'
    BY <1>2, <2>5, <2>6, SessionsStep, LookupTable, LoginTable, LogoutTable, TickTable
  <2>8. ASSUME Tick \/ UNCHANGED <<sessionVars, issued, revoked>>
        PROVE  sessions' = sessions
    BY <2>8 DEF Tick, Sessions!Tick, sessionVars
  <2> QED
    BY <1>2, <2>3, <2>4, <2>6, <2>7, <2>8, SessionsStep, LookupTable, LogoutTable
<1> QED
  BY <1>1, <1>2

-----------------------------------------------------------------------------
(* The threads. *)

\* What a thread knows of its cookie stays so while the history grows.
LEMMA KnownStays ==
  ASSUME IInv, Grows, NEW t \in Threads, token'[t] = token[t], late'[t] = late[t],
         response'[t].cookie \in DOMAIN issued' \cup {NoToken}
  PROVE  Known(t)' /\ Late(t)'
<1>1. Known(t) /\ Late(t) /\ Table
  BY DEF IInv, Connections, Thread
<1>2. Known(t)'
  BY <1>1 DEF Known, Grows
<1>3. ASSUME token[t] \in DOMAIN issued, Sessions!Expired(issued[token[t]], now)
      PROVE  token[t] \in DOMAIN issued' /\ Sessions!Expired(issued'[token[t]], now')
  BY <1>1, <1>3, ExpiredStays DEF Grows, Table, Sessions!TypeOK
<1>4. Late(t)'
  BY <1>1, <1>3 DEF Late, Grows, Sessions!Expired
<1> QED
  BY <1>2, <1>4

\* A thread that does not move keeps what holds of it.
LEMMA ThreadStays ==
  ASSUME IInv, Grows, NEW t \in Threads,
         pc'[t] = pc[t], req'[t] = req[t], token'[t] = token[t],
         response'[t] = response[t], late'[t] = late[t], answer'[t] = answer[t]
  PROVE  Thread(t)'
<1>1. Thread(t)
  BY DEF IInv, Connections
<1>2. Routed(t)'
  BY <1>1 DEF Thread, Routed
<1>3. Known(t)' /\ Late(t)'
  BY <1>1, KnownStays DEF Thread, Known, Grows
<1>4. Acting(t)'
  BY <1>1 DEF Thread, Acting, Grows
<1>5. Checked(t)'
  <2> SUFFICES ASSUME pc[t] = "login_session"
               PROVE  Checked(t)'
    BY DEF Checked
  <2> DEFINE username == req[t].body.username
  <2>1. FindUser(username).ok /\ PasswordHash(FindUser(username).recs[1].doc) = Hash[req[t].body.password]
    BY <1>1 DEF Thread, Checked
  <2>2. \A x : FindUser(x).ok => FindUser(x)' = FindUser(x)
    BY FoundStays DEF IInv
  <2>3. FindUser(username)' = FindUser(username)
    <3>1. PICK x : x = username
      OBVIOUS
    <3>2. FindUser(username) = FindUser(x)
      BY <3>1
    <3>3. FindUser(username)' = FindUser(x)'
      BY <3>1 DEF FindUser
    <3> QED
      BY <2>1, <2>2, <3>2, <3>3
  <2> QED
    BY <2>1, <2>3 DEF Checked
<1> QED
  BY <1>2, <1>3, <1>4, <1>5 DEF Thread

\* The other threads, in a step of t.
Others(t) ==
  \A u \in Threads \ {t} :
    /\ pc'[u] = pc[u] /\ req'[u] = req[u] /\ token'[u] = token[u]
    /\ response'[u] = response[u] /\ late'[u] = late[u] /\ answer'[u] = answer[u]

LEMMA OneMoves ==
  ASSUME IInv, Grows, NEW t \in Threads, Others(t),
         Shape', Thread(t)', cookies' \subseteq DOMAIN issued'
  PROVE  Connections'
<1>1. ASSUME NEW u \in Threads \ {t}
      PROVE  Thread(u)'
  BY <1>1, ThreadStays DEF Others
<1>2. \A u \in Threads : Thread(u)'
  BY <1>1
<1> QED
  BY <1>2 DEF Connections

\* A response is set: the cookie in it, if any, was issued.
LEMMA RespondMoves ==
  ASSUME IInv, Grows, Table', NEW t \in Threads, NEW status \in {200, 201, 400, 401, 404, 409},
         NEW cookie \in DOMAIN issued' \cup {NoToken}, RespondWith(t, status, cookie),
         \A u \in Threads \ {t} : answer'[u] = answer[u]
  PROVE  Connections'
<1>1. Shape /\ cookies \subseteq DOMAIN issued
  BY DEF IInv, Connections
<1>2. /\ pc'[t] = "reply" /\ response'[t] = [status |-> status, cookie |-> cookie]
      /\ req' = req /\ token' = token /\ late' = late /\ cookies' = cookies
      /\ Others(t)
  BY <1>1 DEF RespondWith, Shape, Others
<1>3. Shape'
  BY <1>1 DEF RespondWith, Shape, Responses, Points, Table
<1>4. Known(t)' /\ Late(t)'
  BY <1>2, KnownStays
<1>5. Thread(t)'
  BY <1>2, <1>4 DEF Thread, Routed, Acting, Checked
<1>6. cookies' \subseteq DOMAIN issued'
  BY <1>1, <1>2 DEF Grows
<1> QED
  BY <1>2, <1>3, <1>5, <1>6, OneMoves

\* A thread that is done with its request holds nothing of it.
LEMMA FinishMoves ==
  ASSUME IInv, Grows, NEW t \in Threads, Finish(t), cookies' \subseteq DOMAIN issued'
  PROVE  Connections'
<1>1. Shape
  BY DEF IInv, Connections
<1>2. /\ pc'[t] = "idle" /\ token'[t] = NoToken /\ response'[t] = NoResponse /\ late'[t] = FALSE
      /\ Others(t)
  BY <1>1 DEF Finish, Shape, Others, sharedVars, sessionVars
<1>3. Shape'
  BY <1>1 DEF Finish, Shape, Responses, Points, NoResponse
<1>4. Thread(t)'
  BY <1>2 DEF Thread, Routed, Known, Late, Acting, Checked, NoResponse
<1> QED
  BY <1>2, <1>3, <1>4, OneMoves

\* A handler goes on to its next call.
LEMMA GoToMoves ==
  ASSUME IInv, Grows, NEW t \in Threads, NEW point \in Points, GoTo(t, point),
         \A u \in Threads \ {t} : answer'[u] = answer[u],
         Routed(t)', Acting(t)', Checked(t)'
  PROVE  Connections'
<1>1. Shape /\ cookies \subseteq DOMAIN issued
  BY DEF IInv, Connections
<1>2. Others(t) /\ Shape'
  BY <1>1 DEF GoTo, Shape, Others
<1>3. response'[t].cookie \in DOMAIN issued' \cup {NoToken}
  BY DEF IInv, Connections, Thread, Known, GoTo, Grows
<1>4. Known(t)' /\ Late(t)'
  BY <1>3, KnownStays DEF GoTo
<1>5. cookies' \subseteq DOMAIN issued'
  BY <1>1 DEF GoTo, Grows
<1> QED
  BY <1>2, <1>4, <1>5, OneMoves DEF Thread

LEMMA ReceiveMoves ==
  ASSUME IInv, Grows, NEW t \in Threads, NEW r \in Requests, NEW tok \in cookies \cup {NoToken},
         Receive(t, r, tok)
  PROVE  Connections'
<1>1. Shape /\ cookies \subseteq DOMAIN issued /\ Table
  BY DEF IInv, Connections
<1>2. r \in RequestTypes
  BY RequestsTyped
<1>3. Entry(r) \in Points \ {"create", "update", "delete", "register_insert", "login_session"}
  BY <1>2 DEF RequestTypes, Entry, Points
<1>4. Others(t)
  BY <1>1 DEF Receive, Shape, Others, sessionVars
<1>5. tok \in DOMAIN issued \cup {NoToken} /\ tok \in Tokens \cup {NoToken}
  BY <1>1 DEF Table
<1>6. /\ pc'[t] = Entry(r) /\ req'[t] = r /\ token'[t] = tok /\ response'[t].cookie = NoToken
      /\ late'[t] = (tok \in revoked \/ (tok \in DOMAIN issued /\ Sessions!Expired(issued[tok], now)))
      /\ issued' = issued /\ revoked' = revoked /\ now' = now /\ cookies' = cookies
  BY <1>1 DEF Receive, Shape, NoResponse, sessionVars
<1>7. Shape'
  <2>1. response' \in [Threads -> Responses]
    BY <1>1 DEF Receive, Shape, Responses, NoResponse
  <2>2. late' \in [Threads -> BOOLEAN]
    BY <1>1 DEF Receive, Shape
  <2> QED
    BY <1>1, <1>2, <1>3, <1>5, <2>1, <2>2 DEF Receive, Shape
<1>8. Routed(t)'
  <2>1. Entry(r) \in {"register", "login"} =>
          r \in [op : {"register", "login"}, body : Credentials \cup {NotObject}]
    BY <1>2 DEF Entry, RequestTypes
  <2>2. Entry(r) = "auth" => r \in ChangeRequests
    BY <1>2 DEF Entry, RequestTypes, ChangeRequests
  <2> QED
    BY <1>3, <1>6, <2>1, <2>2 DEF Routed
<1>9. Known(t)' /\ Late(t)'
  BY <1>5, <1>6 DEF Known, Late, Sessions!Expired
<1>10. Acting(t)' /\ Checked(t)'
  BY <1>3, <1>6 DEF Acting, Checked
<1> QED
  BY <1>1, <1>4, <1>6, <1>7, <1>8, <1>9, <1>10, OneMoves DEF Thread

\* The name is valid before it is looked up, and not found when it is inserted.
LEMMA RegisterLookupMoves ==
  ASSUME IInv, Grows, Table', NEW t \in Threads, RegisterLookup(t)
  PROVE  Connections'
<1>1. answer' = answer
  BY DEF RegisterLookup, sharedVars, sessionVars
<1>2. CASE Respond(t, 409)
  BY <1>1, <1>2, RespondMoves DEF Respond
<1>3. CASE GoTo(t, "register_insert")
  <2>1. req[t] \in [op : {"register", "login"}, body : Credentials \cup {NotObject}] /\ Shape
    BY DEF IInv, Connections, Thread, Routed, RegisterLookup
  <2>2. req[t].body \in [username : Usernames, password : Passwords \ ShortPasswords]
    BY <2>1 DEF RegisterLookup, Credentials
  <2>3. pc'[t] = "register_insert" /\ req' = req
    BY <1>3, <2>1 DEF GoTo, Shape
  <2>4. Routed(t)' /\ Acting(t)' /\ Checked(t)'
    BY <2>2, <2>3 DEF Routed, Acting, Checked
  <2> QED
    BY <1>1, <1>3, <2>4, GoToMoves DEF Points
<1> QED
  BY <1>2, <1>3 DEF RegisterLookup

\* What is found has a name that is one.
LEMMA FoundIsNamed ==
  ASSUME Stores, NEW username, FindUser(username).ok
  PROVE  username \in Usernames
<1> DEFINE S == {i \in DOMAIN users : Username(users[i].doc) = username}
<1>1. S # {}
  BY DEF FindUser, FirstOf, Nullopt
<1> QED
  BY <1>1 DEF Stores

LEMMA LoginLookupMoves ==
  ASSUME IInv, Grows, Table', NEW t \in Threads, LoginLookup(t)
  PROVE  Connections'
<1> DEFINE username == req[t].body.username
           Matches == /\ FindUser(username).ok
                      /\ PasswordHash(FindUser(username).recs[1].doc) = Hash[req[t].body.password]
<1>1. answer' = answer /\ users' = users
  BY DEF LoginLookup, sharedVars, sessionVars, storeVars
<1>2. CASE Respond(t, 401)
  BY <1>1, <1>2, RespondMoves DEF Respond
<1>3. CASE Matches /\ GoTo(t, "login_session")
  <2>1. /\ req[t] \in [op : {"register", "login"}, body : Credentials \cup {NotObject}]
        /\ Shape /\ Stores
    BY DEF IInv, Connections, Thread, Routed, LoginLookup
  <2>2. username \in Usernames
    BY <1>3, <2>1, FoundIsNamed
  <2>3. req[t].body \in [username : Usernames, password : Passwords]
    BY <2>1, <2>2 DEF LoginLookup, Credentials
  <2>4. pc'[t] = "login_session" /\ req' = req
    BY <1>3, <2>1 DEF GoTo, Shape
  <2>5. Routed(t)' /\ Acting(t)'
    BY <2>3, <2>4 DEF Routed, Acting
  <2>6. FindUser(username)' = FindUser(username)
    BY <1>1, <2>4 DEF FindUser
  <2>7. Checked(t)'
    BY <1>3, <2>4, <2>6 DEF Checked
  <2> QED
    BY <1>1, <1>3, <2>5, <2>7, GoToMoves DEF Points
<1> QED
  BY <1>2, <1>3 DEF LoginLookup

LEMMA LoginSessionMoves ==
  ASSUME IInv, Grows, Table', NEW t \in Threads, LoginSession(t)
  PROVE  Connections'
<1>1. PICK tok \in DOMAIN issued' : RespondWith(t, 200, tok)
  BY DEF LoginSession
<1>2. answer' = answer
  BY LoginTable
<1> QED
  BY <1>1, <1>2, RespondMoves

\* A handler that changes items goes on only with a session that was issued to the
\* user it was told of, and that had not ended when the request came.
LEMMA AuthorizeMoves ==
  ASSUME IInv, Grows, Table', NEW t \in Threads, Authorize(t)
  PROVE  Connections'
<1>1. \A u \in Threads \ {t} : answer'[u] = answer[u]
  BY LookupTable DEF Authorize
<1>2. CASE Respond(t, 401)
  BY <1>1, <1>2, RespondMoves DEF Respond
<1>3. CASE answer'[t] # NoUser /\ GoTo(t, req[t].op)
  <2>1. Shape /\ Table /\ Thread(t)
    BY DEF IInv, Connections
  <2>2. req[t] \in ChangeRequests
    BY <2>1 DEF Thread, Routed, Authorize
  <2>3. req[t].op \in {"create", "update", "delete"}
    BY <2>2 DEF ChangeRequests
  <2>4. pc'[t] = req[t].op /\ req' = req /\ token' = token /\ late' = late
    BY <1>3, <2>1 DEF GoTo, Shape
  <2>5. issued' = issued
    BY DEF Authorize
  <2>6. Routed(t)' /\ Checked(t)'
    BY <2>2, <2>3, <2>4 DEF Routed, Checked
  <2>7. t \in DOMAIN answer
    BY <2>1 DEF Table, Sessions!TypeOK
  <2>8. /\ token[t] \in DOMAIN sessions /\ ~ Sessions!Expired(sessions[token[t]], now)
        /\ answer'[t] = sessions[token[t]].username
    BY <1>3, <2>7 DEF Authorize, CurrentUser, Sessions!UsernameFor
  <2>9. token[t] \in DOMAIN issued \ revoked /\ sessions[token[t]] = issued[token[t]]
    BY <2>1, <2>8 DEF Table
  <2>10. ~ late[t]
    BY <2>1, <2>8, <2>9 DEF Thread, Late
  <2>11. Acting(t)'
    BY <2>4, <2>5, <2>8, <2>9, <2>10 DEF Acting
  <2>12. req[t].op \in Points
    BY <2>3 DEF Points
  <2> QED
    BY <1>1, <1>3, <2>6, <2>11, <2>12, GoToMoves
<1> QED
  BY <1>2, <1>3 DEF Authorize

\* Every other call of a handler sets a response or drops the connection.
LEMMA HandleMoves ==
  ASSUME IInv, Grows, Table', NEW t \in Threads, Handle(t)
  PROVE  Connections'
<1>1. ASSUME NEW status \in {200, 201, 400, 401, 404, 409}, Respond(t, status),
             \A u \in Threads \ {t} : answer'[u] = answer[u]
      PROVE  Connections'
  BY <1>1, RespondMoves DEF Respond
<1>2. ASSUME Drop(t)
      PROVE  Connections'
  <2>1. cookies' \subseteq DOMAIN issued'
    BY <1>2 DEF Drop, IInv, Connections, Grows
  <2> QED
    BY <1>2, <2>1, FinishMoves DEF Drop
<1>3. CASE RegisterInvalid(t) \/ RegisterInsert(t) \/ List(t) \/ Get(t) \/ CreateInvalid(t)
           \/ Create(t) \/ Update(t) \/ UpdateUnreadable(t) \/ Delete(t)
  <2>1. answer' = answer /\ \E status \in {200, 201, 400, 401, 404, 409} : Respond(t, status)
    BY <1>3 DEF RegisterInvalid, RegisterInsert, List, Get, CreateInvalid, Create, Update,
      UpdateUnreadable, Delete, sharedVars, sessionVars
  <2> QED
    BY <1>1, <2>1
<1>4. CASE Unreadable(t) \/ CreateUnreadable(t)
  BY <1>2, <1>4 DEF Unreadable, CreateUnreadable
<1>5. CASE Static(t)
  BY <1>1, <1>2, <1>5 DEF Static, sharedVars, sessionVars
<1>6. CASE Logout(t)
  BY <1>1, <1>6, LogoutTable DEF Logout
<1>7. CASE SessionCheck(t)
  BY <1>1, <1>7, LookupTable DEF SessionCheck
<1> QED
  BY <1>3, <1>4, <1>5, <1>6, <1>7, RegisterLookupMoves, LoginLookupMoves, LoginSessionMoves,
    AuthorizeMoves DEF Handle

LEMMA SendMoves ==
  ASSUME IInv, Grows, NEW t \in Threads, Send(t) \/ SendFails(t)
  PROVE  Connections'
<1>1. Finish(t) /\ (cookies' = cookies \/ cookies' = cookies \cup ({response[t].cookie} \ {NoToken}))
  BY DEF Send, SendFails, Drop
<1>2. cookies' \subseteq DOMAIN issued'
  BY <1>1 DEF IInv, Connections, Thread, Known, Grows
<1> QED
  BY <1>1, <1>2, FinishMoves

LEMMA CrashMoves ==
  ASSUME IInv, Crash
  PROVE  Connections'
<1>1. Shape'
  BY DEF Crash, Shape, Points, Responses, NoResponse
<1>2. ASSUME NEW t \in Threads
      PROVE  Thread(t)'
  BY DEF Crash, Thread, Routed, Known, Late, Acting, Checked, NoResponse
<1>3. cookies' \subseteq DOMAIN issued'
  BY DEF Crash, IInv, Connections
<1> QED
  BY <1>1, <1>2, <1>3 DEF Connections

LEMMA ConnectionsNext ==
  ASSUME IInv, [Next]_vars
  PROVE  Connections'
<1>1. CASE Crash
  BY <1>1, CrashMoves
<1>2. CASE ~ Crash
  <2>1. Grows /\ Table'
    BY <1>2, GrowsStep, SessionsNext
  <2>2. CASE Tick \/ UNCHANGED vars
    <3>1. UNCHANGED <<pc, req, token, response, late, cookies, answer>>
      BY <2>2 DEF Tick, Sessions!Tick, vars, sessionVars
    <3>2. Shape'
      BY <3>1 DEF IInv, Connections, Shape
    <3>3. \A t \in Threads : Thread(t)'
      BY <2>1, <3>1, ThreadStays
    <3>4. cookies' \subseteq DOMAIN issued'
      BY <2>1, <3>1 DEF IInv, Connections, Grows
    <3> QED
      BY <3>2, <3>3, <3>4 DEF Connections
  <2> QED
    BY <1>2, <2>1, <2>2, ReceiveMoves, HandleMoves, SendMoves DEF Next
<1> QED
  BY <1>1, <1>2

LEMMA InvNext == IInv /\ [Next]_vars => IInv'
  BY StoresNext, SessionsNext, ConnectionsNext DEF IInv

-----------------------------------------------------------------------------
(* The theorems. *)

LEMMA Invariant == Spec => []IInv
  BY InvInit, InvNext, PTL DEF Spec

\* Every variable keeps its type, however the requests of all connections
\* interleave and whenever the process crashes (CruddXwebb.cpp:159-369).
THEOREM ServerTypes == Spec => []TypeOK
<1>1. IInv => TypeOK
  BY DEF IInv, Stores, Table, Connections, Shape, TypeOK, Arrays
<1> QED
  BY <1>1, Invariant, PTL

\* A token opens a session exactly as long as logins, logouts, expiry and restarts
\* say: for every number of connections (session_manager.h:21-48).
THEOREM SessionsMatchHistoryAlways == Spec => []SessionsMatchHistory
<1>1. IInv => SessionsMatchHistory
  <2> SUFFICES ASSUME IInv PROVE SessionsMatchHistory
    OBVIOUS
  <2> DEFINE L == {tok \in DOMAIN sessions : ~ Sessions!Expired(sessions[tok], now)}
             H == {tok \in DOMAIN issued \ revoked : ~ Sessions!Expired(issued[tok], now)}
  <2>1. L = H /\ \A tok \in L : sessions[tok] = issued[tok]
    BY DEF IInv, Table
  <2> HIDE DEF L, H
  <2>2. [tok \in L |-> sessions[tok]] = [tok \in H |-> issued[tok]]
    BY <2>1
  <2> QED
    BY <2>2 DEF SessionsMatchHistory, Sessions!Live, Sessions!Restrict, Restrict, L, H
<1> QED
  BY <1>1, Invariant, PTL

\* Whoever has a session has an account (CruddXwebb.cpp:197-207).
THEOREM SessionsHaveAccountsAlways == Spec => []SessionsHaveAccounts
<1>1. IInv => SessionsHaveAccounts
  BY DEF IInv
<1> QED
  BY <1>1, Invariant, PTL

\* Nothing comes between the password check of a login and its session: the
\* account that was checked is still the one of that name (CruddXwebb.cpp:197-207).
THEOREM LoginMatchesAlways == Spec => []LoginMatches
<1>1. IInv => LoginMatches
  BY DEF IInv, Connections, Thread, Checked, LoginMatches
<1> QED
  BY <1>1, Invariant, PTL

\* A request gets past the session check only for the user its cookie was issued
\* to, and only if the cookie was good when it arrived (CruddXwebb.cpp:318-345).
THEOREM ActsAsLoggedInAlways == Spec => []ActsAsLoggedIn
<1>1. IInv => ActsAsLoggedIn
  BY DEF IInv, Connections, Thread, Acting, ActsAsLoggedIn
<1> QED
  BY <1>1, Invariant, PTL

\* The items are those created less those deleted, as clients were told: no two
\* deletes of one item both answer 200 (json_store.h:81-91, CruddXwebb.cpp:283-291).
THEOREM ItemsBalancedAlways == Spec => []ItemsBalanced
<1>1. IInv => ItemsBalanced
  BY DEF IInv, Stores, ItemsBalanced
<1> QED
  BY <1>1, Invariant, PTL

\* No request changes, moves or drops a user record (CruddXwebb.cpp:171-182).
THEOREM UsersGrow == Spec => UsersOnlyGrow
<1> DEFINE Step == users' = << >> \/ \A i \in DOMAIN users : i \in DOMAIN users' /\ users'[i] = users[i]
<1>1. IInv /\ [Next]_vars => [Step]_users
  <2> SUFFICES ASSUME IInv, [Next]_vars, users' # users PROVE Step
    OBVIOUS
  <2>1. CASE Crash
    BY <2>1 DEF Crash
  <2>2. CASE ~ Crash
    <3>1. users \in Arrays
      BY DEF IInv, Stores
    <3>2. PICK r \in Records : users' = Append(users, r)
      BY <2>2, GrowsStep DEF Grows
    <3> QED
      BY <3>1, <3>2 DEF Arrays
  <2> QED
    BY <2>1, <2>2
<1> QED
  BY <1>1, Invariant, PTL DEF Spec, UsersOnlyGrow
=============================================================================
