------------------------------- MODULE Server -------------------------------
(***************************************************************************)
(* The web application (CruddXwebb.cpp): one thread per connection reads a *)
(* request, routes it to a handler, and writes the response.  The handlers *)
(* share two JsonStores, g_users and g_items, and the SessionManager       *)
(* g_sessions.  Each call to one of the three is a step of its own, and    *)
(* between two calls of one handler the other threads run.                 *)
(*                                                                         *)
(* A store call is atomic here: JsonStore is shown to implement Table.     *)
(* What a crash adds to that, an emptied file, is part of Crash below.     *)
(***************************************************************************)
EXTENDS JsonArray, Functions, FiniteSets

CONSTANTS
  Threads, Tokens, Usernames, Lifetime, MaxNow,
  Passwords, ShortPasswords,   \* those of fewer than four characters
  Hash,                        \* SHA256::hash, a function on Passwords
  EmptyTitle, NotString,       \* a title that is "", a title that is no string
  NoUser, NoToken, NoRequest,  \* "" as a username, no cookie, a thread that is reading
  NotInt,                      \* an id that stoi rejects
  Requests,                    \* what clients send
  InitialUsers, InitialItems,  \* the files when the program is first started
  MaxId                        \* bound: clients create no record past this id

Credentials == [username : Usernames \cup {NoUser}, password : Passwords]

RequestTypes ==
  [op : {"register", "login"}, body : Credentials \cup {NotObject}] \cup
  [op : {"logout", "session", "list", "static"}] \cup
  [op : {"get", "delete"}, id : Int \cup {NotInt}] \cup
  [op : {"create"}, body : Bodies \cup {NotObject}] \cup
  [op : {"update"}, id : Int \cup {NotInt}, body : Bodies \cup {NotObject}]

\* A user record, as handle_register builds it.
Account(username, password) == [username |-> username, password_hash |-> Hash[password]]

ASSUME RequestsTyped == Requests \subseteq RequestTypes
ASSUME AccountsAreDocs ==
  \A username \in Usernames, password \in Passwords \ ShortPasswords :
    Account(username, password) \in Docs
ASSUME OwnersAreDocs ==
  \A username \in Usernames : [owner |-> username] \in Docs
ASSUME InitialTyped ==
  /\ InitialUsers \in Arrays /\ Ascending(InitialUsers)
  /\ InitialItems \in Arrays /\ Ascending(InitialItems)

\* What SessionManager assumes.
ASSUME LifetimeNat == Lifetime \in Nat
ASSUME NoUserIsNone == NoUser \notin Usernames

VARIABLES
  users, items,   \* what g_users and g_items hold
  sessions, now, answer,  \* g_sessions, the clock and each thread's current_user()
  pc,             \* per thread: the call it makes next
  req,            \* per thread: the request
  token,          \* per thread: the session cookie of the request
  response,       \* per thread: the status, and the cookie a login sets
  cookies,        \* the tokens clients have received (external: browsers)
  \* History variables.
  issued,         \* token -> whom it was issued to and when
  revoked,        \* the tokens logged out, and those issued before a restart
  late,           \* per thread: the cookie had been revoked or had expired at Receive
  balance         \* items there were, plus those created, minus those deleted

storeVars   == <<users, items, balance>>
sessionVars == <<sessions, now, answer>>
sharedVars == <<storeVars, sessionVars, issued, revoked>>
vars == <<storeVars, sessionVars, pc, req, token, response, cookies, late, issued, revoked>>

Sessions == INSTANCE SessionManager

Points ==
  {"idle", "register", "register_insert", "login", "login_session", "logout", "session",
   "list", "get", "static", "auth", "create", "update", "delete", "reply"}

Responses == [status : {0, 200, 201, 400, 401, 404, 409}, cookie : Tokens \cup {NoToken}]

TypeOK ==
  /\ users \in Arrays /\ items \in Arrays
  /\ Sessions!TypeOK
  /\ pc \in [Threads -> Points]
  /\ req \in [Threads -> RequestTypes \cup {NoRequest}]
  /\ token \in [Threads -> Tokens \cup {NoToken}]
  /\ response \in [Threads -> Responses]
  /\ cookies \subseteq Tokens
  /\ DOMAIN issued \subseteq Tokens
  /\ \A tok \in DOMAIN issued : issued[tok] \in Sessions!SessionData
  /\ revoked \subseteq DOMAIN issued
  /\ late \in [Threads -> BOOLEAN]
  /\ balance \in Int

NoResponse == [status |-> 0, cookie |-> NoToken]

Init ==
  /\ users = InitialUsers
  /\ items = InitialItems
  /\ Sessions!Init
  /\ pc = [t \in Threads |-> "idle"]
  /\ req = [t \in Threads |-> NoRequest]
  /\ token = [t \in Threads |-> NoToken]
  /\ response = [t \in Threads |-> NoResponse]
  /\ cookies = {}
  /\ issued = << >>
  /\ revoked = {}
  /\ late = [t \in Threads |-> FALSE]
  /\ balance = Len(InitialItems)

-----------------------------------------------------------------------------
(* Reading, routing and replying. *)

\* The threads that work on a request of some kind: the bounds count them as
\* the record or the session they may yet create.
Pending(ops) == Cardinality({t \in Threads : pc[t] # "idle" /\ req[t].op \in ops})

WithinBounds(r) ==
  /\ r.op = "register" => NextId(users) + Pending({"register"}) <= MaxId
  /\ r.op = "create" => NextId(items) + Pending({"create"}) <= MaxId
  /\ r.op = "login" => Pending({"login"}) < Cardinality(Tokens \ DOMAIN issued)

\* The first call of the handler route() picks; the routes that need a session
\* look it up first, those with an id in the path parse that before.
Entry(r) ==
  IF r.op \in {"get", "update", "delete"} /\ r.id = NotInt THEN "reply"
  ELSE IF r.op \in {"create", "update", "delete"} THEN "auth" ELSE r.op

\* http::read: a request arrives, with a cookie the client was once given or none.
Receive(t, r, tok) ==
  /\ pc[t] = "idle"
  /\ WithinBounds(r)  \* bound
  /\ pc' = [pc EXCEPT ![t] = Entry(r)]
  /\ req' = [req EXCEPT ![t] = r]
  /\ token' = [token EXCEPT ![t] = tok]
  /\ response' = [response EXCEPT ![t] =
       IF Entry(r) = "reply" THEN [status |-> 400, cookie |-> NoToken] ELSE NoResponse]
  /\ late' = [late EXCEPT ![t] =
       tok \in revoked \/ (tok \in DOMAIN issued /\ Sessions!Expired(issued[tok], now))]
  /\ UNCHANGED <<storeVars, sessionVars, cookies, issued, revoked>>

RespondWith(t, status, cookie) ==
  /\ pc' = [pc EXCEPT ![t] = "reply"]
  /\ response' = [response EXCEPT ![t] = [status |-> status, cookie |-> cookie]]
  /\ UNCHANGED <<req, token, cookies, late>>

Respond(t, status) == RespondWith(t, status, NoToken)

\* The thread is done with the request: it reads the next one or ends.
Finish(t) ==
  /\ pc' = [pc EXCEPT ![t] = "idle"]
  /\ req' = [req EXCEPT ![t] = NoRequest]
  /\ token' = [token EXCEPT ![t] = NoToken]
  /\ response' = [response EXCEPT ![t] = NoResponse]
  /\ late' = [late EXCEPT ![t] = FALSE]
  /\ UNCHANGED sharedVars

\* An exception leaves the handler: handle_connection closes without a response.
Drop(t) == Finish(t) /\ UNCHANGED cookies

\* The handler goes on to its next call.
GoTo(t, point) ==
  /\ pc' = [pc EXCEPT ![t] = point]
  /\ UNCHANGED <<req, token, response, cookies, late>>

Send(t) ==
  /\ pc[t] = "reply"
  /\ cookies' = cookies \cup ({response[t].cookie} \ {NoToken})
  /\ Finish(t)

\* http::write reports an error: what the handler did stays done.
SendFails(t) ==
  /\ pc[t] = "reply"
  /\ Drop(t)

-----------------------------------------------------------------------------
(* POST /api/register, /api/login, /api/logout, GET /api/session. *)

Username(doc) == IF "username" \in DOMAIN doc THEN doc.username ELSE NoUser
PasswordHash(doc) == IF "password_hash" \in DOMAIN doc THEN doc.password_hash ELSE NoUser

\* The users file is one that this program has written: its records are accounts.
ASSUME InitialAccounts == \A i \in DOMAIN InitialUsers : Username(InitialUsers[i].doc) \in Usernames

\* Mutated form: the search goes on past the first match.
FindUserLast(username) ==
  LET Matches == {i \in DOMAIN users : Username(users[i].doc) = username}
  IN IF Matches = {} THEN Nullopt ELSE Value(users[CHOOSE i \in Matches : \A j \in Matches : j <= i])

\* g_users.find_if with the predicate of handle_register and handle_login.
FindUser(username) ==
  FirstOf(users, {i \in DOMAIN users : Username(users[i].doc) = username})

\* body.value throws when the body is no object.
Unreadable(t) ==
  /\ pc[t] \in {"register", "login"}
  /\ req[t].body = NotObject
  /\ Drop(t)

RegisterInvalid(t) ==
  /\ pc[t] = "register"
  /\ req[t].body # NotObject
  /\ req[t].body.username = NoUser \/ req[t].body.password \in ShortPasswords
  /\ Respond(t, 400)
  /\ UNCHANGED sharedVars

RegisterLookup(t) ==
  /\ pc[t] = "register"
  /\ req[t].body # NotObject
  /\ req[t].body.username # NoUser /\ req[t].body.password \notin ShortPasswords
  /\ IF FindUser(req[t].body.username).ok THEN Respond(t, 409) ELSE GoTo(t, "register_insert")
  /\ UNCHANGED sharedVars

\* Mutated form: the password is stored as it is.
NewUserPlain(t) ==
  [op |-> "insert",
   body |-> [id |-> NoId, doc |-> [username |-> req[t].body.username,
                                   password_hash |-> req[t].body.password]]]

NewUser(t) ==
  [op |-> "insert",
   body |-> [id |-> NoId, doc |-> Account(req[t].body.username, req[t].body.password)]]

RegisterInsert(t) ==
  /\ pc[t] = "register_insert"
  /\ \E o \in Outcomes(users, NewUser(t)) : users' = o.arr
  /\ Respond(t, 201)
  /\ UNCHANGED <<items, balance, sessionVars, issued, revoked>>

LoginLookup(t) ==
  /\ pc[t] = "login"
  /\ req[t].body # NotObject
  /\ LET user == FindUser(req[t].body.username)
     IN IF user.ok /\ PasswordHash(user.recs[1].doc) = Hash[req[t].body.password]
        THEN GoTo(t, "login_session") ELSE Respond(t, 401)
  /\ UNCHANGED sharedVars

\* create_session; generate_token is assumed never to repeat itself.
LoginSession(t) ==
  /\ pc[t] = "login_session"
  /\ \E tok \in Tokens \ DOMAIN issued :
       /\ Sessions!CreateSession(req[t].body.username, tok)
       /\ issued' = [k \in DOMAIN issued \cup {tok} |->
            IF k = tok THEN [username |-> req[t].body.username, created_at |-> now] ELSE issued[k]]
       /\ RespondWith(t, 200, tok)
  /\ UNCHANGED <<storeVars, revoked>>

\* Mutated form: only the cookie is cleared.
LogoutClientOnly(t) ==
  /\ pc[t] = "logout"
  /\ revoked' = revoked \cup ({token[t]} \ {NoToken})
  /\ Respond(t, 200)
  /\ UNCHANGED <<storeVars, sessionVars, issued>>

Logout(t) ==
  /\ pc[t] = "logout"
  /\ \/ token[t] = NoToken /\ UNCHANGED <<sessionVars, revoked>>
     \/ /\ token[t] # NoToken
        /\ Sessions!DestroySession(token[t])
        /\ revoked' = revoked \cup {token[t]}
  /\ Respond(t, 200)
  /\ UNCHANGED <<storeVars, issued>>

\* current_user: no cookie is no user; the empty string is left in answer.
CurrentUser(t) ==
  \/ /\ token[t] = NoToken
     /\ answer' = [answer EXCEPT ![t] = NoUser]
     /\ UNCHANGED <<sessions, now>>
  \/ token[t] # NoToken /\ Sessions!UsernameFor(t, token[t])

SessionCheck(t) ==
  /\ pc[t] = "session"
  /\ CurrentUser(t)
  /\ Respond(t, 200)
  /\ UNCHANGED <<storeVars, issued, revoked>>

-----------------------------------------------------------------------------
(* The items routes and the static files. *)

Authorize(t) ==
  /\ pc[t] = "auth"
  /\ CurrentUser(t)
  /\ IF answer'[t] = NoUser THEN Respond(t, 401) ELSE GoTo(t, req[t].op)
  /\ UNCHANGED <<storeVars, issued, revoked>>

\* g_items.all(), and g_items.find_by_id(id): neither route asks for a session.
List(t) ==
  /\ pc[t] = "list"
  /\ Respond(t, 200)
  /\ UNCHANGED sharedVars

Get(t) ==
  /\ pc[t] = "get"
  /\ Respond(t, IF FirstOf(items, Positions(items, req[t].id)).ok THEN 200 ELSE 404)
  /\ UNCHANGED sharedVars

\* Everything else is a file under public/, which is there or not (external).  The
\* 404 quotes the path, and dump() throws when that is no UTF-8.
Static(t) ==
  /\ pc[t] = "static"
  /\ \/ \E status \in {200, 404} : Respond(t, status) /\ UNCHANGED sharedVars
     \/ Drop(t)

TitleOf(body) ==
  IF body # NotObject /\ "title" \in DOMAIN body.doc THEN body.doc["title"] ELSE EmptyTitle

CreateInvalid(t) ==
  /\ pc[t] = "create"
  /\ TitleOf(req[t].body) = EmptyTitle
  /\ Respond(t, 400)
  /\ UNCHANGED sharedVars

\* body.value("title", "") throws when the title is no string.
CreateUnreadable(t) ==
  /\ pc[t] = "create"
  /\ TitleOf(req[t].body) = NotString
  /\ Drop(t)

NewItem(t) ==
  [op |-> "insert",
   body |-> [req[t].body EXCEPT !.doc = Overlay(@, [owner |-> answer[t]])]]

Create(t) ==
  /\ pc[t] = "create"
  /\ TitleOf(req[t].body) \notin {EmptyTitle, NotString}
  /\ \E o \in Outcomes(items, NewItem(t)) : items' = o.arr
  /\ balance' = balance + 1
  /\ Respond(t, 201)
  /\ UNCHANGED <<users, sessionVars, issued, revoked>>

Patch(t) == [op |-> "update", id |-> req[t].id, patch |-> req[t].body]

Update(t) ==
  /\ pc[t] = "update"
  /\ req[t].body # NotObject
  /\ \E o \in Outcomes(items, Patch(t)) :
       /\ items' = o.arr
       /\ Respond(t, IF o.reply.ok THEN 200 ELSE 404)
  /\ UNCHANGED <<users, balance, sessionVars, issued, revoked>>

\* it.key() throws inside update, before it writes: route() answers "invalid id".
\* (A body null or [] has no key to throw at: it is the patch of no members.)
UpdateUnreadable(t) ==
  /\ pc[t] = "update"
  /\ req[t].body = NotObject
  /\ Respond(t, IF req[t].id \in Ids(items) THEN 400 ELSE 404)
  /\ UNCHANGED sharedVars

Removal(t) == [op |-> "remove", id |-> req[t].id]

\* Mutated form: whoever has deleted keeps the store locked until its response is
\* written.
DeleteLocked(t) ==
  /\ pc[t] = "delete"
  /\ \A u \in Threads : ~ (pc[u] = "reply" /\ req[u].op = "delete" /\ response[u].status = 200)
  /\ \E o \in Outcomes(items, Removal(t)) :
       /\ items' = o.arr
       /\ balance' = IF o.reply.ok THEN balance - 1 ELSE balance
       /\ Respond(t, IF o.reply.ok THEN 200 ELSE 404)
  /\ UNCHANGED <<users, sessionVars, issued, revoked>>

Delete(t) ==
  /\ pc[t] = "delete"
  /\ \E o \in Outcomes(items, Removal(t)) :
       /\ items' = o.arr
       /\ balance' = IF o.reply.ok THEN balance - 1 ELSE balance
       /\ Respond(t, IF o.reply.ok THEN 200 ELSE 404)
  /\ UNCHANGED <<users, sessionVars, issued, revoked>>

-----------------------------------------------------------------------------
\* A thread may be inside write_locked: between its trunc and the end of its write.
MayWriteUsers(t) == pc[t] = "register_insert"
MayWriteItems(t) ==
  \/ pc[t] = "create" /\ TitleOf(req[t].body) \notin {EmptyTitle, NotString}
  \/ pc[t] = "update" /\ req[t].body # NotObject /\ Writes(items, Patch(t))
  \/ pc[t] = "delete"

\* Mutated form: a restart that finds the sessions it left.
RestartedKeeping == UNCHANGED <<sessions, answer>>

\* The session map is part of the process.
Restarted ==
  /\ sessions' = << >>
  /\ answer' = [t \in Threads |-> NoUser]

\* The process dies and is started again: sessions and threads are gone, and a
\* store that was being written is empty.
Crash ==
  /\ \/ users' = users
     \/ users' = << >> /\ \E t \in Threads : MayWriteUsers(t)
  /\ \/ items' = items
     \/ items' = << >> /\ \E t \in Threads : MayWriteItems(t)
  /\ balance' = Len(items')
  /\ Restarted
  /\ pc' = [t \in Threads |-> "idle"]
  /\ req' = [t \in Threads |-> NoRequest]
  /\ token' = [t \in Threads |-> NoToken]
  /\ response' = [t \in Threads |-> NoResponse]
  /\ late' = [t \in Threads |-> FALSE]
  /\ revoked' = DOMAIN issued
  /\ UNCHANGED <<now, cookies, issued>>

Tick ==
  /\ Sessions!Tick
  /\ UNCHANGED <<storeVars, pc, req, token, response, cookies, late, issued, revoked>>

Handle(t) ==
  \/ Unreadable(t) \/ RegisterInvalid(t) \/ RegisterLookup(t) \/ RegisterInsert(t)
  \/ LoginLookup(t) \/ LoginSession(t) \/ Logout(t) \/ SessionCheck(t)
  \/ Authorize(t) \/ List(t) \/ Get(t) \/ Static(t)
  \/ CreateInvalid(t) \/ CreateUnreadable(t) \/ Create(t)
  \/ Update(t) \/ UpdateUnreadable(t) \/ Delete(t)

Next ==
  \/ \E t \in Threads :
       \/ \E r \in Requests, tok \in cookies \cup {NoToken} : Receive(t, r, tok)
       \/ Handle(t)
       \/ Send(t)
       \/ SendFails(t)
  \/ Crash
  \/ Tick

Spec == Init /\ [][Next]_vars

\* While some thread is in a handler, one of them goes on: the holder of a store's
\* mutex does not wait for anyone, and the next to get it is nobody in particular.
\* http::write waits for the client to read, as long as that takes, so Send and
\* SendFails owe nothing, and neither do clients, clock and crashes.
FairSpec == Spec /\ WF_vars(\E t \in Threads : Handle(t))

-----------------------------------------------------------------------------
(* Properties *)

\* A token opens a session exactly if it was issued, since the last restart, has
\* not been logged out, and has not outlived Lifetime, and then for the user it
\* was issued to: however logins, logouts, lookups, expiry and crashes interleave.
SessionsMatchHistory ==
  Sessions!Live =
    Restrict(issued,
             {tok \in DOMAIN issued \ revoked : ~ Sessions!Expired(issued[tok], now)})

\* A request that changes items acts for the user its cookie was issued to, and
\* its cookie was good when the request arrived: no request sent after a logout
\* was done, after the session expired or after a restart gets past the check.
ActsAsLoggedIn ==
  \A t \in Threads :
    pc[t] \in {"create", "update", "delete"} =>
      /\ token[t] \in DOMAIN issued
      /\ answer[t] = issued[token[t]].username
      /\ ~ late[t]

\* Whoever has a session has an account: no crash, and no registration that races
\* with another, leaves a session whose user is not in the users file.
SessionsHaveAccounts ==
  \A tok \in DOMAIN sessions : FindUser(sessions[tok].username).ok

\* Between the password check of a login and the creation of its session, the
\* account the password was checked against stays the one of that name.
LoginMatches ==
  \A t \in Threads :
    pc[t] = "login_session" =>
      LET user == FindUser(req[t].body.username)
      IN user.ok /\ PasswordHash(user.recs[1].doc) = Hash[req[t].body.password]

\* No request changes, moves or drops a user record: users only grow, unless a
\* crash loses all of them.
UsersOnlyGrow ==
  [][users' = << >> \/ \A i \in DOMAIN users : i \in DOMAIN users' /\ users'[i] = users[i]]_users

\* Every 201 of a create stands for one item and every 200 of a delete for one
\* less: no two deletes of one item both succeed, no update makes or loses one.
ItemsBalanced == Len(items) = balance

\* A client that does not read its response holds up nobody but itself: once no more
\* requests arrive, every request that did comes to its response or to the end of its
\* connection, although http::write may return on no connection (CruddXwebb.cpp:383).
Arrival == \E t \in Threads, r \in Requests, tok \in cookies \cup {NoToken} : Receive(t, r, tok)
RequestsHandled ==
  <>[][~ Arrival]_vars => \A t \in Threads : pc[t] # "idle" ~> pc[t] \in {"idle", "reply"}

\* "username already taken" (CruddXwebb.cpp:176): a name is registered once.
UniqueUsernames ==
  \A i, j \in DOMAIN users : Username(users[i].doc) = Username(users[j].doc) => i = j

\* "Session-protected CRUD REST API ... GET /api/items" (CruddXwebb.cpp:9-11).
ReadsNeedSession ==
  \A t \in Threads :
    pc[t] = "reply" /\ req[t].op \in {"list", "get"} /\ response[t].status = 200 =>
      token[t] \in DOMAIN issued
=============================================================================
