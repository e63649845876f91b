--------------------------- MODULE SessionManager ---------------------------
(***************************************************************************)
(* The in-memory session table (session_manager.h).  Each public operation *)
(* holds mutex_ throughout, and the clock is read inside, so an operation  *)
(* is one step.  A session is not removed when it expires but by the first *)
(* lookup of its token after that.  Nothing compares a generated token     *)
(* with those in the table: here any token may be generated; Server, which *)
(* instantiates this module, adds the assumption that they are fresh.      *)
(***************************************************************************)
EXTENDS Integers, Functions

CONSTANTS
  Threads,    \* the threads that call the table
  Tokens,     \* session tokens
  Usernames,
  NoUser,     \* the empty string: "not found / expired"
  Lifetime,   \* std::chrono::hours(12), in ticks of the clock
  MaxNow      \* bound: the last tick of the clock

ASSUME LifetimeNat == Lifetime \in Nat
ASSUME NoUserIsNone == NoUser \notin Usernames

VARIABLES
  sessions,  \* token -> username and time of creation, for the tokens in the map
  now,       \* std::chrono::steady_clock
  answer     \* per thread: what username_for last returned to it

vars == <<sessions, now, answer>>

SessionData == [username : Usernames, created_at : Nat]

TypeOK ==
  /\ DOMAIN sessions \subseteq Tokens
  /\ \A tok \in DOMAIN sessions : sessions[tok] \in SessionData
  /\ now \in Nat
  /\ answer \in [Threads -> Usernames \cup {NoUser}]

Init ==
  /\ sessions = << >>
  /\ now = 0
  /\ answer = [t \in Threads |-> NoUser]

-----------------------------------------------------------------------------
Erased(tok) == Restrict(sessions, DOMAIN sessions \ {tok})

\* Mutated form: >= for >.
ExpiredAtLifetime(session, time) == time - session.created_at >= Lifetime

Expired(session, time) == time - session.created_at > Lifetime

\* sessions_[token] = ...: a session that already has the token is overwritten.
CreateSession(username, tok) ==
  /\ sessions' = [k \in DOMAIN sessions \cup {tok} |->
                    IF k = tok THEN [username |-> username, created_at |-> now] ELSE sessions[k]]
  /\ UNCHANGED <<now, answer>>

UsernameFor(t, tok) ==
  /\ \/ /\ tok \notin DOMAIN sessions
        /\ answer' = [answer EXCEPT ![t] = NoUser]
        /\ UNCHANGED sessions
     \/ /\ tok \in DOMAIN sessions
        /\ Expired(sessions[tok], now)
        /\ sessions' = Erased(tok)
        /\ answer' = [answer EXCEPT ![t] = NoUser]
     \/ /\ tok \in DOMAIN sessions
        /\ ~ Expired(sessions[tok], now)
        /\ answer' = [answer EXCEPT ![t] = sessions[tok].username]
        /\ UNCHANGED sessions
  /\ UNCHANGED now

\* Mutated form: the session is emptied, not erased.
DestroySessionEmptied(tok) ==
  /\ sessions' = [k \in DOMAIN sessions |->
                    IF k = tok THEN [sessions[k] EXCEPT !.username = NoUser] ELSE sessions[k]]
  /\ UNCHANGED <<now, answer>>

DestroySession(tok) ==
  /\ sessions' = Erased(tok)
  /\ UNCHANGED <<now, answer>>

\* Time passes (external: std::chrono::steady_clock never goes back).
Tick ==
  /\ now < MaxNow  \* bound
  /\ now' = now + 1
  /\ UNCHANGED <<sessions, answer>>

Next ==
  \/ \E t \in Threads, tok \in Tokens : UsernameFor(t, tok)
  \/ \E tok \in Tokens :
       \/ \E username \in Usernames : CreateSession(username, tok)
       \/ DestroySession(tok)
  \/ Tick

Spec == Init /\ [][Next]_vars

-----------------------------------------------------------------------------
(* Properties *)

\* The sessions that have neither been destroyed nor outlived their lifetime.
Live == Restrict(sessions, {tok \in DOMAIN sessions : ~ Expired(sessions[tok], now)})

\* The lazy table answers every lookup as the table that drops each session at
\* the instant it expires would (session_manager.h:35-41).
Eager == INSTANCE LiveSessions WITH live <- Live
ImplementsEager == Eager!Spec
=============================================================================
