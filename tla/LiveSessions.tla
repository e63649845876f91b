---------------------------- MODULE LiveSessions ----------------------------
(***************************************************************************)
(* What a SessionManager promises: a token answers with the user it was    *)
(* last issued to until it is destroyed or Lifetime has passed, and then   *)
(* with nobody.                                                            *)
(***************************************************************************)
EXTENDS Integers, Functions

CONSTANTS Threads, Tokens, Usernames, NoUser, Lifetime

VARIABLES
  live,    \* the sessions that are valid now
  now,
  answer   \* per thread: the answer to its last lookup

vars == <<live, now, answer>>

Init ==
  /\ live = << >>
  /\ now = 0
  /\ answer = [t \in Threads |-> NoUser]

Issue(username, tok) ==
  /\ live' = [k \in DOMAIN live \cup {tok} |->
                IF k = tok THEN [username |-> username, created_at |-> now] ELSE live[k]]
  /\ UNCHANGED <<now, answer>>

LookUp(t, tok) ==
  /\ answer' = [answer EXCEPT ![t] = IF tok \in DOMAIN live THEN live[tok].username ELSE NoUser]
  /\ UNCHANGED <<live, now>>

Revoke(tok) ==
  /\ live' = Restrict(live, DOMAIN live \ {tok})
  /\ UNCHANGED <<now, answer>>

\* Time passes; what has had its Lifetime is gone.
Pass ==
  /\ now' = now + 1
  /\ live' = Restrict(live, {tok \in DOMAIN live : now' - live[tok].created_at <= Lifetime})
  /\ UNCHANGED answer

Next ==
  \/ \E t \in Threads, tok \in Tokens : LookUp(t, tok)
  \/ \E tok \in Tokens :
       \/ \E username \in Usernames : Issue(username, tok)
       \/ Revoke(tok)
  \/ Pass

Spec == Init /\ [][Next]_vars
=============================================================================
