------------------------ MODULE SessionManagerProofs ------------------------
(***************************************************************************)
(* SessionManager for every set of threads, tokens and usernames and every *)
(* lifetime: it keeps its types, and it cannot be told from a table that   *)
(* drops each session when it expires.                                     *)
(***************************************************************************)
EXTENDS SessionManager, TLAPS

LEMMA TypeInit == Init => TypeOK
  BY DEF Init, TypeOK

LEMMA TypeNext == TypeOK /\ [Next]_vars => TypeOK'
<1> SUFFICES ASSUME TypeOK, [Next]_vars PROVE TypeOK'
  OBVIOUS
<1>1. ASSUME NEW t \in Threads, NEW tok \in Tokens, UsernameFor(t, tok) PROVE TypeOK'
  BY <1>1 DEF TypeOK, UsernameFor, Erased, Restrict, SessionData
<1>2. ASSUME NEW username \in Usernames, NEW tok \in Tokens, CreateSession(username, tok)
      PROVE  TypeOK'
  BY <1>2 DEF TypeOK, CreateSession, SessionData
<1>3. ASSUME NEW tok \in Tokens, DestroySession(tok) PROVE TypeOK'
  BY <1>3 DEF TypeOK, DestroySession, Erased, Restrict
<1>4. CASE Tick
  BY <1>4 DEF TypeOK, Tick
<1>5. CASE UNCHANGED vars
  BY <1>5 DEF TypeOK, vars
<1> QED
  BY <1>1, <1>2, <1>3, <1>4, <1>5 DEF Next

\* The session table keeps its types.
THEOREM SessionTypes == Spec => []TypeOK
  BY TypeInit, TypeNext, PTL DEF Spec

-----------------------------------------------------------------------------
\* The tokens that answer.
LiveTokens == {tok \in DOMAIN sessions : ~ Expired(sessions[tok], now)}

LEMMA LiveIs ==
  Live = [tok \in LiveTokens |-> sessions[tok]]
  BY DEF Live, LiveTokens, Restrict

\* A session that is created or erased is created or erased among the live ones.
LEMMA IssueSimulated ==
  ASSUME TypeOK, NEW username \in Usernames, NEW tok \in Tokens, CreateSession(username, tok)
  PROVE  Eager!Issue(username, tok)
<1> DEFINE s == [username |-> username, created_at |-> now]
<1>1. /\ sessions' = [k \in DOMAIN sessions \cup {tok} |-> IF k = tok THEN s ELSE sessions[k]]
      /\ now' = now /\ answer' = answer
  BY DEF CreateSession
<1>2. ~ Expired(s, now)
  BY LifetimeNat DEF TypeOK, Expired
<1> HIDE DEF s
<1>3. LiveTokens' = LiveTokens \cup {tok}
  BY <1>1, <1>2 DEF LiveTokens
<1>4. Live' = [k \in LiveTokens' |-> sessions'[k]]
  BY DEF Live, LiveTokens, Restrict
<1>5. DOMAIN Live = LiveTokens
  BY LiveIs
<1>6. Live' = [k \in DOMAIN Live \cup {tok} |-> IF k = tok THEN s ELSE Live[k]]
  BY <1>1, <1>3, <1>4, <1>5, LiveIs DEF LiveTokens
<1> QED
  BY <1>1, <1>6 DEF Eager!Issue, s

LEMMA ErasedLive ==
  ASSUME NEW tok, sessions' = Erased(tok), now' = now
  PROVE  Live' = Restrict(Live, DOMAIN Live \ {tok})
<1>1. LiveTokens' = LiveTokens \ {tok}
  BY DEF LiveTokens, Erased, Restrict
<1>2. Live' = [k \in LiveTokens' |-> sessions'[k]]
  BY DEF Live, LiveTokens, Restrict
<1>3. DOMAIN Live = LiveTokens
  BY LiveIs
<1> QED
  BY <1>1, <1>2, <1>3, LiveIs DEF LiveTokens, Erased, Restrict

LEMMA LookUpSimulated ==
  ASSUME TypeOK, NEW t \in Threads, NEW tok \in Tokens, UsernameFor(t, tok)
  PROVE  Eager!LookUp(t, tok)
<1>1. DOMAIN Live = LiveTokens /\ now' = now
  BY LiveIs DEF UsernameFor
<1>2. CASE tok \notin DOMAIN sessions
  <2>1. sessions' = sessions /\ answer' = [answer EXCEPT ![t] = NoUser]
    BY <1>2 DEF UsernameFor
  <2>2. Live' = Live
    BY <1>1, <2>1 DEF Live, Restrict, Expired
  <2>3. tok \notin DOMAIN Live
    BY <1>1, <1>2 DEF LiveTokens
  <2> QED
    BY <1>1, <2>1, <2>2, <2>3 DEF Eager!LookUp
<1>3. CASE tok \in DOMAIN sessions /\ Expired(sessions[tok], now)
  <2>1. sessions' = Erased(tok) /\ answer' = [answer EXCEPT ![t] = NoUser]
    BY <1>3 DEF UsernameFor
  <2>2. tok \notin DOMAIN Live
    BY <1>1, <1>3 DEF LiveTokens
  <2>3. Live' = Live
    <3>1. Live' = Restrict(Live, DOMAIN Live \ {tok})
      BY <1>1, <2>1, ErasedLive
    <3>2. Live = [k \in DOMAIN Live |-> Live[k]]
      BY DEF Live, Restrict
    <3> QED
      BY <2>2, <3>1, <3>2 DEF Restrict
  <2> QED
    BY <1>1, <2>1, <2>2, <2>3 DEF Eager!LookUp
<1>4. CASE tok \in DOMAIN sessions /\ ~ Expired(sessions[tok], now)
  <2>1. sessions' = sessions /\ answer' = [answer EXCEPT ![t] = sessions[tok].username]
    BY <1>4 DEF UsernameFor
  <2>2. Live' = Live
    BY <1>1, <2>1 DEF Live, Restrict, Expired
  <2>3. tok \in DOMAIN Live /\ Live[tok] = sessions[tok]
    BY <1>1, <1>4, LiveIs DEF LiveTokens
  <2> QED
    BY <1>1, <2>1, <2>2, <2>3 DEF Eager!LookUp
<1> QED
  BY <1>2, <1>3, <1>4

LEMMA RevokeSimulated ==
  ASSUME NEW tok \in Tokens, DestroySession(tok)
  PROVE  Eager!Revoke(tok)
  BY ErasedLive DEF DestroySession, Eager!Revoke, Eager!Restrict, Restrict

LEMMA PassSimulated ==
  ASSUME TypeOK, Tick
  PROVE  Eager!Pass
<1>1. sessions' = sessions /\ now' = now + 1 /\ answer' = answer
  BY DEF Tick
<1>2. DOMAIN Live = LiveTokens /\ \A tok \in LiveTokens : Live[tok] = sessions[tok]
  BY LiveIs
<1>3. \A tok \in DOMAIN sessions : sessions[tok].created_at \in Nat /\ now \in Nat
  BY DEF TypeOK, SessionData
<1> DEFINE K == {tok \in DOMAIN Live : now' - Live[tok].created_at <= Lifetime}
<1>4. LiveTokens' = K
  BY <1>1, <1>2, <1>3, LifetimeNat DEF LiveTokens, Expired
<1>5. Live' = [tok \in LiveTokens' |-> sessions'[tok]]
  BY DEF Live, LiveTokens, Restrict
<1>6. Live' = Restrict(Live, K)
  BY <1>1, <1>2, <1>4, <1>5 DEF Restrict
<1> QED
  BY <1>1, <1>6 DEF Eager!Pass, Eager!Restrict, Restrict

\* The lazy table implements the eager one: leaving expired sessions in the map
\* until they are looked up is never seen by a caller (session_manager.h:35-41).
THEOREM LazyImplementsEager == Spec => ImplementsEager
<1>1. Init => Eager!Init
  BY DEF Init, Eager!Init, Live, Restrict
<1>2. TypeOK /\ [Next]_vars => [Eager!Next]_(Eager!vars)
  <2> SUFFICES ASSUME TypeOK, [Next]_vars PROVE [Eager!Next]_(Eager!vars)
    OBVIOUS
  <2>1. CASE UNCHANGED vars
    BY <2>1 DEF vars, Eager!vars, Live, Restrict, Expired
  <2>2. CASE Next
    BY <2>2, IssueSimulated, LookUpSimulated, RevokeSimulated, PassSimulated DEF Next, Eager!Next
  <2> QED
    BY <2>1, <2>2
<1> QED
  BY <1>1, <1>2, SessionTypes, PTL DEF Spec, ImplementsEager, Eager!Spec
=============================================================================
