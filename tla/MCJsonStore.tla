---------------------------- MODULE MCJsonStore ----------------------------
(* Small instances of JsonStore for TLC. *)
EXTENDS JsonStore

CONSTANTS A, B, t1, t2

\* Objects with one of two values of one key, and the empty object.
MCDocs == {[title |-> A], [title |-> B], << >>}
MCThreads == {t1, t2}

Rec(id, v) == [id |-> id, doc |-> [title |-> v]]
Body(id, v) == Rec(id, v)

\* A new file, the shipped shape (ids 1 and 2), and one whose ids have a gap.
MCInitialArrays == {<< >>, <<Rec(1, A), Rec(2, B)>>, <<Rec(2, A)>>}

Lookups ==
  {[op |-> "all"],
   [op |-> "find_if", matching |-> {[title |-> A]}],
   [op |-> "find_by_id", id |-> 1]}

\* Bodies without an id, with one that is taken, and with one that may not be.
Changes ==
  {[op |-> "insert", body |-> Body(1, A)],
   [op |-> "update", id |-> 1, patch |-> Body(NoId, B)],
   [op |-> "update", id |-> 2, patch |-> Body(-1, A)],
   [op |-> "update", id |-> 1, patch |-> NotObject],
   [op |-> "remove", id |-> 1],
   [op |-> "remove", id |-> 2],
   [op |-> "save_all", arr |-> <<Rec(1, B)>>]}

MCCalls == Lookups \cup Changes

\* save_all is in the interface, the handlers of CruddXwebb.cpp never call it.
MCCallsServed == {c \in MCCalls : c.op # "save_all"}

NoFaults == {}
AllFaults == {"crash", "read", "open", "short"}
CrashOnly == {"crash"}
=============================================================================
