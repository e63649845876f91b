------------------------------ MODULE JsonStore ------------------------------
(***************************************************************************)
(* A JsonStore object (json_store.h), the threads that call it, and its    *)
(* file.  Every public operation holds mutex_ from its first statement to  *)
(* its last; inside, it reads the whole file, computes, and, if it changes *)
(* something, opens the file with trunc and writes the whole array back.   *)
(* Nothing reports a failed open or write to the caller, a failed read is  *)
(* an empty table, and a process that dies after the open leaves an empty  *)
(* file.                                                                   *)
(***************************************************************************)
EXTENDS JsonArray

CONSTANTS
  Threads,        \* connection threads that share the store
  Calls,          \* the calls they may make
  InitialArrays,  \* what the file may hold when the store is first constructed
  Faults,         \* which failures occur: "crash", "read", "open", "short"
  MaxInserts,     \* bound: how many inserts one behaviour has
  None, Torn, NoCall

ASSUME CallsTyped == Calls \subseteq CallTypes
ASSUME InitialAscending == InitialArrays \subseteq {a \in Arrays : Ascending(a)}
ASSUME MarkersDistinct ==
  /\ None \notin Threads
  /\ Torn \notin Arrays
  /\ NoCall \notin CallTypes

VARIABLES
  file,      \* the array the file parses to, or Torn: truncated, not (fully) rewritten
  mutex,     \* the holder of mutex_
  pc,        \* per thread: how far the current operation is
  call,      \* per thread: the operation in progress and its arguments
  arr,       \* per thread: the local array filled by read_locked
  reply,     \* per thread: what its last operation returned
  \* History variables.
  inserts,   \* how many inserts have returned: for the bound
  promised   \* the array left by the last operation that returned, as its caller was told

vars == <<file, mutex, pc, call, arr, reply, inserts, promised>>

TypeOK ==
  /\ file \in Arrays \cup {Torn}
  /\ mutex \in Threads \cup {None}
  /\ pc \in [Threads -> {"idle", "locked", "loaded", "truncated"}]
  /\ call \in [Threads -> CallTypes \cup {NoCall}]
  /\ arr \in [Threads -> Arrays]
  /\ reply \in [Threads -> Replies]
  /\ inserts \in Nat
  /\ promised \in Arrays

\* The constructor leaves an existing file alone and creates a missing one as [].
Init ==
  /\ file \in InitialArrays
  /\ mutex = None
  /\ pc = [t \in Threads |-> "idle"]
  /\ call = [t \in Threads |-> NoCall]
  /\ arr = [t \in Threads |-> << >>]
  /\ reply = [t \in Threads |-> Nullopt]
  /\ inserts = 0
  /\ promised = file

\* What read_locked returns: a file that does not parse reads as the empty array.
Content == IF file = Torn THEN << >> ELSE file

-----------------------------------------------------------------------------
\* Mutated form: the operation starts without taking the mutex.
LockFree(t, c) ==
  /\ pc[t] = "idle"
  /\ c.op = "insert" => inserts < MaxInserts
  /\ mutex' = t
  /\ pc' = [pc EXCEPT ![t] = "locked"]
  /\ call' = [call EXCEPT ![t] = c]
  /\ UNCHANGED <<file, arr, reply, inserts, promised>>

\* std::lock_guard at the head of every operation.
Lock(t, c) ==
  /\ pc[t] = "idle"
  /\ c.op = "insert" => inserts < MaxInserts  \* bound
  /\ mutex = None
  /\ mutex' = t
  /\ pc' = [pc EXCEPT ![t] = "locked"]
  /\ call' = [call EXCEPT ![t] = c]
  /\ UNCHANGED <<file, arr, reply, inserts, promised>>

\* json arr = read_locked(), in every operation but save_all.
ReadLocked(t) ==
  /\ pc[t] = "locked"
  /\ call[t].op # "save_all"
  /\ arr' = [arr EXCEPT ![t] = Content]
  /\ pc' = [pc EXCEPT ![t] = "loaded"]
  /\ UNCHANGED <<file, mutex, call, reply, inserts, promised>>

\* The file cannot be opened for reading: !in.good() answers with the empty array.
ReadFails(t) ==
  /\ "read" \in Faults
  /\ pc[t] = "locked"
  /\ call[t].op # "save_all"
  /\ arr' = [arr EXCEPT ![t] = << >>]
  /\ pc' = [pc EXCEPT ![t] = "loaded"]
  /\ UNCHANGED <<file, mutex, call, reply, inserts, promised>>

\* The return of the operation: the guard's destructor unlocks, locals go away.
Return(t, o) ==
  /\ mutex' = None
  /\ pc' = [pc EXCEPT ![t] = "idle"]
  /\ call' = [call EXCEPT ![t] = NoCall]
  /\ arr' = [arr EXCEPT ![t] = << >>]
  /\ reply' = [reply EXCEPT ![t] = o.reply]
  /\ inserts' = IF call[t].op = "insert" THEN inserts + 1 ELSE inserts
  /\ promised' = o.arr

\* An operation that only looks, or an update whose id is not there.
ReturnUnwritten(t) ==
  /\ pc[t] = "loaded"
  /\ ~ Writes(arr[t], call[t])
  /\ \E o \in Outcomes(arr[t], call[t]) : Return(t, o)  \* there is none if it throws
  /\ UNCHANGED file

\* Mutated form: mutex_.lock() and unlock() by hand, and no unlock on this way out.
ThrowLocked(t) ==
  /\ pc[t] = "loaded"
  /\ ThrowsAt(arr[t], call[t])
  /\ pc' = [pc EXCEPT ![t] = "idle"]
  /\ call' = [call EXCEPT ![t] = NoCall]
  /\ arr' = [arr EXCEPT ![t] = << >>]
  /\ UNCHANGED <<file, mutex, reply, inserts, promised>>

\* it.key() throws inside update: unwinding unlocks, the caller gets no reply.
Throw(t) ==
  /\ pc[t] = "loaded"
  /\ ThrowsAt(arr[t], call[t])
  /\ mutex' = None
  /\ pc' = [pc EXCEPT ![t] = "idle"]
  /\ call' = [call EXCEPT ![t] = NoCall]
  /\ arr' = [arr EXCEPT ![t] = << >>]
  /\ UNCHANGED <<file, reply, inserts, promised>>

\* The thread is about to construct the std::ofstream of write_locked.
Writing(t) ==
  \/ pc[t] = "loaded" /\ Writes(arr[t], call[t])
  \/ pc[t] = "locked" /\ call[t].op = "save_all"

\* The open succeeds: std::ios::trunc has emptied the file.
Truncate(t) ==
  /\ Writing(t)
  /\ file' = Torn
  /\ pc' = [pc EXCEPT ![t] = "truncated"]
  /\ UNCHANGED <<mutex, call, arr, reply, inserts, promised>>

\* Mutated form: the array that was read is written back.
WriteLockedStale(t) ==
  /\ pc[t] = "truncated"
  /\ \E o \in Outcomes(arr[t], call[t]) : Return(t, o)
  /\ file' = arr[t]

\* out << arr.dump(2), the stream's destructor and the return.
WriteLocked(t) ==
  /\ pc[t] = "truncated"
  /\ \E o \in Outcomes(arr[t], call[t]) : Return(t, o) /\ file' = o.arr

\* The open fails: the stream's state is never tested, the caller is told of success.
OpenFails(t) ==
  /\ "open" \in Faults
  /\ Writing(t)
  /\ \E o \in Outcomes(arr[t], call[t]) : Return(t, o)
  /\ UNCHANGED file

\* The write stops short (disk full): same, with the file left torn.
WriteFails(t) ==
  /\ "short" \in Faults
  /\ pc[t] = "truncated"
  /\ \E o \in Outcomes(arr[t], call[t]) : Return(t, o)
  /\ UNCHANGED file

\* The process dies, at whatever point, and starts again on the same file.
Crash ==
  /\ "crash" \in Faults
  /\ mutex' = None
  /\ pc' = [t \in Threads |-> "idle"]
  /\ call' = [t \in Threads |-> NoCall]
  /\ arr' = [t \in Threads |-> << >>]
  /\ reply' = [t \in Threads |-> Nullopt]
  /\ UNCHANGED <<file, inserts, promised>>

\* The steps of an operation that holds the mutex.
Step(t) ==
  \/ ReadLocked(t)
  \/ ReturnUnwritten(t)
  \/ Throw(t)
  \/ Truncate(t)
  \/ WriteLocked(t)

Next ==
  \/ \E t \in Threads :
       \/ \E c \in Calls : Lock(t, c)
       \/ Step(t)
       \/ ReadFails(t)
       \/ OpenFails(t)
       \/ WriteFails(t)
  \/ Crash

Spec == Init /\ [][Next]_vars

\* A running thread keeps running; nothing is assumed of who gets the mutex.
FairSpec == Spec /\ \A t \in Threads : WF_vars(Step(t))

-----------------------------------------------------------------------------
(* Properties *)

\* The ids in the file, and in every copy a thread works on, are strictly
\* ascending, so that no two records share one: insert's next_id relies on its
\* copy being the whole table, update and remove on their id naming one record.
IdsAscending ==
  /\ Ascending(Content)
  /\ \A t \in Threads : Ascending(arr[t])

\* Between read_locked and write_locked the file is still what was read, or the
\* read failed: the whole-array write at the end of an operation can undo no
\* other operation, whatever else fails and whenever the process dies.
SnapshotCurrent ==
  \A t \in Threads :
    pc[t] = "loaded" => arr[t] = Content \/ ("read" \in Faults /\ arr[t] = << >>)

\* With no operation under way the file holds what the callers were told it
\* holds: the insert, update or remove that returned last, and all before it.
Durable == mutex = None => Content = promised

\* The store implements the atomic table: its array is the one promised.
AtomicTable == INSTANCE Table WITH table <- promised
ImplementsTable == AtomicTable!Spec

\* An operation that has the mutex gives it back, whatever the others do.
MutexReleased == \A t \in Threads : mutex = t ~> mutex # t
=============================================================================
