-------------------------- MODULE JsonStoreProofs --------------------------
(***************************************************************************)
(* JsonStore for every set of threads, calls, documents and initial files. *)
(* Under every combination of faults the ids of the table stay ascending   *)
(* (IdsAscendingAlways) and the copy an operation works on stays current   *)
(* unless its read failed (SnapshotCurrentAlways); and when nothing fails  *)
(* the store is the atomic table (StoreImplementsTable).                   *)
(***************************************************************************)
EXTENDS JsonStore, JsonArrayProofs

\* The steps of the operations are taken by the holder of the mutex, for a call
\* of the interface.
Exclusive ==
  \A t \in Threads : pc[t] # "idle" => mutex = t /\ call[t] \in Calls

IInv == TypeOK /\ Exclusive /\ IdsAscending

-----------------------------------------------------------------------------
\* What the end of an operation does to the variables the invariant is about.
LEMMA ReturnKeeps ==
  ASSUME IInv, NEW t \in Threads, pc[t] # "idle",
         NEW o \in Outcomes(arr[t], call[t]), Return(t, o),
         file' \in {file, o.arr}
  PROVE  IInv'
<1>1. call[t] \in CallTypes /\ arr[t] \in Arrays /\ Ascending(arr[t])
  BY CallsTyped DEF IInv, TypeOK, Exclusive, IdsAscending
<1>2. /\ o.arr \in Arrays
      /\ Ascending(o.arr)
      /\ o.reply \in Replies
  BY <1>1, OutcomeOf
<1>3. /\ mutex' = None
      /\ pc' = [pc EXCEPT ![t] = "idle"]
      /\ call' = [call EXCEPT ![t] = NoCall]
      /\ arr' = [arr EXCEPT ![t] = << >>]
      /\ reply' = [reply EXCEPT ![t] = o.reply]
      /\ promised' = o.arr
  BY DEF Return
<1>4. << >> \in Arrays /\ Ascending(<< >>)
  BY DEF Arrays, Ascending
<1>5. inserts' \in Nat
  BY DEF IInv, TypeOK, Return
<1>6. TypeOK'
  BY <1>2, <1>3, <1>4, <1>5 DEF IInv, TypeOK
<1>7. Exclusive'
  BY <1>3 DEF IInv, TypeOK, Exclusive
<1>8. IdsAscending'
  <2>1. Ascending(Content')
    BY <1>2, <1>4 DEF IInv, IdsAscending, Content
  <2>2. \A s \in Threads : Ascending(arr'[s])
    BY <1>3, <1>4 DEF IInv, TypeOK, IdsAscending
  <2> QED
    BY <2>1, <2>2 DEF IdsAscending, Content
<1> QED
  BY <1>6, <1>7, <1>8 DEF IInv

\* Reading into the local array.
LEMMA LoadKeeps ==
  ASSUME IInv, NEW t \in Threads, pc[t] = "locked",
         NEW a \in Arrays, Ascending(a),
         arr' = [arr EXCEPT ![t] = a],
         pc' = [pc EXCEPT ![t] = "loaded"],
         UNCHANGED <<file, mutex, call, reply, inserts, promised>>
  PROVE  IInv'
<1>1. TypeOK'
  BY DEF IInv, TypeOK
<1>2. Exclusive'
  BY DEF IInv, TypeOK, Exclusive
<1>3. IdsAscending'
  BY DEF IInv, TypeOK, IdsAscending, Content
<1> QED
  BY <1>1, <1>2, <1>3 DEF IInv

LEMMA IInvInit == Init => IInv
<1> SUFFICES ASSUME Init PROVE IInv
  OBVIOUS
<1>1. file \in Arrays /\ Ascending(file)
  BY InitialAscending DEF Init
<1>2. << >> \in Arrays /\ Ascending(<< >>)
  BY DEF Arrays, Ascending
<1>3. TypeOK
  BY <1>1, <1>2 DEF Init, TypeOK, Nullopt, Replies
<1>4. IdsAscending
  BY <1>1, <1>2 DEF Init, IdsAscending, Content
<1> QED
  BY <1>3, <1>4 DEF IInv, Init, Exclusive

LEMMA IInvNext == IInv /\ [Next]_vars => IInv'
<1> SUFFICES ASSUME IInv, [Next]_vars PROVE IInv'
  OBVIOUS
<1>e. << >> \in Arrays /\ Ascending(<< >>)
  BY DEF Arrays, Ascending
<1>c. Content \in Arrays /\ Ascending(Content)
  BY <1>e DEF IInv, TypeOK, IdsAscending, Content
<1>1. ASSUME NEW t \in Threads, NEW c \in Calls, Lock(t, c) PROVE IInv'
  <2>1. TypeOK'
    BY <1>1, CallsTyped DEF IInv, TypeOK, Lock
  <2>2. Exclusive'
    BY <1>1, MarkersDistinct DEF IInv, TypeOK, Exclusive, Lock
  <2>3. IdsAscending'
    BY <1>1 DEF IInv, IdsAscending, Content, Lock
  <2> QED
    BY <2>1, <2>2, <2>3 DEF IInv
<1>2. ASSUME NEW t \in Threads, ReadLocked(t) PROVE IInv'
  BY <1>2, <1>c, LoadKeeps DEF ReadLocked
<1>3. ASSUME NEW t \in Threads, ReadFails(t) PROVE IInv'
  BY <1>3, <1>e, LoadKeeps DEF ReadFails
<1>4. ASSUME NEW t \in Threads, ReturnUnwritten(t) PROVE IInv'
  <2>1. PICK o \in Outcomes(arr[t], call[t]) : Return(t, o)
    BY <1>4 DEF ReturnUnwritten
  <2>2. pc[t] # "idle" /\ file' = file
    BY <1>4 DEF ReturnUnwritten
  <2> QED
    BY <2>1, <2>2, ReturnKeeps
<1>5. ASSUME NEW t \in Threads, Truncate(t) PROVE IInv'
  <2>1. pc[t] # "idle"
    BY <1>5 DEF Truncate, Writing
  <2>2. TypeOK'
    BY <1>5 DEF IInv, TypeOK, Truncate
  <2>3. Exclusive'
    BY <1>5, <2>1 DEF IInv, TypeOK, Exclusive, Truncate
  <2>4. IdsAscending'
    BY <1>5, <1>e DEF IInv, IdsAscending, Content, Truncate
  <2> QED
    BY <2>2, <2>3, <2>4 DEF IInv
<1>6. ASSUME NEW t \in Threads, WriteLocked(t) PROVE IInv'
  <2>1. PICK o \in Outcomes(arr[t], call[t]) : Return(t, o) /\ file' = o.arr
    BY <1>6 DEF WriteLocked
  <2>2. pc[t] # "idle"
    BY <1>6 DEF WriteLocked
  <2> QED
    BY <2>1, <2>2, ReturnKeeps
<1>7. ASSUME NEW t \in Threads, OpenFails(t) \/ WriteFails(t) PROVE IInv'
  <2>1. PICK o \in Outcomes(arr[t], call[t]) : Return(t, o)
    BY <1>7 DEF OpenFails, WriteFails
  <2>2. pc[t] # "idle" /\ file' = file
    BY <1>7 DEF OpenFails, WriteFails, Writing
  <2> QED
    BY <2>1, <2>2, ReturnKeeps
<1>8. CASE Crash
  <2>1. TypeOK'
    BY <1>8, <1>e DEF IInv, TypeOK, Crash, Nullopt, Replies
  <2>2. Exclusive' /\ IdsAscending'
    BY <1>8, <1>e DEF IInv, IdsAscending, Exclusive, Content, Crash
  <2> QED
    BY <2>1, <2>2 DEF IInv
<1>t. ASSUME NEW t \in Threads, Throw(t) PROVE IInv'
  <2>1. TypeOK'
    BY <1>t, <1>e DEF IInv, TypeOK, Throw
  <2>2. Exclusive'
    BY <1>t DEF IInv, TypeOK, Exclusive, Throw
  <2>3. IdsAscending'
    BY <1>t, <1>e DEF IInv, TypeOK, IdsAscending, Content, Throw
  <2> QED
    BY <2>1, <2>2, <2>3 DEF IInv
<1>9. CASE UNCHANGED vars
  BY <1>9 DEF IInv, TypeOK, Exclusive, IdsAscending, Content, vars
<1> QED
  BY <1>1, <1>2, <1>3, <1>4, <1>5, <1>6, <1>7, <1>8, <1>9, <1>t DEF Next, Step

\* The variables keep their types, the mutex excludes and the ids stay ascending.
THEOREM InvariantAlways == Spec => []IInv
  BY IInvInit, IInvNext, PTL DEF Spec

\* Every variable of the store keeps its type, whatever fails.
THEOREM TypeCorrect == Spec => []TypeOK
<1>1. IInv => TypeOK
  BY DEF IInv
<1> QED
  BY <1>1, InvariantAlways, PTL

\* No fault and no interleaving makes two records share an id, in the file or in
\* the copy of an operation (json_store.h:40-91).
THEOREM IdsAscendingAlways == Spec => []IdsAscending
<1>1. IInv => IdsAscending
  BY DEF IInv
<1> QED
  BY <1>1, InvariantAlways, PTL

-----------------------------------------------------------------------------
\* Only the holder of the mutex changes the file, and it does so after its read.
LEMMA SnapshotNext ==
  ASSUME IInv, SnapshotCurrent, [Next]_vars
  PROVE  SnapshotCurrent'
<1>1. ASSUME NEW t \in Threads, NEW c \in Calls, Lock(t, c) PROVE SnapshotCurrent'
  BY <1>1 DEF IInv, TypeOK, SnapshotCurrent, Content, Lock
<1>2. ASSUME NEW t \in Threads, ReadLocked(t) PROVE SnapshotCurrent'
  BY <1>2 DEF IInv, TypeOK, SnapshotCurrent, Content, ReadLocked
<1>3. ASSUME NEW t \in Threads, pc[t] # "idle", pc'[t] # "loaded",
             \A s \in Threads \ {t} : pc'[s] = pc[s] /\ arr'[s] = arr[s]
      PROVE  SnapshotCurrent'
  <2>1. \A s \in Threads \ {t} : pc[s] = "idle"
    BY <1>3 DEF IInv, Exclusive
  <2> QED
    BY <1>3, <2>1 DEF SnapshotCurrent
<1>4. ASSUME NEW t \in Threads, pc[t] # "idle", NEW o, Return(t, o) PROVE SnapshotCurrent'
  BY <1>3, <1>4 DEF IInv, TypeOK, Return
<1>5. ASSUME NEW t \in Threads, ReturnUnwritten(t) \/ WriteLocked(t) \/ OpenFails(t) \/ WriteFails(t)
      PROVE  SnapshotCurrent'
  <2>1. pc[t] # "idle" /\ \E o \in Outcomes(arr[t], call[t]) : Return(t, o)
    BY <1>5 DEF ReturnUnwritten, WriteLocked, OpenFails, WriteFails, Writing
  <2> QED
    BY <2>1, <1>4
<1>6. ASSUME NEW t \in Threads, Truncate(t) PROVE SnapshotCurrent'
  BY <1>3, <1>6 DEF IInv, TypeOK, Truncate, Writing
<1>t. ASSUME NEW t \in Threads, Throw(t) PROVE SnapshotCurrent'
  BY <1>3, <1>t DEF IInv, TypeOK, Throw
<1>r. ASSUME NEW t \in Threads, ReadFails(t) PROVE SnapshotCurrent'
  BY <1>r DEF IInv, TypeOK, SnapshotCurrent, Content, ReadFails
<1>7. CASE Crash
  BY <1>7 DEF SnapshotCurrent, Crash
<1>8. CASE UNCHANGED vars
  BY <1>8 DEF SnapshotCurrent, Content, vars
<1> QED
  BY <1>1, <1>2, <1>r, <1>t, <1>5, <1>6, <1>7, <1>8 DEF Next, Step

\* The array an operation is about to write back was computed from the file as it
\* still is, or from the empty array of a failed read: no operation undoes another,
\* even when processes die and writes fail (json_store.h:40-91).
THEOREM SnapshotCurrentAlways == Spec => []SnapshotCurrent
<1>1. Init => SnapshotCurrent
  BY DEF Init, SnapshotCurrent
<1>2. IInv /\ SnapshotCurrent /\ [Next]_vars => SnapshotCurrent'
  BY SnapshotNext
<1> QED
  BY <1>1, <1>2, InvariantAlways, PTL DEF Spec

-----------------------------------------------------------------------------
\* With no failures: between operations the file is what was promised, and an
\* operation works on it.
Faithful ==
  /\ (mutex = None \/ pc[mutex] \in {"locked", "loaded"}) => file = promised
  /\ mutex # None => pc[mutex] # "idle"
  /\ \A t \in Threads :
       /\ pc[t] = "loaded" => call[t].op # "save_all"
       /\ pc[t] \in {"loaded", "truncated"} =>
            arr[t] = promised \/ call[t].op = "save_all"

\* What save_all leaves does not depend on the table.
LEMMA SaveAllOutcomes ==
  ASSUME NEW a, NEW c, c.op = "save_all"
  PROVE  Outcomes(a, c) = {[arr |-> c.arr, reply |-> [ok |-> TRUE, recs |-> << >>]]}
  BY ZenonT(30) DEF Outcomes

LEMMA SameOutcomes ==
  ASSUME NEW t \in Threads, arr[t] = promised \/ call[t].op = "save_all"
  PROVE  Outcomes(arr[t], call[t]) = Outcomes(promised, call[t])
  BY SaveAllOutcomes

\* The end of an operation keeps the file and the promise together, and is the
\* atomic table's step.
LEMMA ReturnFaithful ==
  ASSUME IInv, Faithful, NEW t \in Threads, pc[t] \in {"loaded", "truncated"},
         NEW o \in Outcomes(arr[t], call[t]), Return(t, o), file' = o.arr
  PROVE  Faithful' /\ AtomicTable!Next
<1>1. mutex = t /\ call[t] \in Calls
  BY DEF IInv, Exclusive
<1>2. Faithful'
  <2>1. file' = promised' /\ mutex' = None /\ pc' = [pc EXCEPT ![t] = "idle"]
    BY DEF Return
  <2>2. \A s \in Threads : pc'[s] = "idle"
    BY <1>1, <2>1 DEF IInv, TypeOK, Exclusive
  <2> QED
    BY <2>1, <2>2 DEF Faithful
<1>3. o \in Outcomes(promised, call[t])
  BY SameOutcomes DEF Faithful
<1>4. AtomicTable!Apply(t, call[t])
  BY <1>3 DEF AtomicTable!Apply, Return
<1> QED
  BY <1>1, <1>2, <1>4 DEF AtomicTable!Next

LEMMA FaithfulNext ==
  ASSUME Faults = {}, IInv, Faithful, [Next]_vars
  PROVE  Faithful' /\ [AtomicTable!Next]_(AtomicTable!vars)
<1>1. ASSUME NEW t \in Threads, NEW c \in Calls, Lock(t, c)
      PROVE  Faithful' /\ UNCHANGED <<promised, reply>>
  BY <1>1, MarkersDistinct DEF IInv, TypeOK, Faithful, Lock
<1>2. ASSUME NEW t \in Threads, ReadLocked(t)
      PROVE  Faithful' /\ UNCHANGED <<promised, reply>>
  <2>1. mutex = t /\ file = promised /\ file # Torn
    BY <1>2, MarkersDistinct DEF IInv, TypeOK, Exclusive, Faithful, ReadLocked
  <2>2. arr' = [arr EXCEPT ![t] = promised]
    BY <1>2, <2>1 DEF ReadLocked, Content
  <2> QED
    BY <1>2, <2>1, <2>2, MarkersDistinct DEF IInv, TypeOK, Faithful, ReadLocked
<1>3. ASSUME NEW t \in Threads, Truncate(t)
      PROVE  Faithful' /\ UNCHANGED <<promised, reply>>
  <2>1. mutex = t /\ pc[t] \in {"locked", "loaded"}
    BY <1>3 DEF IInv, Exclusive, Truncate, Writing
  <2> QED
    BY <1>3, <2>1, MarkersDistinct DEF IInv, TypeOK, Faithful, Truncate, Writing
<1>4. ASSUME NEW t \in Threads, ReturnUnwritten(t)
      PROVE  Faithful' /\ AtomicTable!Next
  <2>1. PICK o \in Outcomes(arr[t], call[t]) : Return(t, o)
    BY <1>4 DEF ReturnUnwritten
  <2>2. o.arr = arr[t]
    BY <1>4, CallsTyped, OutcomeOf DEF IInv, TypeOK, Exclusive, IdsAscending, ReturnUnwritten
  <2>3. file' = o.arr
    BY <1>4, <2>2 DEF IInv, Exclusive, Faithful, ReturnUnwritten
  <2> QED
    BY <1>4, <2>1, <2>3, ReturnFaithful DEF ReturnUnwritten
<1>5. ASSUME NEW t \in Threads, WriteLocked(t)
      PROVE  Faithful' /\ AtomicTable!Next
  BY <1>5, ReturnFaithful DEF WriteLocked
<1>t. ASSUME NEW t \in Threads, Throw(t)
      PROVE  Faithful' /\ UNCHANGED <<promised, reply>>
  <2>1. file = promised /\ \A s \in Threads \ {t} : pc[s] = "idle"
    BY <1>t DEF IInv, TypeOK, Exclusive, Faithful, Throw
  <2>2. \A s \in Threads : pc'[s] = "idle"
    BY <1>t, <2>1 DEF IInv, TypeOK, Throw
  <2> QED
    BY <1>t, <2>1, <2>2 DEF Faithful, Throw
<1>6. CASE UNCHANGED vars
  BY <1>6 DEF Faithful, vars, AtomicTable!vars
<1> QED
  BY <1>1, <1>2, <1>3, <1>4, <1>5, <1>6, <1>t
  DEF Next, Step, ReadFails, OpenFails, WriteFails, Crash, AtomicTable!vars, vars

LEMMA FaithfulInit == Init => Faithful /\ AtomicTable!Init
  BY DEF Init, Faithful, AtomicTable!Init

\* In a process that does not fail, on a disk that does not fail, the file
\* between operations is what the callers were told (json_store.h:28-102).
THEOREM DurableWithoutFaults ==
  ASSUME Faults = {}
  PROVE  Spec => []Durable
<1>1. IInv /\ Faithful => Durable
  BY MarkersDistinct DEF IInv, TypeOK, Faithful, Durable, Content
<1>2. IInv /\ Faithful /\ [Next]_vars => Faithful'
  BY FaithfulNext
<1> QED
  BY <1>1, <1>2, FaithfulInit, InvariantAlways, PTL DEF Spec

\* And every operation is one step of the atomic table: what Server assumes of it.
THEOREM StoreImplementsTable ==
  ASSUME Faults = {}
  PROVE  Spec => ImplementsTable
<1>1. IInv /\ Faithful /\ [Next]_vars => Faithful' /\ [AtomicTable!Next]_(AtomicTable!vars)
  BY FaithfulNext
<1> QED
  BY <1>1, FaithfulInit, InvariantAlways, PTL DEF Spec, ImplementsTable, AtomicTable!Spec
=============================================================================
