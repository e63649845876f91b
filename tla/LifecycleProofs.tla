-------------------------- MODULE LifecycleProofs --------------------------
(***************************************************************************)
(* Lifecycle for pools of any size and any tasks.  What main and its       *)
(* workers do to poolv2 is what ThreadSafePool does with main for its      *)
(* client, so that module's invariants are taken over as they are proved   *)
(* there; pool's are proved here.                                          *)
(***************************************************************************)
EXTENDS Lifecycle, TLAPS

V2P == INSTANCE ThreadSafePoolProofs WITH
  Clients <- {main}, Waiters <- {main}, Throwing <- {}, Child <- [k \in Tasks |-> NoTask]

\* What ThreadSafePool assumes of its parameters holds of main's.
LEMMA PoolV2Assumptions ==
  /\ Workers \cap {main} = {} /\ None \notin V2P!Actors /\ NoTask \notin Tasks
  /\ Program \in [{main} -> Seq(Tasks)]
  /\ {} \subseteq Tasks
  /\ [k \in Tasks |-> NoTask] \in [Tasks -> Tasks \cup {NoTask}]
  /\ \A c \in {main} \cap {main} : \A i \in DOMAIN Program[c] : Program[c][i] \notin {}
  BY ThreadsDistinct, ProgramsTyped, TasksDistinct DEF V2P!Actors

-----------------------------------------------------------------------------
(* Every step of the program is a step of poolv2 or leaves it alone. *)

LEMMA PoolV2Init == Init => V2P!Init
  BY DEF Init, V2!Init, V2P!Init, V2!Actors, V2P!Actors

LEMMA WorkIsWork ==
  ASSUME NEW w \in Workers, V2!Work(w) \/ V2!WakeSpuriously(w)
  PROVE  V2P!Next
<1> USE DEF V2!Actors, V2P!Actors, V2!Goto, V2P!Goto, V2!After, V2P!After
<1>1. CASE V2!Acquire(w) \/ V2!Check(w) \/ V2!Block(w) \/ V2!Exit(w) \/ V2!WakeSpuriously(w)
  BY <1>1 DEF V2!Acquire, V2P!Acquire, V2!Check, V2P!Check, V2!Block, V2P!Block, V2!Exit, V2P!Exit,
    V2!WakeSpuriously, V2P!WakeSpuriously, V2P!Work, V2P!Next
<1>2. CASE V2!Take(w) \/ V2!Run(w) \/ V2!FinishTask(w)
  BY <1>2 DEF V2!Take, V2P!Take, V2!Run, V2P!Run, V2!FinishTask, V2P!FinishTask, V2P!Work, V2P!Next
<1>3. CASE V2!Enqueue(w) \/ V2!EnqueueRefused(w)
  BY <1>3 DEF V2!Enqueue, V2P!Enqueue, V2!EnqueueLock, V2P!EnqueueLock, V2!EnqueuePush,
    V2P!EnqueuePush, V2!EnqueueNotify, V2P!EnqueueNotify, V2!EnqueueRefused, V2P!EnqueueRefused,
    V2P!Work, V2P!Next
<1> QED
  BY <1>1, <1>2, <1>3 DEF V2!Work

LEMMA UseIsUse ==
  ASSUME V2!Use(main)
  PROVE  V2P!Next
<1> USE DEF V2!Actors, V2P!Actors, V2!Goto, V2P!Goto, V2!After, V2P!After
<1>1. CASE V2!Call(main) \/ V2!Get(main)
  BY <1>1 DEF V2!Call, V2P!Call, V2!Get, V2P!Get, V2P!Use, V2P!Next
<1>2. CASE V2!Enqueue(main)
  BY <1>2 DEF V2!Enqueue, V2P!Enqueue, V2!EnqueueLock, V2P!EnqueueLock, V2!EnqueuePush,
    V2P!EnqueuePush, V2!EnqueueNotify, V2P!EnqueueNotify, V2P!Use, V2P!Next
<1> QED
  BY <1>1, <1>2 DEF V2!Use

LEMMA DestroyIsDestroy ==
  ASSUME V2!Destroy
  PROVE  V2P!Next
  BY DEF V2!Destroy, V2P!Destroy, V2!SetStop, V2P!SetStop, V2!NotifyAll, V2P!NotifyAll,
    V2!Join, V2P!Join, V2P!Next, V2!Actors, V2P!Actors

LEMMA PoolV2Next == [Next]_vars => [V2P!Next]_(V2P!vars)
<1> SUFFICES ASSUME [Next]_vars PROVE [V2P!Next]_(V2P!vars)
  OBVIOUS
<1> USE DEF v2Vars, V2P!vars
<1>1. CASE Main
  BY <1>1, UseIsUse DEF Main, UsePoolV2, PoolV2Used, UsePool, Listen
<1>2. CASE Accept \/ AcceptFails \/ Abort \/ WaitForSleepers
  BY <1>2 DEF Accept, AcceptFails, Abort, WaitForSleepers
<1>3. CASE DestroyPoolV2
  BY <1>3, DestroyIsDestroy DEF DestroyPoolV2
<1>4. ASSUME NEW w \in Workers, V2Work(w) \/ V2!WakeSpuriously(w)
      PROVE  [V2P!Next]_(V2P!vars)
  BY <1>4, WorkIsWork DEF V2Work
<1>5. ASSUME NEW w \in PoolWorkers, PoolWork(w)
      PROVE  [V2P!Next]_(V2P!vars)
  BY <1>5 DEF PoolWork
<1>6. CASE WakeSpuriously
  BY <1>4, <1>6 DEF WakeSpuriously
<1>7. CASE UNCHANGED vars
  BY <1>7 DEF vars
<1> QED
  BY <1>1, <1>2, <1>3, <1>4, <1>5, <1>6, <1>7 DEF Next

\* main and its workers use poolv2 as ThreadSafePool says that a pool is used, up to
\* the end of the process: what is proved of every pool is true of this one
\* (CruddXwebb.cpp:525-569).
THEOREM PoolV2Implemented == Spec => V2P!Spec
  BY PoolV2Init, PoolV2Next, PTL DEF Spec, V2P!Spec

-----------------------------------------------------------------------------
(* poolv2: its tasks neither enqueue nor throw, so main's futures get values. *)

\* No worker is inside enqueue, and no future holds an exception.
Calm ==
  /\ \A w \in Workers : pc[w] \notin {"enq_lock", "enq_push", "enq_notify"}
  /\ \A k \in Tasks : future[k] # "exception"

\* main is done with poolv2 only when every task has its value.
Got == pc[main] = "done" => \A k \in Tasks : future[k] = "value"

LEMMA CalmNext == V2P!Control /\ Calm /\ [V2P!Next]_(V2P!vars) => Calm'
<1> SUFFICES ASSUME V2P!Control, Calm, [V2P!Next]_(V2P!vars) PROVE Calm'
  OBVIOUS
<1> USE ThreadsDistinct
<1>0. /\ pc \in [V2P!Actors -> V2P!WorkerPoints \cup V2P!EnqueuePoints \cup V2P!ClientPoints]
      /\ future \in [Tasks -> {"none", "pending", "value", "exception"}]
      /\ Workers \subseteq V2P!Actors /\ main \in V2P!Actors
      /\ \A x \in V2P!Actors : x = main \/ x \in Workers
  BY DEF V2P!Control, V2P!TypeOK, V2P!Actors
<1>1. ASSUME NEW w \in Workers, V2P!Run(w)
      PROVE  Calm'
  <2>1. task[w] \in Tasks
    BY <1>0, <1>1 DEF V2P!Run, V2P!Control, V2P!TypeOK, V2P!AtWork, V2P!Running
  <2>2. pc' = [pc EXCEPT ![w] = "finish"] /\ future' = future
    BY <1>1, <2>1 DEF V2P!Run, V2P!Goto
  <2> QED
    BY <1>0, <2>2 DEF Calm
<1>2. ASSUME NEW w \in Workers, V2P!FinishTask(w)
      PROVE  Calm'
  <2>1. pc' = [pc EXCEPT ![w] = "lock"] /\ future' = [future EXCEPT ![task[w]] = "value"]
    BY <1>2 DEF V2P!FinishTask, V2P!Goto
  <2> QED
    BY <1>0, <2>1 DEF Calm
<1>3. ASSUME NEW w \in Workers, V2P!EnqueueRefused(w) \/ V2P!Enqueue(w)
      PROVE  FALSE
  BY <1>3 DEF Calm, V2P!EnqueueRefused, V2P!Enqueue, V2P!EnqueueLock, V2P!EnqueuePush,
    V2P!EnqueueNotify
<1>4. ASSUME NEW w \in Workers,
             V2P!Acquire(w) \/ V2P!Check(w) \/ V2P!Block(w) \/ V2P!Exit(w) \/ V2P!Take(w)
               \/ V2P!WakeSpuriously(w)
      PROVE  Calm'
  <2>1. future' = future /\ \E point \in {"check", "take", "blocking", "waiting", "lock", "exited", "run"} :
          pc' = [pc EXCEPT ![w] = point]
    BY <1>4 DEF V2P!Acquire, V2P!Check, V2P!Block, V2P!Exit, V2P!Take, V2P!WakeSpuriously, V2P!Goto
  <2> QED
    BY <1>0, <2>1 DEF Calm
<1>5. CASE V2P!Call(main) \/ V2P!Get(main) \/ V2P!EnqueueLock(main)
  <2>1. future' = future /\ \E point \in {"enq_lock", "enq_push", "done"} : pc' = [pc EXCEPT ![main] = point]
    BY <1>5 DEF V2P!Call, V2P!Get, V2P!EnqueueLock, V2P!Goto
  <2> QED
    BY <1>0, <2>1 DEF Calm
<1>6. CASE V2P!EnqueuePush(main)
  <2>1. future' = [future EXCEPT ![item[main]] = "pending"] /\ pc' = [pc EXCEPT ![main] = "enq_notify"]
    BY <1>6 DEF V2P!EnqueuePush, V2P!Goto
  <2> QED
    BY <1>0, <2>1 DEF Calm
<1>7. CASE V2P!EnqueueNotify(main)
  <2>1. future' = future
    BY <1>7 DEF V2P!EnqueueNotify
  <2>2. \A w \in Workers : pc'[w] = pc[w] \/ pc'[w] = "lock"
    BY <1>0, <1>7 DEF V2P!EnqueueNotify, V2P!Goto
  <2> QED
    BY <2>1, <2>2 DEF Calm
<1>8. CASE V2P!Destroy
  <2>1. future' = future
    BY <1>8 DEF V2P!Destroy, V2P!SetStop, V2P!NotifyAll, V2P!Join
  <2>2. \A w \in Workers : pc'[w] = pc[w] \/ pc'[w] = "lock"
    BY <1>0, <1>8 DEF V2P!Destroy, V2P!SetStop, V2P!NotifyAll, V2P!Join
  <2> QED
    BY <2>1, <2>2 DEF Calm
<1>9. CASE UNCHANGED V2P!vars
  BY <1>9 DEF V2P!vars, Calm
<1> QED
  BY <1>1, <1>2, <1>3, <1>4, <1>5, <1>6, <1>7, <1>8, <1>9 DEF V2P!Next, V2P!Work, V2P!Use, V2P!Enqueue

LEMMA GotNext == V2P!Control /\ Calm /\ Got /\ [V2P!Next]_(V2P!vars) => Got'
<1> SUFFICES ASSUME V2P!Control, Calm, Got, [V2P!Next]_(V2P!vars), pc'[main] = "done"
             PROVE  \A k \in Tasks : future'[k] = "value"
  BY DEF Got
<1> USE ThreadsDistinct
<1>0. /\ pc \in [V2P!Actors -> V2P!WorkerPoints \cup V2P!EnqueuePoints \cup V2P!ClientPoints]
      /\ future \in [Tasks -> {"none", "pending", "value", "exception"}]
      /\ Workers \subseteq V2P!Actors /\ main \in V2P!Actors /\ main \notin Workers
  BY DEF V2P!Control, V2P!TypeOK, V2P!Actors
<1>1. CASE V2P!Get(main)
  <2>1. future' = future
    BY <1>1 DEF V2P!Get
  <2>2. \A i \in DOMAIN Program[main] : future[Program[main][i]] = "value"
    BY <1>1 DEF V2P!Get
  <2> QED
    BY <2>1, <2>2, AllEnqueued
<1>2. ASSUME NEW w \in Workers, V2P!FinishTask(w)
      PROVE  \A k \in Tasks : future'[k] = "value"
  <2>1. pc[main] = "done" /\ future' = [future EXCEPT ![task[w]] = "value"]
    BY <1>0, <1>2 DEF V2P!FinishTask, V2P!Goto
  <2> QED
    BY <1>0, <2>1 DEF Got
<1>3. ASSUME NEW w \in Workers, V2P!EnqueueRefused(w) \/ V2P!Enqueue(w)
      PROVE  FALSE
  BY <1>3 DEF Calm, V2P!EnqueueRefused, V2P!Enqueue, V2P!EnqueueLock, V2P!EnqueuePush,
    V2P!EnqueueNotify
<1>4. ASSUME NEW w \in Workers,
             V2P!Acquire(w) \/ V2P!Check(w) \/ V2P!Block(w) \/ V2P!Exit(w) \/ V2P!Take(w)
               \/ V2P!Run(w) \/ V2P!WakeSpuriously(w)
      PROVE  future' = future /\ pc[main] = "done"
  BY <1>0, <1>4 DEF V2P!Acquire, V2P!Check, V2P!Block, V2P!Exit, V2P!Take, V2P!Run,
    V2P!WakeSpuriously, V2P!Goto
<1>5. CASE V2P!Call(main) \/ V2P!Enqueue(main)
  BY <1>0, <1>5 DEF V2P!Call, V2P!Enqueue, V2P!EnqueueLock, V2P!EnqueuePush, V2P!EnqueueNotify,
    V2P!Goto, V2P!After
<1>6. CASE V2P!Destroy \/ UNCHANGED V2P!vars
  <2>1. future' = future /\ pc[main] = "done"
    BY <1>0, <1>6 DEF V2P!Destroy, V2P!SetStop, V2P!NotifyAll, V2P!Join, V2P!vars
  <2> QED
    BY <2>1 DEF Got
<1> QED
  BY <1>1, <1>2, <1>3, <1>4, <1>5, <1>6 DEF V2P!Next, V2P!Work, V2P!Use, Got

\* poolv2, as ThreadSafePool has it and as main uses it.
PoolV2 == V2P!Control /\ V2P!Exits /\ V2P!Lifetime /\ Calm /\ Got

LEMMA PoolV2InvInit == Init => PoolV2
<1> SUFFICES ASSUME Init PROVE PoolV2
  OBVIOUS
<1>1. V2P!Init
  BY PoolV2Init
<1>2. V2P!Control
  BY <1>1, PoolV2Assumptions, V2P!ControlInit
<1>3. V2P!Exits /\ V2P!Lifetime
  BY <1>1 DEF V2P!Init, V2P!Exits, V2P!Lifetime, V2P!Actors
<1>4. Calm /\ Got
  BY <1>1, ThreadsDistinct DEF V2P!Init, Calm, Got, V2P!Actors
<1> QED
  BY <1>2, <1>3, <1>4 DEF PoolV2

LEMMA PoolV2InvNext == PoolV2 /\ [Next]_vars => PoolV2'
<1> SUFFICES ASSUME PoolV2, [V2P!Next]_(V2P!vars) PROVE PoolV2'
  BY PoolV2Next
<1>1. V2P!Control'
  BY PoolV2Assumptions, V2P!ControlNext DEF PoolV2
<1>2. V2P!Exits'
  BY PoolV2Assumptions, V2P!ExitsNext DEF PoolV2
<1>3. V2P!Lifetime'
  BY PoolV2Assumptions, V2P!LifetimeNext DEF PoolV2
<1>4. Calm' /\ Got'
  BY CalmNext, GotNext DEF PoolV2
<1> QED
  BY <1>1, <1>2, <1>3, <1>4 DEF PoolV2

-----------------------------------------------------------------------------
(* pool: its queue and its notifications. *)

PoolInv == Pool!TypeOK /\ PoolTasksAccounted /\ NoStrandedPoolTask

\* The steps of pool, by whoever takes them.
LEMMA PoolStep ==
  [Next]_vars =>
    \/ UNCHANGED poolVars
    \/ \E w \in PoolWorkers : Pool!Wait(w) \/ Pool!Take(w) \/ Pool!Finish(w) \/ Pool!WakeSpuriously(w)
    \/ stage = "pool" /\ Len(poolPushed) < Len(PoolProgram)
         /\ Pool!Enqueue(main, PoolProgram[Len(poolPushed) + 1])
    \/ Pool!Notify(main)
<1> SUFFICES ASSUME [Next]_vars, ~ UNCHANGED poolVars PROVE
      \/ \E w \in PoolWorkers : Pool!Wait(w) \/ Pool!Take(w) \/ Pool!Finish(w) \/ Pool!WakeSpuriously(w)
      \/ stage = "pool" /\ Len(poolPushed) < Len(PoolProgram)
           /\ Pool!Enqueue(main, PoolProgram[Len(poolPushed) + 1])
      \/ Pool!Notify(main)
  OBVIOUS
<1>1. UsePool \/ (\E w \in PoolWorkers : PoolWork(w)) \/ WakeSpuriously
  BY DEF Next, vars, Main, UsePoolV2, PoolV2Used, Listen, Accept, AcceptFails, DestroyPoolV2, Abort,
    WaitForSleepers, V2Work
<1> QED
  BY <1>1 DEF UsePool, PoolWork, WakeSpuriously, Pool!Work

LEMMA PoolInvInit == Init => PoolInv
  BY DEF Init, Pool!Init, PoolInv, Pool!TypeOK, PoolTasksAccounted, NoStrandedPoolTask

LEMMA PoolInvNext == PoolInv /\ [Next]_vars => PoolInv'
<1> SUFFICES ASSUME PoolInv, [Next]_vars PROVE PoolInv'
  OBVIOUS
<1>0. /\ poolTasks \in Seq(PoolTasks) /\ poolPushed \in Seq(PoolTasks) /\ poolStarted \in Seq(PoolTasks)
      /\ poolAt \in [PoolWorkers -> {"awake", "asleep", "running"}]
      /\ poolPushed = poolStarted \o poolTasks
  BY DEF PoolInv, Pool!TypeOK, PoolTasksAccounted
<1>1. ASSUME NEW w \in PoolWorkers, Pool!Wait(w) \/ Pool!WakeSpuriously(w) \/ Pool!Finish(w)
      PROVE  PoolInv'
  <2>1. Pool!TypeOK' /\ PoolTasksAccounted'
    BY <1>1 DEF Pool!Wait, Pool!WakeSpuriously, Pool!Finish, PoolInv, Pool!TypeOK, PoolTasksAccounted
  <2>2. NoStrandedPoolTask'
    BY <1>0, <1>1 DEF Pool!Wait, Pool!WakeSpuriously, Pool!Finish, PoolInv, NoStrandedPoolTask
  <2> QED
    BY <2>1, <2>2 DEF PoolInv
<1>2. ASSUME NEW w \in PoolWorkers, Pool!Take(w)
      PROVE  PoolInv'
  <2>1. Head(poolTasks) \in PoolTasks /\ Tail(poolTasks) \in Seq(PoolTasks)
    BY <1>0, <1>2 DEF Pool!Take
  <2>2. Pool!TypeOK'
    BY <1>0, <1>2, <2>1 DEF Pool!Take, PoolInv, Pool!TypeOK
  <2>3. poolStarted \o poolTasks = Append(poolStarted, Head(poolTasks)) \o Tail(poolTasks)
    BY <1>0, <1>2 DEF Pool!Take
  <2>4. PoolTasksAccounted'
    BY <1>0, <1>2, <2>3 DEF Pool!Take, PoolTasksAccounted
  <2>5. poolAt'[w] = "running"
    BY <1>0, <1>2 DEF Pool!Take
  <2> QED
    BY <2>2, <2>4, <2>5 DEF PoolInv, NoStrandedPoolTask
<1>3. ASSUME Len(poolPushed) < Len(PoolProgram),
             Pool!Enqueue(main, PoolProgram[Len(poolPushed) + 1])
      PROVE  PoolInv'
  <2> DEFINE k == PoolProgram[Len(poolPushed) + 1]
  <2>1. k \in PoolTasks
    BY <1>0, <1>3, ProgramsTyped
  <2> HIDE DEF k
  <2>2. /\ poolTasks' = Append(poolTasks, k) /\ poolPushed' = Append(poolPushed, k)
        /\ poolNotifying' = poolNotifying \cup {main} /\ poolStarted' = poolStarted
        /\ poolAt' = poolAt /\ poolRunning' = poolRunning
    BY <1>3 DEF Pool!Enqueue, k
  <2>3. Pool!TypeOK'
    BY <1>0, <2>1, <2>2 DEF PoolInv, Pool!TypeOK
  <2>4. Append(poolStarted \o poolTasks, k) = poolStarted \o Append(poolTasks, k)
    <3>1. \A s, t \in Seq(PoolTasks), e \in PoolTasks : Append(s \o t, e) = s \o Append(t, e)
      OBVIOUS
    <3> QED
      BY <1>0, <2>1, <3>1
  <2> QED
    BY <1>0, <2>2, <2>3, <2>4 DEF PoolInv, PoolTasksAccounted, NoStrandedPoolTask
<1>4. ASSUME Pool!Notify(main)
      PROVE  PoolInv'
  <2>1. Pool!TypeOK' /\ PoolTasksAccounted'
    BY <1>4 DEF Pool!Notify, PoolInv, Pool!TypeOK, PoolTasksAccounted
  <2>2. \E w \in PoolWorkers : poolAt'[w] # "asleep"
    BY <1>0, <1>4, PoolHasWorkers DEF Pool!Notify
  <2> QED
    BY <2>1, <2>2 DEF PoolInv, NoStrandedPoolTask
<1>5. CASE UNCHANGED poolVars
  BY <1>5 DEF poolVars, PoolInv, Pool!TypeOK, PoolTasksAccounted, NoStrandedPoolTask
<1> QED
  BY <1>1, <1>2, <1>3, <1>4, <1>5, PoolStep

-----------------------------------------------------------------------------
(* main. *)

\* pool gets its tasks in the order of the program.
Enqueued ==
  /\ Len(poolPushed) <= Len(PoolProgram)
  /\ \A i \in 1..Len(poolPushed) : poolPushed[i] = PoolProgram[i]

\* How far main is tells what it has finished.
Progress ==
  /\ stage \in Stages
  /\ served \in 0..MaxServed
  /\ stage # "poolv2" => pc[main] = "done"
  /\ stage \notin {"poolv2", "pool"} => Len(poolPushed) = Len(PoolProgram)
  /\ stage \in {"aborted", "stuck"} => owner = "destroyed"

IInv == PoolV2 /\ PoolInv /\ Enqueued /\ Progress

LEMMA InvInit == Init => IInv
<1> SUFFICES ASSUME Init PROVE IInv
  OBVIOUS
<1>1. Enqueued
  BY ProgramsTyped DEF Init, Pool!Init, Enqueued
<1>2. Progress
  BY BoundNat DEF Init, Progress, Stages
<1> QED
  BY <1>1, <1>2, PoolV2InvInit, PoolInvInit DEF IInv

LEMMA EnqueuedNext == IInv /\ [Next]_vars => Enqueued'
<1> SUFFICES ASSUME IInv, [Next]_vars PROVE Enqueued'
  OBVIOUS
<1>0. poolPushed \in Seq(PoolTasks) /\ PoolProgram \in Seq(PoolTasks) /\ Enqueued
  BY ProgramsTyped DEF IInv, PoolInv, Pool!TypeOK
<1>1. CASE poolPushed' = poolPushed
  BY <1>0, <1>1 DEF Enqueued
<1>2. CASE /\ Len(poolPushed) < Len(PoolProgram)
           /\ poolPushed' = Append(poolPushed, PoolProgram[Len(poolPushed) + 1])
  <2>1. PoolProgram[Len(poolPushed) + 1] \in PoolTasks
    BY <1>0, <1>2
  <2> QED
    BY <1>0, <1>2, <2>1 DEF Enqueued
<1> QED
  BY <1>1, <1>2, PoolStep DEF Pool!Wait, Pool!Take, Pool!Finish, Pool!WakeSpuriously, Pool!Enqueue,
    Pool!Notify, poolVars

\* main, once done, takes no step of poolv2 but its destructor's, and nobody one after that.
LEMMA PoolV2Stays ==
  ASSUME PoolV2, [V2P!Next]_(V2P!vars)
  PROVE  /\ pc[main] = "done" => pc'[main] = "done"
         /\ owner = "destroyed" => owner' = "destroyed"
<1> USE ThreadsDistinct
<1>0. /\ pc \in [V2P!Actors -> V2P!WorkerPoints \cup V2P!EnqueuePoints \cup V2P!ClientPoints]
      /\ Workers \subseteq V2P!Actors /\ main \in V2P!Actors
  BY DEF PoolV2, V2P!Control, V2P!TypeOK, V2P!Actors
<1>1. ASSUME NEW w \in Workers, V2P!Work(w) \/ V2P!WakeSpuriously(w)
      PROVE  owner' = owner /\ (pc[main] = "done" => pc'[main] = "done")
  <2>1. CASE V2P!Enqueue(w)
    BY <2>1 DEF PoolV2, Calm, V2P!Enqueue, V2P!EnqueueLock, V2P!EnqueuePush, V2P!EnqueueNotify
  <2>2. CASE V2P!Run(w)
    BY <1>0, <2>2 DEF V2P!Run, V2P!Goto
  <2>3. CASE V2P!Acquire(w) \/ V2P!Check(w) \/ V2P!Block(w) \/ V2P!Exit(w) \/ V2P!Take(w)
             \/ V2P!FinishTask(w) \/ V2P!EnqueueRefused(w) \/ V2P!WakeSpuriously(w)
    BY <1>0, <2>3 DEF V2P!Acquire, V2P!Check, V2P!Block, V2P!Exit, V2P!Take, V2P!FinishTask,
      V2P!EnqueueRefused, V2P!WakeSpuriously, V2P!Goto
  <2> QED
    BY <1>1, <2>1, <2>2, <2>3 DEF V2P!Work
<1>2. CASE V2P!Use(main)
  <2>1. pc[main] # "done" /\ owner' = owner
    BY <1>2 DEF V2P!Use, V2P!Call, V2P!Get, V2P!Enqueue, V2P!EnqueueLock, V2P!EnqueuePush, V2P!EnqueueNotify
  <2> QED
    BY <2>1
<1>3. CASE V2P!Destroy
  BY <1>0, <1>3 DEF V2P!Destroy, V2P!SetStop, V2P!NotifyAll, V2P!Join
<1>4. CASE UNCHANGED V2P!vars
  BY <1>4 DEF V2P!vars
<1> QED
  BY <1>1, <1>2, <1>3, <1>4 DEF V2P!Next

LEMMA ProgressNext == IInv /\ [Next]_vars => Progress'
<1> SUFFICES ASSUME IInv, [Next]_vars PROVE Progress'
  OBVIOUS
<1>0. Progress /\ Stages = {"poolv2", "pool", "accepting", "leaving", "aborted", "stuck"}
  BY DEF IInv, Stages
<1>1. /\ pc[main] = "done" => pc'[main] = "done"
      /\ owner = "destroyed" => owner' = "destroyed"
  BY PoolV2Next, PoolV2Stays DEF IInv
<1>2. CASE PoolV2Used
  BY <1>0, <1>1, <1>2 DEF PoolV2Used, Progress
<1>3. CASE Listen
  BY <1>0, <1>1, <1>3 DEF Listen, PoolUsed, Progress, poolVars
<1>4. CASE Accept
  BY <1>0, <1>1, <1>4, BoundNat DEF Accept, Progress, poolVars
<1>5. CASE AcceptFails
  BY <1>0, <1>1, <1>5 DEF AcceptFails, Progress, poolVars
<1>6. CASE Abort \/ WaitForSleepers
  BY <1>0, <1>1, <1>6 DEF Abort, WaitForSleepers, Progress, poolVars
<1>7. CASE UNCHANGED <<stage, served>>
  <2>1. stage = "pool" \/ poolPushed' = poolPushed
    BY PoolStep DEF Pool!Wait, Pool!Take, Pool!Finish, Pool!WakeSpuriously, Pool!Notify, poolVars
  <2> QED
    BY <1>0, <1>1, <1>7, <2>1 DEF Progress
<1>8. \/ PoolV2Used \/ Listen \/ Accept \/ AcceptFails \/ Abort \/ WaitForSleepers
      \/ UNCHANGED <<stage, served>>
  BY DEF Next, vars, Main, UsePoolV2, UsePool, DestroyPoolV2, V2Work, PoolWork, WakeSpuriously
<1> QED
  BY <1>2, <1>3, <1>4, <1>5, <1>6, <1>7, <1>8

LEMMA Invariant == Spec => []IInv
<1>1. IInv /\ [Next]_vars => IInv'
  BY PoolV2InvNext, PoolInvNext, EnqueuedNext, ProgressNext DEF IInv
<1> QED
  BY <1>1, InvInit, PTL DEF Spec

-----------------------------------------------------------------------------
(* The theorems. *)

\* Every variable of main and of both pools keeps its type (CruddXwebb.cpp:522-572).
THEOREM LifecycleTypes == Spec => []TypeOK
<1>1. IInv => TypeOK
  <2> SUFFICES ASSUME IInv PROVE TypeOK
    OBVIOUS
  <2>1. V2!TypeOK
    BY DEF IInv, PoolV2, V2P!Control, V2P!TypeOK, V2!TypeOK, V2P!Actors, V2!Actors, V2P!WorkerPoints,
      V2!WorkerPoints, V2P!EnqueuePoints, V2!EnqueuePoints, V2P!ClientPoints, V2!ClientPoints
  <2> QED
    BY <2>1 DEF IInv, PoolInv, Progress, TypeOK
<1> QED
  BY <1>1, Invariant, PTL

\* pool starts the tasks in the order main enqueued them, each once: a push and a
\* pop are critical sections of one mutex (ThreadPool.h:45-56, 64-70).
THEOREM PoolTasksAccountedAlways == Spec => []PoolTasksAccounted
<1>1. IInv => PoolTasksAccounted
  BY DEF IInv, PoolInv
<1> QED
  BY <1>1, Invariant, PTL

\* No notification of pool is lost, although enqueue notifies after it has released
\* the mutex (ThreadPool.h:64-70).
THEOREM NoStrandedPoolTaskAlways == Spec => []NoStrandedPoolTask
<1>1. IInv => NoStrandedPoolTask
  BY DEF IInv, PoolInv
<1> QED
  BY <1>1, Invariant, PTL

\* The port opens only when every task of poolv2 has its value and pool has been
\* given all of its own (CruddXwebb.cpp:527-552).
THEOREM ServesAfterTasksAlways == Spec => []ServesAfterTasks
<1>1. IInv => ServesAfterTasks
  <2> SUFFICES ASSUME IInv, stage = "accepting"
               PROVE  (\A k \in Tasks : future[k] = "value") /\ poolPushed = PoolProgram
    BY DEF ServesAfterTasks
  <2>1. \A k \in Tasks : future[k] = "value"
    BY DEF IInv, PoolV2, Got, Progress
  <2>2. /\ poolPushed \in Seq(PoolTasks) /\ PoolProgram \in Seq(PoolTasks)
        /\ Len(poolPushed) = Len(PoolProgram)
        /\ \A i \in 1..Len(poolPushed) : poolPushed[i] = PoolProgram[i]
    BY ProgramsTyped DEF IInv, PoolInv, Pool!TypeOK, Progress, Enqueued
  <2> QED
    BY <2>1, <2>2
<1> QED
  BY <1>1, Invariant, PTL

\* Whenever the members of pool are destroyed, every worker of poolv2 has been
\* joined and its queue is empty (Include.h:91-97, CruddXwebb.cpp:523-569).
THEOREM AbortsOrderlyAlways == Spec => []AbortsOrderly
<1>1. IInv => AbortsOrderly
  BY DEF IInv, PoolV2, Progress, V2P!Lifetime, V2P!Exits, AbortsOrderly
<1> QED
  BY <1>1, Invariant, PTL
=============================================================================
