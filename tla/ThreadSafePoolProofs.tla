------------------------ MODULE ThreadSafePoolProofs ------------------------
(***************************************************************************)
(* ThreadSafePool for any number of workers and clients, any programs, and *)
(* tasks that enqueue tasks.  Control is about who holds mtx and what each *)
(* thread has in hand; the queue's properties follow from it.              *)
(***************************************************************************)
EXTENDS ThreadSafePool, TLAPS

\* Where a thread is while it holds mtx, and where a worker is inside task().
Holding == {"check", "blocking", "take", "enq_push"}
Running == EnqueuePoints \cup {"run", "finish"}

MutexHeld == \A x \in Actors : pc[x] \in Holding <=> mtx = x
InHand    == \A x \in Actors : pc[x] \in EnqueuePoints => item[x] \in Tasks
AtWork    == \A w \in Workers : pc[w] \in Running <=> task[w] # NoTask

Control == TypeOK /\ MutexHeld /\ InHand /\ AtWork

LEMMA ControlInit == Init => Control
<1> SUFFICES ASSUME Init PROVE Control
  OBVIOUS
<1> USE DEF Init
<1>1. \A w \in Workers : pc[w] = "lock"
  BY DEF Actors
<1>2. \A c \in Clients : pc[c] = "next"
  BY ActorsDistinct DEF Actors
<1>3. TypeOK
  <2>1. pc \in [Actors -> WorkerPoints \cup EnqueuePoints \cup ClientPoints]
    BY DEF WorkerPoints, EnqueuePoints, ClientPoints
  <2>2. /\ \A w \in Workers : pc[w] \notin ClientPoints
        /\ \A c \in Clients : pc[c] \notin WorkerPoints
    BY <1>1, <1>2 DEF WorkerPoints, ClientPoints
  <2>3. task \in [Workers -> Tasks \cup {NoTask}] /\ item \in [Actors -> Tasks \cup {NoTask}]
    OBVIOUS
  <2>4. future \in [Tasks -> {"none", "pending", "value", "exception"}] /\ next \in [Clients -> Nat]
    OBVIOUS
  <2>5. tasks \in Seq(Tasks) /\ pushed \in Seq(Tasks) /\ started \in Seq(Tasks)
    OBVIOUS
  <2>6. mtx \in Actors \cup {None} /\ stop \in BOOLEAN /\ owner \in {"live", "notify", "join", "destroyed"}
    OBVIOUS
  <2> QED
    BY <2>1, <2>2, <2>3, <2>4, <2>5, <2>6 DEF TypeOK
<1>4. MutexHeld
  BY <1>1, <1>2, ActorsDistinct DEF MutexHeld, Holding, Actors
<1>5. InHand
  BY <1>1, <1>2 DEF InHand, EnqueuePoints, Actors
<1>6. AtWork
  BY <1>1 DEF AtWork, Running, EnqueuePoints
<1> QED
  BY <1>3, <1>4, <1>5, <1>6 DEF Control

LEMMA ControlNext == Control /\ [Next]_vars => Control'
<1> SUFFICES ASSUME Control, [Next]_vars PROVE Control'
  OBVIOUS
<1> USE ActorsDistinct
    DEF Control, TypeOK, MutexHeld, InHand, AtWork, Actors, Holding, Running,
        WorkerPoints, EnqueuePoints, ClientPoints, Goto
<1>1. ASSUME NEW w \in Workers, Acquire(w) PROVE Control'
  BY <1>1 DEF Acquire
<1>2. ASSUME NEW w \in Workers, Check(w) PROVE Control'
  BY <1>2 DEF Check
<1>3. ASSUME NEW w \in Workers, Block(w) PROVE Control'
  BY <1>3 DEF Block
<1>4. ASSUME NEW w \in Workers, WakeSpuriously(w) PROVE Control'
  BY <1>4 DEF WakeSpuriously
<1>5. ASSUME NEW w \in Workers, Exit(w) PROVE Control'
  BY <1>5 DEF Exit
<1>6. ASSUME NEW w \in Workers, Take(w) PROVE Control'
  <2>1. Head(tasks) \in Tasks /\ Tail(tasks) \in Seq(Tasks)
    BY <1>6 DEF Take
  <2> QED
    BY <1>6, <2>1 DEF Take
<1>7. ASSUME NEW w \in Workers, Run(w) PROVE Control'
  BY <1>7, ChildrenTyped DEF Run
<1>8. ASSUME NEW w \in Workers, FinishTask(w) PROVE Control'
  BY <1>8 DEF FinishTask
<1>9. ASSUME NEW x \in Actors, EnqueueLock(x) PROVE Control'
  BY <1>9 DEF EnqueueLock
<1>10. ASSUME NEW x \in Actors, EnqueuePush(x) PROVE Control'
  BY <1>10 DEF EnqueuePush
<1>11. ASSUME NEW w \in Workers, EnqueueRefused(w) PROVE Control'
  BY <1>11 DEF EnqueueRefused
<1>12. ASSUME NEW x \in Actors, EnqueueNotify(x) PROVE Control'
  <2> HIDE DEF Control, TypeOK, MutexHeld, InHand, AtWork
  <2>1. /\ pc[x] = "enq_notify"
        /\ item' = [item EXCEPT ![x] = NoTask]
        /\ UNCHANGED <<mtx, tasks, stop, task, future, next, owner, pushed, started>>
    BY <1>12 DEF EnqueueNotify
  <2>2. /\ After(x) \in {"finish", "next"}
        /\ x \in Workers => After(x) = "finish"
        /\ x \in Clients => After(x) = "next"
    BY DEF After
  <2>3. /\ pc \in [Actors -> WorkerPoints \cup EnqueuePoints \cup ClientPoints]
        /\ item \in [Actors -> Tasks \cup {NoTask}]
    BY DEF Control, TypeOK
  <2>4. /\ pc' \in [Actors -> WorkerPoints \cup EnqueuePoints \cup ClientPoints]
        /\ pc'[x] = After(x)
        /\ \A y \in Actors \ {x} :
             \/ pc'[y] = pc[y]
             \/ y \in Workers /\ pc[y] = "waiting" /\ pc'[y] = "lock"
    <3>1. CASE \E w \in Workers : pc[w] = "waiting" /\ pc' = [pc EXCEPT ![w] = "lock", ![x] = After(x)]
      BY <2>1, <2>2, <2>3, <3>1
    <3>2. CASE pc' = [pc EXCEPT ![x] = After(x)]
      BY <2>1, <2>2, <2>3, <3>2
    <3> QED
      BY <1>12, <3>1, <3>2 DEF EnqueueNotify
  <2>5. TypeOK'
    <3>1. item' \in [Actors -> Tasks \cup {NoTask}]
      BY <2>1, <2>3
    <3>2. \A w \in Workers : pc'[w] \notin ClientPoints
      BY <2>2, <2>4 DEF Control, TypeOK
    <3>3. \A c \in Clients : pc'[c] \notin WorkerPoints
      BY <2>2, <2>4 DEF Control, TypeOK
    <3> QED
      BY <2>1, <2>4, <3>1, <3>2, <3>3 DEF Control, TypeOK
  <2>6. MutexHeld'
    BY <2>1, <2>2, <2>4 DEF Control, MutexHeld
  <2>7. InHand'
    <3>1. ASSUME NEW y \in Actors, pc'[y] \in EnqueuePoints PROVE item'[y] \in Tasks
      <4>1. y # x /\ pc[y] \in EnqueuePoints
        BY <2>2, <2>4, <3>1
      <4>2. item'[y] = item[y]
        BY <2>1, <2>3, <4>1
      <4> QED
        BY <4>1, <4>2 DEF Control, InHand
    <3> QED
      BY <3>1 DEF InHand
  <2>8. AtWork'
    BY <2>1, <2>2, <2>4 DEF Control, AtWork
  <2> QED
    BY <2>5, <2>6, <2>7, <2>8 DEF Control
<1>13. ASSUME NEW c \in Clients, Call(c) PROVE Control'
  <2>1. Program[c] \in Seq(Tasks) /\ next[c] \in Nat /\ next[c] < Len(Program[c])
    BY <1>13, ProgramsTyped DEF Call
  <2> HIDE DEF Control
  <2>2. Program[c][next[c] + 1] \in Tasks
    BY <2>1
  <2> QED
    BY <1>13, <2>1, <2>2 DEF Call, Control
<1>14. ASSUME NEW c \in Clients, Get(c) PROVE Control'
  BY <1>14 DEF Get
<1>15. CASE SetStop
  BY <1>15 DEF SetStop
<1>16. CASE NotifyAll
  BY <1>16 DEF NotifyAll
<1>17. CASE Join
  BY <1>17 DEF Join
<1>18. CASE UNCHANGED vars
  BY <1>18 DEF vars
<1> QED
  BY <1>1, <1>2, <1>3, <1>4, <1>5, <1>6, <1>7, <1>8, <1>9, <1>10, <1>11, <1>12, <1>13, <1>14,
     <1>15, <1>16, <1>17, <1>18
  DEF Next, Work, Use, Destroy, Enqueue

\* Every state keeps to TypeOK, which Init and the enqueued tasks alone decide.
THEOREM PoolTypes == Spec => []TypeOK
<1>1. Control => TypeOK
  BY DEF Control
<1> QED
  BY <1>1, ControlInit, ControlNext, PTL DEF Spec

LEMMA ControlAlways == Spec => []Control
  BY ControlInit, ControlNext, PTL DEF Spec

-----------------------------------------------------------------------------
(* The queue. *)

LEMMA HeadMoves ==
  ASSUME NEW S, NEW s \in Seq(S), NEW t \in Seq(S), t # << >>
  PROVE  s \o t = Append(s, Head(t)) \o Tail(t)
  OBVIOUS

LEMMA TailGrows ==
  ASSUME NEW S, NEW s \in Seq(S), NEW t \in Seq(S), NEW e \in S
  PROVE  Append(s \o t, e) = s \o Append(t, e)
  OBVIOUS

\* Tasks reach the workers in the order of their enqueue, each of them once: the
\* queue only changes where mtx is held, by a push at its end or a pop at its head.
THEOREM TasksAccountedAlways == Spec => []TasksAccounted
<1>1. Init => TasksAccounted
  BY DEF Init, TasksAccounted
<1>2. Control /\ TasksAccounted /\ [Next]_vars => TasksAccounted'
  <2> SUFFICES ASSUME Control, TasksAccounted, [Next]_vars PROVE TasksAccounted'
    OBVIOUS
  <2>1. ASSUME NEW w \in Workers, Take(w) PROVE TasksAccounted'
    <3>1. started \o tasks = Append(started, Head(tasks)) \o Tail(tasks)
      BY <2>1, HeadMoves DEF Take, Control, TypeOK
    <3> QED
      BY <2>1, <3>1 DEF Take, TasksAccounted
  <2>2. ASSUME NEW x \in Actors, EnqueuePush(x) PROVE TasksAccounted'
    <3>1. item[x] \in Tasks
      BY <2>2 DEF EnqueuePush, Control, InHand, EnqueuePoints
    <3>2. Append(started \o tasks, item[x]) = started \o Append(tasks, item[x])
      <4>1. tasks \in Seq(Tasks) /\ started \in Seq(Tasks)
        BY DEF Control, TypeOK
      <4> QED
        BY <3>1, <4>1, TailGrows
    <3>3. pushed = started \o tasks
      BY DEF TasksAccounted
    <3>4. /\ pushed' = Append(pushed, item[x])
          /\ started' = started
          /\ tasks' = Append(tasks, item[x])
      BY <2>2 DEF EnqueuePush
    <3>5. pushed' = started' \o tasks'
      BY <3>2, <3>3, <3>4, Zenon
    <3> QED
      BY <3>5 DEF TasksAccounted
  <2>3. CASE UNCHANGED <<tasks, pushed, started>>
    BY <2>3 DEF TasksAccounted
  <2> QED
    BY <2>1, <2>2, <2>3
    DEF Next, vars, Work, Use, Destroy, Enqueue, Actors, Acquire, Check, Block, WakeSpuriously,
        Exit, Run, FinishTask, EnqueueLock, EnqueueRefused, EnqueueNotify, Call, Get, SetStop,
        NotifyAll, Join
<1> QED
  BY <1>1, <1>2, ControlAlways, PTL DEF Spec

\* No worker takes from an empty queue (Include.h:34-41): from its predicate to its pop
\* it holds mtx, so that no other worker pops, and stop is never taken back.
THEOREM FrontExistsAlways == Spec => []FrontExists
<1>1. Init => FrontExists
  BY DEF Init, FrontExists, Actors
<1>2. Control /\ FrontExists /\ [Next]_vars => FrontExists'
  <2> SUFFICES ASSUME Control, FrontExists, [Next]_vars PROVE FrontExists'
    OBVIOUS
  <2>0. /\ pc \in [Actors -> WorkerPoints \cup EnqueuePoints \cup ClientPoints]
        /\ Workers \subseteq Actors /\ Clients \subseteq Actors
        /\ tasks \in Seq(Tasks)
    BY DEF Control, TypeOK, Actors
  <2>1. ASSUME NEW w \in Workers, Check(w) PROVE FrontExists'
    BY <2>0, <2>1 DEF Check, Goto, FrontExists
  <2>2. ASSUME NEW w \in Workers, Take(w) PROVE FrontExists'
    <3>1. \A u \in Workers : pc'[u] # "take"
      BY <2>0, <2>2 DEF Take, Goto, Control, MutexHeld, Holding
    <3> QED
      BY <3>1 DEF FrontExists
  <2>3. ASSUME NEW x \in Actors, EnqueuePush(x) PROVE FrontExists'
    <3>1. tasks' # << >>
      BY <2>0, <2>3 DEF EnqueuePush
    <3> QED
      BY <3>1 DEF FrontExists
  <2>4. ASSUME UNCHANGED tasks, stop => stop',
               \A y \in Workers : pc'[y] = "take" => pc[y] = "take"
        PROVE  FrontExists'
    BY <2>4 DEF FrontExists
  <2>5. ASSUME NEW w \in Workers,
               Acquire(w) \/ Block(w) \/ WakeSpuriously(w) \/ Exit(w) \/ Run(w) \/ FinishTask(w)
                 \/ EnqueueRefused(w)
        PROVE  FrontExists'
    BY <2>0, <2>4, <2>5
    DEF Acquire, Block, WakeSpuriously, Exit, Run, FinishTask, EnqueueRefused, Goto
  <2>6. ASSUME NEW x \in Actors, EnqueueLock(x) \/ EnqueueNotify(x) PROVE FrontExists'
    BY <2>0, <2>4, <2>6 DEF EnqueueLock, EnqueueNotify, Goto, After
  <2>7. ASSUME NEW c \in Clients, Call(c) \/ Get(c) PROVE FrontExists'
    BY <2>0, <2>4, <2>7 DEF Call, Get, Goto
  <2>8. CASE SetStop \/ NotifyAll \/ Join \/ UNCHANGED vars
    BY <2>0, <2>4, <2>8 DEF SetStop, NotifyAll, Join, vars
  <2> QED
    BY <2>0, <2>1, <2>2, <2>3, <2>5, <2>6, <2>7, <2>8 DEF Next, Work, Use, Destroy, Enqueue
<1> QED
  BY <1>1, <1>2, ControlAlways, PTL DEF Spec

\* A worker that is about to sleep has seen the queue empty, and holds mtx still.
Blocking == \A w \in Workers : pc[w] = "blocking" => tasks = << >>

Wakeups == Blocking /\ NoStrandedTask

LEMMA WakeupsNext ==
  ASSUME Workers # {}
  PROVE  Control /\ Wakeups /\ [Next]_vars => Wakeups'
<1> SUFFICES ASSUME Control, Wakeups, [Next]_vars PROVE Wakeups'
  OBVIOUS
<1> DEFINE Asleep(x) == pc[x] \in {"blocking", "waiting"}
<1>0. /\ pc \in [Actors -> WorkerPoints \cup EnqueuePoints \cup ClientPoints]
      /\ Workers \subseteq Actors
      /\ tasks \in Seq(Tasks)
  BY DEF Control, TypeOK, Actors
<1>1. ASSUME NEW w \in Workers, Check(w) PROVE Wakeups'
  BY <1>0, <1>1 DEF Check, Goto, Wakeups, Blocking, NoStrandedTask
<1>2. ASSUME NEW w \in Workers, Block(w) PROVE Wakeups'
  BY <1>0, <1>2 DEF Block, Goto, Wakeups, Blocking, NoStrandedTask
<1>3. ASSUME NEW w \in Workers, Take(w) PROVE Wakeups'
  <2>1. pc'[w] = "run"
    BY <1>0, <1>3 DEF Take, Goto
  <2>2. Blocking'
    BY <1>0, <1>3 DEF Take, Goto, Wakeups, Blocking
  <2> QED
    BY <2>1, <2>2 DEF Wakeups, NoStrandedTask
<1>4. ASSUME NEW x \in Actors, EnqueuePush(x) PROVE Wakeups'
  <2>1. pc'[x] = "enq_notify"
    BY <1>0, <1>4 DEF EnqueuePush, Goto
  <2>2. \A w \in Workers : pc[w] # "blocking"
    BY <1>0, <1>4 DEF EnqueuePush, Control, MutexHeld, Holding
  <2>3. Blocking'
    BY <1>0, <1>4, <2>2 DEF EnqueuePush, Goto, Blocking
  <2> QED
    BY <2>1, <2>3 DEF Wakeups, NoStrandedTask
<1>5. ASSUME NEW x \in Actors, EnqueueNotify(x) PROVE Wakeups'
  <2>1. Blocking'
    BY <1>0, <1>5 DEF EnqueueNotify, Goto, After, Wakeups, Blocking
  <2>2. ASSUME tasks # << >> PROVE \E w \in Workers : ~ (pc'[w] \in {"blocking", "waiting"})
    <3>1. CASE \E w \in Workers : pc[w] = "waiting"
      <4>1. PICK w \in Workers : pc[w] = "waiting" /\ pc' = [pc EXCEPT ![w] = "lock", ![x] = After(x)]
        BY <1>5, <3>1 DEF EnqueueNotify
      <4>2. pc'[w] = "lock"
        BY <1>0, <1>5, <4>1 DEF EnqueueNotify
      <4> QED
        BY <4>2
    <3>2. CASE \A w \in Workers : pc[w] # "waiting"
      <4>1. PICK w \in Workers : TRUE
        OBVIOUS
      <4>2. pc[w] # "blocking"
        BY <2>2 DEF Wakeups, Blocking
      <4>3. pc' = [pc EXCEPT ![x] = After(x)]
        BY <1>5, <3>2 DEF EnqueueNotify, Goto
      <4>4. pc'[w] = pc[w] \/ pc'[w] \in {"finish", "next"}
        BY <1>0, <4>3 DEF After
      <4> QED
        BY <4>2, <4>4, <3>2
    <3> QED
      BY <3>1, <3>2
  <2>3. tasks' = tasks
    BY <1>5 DEF EnqueueNotify
  <2> QED
    BY <2>1, <2>2, <2>3 DEF Wakeups, NoStrandedTask
<1>6. ASSUME NEW x \in Actors, tasks' = tasks,
             \E p \in {"lock", "check", "take", "exited", "run", "finish", "enq_lock", "enq_push", "next", "done"} :
                pc' = [pc EXCEPT ![x] = p],
             pc[x] # "enq_notify"
      PROVE  Wakeups'
  BY <1>0, <1>6 DEF Wakeups, Blocking, NoStrandedTask
<1>7. CASE NotifyAll
  BY <1>0, <1>7 DEF NotifyAll, Wakeups, Blocking, NoStrandedTask
<1>8. CASE UNCHANGED <<pc, tasks>>
  BY <1>8 DEF Wakeups, Blocking, NoStrandedTask
<1>9. ASSUME NEW w \in Workers, Acquire(w) \/ WakeSpuriously(w) \/ Exit(w) \/ FinishTask(w) \/ EnqueueRefused(w)
      PROVE  Wakeups'
  BY <1>0, <1>6, <1>9 DEF Acquire, WakeSpuriously, Exit, FinishTask, EnqueueRefused, Goto
<1>10. ASSUME NEW w \in Workers, Run(w) PROVE Wakeups'
  BY <1>0, <1>6, <1>10 DEF Run, Goto
<1>11. ASSUME NEW x \in Actors, EnqueueLock(x) PROVE Wakeups'
  BY <1>6, <1>11 DEF EnqueueLock, Goto
<1>12. ASSUME NEW c \in Clients, Call(c) \/ Get(c) PROVE Wakeups'
  BY <1>6, <1>12 DEF Call, Get, Goto, Actors
<1> QED
  BY <1>0, <1>1, <1>2, <1>3, <1>4, <1>5, <1>7, <1>8, <1>9, <1>10, <1>11, <1>12
  DEF Next, vars, Work, Use, Destroy, Enqueue, Actors, SetStop, Join

\* No wakeup of enqueue is lost on a pool that has a worker: nth may be 0
\* (Include.h:28-29), and then every task is stranded.
THEOREM NoStrandedTaskAlways ==
  ASSUME Workers # {}
  PROVE  Spec => []NoStrandedTask
<1>1. Init => Wakeups
  BY DEF Init, Wakeups, Blocking, NoStrandedTask, Actors
<1>2. Wakeups => NoStrandedTask
  BY DEF Wakeups
<1> QED
  BY <1>1, <1>2, WakeupsNext, ControlAlways, PTL DEF Spec

-----------------------------------------------------------------------------
(* The destructor. *)

\* A worker leaves a stopped and empty pool, and nothing is pushed after that.
Exits == \A w \in Workers : pc[w] = "exited" => stop /\ tasks = << >>

\* How far the destructor is says where the threads are.
Lifetime ==
  /\ owner = "live" <=> ~ stop
  /\ owner # "live" => \A c \in Clients : pc[c] = "done"
  /\ owner = "destroyed" => \A w \in Workers : pc[w] = "exited"

\* A task whose future is not ready is in the queue or in a worker's hand.
Pending ==
  \A k \in Tasks : future[k] = "pending" =>
    (\E i \in DOMAIN tasks : tasks[i] = k) \/ (\E w \in Workers : task[w] = k)

Known == \A i \in DOMAIN pushed : future[pushed[i]] # "none"

Draining == Exits /\ Lifetime /\ Pending /\ Known

LEMMA ExitsNext == Control /\ Exits /\ [Next]_vars => Exits'
<1> SUFFICES ASSUME Control, Exits, [Next]_vars PROVE Exits'
  OBVIOUS
<1>0. /\ pc \in [Actors -> WorkerPoints \cup EnqueuePoints \cup ClientPoints]
      /\ Workers \subseteq Actors
  BY DEF Control, TypeOK, Actors
<1>1. ASSUME NEW w \in Workers, Exit(w) PROVE Exits'
  BY <1>0, <1>1 DEF Exit, Goto, Exits
<1>2. ASSUME NEW w \in Workers, Take(w) PROVE Exits'
  BY <1>0, <1>2 DEF Take, Goto, Exits
<1>3. ASSUME NEW x \in Actors, EnqueuePush(x) PROVE Exits'
  BY <1>0, <1>3 DEF EnqueuePush, Goto, Exits
<1>4. ASSUME NEW x \in Actors, EnqueueNotify(x) PROVE Exits'
  BY <1>0, <1>4 DEF EnqueueNotify, Goto, After, Exits
<1>5. CASE NotifyAll
  BY <1>0, <1>5 DEF NotifyAll, Exits
<1>6. CASE SetStop
  BY <1>6 DEF SetStop, Exits
<1>7. CASE UNCHANGED <<pc, tasks, stop>>
  BY <1>7 DEF Exits
<1>8. ASSUME NEW x \in Actors, UNCHANGED <<tasks, stop>>,
             \E p \in WorkerPoints \cup EnqueuePoints \cup ClientPoints :
                p # "exited" /\ pc' = [pc EXCEPT ![x] = p]
      PROVE  Exits'
  BY <1>0, <1>8 DEF Exits
<1>9. ASSUME NEW w \in Workers,
             Acquire(w) \/ Check(w) \/ Block(w) \/ WakeSpuriously(w) \/ Run(w) \/ FinishTask(w)
               \/ EnqueueRefused(w)
      PROVE  Exits'
  BY <1>0, <1>8, <1>9
  DEF Acquire, Check, Block, WakeSpuriously, Run, FinishTask, EnqueueRefused, Goto,
      WorkerPoints, EnqueuePoints
<1>10. ASSUME NEW x \in Actors, EnqueueLock(x) PROVE Exits'
  BY <1>8, <1>10 DEF EnqueueLock, Goto, EnqueuePoints
<1>11. ASSUME NEW c \in Clients, Call(c) \/ Get(c) PROVE Exits'
  BY <1>8, <1>11 DEF Call, Get, Goto, Actors, EnqueuePoints, ClientPoints
<1> QED
  BY <1>0, <1>1, <1>2, <1>3, <1>4, <1>5, <1>6, <1>7, <1>9, <1>10, <1>11
  DEF Next, vars, Work, Use, Destroy, Enqueue, Actors, Join

\* A client that is done, and a worker that has exited, take no further step.
LEMMA LifetimeNext == Control /\ Lifetime /\ [Next]_vars => Lifetime'
<1> SUFFICES ASSUME Control, Lifetime, [Next]_vars PROVE Lifetime'
  OBVIOUS
<1> USE ActorsDistinct
<1>0. /\ pc \in [Actors -> WorkerPoints \cup EnqueuePoints \cup ClientPoints]
      /\ Workers \subseteq Actors /\ Clients \subseteq Actors
  BY DEF Control, TypeOK, Actors
<1>1. CASE SetStop
  BY <1>1 DEF SetStop, Lifetime
<1>2. CASE NotifyAll
  BY <1>0, <1>2 DEF NotifyAll, Lifetime
<1>3. CASE Join
  BY <1>3 DEF Join, Lifetime
<1>4. CASE UNCHANGED <<pc, owner, stop>>
  BY <1>4 DEF Lifetime
<1>5. ASSUME NEW x \in Actors, UNCHANGED <<owner, stop>>, pc[x] \notin {"done", "exited"},
             \A y \in Actors : pc[y] \in {"done", "exited"} => pc'[y] = pc[y]
      PROVE  Lifetime'
  BY <1>0, <1>5 DEF Lifetime
<1>6. ASSUME NEW w \in Workers,
             Acquire(w) \/ Check(w) \/ Block(w) \/ WakeSpuriously(w) \/ Exit(w) \/ Take(w) \/ Run(w)
               \/ FinishTask(w) \/ EnqueueRefused(w)
      PROVE  Lifetime'
  BY <1>0, <1>5, <1>6
  DEF Acquire, Check, Block, WakeSpuriously, Exit, Take, Run, FinishTask, EnqueueRefused, Goto
<1>7. ASSUME NEW x \in Actors, EnqueueLock(x) \/ EnqueuePush(x) \/ EnqueueNotify(x)
      PROVE  Lifetime'
  BY <1>0, <1>5, <1>7 DEF EnqueueLock, EnqueuePush, EnqueueNotify, Goto
<1>8. ASSUME NEW c \in Clients, Call(c) \/ Get(c) PROVE Lifetime'
  BY <1>0, <1>5, <1>8 DEF Call, Get, Goto
<1> QED
  BY <1>0, <1>1, <1>2, <1>3, <1>4, <1>6, <1>7, <1>8
  DEF Next, vars, Work, Use, Destroy, Enqueue

LEMMA PendingNext == Control /\ Pending /\ Known /\ [Next]_vars => Pending' /\ Known'
<1> SUFFICES ASSUME Control, Pending, Known, [Next]_vars PROVE Pending' /\ Known'
  OBVIOUS
<1>0. /\ task \in [Workers -> Tasks \cup {NoTask}]
      /\ future \in [Tasks -> {"none", "pending", "value", "exception"}]
      /\ tasks \in Seq(Tasks)
      /\ pushed \in Seq(Tasks)
      /\ NoTask \notin Tasks
      /\ \A w \in Workers : pc[w] \in Running <=> task[w] # NoTask
  BY ActorsDistinct DEF Control, TypeOK, AtWork
<1>1. ASSUME NEW w \in Workers, Take(w) PROVE Pending' /\ Known'
  <2>1. /\ task' = [task EXCEPT ![w] = Head(tasks)]
        /\ tasks' = Tail(tasks) /\ tasks # << >>
        /\ future' = future /\ pushed' = pushed
        /\ task[w] = NoTask
    BY <1>0, <1>1 DEF Take, Running, EnqueuePoints
  <2>2. ASSUME NEW k \in Tasks, future'[k] = "pending"
        PROVE  (\E i \in DOMAIN tasks' : tasks'[i] = k) \/ (\E v \in Workers : task'[v] = k)
    <3>1. CASE \E i \in DOMAIN tasks : tasks[i] = k
      <4>1. PICK i \in DOMAIN tasks : tasks[i] = k
        BY <3>1
      <4>2. CASE i = 1
        BY <1>0, <2>1, <4>1, <4>2
      <4>3. CASE i # 1
        <5>1. i - 1 \in DOMAIN Tail(tasks) /\ Tail(tasks)[i - 1] = k
          BY <1>0, <2>1, <4>1, <4>3
        <5> QED
          BY <2>1, <5>1
      <4> QED
        BY <4>2, <4>3
    <3>2. CASE \E v \in Workers : task[v] = k
      BY <1>0, <2>1, <3>2
    <3> QED
      BY <2>1, <2>2, <3>1, <3>2 DEF Pending
  <2> QED
    BY <2>1, <2>2 DEF Pending, Known
<1>2. ASSUME NEW x \in Actors, EnqueuePush(x) PROVE Pending' /\ Known'
  <2>1. item[x] \in Tasks
    BY <1>2 DEF EnqueuePush, Control, InHand, EnqueuePoints
  <2>2. /\ future' = [future EXCEPT ![item[x]] = "pending"]
        /\ tasks' = Append(tasks, item[x])
        /\ pushed' = Append(pushed, item[x])
        /\ task' = task
    BY <1>2 DEF EnqueuePush
  <2>3. Pending'
    <3> SUFFICES ASSUME NEW k \in Tasks, future'[k] = "pending"
                 PROVE  (\E i \in DOMAIN tasks' : tasks'[i] = k) \/ (\E v \in Workers : task'[v] = k)
      BY DEF Pending
    <3>1. CASE k = item[x]
      <4>1. Len(tasks) + 1 \in DOMAIN tasks' /\ tasks'[Len(tasks) + 1] = k
        BY <1>0, <2>1, <2>2, <3>1
      <4> QED
        BY <4>1
    <3>2. CASE k # item[x]
      <4>1. future[k] = "pending"
        BY <1>0, <2>1, <2>2, <3>2
      <4>2. CASE \E i \in DOMAIN tasks : tasks[i] = k
        <5>1. PICK i \in DOMAIN tasks : tasks[i] = k
          BY <4>2
        <5>2. i \in DOMAIN tasks' /\ tasks'[i] = k
          BY <1>0, <2>1, <2>2, <5>1
        <5> QED
          BY <5>2
      <4> QED
        BY <2>2, <4>1, <4>2 DEF Pending
    <3> QED
      BY <3>1, <3>2
  <2>4. ASSUME NEW i \in DOMAIN pushed' PROVE future'[pushed'[i]] # "none"
    <3>1. CASE i \in DOMAIN pushed
      <4>1. pushed'[i] = pushed[i] /\ pushed[i] \in Tasks /\ future[pushed[i]] # "none"
        BY <1>0, <2>1, <2>2, <3>1 DEF Known
      <4> QED
        BY <1>0, <2>1, <2>2, <4>1
    <3>2. CASE i = Len(pushed) + 1
      <4>1. pushed'[i] = item[x]
        BY <1>0, <2>1, <2>2, <3>2
      <4> QED
        BY <1>0, <2>1, <2>2, <4>1
    <3> QED
      BY <1>0, <2>1, <2>2, <3>1, <3>2
  <2> QED
    BY <2>3, <2>4 DEF Known
<1>3. ASSUME NEW w \in Workers, FinishTask(w) \/ EnqueueRefused(w) PROVE Pending' /\ Known'
  <2>1. task[w] \in Tasks
    BY <1>0, <1>3 DEF FinishTask, EnqueueRefused, Running, EnqueuePoints
  <2>2. PICK result \in {"value", "exception"} : future' = [future EXCEPT ![task[w]] = result]
    BY <1>3 DEF FinishTask, EnqueueRefused
  <2>3. /\ task' = [task EXCEPT ![w] = NoTask]
        /\ tasks' = tasks /\ pushed' = pushed
    BY <1>3 DEF FinishTask, EnqueueRefused
  <2>4. Pending'
    <3> SUFFICES ASSUME NEW k \in Tasks, future'[k] = "pending"
                 PROVE  (\E i \in DOMAIN tasks' : tasks'[i] = k) \/ (\E v \in Workers : task'[v] = k)
      BY DEF Pending
    <3>1. k # task[w] /\ future[k] = "pending"
      BY <1>0, <2>1, <2>2
    <3>2. ASSUME NEW v \in Workers, task[v] = k PROVE task'[v] = k
      BY <1>0, <2>3, <3>1, <3>2
    <3> QED
      BY <2>3, <3>1, <3>2 DEF Pending
  <2>5. Known'
    <3>1. \A i \in DOMAIN pushed : pushed[i] \in Tasks
      BY <1>0
    <3> QED
      BY <1>0, <2>1, <2>2, <2>3, <3>1 DEF Known
  <2> QED
    BY <2>4, <2>5
<1>4. CASE UNCHANGED <<tasks, task, future, pushed>>
  BY <1>4 DEF Pending, Known
<1> QED
  BY <1>1, <1>2, <1>3, <1>4
  DEF Next, vars, Work, Use, Destroy, Enqueue, Actors, Acquire, Check, Block, WakeSpuriously,
      Exit, Run, EnqueueLock, EnqueueNotify, Call, Get, SetStop, NotifyAll, Join

\* The destructor of a pool that has a worker leaves nobody in the pool and no
\* future without a result: a worker leaves only when the queue is empty, a task in
\* a worker's hand ends before that worker leaves, and enqueue refuses after stop.
THEOREM DestroyedIsDrainedAlways ==
  ASSUME Workers # {}
  PROVE  Spec => []DestroyedIsDrained
<1>1. Init => Draining
  <2> SUFFICES ASSUME Init PROVE Draining
    OBVIOUS
  <2>1. Exits /\ Lifetime
    BY DEF Init, Exits, Lifetime, Actors
  <2>2. Pending /\ Known
    BY DEF Init, Pending, Known
  <2> QED
    BY <2>1, <2>2 DEF Draining
<1>2. Control /\ Draining /\ [Next]_vars => Draining'
  BY ExitsNext, LifetimeNext, PendingNext DEF Draining
<1>3. Control /\ Draining => DestroyedIsDrained
  <2> SUFFICES ASSUME Control, Draining, owner = "destroyed"
               PROVE  /\ \A x \in Actors : pc[x] \in {"exited", "done"}
                      /\ \A i \in DOMAIN pushed : future[pushed[i]] \in {"value", "exception"}
    BY DEF DestroyedIsDrained
  <2>1. /\ \A w \in Workers : pc[w] = "exited"
        /\ \A c \in Clients : pc[c] = "done"
    BY DEF Draining, Lifetime
  <2>2. tasks = << >>
    BY <2>1 DEF Draining, Exits
  <2>3. \A w \in Workers : task[w] \notin Tasks
    <3>1. \A w \in Workers : task[w] = NoTask
      BY <2>1 DEF Control, AtWork, Running, EnqueuePoints
    <3> QED
      BY <3>1, ActorsDistinct
  <2>4. ASSUME NEW i \in DOMAIN pushed PROVE future[pushed[i]] \in {"value", "exception"}
    <3>1. pushed[i] \in Tasks /\ future[pushed[i]] \in {"none", "pending", "value", "exception"}
      BY DEF Control, TypeOK
    <3>2. future[pushed[i]] # "none"
      BY DEF Draining, Known
    <3>3. future[pushed[i]] # "pending"
      BY <2>2, <2>3, <3>1 DEF Draining, Pending
    <3> QED
      BY <3>1, <3>2, <3>3
  <2> QED
    BY <2>1, <2>4 DEF Actors
<1> QED
  BY <1>1, <1>2, <1>3, ControlAlways, PTL DEF Spec

-----------------------------------------------------------------------------
(* The pool is a TaskService. *)

\* What a worker enqueues is the child of its task.
Spawned == \A w \in Workers : pc[w] \in EnqueuePoints => item[w] = Child[task[w]]

LEMMA SpawnedNext == Control /\ Spawned /\ [Next]_vars => Spawned'
<1> SUFFICES ASSUME Control, Spawned, [Next]_vars PROVE Spawned'
  OBVIOUS
<1> USE ActorsDistinct
<1>0. /\ pc \in [Actors -> WorkerPoints \cup EnqueuePoints \cup ClientPoints]
      /\ item \in [Actors -> Tasks \cup {NoTask}]
      /\ task \in [Workers -> Tasks \cup {NoTask}]
      /\ Workers \subseteq Actors /\ \A c \in Clients : c \notin Workers /\ c \in Actors
  BY DEF Control, TypeOK, Actors
<1>1. ASSUME NEW x \in Actors, UNCHANGED item, x \in Workers => UNCHANGED task \/ pc'[x] \notin EnqueuePoints,
             \A w \in Workers \ {x} : task'[w] = task[w],
             \A y \in Actors : pc'[y] \in EnqueuePoints => pc[y] \in EnqueuePoints
      PROVE  Spawned'
  BY <1>0, <1>1 DEF Spawned
<1>2. ASSUME NEW w \in Workers,
             Acquire(w) \/ Check(w) \/ Block(w) \/ WakeSpuriously(w) \/ Exit(w) \/ Take(w) \/ FinishTask(w)
      PROVE  Spawned'
  BY <1>0, <1>1, <1>2
  DEF Acquire, Check, Block, WakeSpuriously, Exit, Take, FinishTask, Goto, EnqueuePoints
<1>3. ASSUME NEW w \in Workers, Run(w) PROVE Spawned'
  BY <1>0, <1>3 DEF Run, Goto, Spawned, EnqueuePoints
<1>4. ASSUME NEW w \in Workers, EnqueueRefused(w) PROVE Spawned'
  BY <1>0, <1>4 DEF EnqueueRefused, Goto, Spawned, EnqueuePoints
<1>5. ASSUME NEW x \in Actors, EnqueueLock(x) \/ EnqueuePush(x) PROVE Spawned'
  BY <1>0, <1>1, <1>5 DEF EnqueueLock, EnqueuePush, Goto, EnqueuePoints
<1>6. ASSUME NEW x \in Actors, EnqueueNotify(x) PROVE Spawned'
  BY <1>0, <1>6 DEF EnqueueNotify, Goto, After, Spawned, EnqueuePoints
<1>7. ASSUME NEW c \in Clients, Call(c) \/ Get(c) PROVE Spawned'
  BY <1>0, <1>7 DEF Call, Get, Goto, Spawned
<1>8. CASE NotifyAll
  BY <1>0, <1>8 DEF NotifyAll, Spawned, EnqueuePoints
<1>9. CASE UNCHANGED <<pc, item, task>>
  BY <1>9 DEF Spawned
<1> QED
  BY <1>0, <1>2, <1>3, <1>4, <1>5, <1>6, <1>7, <1>8, <1>9
  DEF Next, vars, Work, Use, Destroy, Enqueue, SetStop, Join

\* Between two steps of the service the threads take many that change none of it.
LEMMA Unseen ==
  ASSUME UNCHANGED <<tasks, task, future, stop>>, owner' = "destroyed" <=> owner = "destroyed"
  PROVE  UNCHANGED Service!vars
  BY DEF Service!vars

LEMMA ServiceStep ==
  ASSUME Workers # {}, Control, Spawned, Exits, Lifetime, Next
  PROVE  Service!Next \/ UNCHANGED Service!vars
<1> USE ActorsDistinct
<1>0. /\ Workers \subseteq Actors /\ Clients \subseteq Actors
      /\ task \in [Workers -> Tasks \cup {NoTask}]
      /\ \A w \in Workers : pc[w] \in Running <=> task[w] # NoTask
  BY DEF Control, TypeOK, AtWork, Actors
<1>1. ASSUME NEW w \in Workers, Take(w) PROVE Service!Start(w)
  <2>1. task[w] = NoTask
    BY <1>0, <1>1 DEF Take, Running, EnqueuePoints
  <2> QED
    BY <1>1, <2>1 DEF Take, Service!Start
<1>2. ASSUME NEW w \in Workers, FinishTask(w) PROVE Service!End(w)
  <2>1. task[w] # NoTask
    BY <1>0, <1>2 DEF FinishTask, Running
  <2>2. CASE task[w] \in Throwing
    BY <1>2, <2>1, <2>2 DEF FinishTask, Service!End
  <2>3. CASE task[w] \notin Throwing
    BY <1>2, <2>1, <2>3 DEF FinishTask, Service!End
  <2> QED
    BY <2>2, <2>3
<1>3. ASSUME NEW w \in Workers, EnqueueRefused(w) PROVE Service!End(w)
  <2>1. task[w] # NoTask /\ Child[task[w]] # NoTask
    BY <1>0, <1>3 DEF EnqueueRefused, Running, EnqueuePoints, Spawned, Control, InHand
  <2> QED
    BY <1>3, <2>1 DEF EnqueueRefused, Service!End
<1>4. ASSUME NEW x \in Actors, EnqueuePush(x) PROVE \E k \in Tasks : Service!Accept(k)
  <2>1. item[x] \in Tasks
    BY <1>4 DEF EnqueuePush, EnqueuePoints, Control, InHand
  <2>2. Service!Accept(item[x])
    BY <1>4 DEF EnqueuePush, Service!Accept
  <2> QED
    BY <2>1, <2>2
<1>5. CASE SetStop
  <2>1. ~ stop
    BY <1>5 DEF SetStop, Lifetime
  <2> QED
    BY <1>5, <2>1 DEF SetStop, Service!Close, Service!Next
<1>6. CASE Join
  <2>1. PICK w \in Workers : pc[w] = "exited"
    BY <1>6 DEF Join
  <2>2. stop /\ tasks = << >>
    BY <2>1 DEF Exits
  <2>3. \A v \in Workers : task[v] = NoTask
    BY <1>0, <1>6 DEF Join, Running, EnqueuePoints
  <2>4. Service!Vanish
    BY <1>6, <2>2, <2>3 DEF Join, Service!Vanish
  <2> QED
    BY <2>4 DEF Service!Next
<1>7. ASSUME NEW w \in Workers,
             Acquire(w) \/ Check(w) \/ Block(w) \/ WakeSpuriously(w) \/ Exit(w) \/ Run(w)
      PROVE  UNCHANGED Service!vars
  BY <1>7, Unseen DEF Acquire, Check, Block, WakeSpuriously, Exit, Run
<1>8. ASSUME NEW x \in Actors, EnqueueLock(x) \/ EnqueueNotify(x) PROVE UNCHANGED Service!vars
  BY <1>8, Unseen DEF EnqueueLock, EnqueueNotify
<1>9. ASSUME NEW c \in Clients, Call(c) \/ Get(c) PROVE UNCHANGED Service!vars
  BY <1>9, Unseen DEF Call, Get
<1>10. CASE NotifyAll
  BY <1>10, Unseen DEF NotifyAll
<1> QED
  BY <1>0, <1>1, <1>2, <1>3, <1>4, <1>5, <1>6, <1>7, <1>8, <1>9, <1>10
  DEF Next, Work, Use, Destroy, Enqueue, Service!Next

\* A pool that has a worker implements the service: tasks start in the order of their
\* enqueue and once, each future is set by its own task, nothing is accepted after
\* stop, and the destructor returns to a pool that has finished everything
\* (Include.h:28-101).
THEOREM PoolImplementsService ==
  ASSUME Workers # {}
  PROVE  Spec => ImplementsService
<1> DEFINE Inv == Control /\ Spawned /\ Exits /\ Lifetime
<1>1. Init => Service!Init
  BY DEF Init, Service!Init
<1>2. Init => Inv
  BY ControlInit DEF Init, Spawned, Exits, Lifetime, Actors, EnqueuePoints
<1>3. Inv /\ [Next]_vars => Inv'
  BY ControlNext, SpawnedNext, ExitsNext, LifetimeNext
<1>4. Inv /\ [Next]_vars => [Service!Next]_(Service!vars)
  <2> SUFFICES ASSUME Inv, [Next]_vars PROVE [Service!Next]_(Service!vars)
    OBVIOUS
  <2>1. CASE UNCHANGED vars
    BY <2>1, Unseen DEF vars
  <2>2. CASE Next
    BY <2>2, ServiceStep
  <2> QED
    BY <2>1, <2>2
<1> QED
  BY <1>1, <1>2, <1>3, <1>4, PTL DEF Spec, ImplementsService, Service!Spec

-----------------------------------------------------------------------------
(* The destructor's notify_all. *)

\* Once stop is set, no predicate sends a worker to sleep.
Notified ==
  /\ stop
  /\ \A w \in Workers : pc[w] # "blocking"
  /\ owner # "notify" => Sleepless

LEMMA NotifiedNext == Control /\ Lifetime /\ Notified /\ [Next]_vars => Notified'
<1> SUFFICES ASSUME Control, Lifetime, Notified, [Next]_vars PROVE Notified'
  OBVIOUS
<1> USE ActorsDistinct
<1>0. /\ pc \in [Actors -> WorkerPoints \cup EnqueuePoints \cup ClientPoints]
      /\ Workers \subseteq Actors /\ Clients \subseteq Actors
      /\ stop /\ owner # "live"
  BY DEF Control, TypeOK, Actors, Notified, Lifetime
<1>1. ASSUME NEW x \in Actors, UNCHANGED <<owner, stop>>,
             \A y \in Actors : pc'[y] \in {"blocking", "waiting"} => pc'[y] = pc[y]
      PROVE  Notified'
  BY <1>0, <1>1 DEF Notified, Sleepless
<1>2. ASSUME NEW w \in Workers,
             Acquire(w) \/ Check(w) \/ Block(w) \/ WakeSpuriously(w) \/ Exit(w) \/ Take(w) \/ Run(w)
               \/ FinishTask(w) \/ EnqueueRefused(w)
      PROVE  Notified'
  <2>1. ~ Block(w)
    BY DEF Block, Notified
  <2> QED
    BY <1>0, <1>1, <1>2, <2>1
    DEF Acquire, Check, WakeSpuriously, Exit, Take, Run, FinishTask, EnqueueRefused, Goto
<1>3. ASSUME NEW x \in Actors, EnqueueLock(x) \/ EnqueuePush(x) \/ EnqueueNotify(x)
      PROVE  Notified'
  BY <1>0, <1>1, <1>3 DEF EnqueueLock, EnqueuePush, EnqueueNotify, Goto, After
<1>4. ASSUME NEW c \in Clients, Call(c) \/ Get(c) PROVE Notified'
  BY <1>0, <1>1, <1>4 DEF Call, Get, Goto
<1>5. CASE NotifyAll
  BY <1>0, <1>5 DEF NotifyAll, Notified, Sleepless
<1>6. CASE Join
  BY <1>6 DEF Join, Notified, Sleepless
<1>7. ~ SetStop
  BY <1>0 DEF SetStop
<1>8. CASE UNCHANGED vars
  BY <1>8 DEF vars, Notified, Sleepless
<1> QED
  BY <1>0, <1>2, <1>3, <1>4, <1>5, <1>6, <1>7, <1>8 DEF Next, Work, Use, Destroy, Enqueue

\* The part of the destructor's return that is safety: after notify_all it waits for no
\* worker that sleeps, unless one was between its predicate and its sleep when stop was
\* set without the mutex (Include.h:91-97).
THEOREM NoneLeftAsleepAlways == Spec => NoneLeftAsleep
<1> DEFINE Settled == owner = "notify" /\ \A w \in Workers : pc[w] # "blocking"
           Awake == owner # "notify" => Sleepless
<1>1. Init => Lifetime
  BY DEF Init, Lifetime, Actors
<1>2. Control /\ Lifetime /\ Settled => Notified
  BY DEF Lifetime, Notified
<1>3. Notified => Awake
  BY DEF Notified
<1> HIDE DEF Settled, Awake
<1>4. Spec => [](Settled => []Awake)
  BY <1>1, <1>2, <1>3, ControlInit, ControlNext, LifetimeNext, NotifiedNext, PTL DEF Spec
<1> QED
  BY <1>4 DEF NoneLeftAsleep, Settled, Awake
=============================================================================
