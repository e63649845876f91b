--------------------------- MODULE ThreadSafePool ---------------------------
(***************************************************************************)
(* ThreadSafePool (Include.h): worker threads take tasks from a queue that *)
(* is guarded by mtx, and sleep on the condition variable cv_ while it is  *)
(* empty.  enqueue may be called by several threads, and by a task.  The   *)
(* destructor sets stop and notifies without holding mtx, then joins the   *)
(* workers, which leave only when the queue is empty.                      *)
(***************************************************************************)
EXTENDS Naturals, Sequences

CONSTANTS
  Workers, Clients,   \* the pool's threads, and the threads that use it
  Tasks,
  Program,            \* per client: the tasks it enqueues, in its order
  Child,              \* per task: the task it enqueues while it runs, or NoTask
  Throwing,           \* the tasks that end with an exception
  Waiters,            \* the clients that call get() on the futures they hold, in order
  NoTask, None

Actors == Workers \cup Clients

ASSUME ActorsDistinct == Workers \cap Clients = {} /\ None \notin Actors /\ NoTask \notin Tasks
ASSUME ProgramsTyped == Program \in [Clients -> Seq(Tasks)]
ASSUME ThrowingTyped == Throwing \subseteq Tasks
ASSUME ChildrenTyped == Child \in [Tasks -> Tasks \cup {NoTask}]

\* Nobody waits for a task that throws: main's two only print, and its f1.get() and
\* f2.get() stand outside the try, so that an exception there would end the process.
ASSUME WaitedForReturn ==
  \A c \in Waiters \cap Clients : \A i \in DOMAIN Program[c] : Program[c][i] \notin Throwing

VARIABLES
  mtx,      \* the holder of mtx
  tasks,    \* the queue
  stop,     \* the atomic flag
  pc,       \* per thread: where it is
  task,     \* per thread: the task a worker runs
  item,     \* per thread: the task it is enqueuing
  future,   \* per task: the state its future shares
  next,     \* per client: how many tasks of its program it has enqueued
  owner,    \* the pool's lifetime: how far the destructor is
  \* History variables.
  pushed,   \* the tasks enqueued, in order
  started   \* the tasks taken off the queue, in order

vars == <<mtx, tasks, stop, pc, task, item, future, next, owner, pushed, started>>

WorkerPoints == {"lock", "check", "blocking", "waiting", "take", "run", "finish", "exited"}
EnqueuePoints == {"enq_lock", "enq_push", "enq_notify"}
ClientPoints == {"next", "get", "done"}

TypeOK ==
  /\ mtx \in Actors \cup {None}
  /\ tasks \in Seq(Tasks)
  /\ stop \in BOOLEAN
  /\ pc \in [Actors -> WorkerPoints \cup EnqueuePoints \cup ClientPoints]
  /\ \A w \in Workers : pc[w] \notin ClientPoints
  /\ \A c \in Clients : pc[c] \notin WorkerPoints
  /\ task \in [Workers -> Tasks \cup {NoTask}]
  /\ item \in [Actors -> Tasks \cup {NoTask}]
  /\ future \in [Tasks -> {"none", "pending", "value", "exception"}]
  /\ next \in [Clients -> Nat]
  /\ owner \in {"live", "notify", "join", "destroyed"}
  /\ pushed \in Seq(Tasks)
  /\ started \in Seq(Tasks)

Init ==
  /\ mtx = None
  /\ tasks = << >>
  /\ stop = FALSE
  /\ pc = [x \in Actors |-> IF x \in Workers THEN "lock" ELSE "next"]
  /\ task = [w \in Workers |-> NoTask]
  /\ item = [x \in Actors |-> NoTask]
  /\ future = [k \in Tasks |-> "none"]
  /\ next = [c \in Clients |-> 0]
  /\ owner = "live"
  /\ pushed = << >>
  /\ started = << >>

Goto(x, point) == pc' = [pc EXCEPT ![x] = point]

-----------------------------------------------------------------------------
(* The workers. *)

\* Mutated form: the queue is looked at without mtx.
AcquireNothing(w) ==
  /\ pc[w] = "lock"
  /\ Goto(w, "check")
  /\ UNCHANGED <<mtx, tasks, stop, task, item, future, next, owner, pushed, started>>

\* std::unique_lock, and the lock taken again when the wait ends.
Acquire(w) ==
  /\ pc[w] = "lock"
  /\ mtx = None
  /\ mtx' = w
  /\ Goto(w, "check")
  /\ UNCHANGED <<tasks, stop, task, item, future, next, owner, pushed, started>>

\* Mutated form: the predicate leaves out stop.
CheckQueue(w) ==
  /\ pc[w] = "check"
  /\ Goto(w, IF tasks # << >> THEN "take" ELSE "blocking")
  /\ UNCHANGED <<mtx, tasks, stop, task, item, future, next, owner, pushed, started>>

\* The predicate of cv_.wait: stop || !tasks.empty().
Check(w) ==
  /\ pc[w] = "check"
  /\ Goto(w, IF stop \/ tasks # << >> THEN "take" ELSE "blocking")
  /\ UNCHANGED <<mtx, tasks, stop, task, item, future, next, owner, pushed, started>>

\* cv_ releases mtx and puts the thread to sleep in one step.
Block(w) ==
  /\ pc[w] = "blocking"
  /\ mtx' = None
  /\ Goto(w, "waiting")
  /\ UNCHANGED <<tasks, stop, task, item, future, next, owner, pushed, started>>

\* A condition variable may wake a thread for no reason.
WakeSpuriously(w) ==
  /\ pc[w] = "waiting"
  /\ Goto(w, "lock")
  /\ UNCHANGED <<mtx, tasks, stop, task, item, future, next, owner, pushed, started>>

\* Mutated form: the worker leaves as soon as it sees stop.
ExitEarly(w) ==
  /\ pc[w] = "take"
  /\ stop
  /\ mtx' = None
  /\ Goto(w, "exited")
  /\ UNCHANGED <<tasks, stop, task, item, future, next, owner, pushed, started>>

\* if (stop && tasks.empty()) return.
Exit(w) ==
  /\ pc[w] = "take"
  /\ stop /\ tasks = << >>
  /\ mtx' = None
  /\ Goto(w, "exited")
  /\ UNCHANGED <<tasks, stop, task, item, future, next, owner, pushed, started>>

\* The task is moved out and popped; the lock's scope ends.
Take(w) ==
  /\ pc[w] = "take"
  /\ tasks # << >>
  /\ task' = [task EXCEPT ![w] = Head(tasks)]
  /\ tasks' = Tail(tasks)
  /\ started' = Append(started, Head(tasks))
  /\ mtx' = None
  /\ Goto(w, "run")
  /\ UNCHANGED <<stop, item, future, next, owner, pushed>>

\* task(): it may call enqueue itself.
Run(w) ==
  /\ pc[w] = "run"
  /\ item' = [item EXCEPT ![w] = Child[task[w]]]
  /\ Goto(w, IF Child[task[w]] = NoTask THEN "finish" ELSE "enq_lock")
  /\ UNCHANGED <<mtx, tasks, stop, task, future, next, owner, pushed, started>>

\* The packaged_task keeps what its function returned or threw: its future is
\* ready, and the worker sees no exception.
FinishTask(w) ==
  /\ pc[w] = "finish"
  /\ future' = [future EXCEPT ![task[w]] = IF task[w] \in Throwing THEN "exception" ELSE "value"]
  /\ task' = [task EXCEPT ![w] = NoTask]
  /\ Goto(w, "lock")
  /\ UNCHANGED <<mtx, tasks, stop, item, next, owner, pushed, started>>

-----------------------------------------------------------------------------
(* enqueue. *)

\* Mutated form: the task has been moved from before it is pushed.
EnqueueLockMoved(x) ==
  /\ pc[x] = "enq_lock"
  /\ mtx = None
  /\ mtx' = x
  /\ item' = [item EXCEPT ![x] = NoTask]
  /\ Goto(x, "enq_push")
  /\ UNCHANGED <<tasks, stop, task, future, next, owner, pushed, started>>

EnqueueLock(x) ==
  /\ pc[x] = "enq_lock"
  /\ mtx = None
  /\ mtx' = x
  /\ Goto(x, "enq_push")
  /\ UNCHANGED <<tasks, stop, task, item, future, next, owner, pushed, started>>

\* After enqueue a worker is back in its task, a client goes on with its program.
After(x) == IF x \in Workers THEN "finish" ELSE "next"

\* Mutated form: enqueue does not look at stop.
EnqueuePushAnyway(x) ==
  /\ pc[x] = "enq_push"
  /\ tasks' = Append(tasks, item[x])
  /\ pushed' = Append(pushed, item[x])
  /\ future' = [future EXCEPT ![item[x]] = "pending"]
  /\ mtx' = None
  /\ Goto(x, "enq_notify")
  /\ UNCHANGED <<stop, task, item, next, owner, started>>

\* The test of stop and the push, two statements that share one step, at the test:
\* stop may be set between them, but tasks changes and is looked at only under mtx,
\* which is held across both.
EnqueuePush(x) ==
  /\ pc[x] = "enq_push"
  /\ ~ stop
  /\ tasks' = Append(tasks, item[x])
  /\ pushed' = Append(pushed, item[x])
  /\ future' = [future EXCEPT ![item[x]] = "pending"]
  /\ mtx' = None
  /\ Goto(x, "enq_notify")
  /\ UNCHANGED <<stop, task, item, next, owner, started>>

\* "enqueue on stopped ThreadPool": the exception ends the task that called, and
\* its packaged_task stores it.  No client calls once the destructor runs.
EnqueueRefused(w) ==
  /\ pc[w] = "enq_push"
  /\ stop
  /\ future' = [future EXCEPT ![task[w]] = "exception"]
  /\ task' = [task EXCEPT ![w] = NoTask]
  /\ item' = [item EXCEPT ![w] = NoTask]
  /\ mtx' = None
  /\ Goto(w, "lock")
  /\ UNCHANGED <<tasks, stop, next, owner, pushed, started>>

\* Mutated form: notify_one only if the queue has become longer than one.
EnqueueNotifyRarely(x) ==
  /\ pc[x] = "enq_notify"
  /\ IF Len(tasks) > 1 /\ \E w \in Workers : pc[w] = "waiting"
     THEN \E w \in Workers :
            /\ pc[w] = "waiting"
            /\ pc' = [pc EXCEPT ![w] = "lock", ![x] = After(x)]
     ELSE Goto(x, After(x))
  /\ item' = [item EXCEPT ![x] = NoTask]
  /\ UNCHANGED <<mtx, tasks, stop, task, future, next, owner, pushed, started>>

\* cv_.notify_one, after the lock's scope: one sleeper wakes, if there is one.
EnqueueNotify(x) ==
  /\ pc[x] = "enq_notify"
  /\ \/ \E w \in Workers :
          /\ pc[w] = "waiting"
          /\ pc' = [pc EXCEPT ![w] = "lock", ![x] = After(x)]
     \/ /\ \A w \in Workers : pc[w] # "waiting"
        /\ Goto(x, After(x))
  /\ item' = [item EXCEPT ![x] = NoTask]
  /\ UNCHANGED <<mtx, tasks, stop, task, future, next, owner, pushed, started>>

-----------------------------------------------------------------------------
(* The users of the pool, as main is one. *)

Call(c) ==
  /\ pc[c] = "next"
  /\ next[c] < Len(Program[c])
  /\ next' = [next EXCEPT ![c] = @ + 1]
  /\ item' = [item EXCEPT ![c] = Program[c][next[c] + 1]]
  /\ Goto(c, "enq_lock")
  /\ UNCHANGED <<mtx, tasks, stop, task, future, owner, pushed, started>>

\* Mutated form: the futures are dropped by everyone.
GetNothing(c) ==
  /\ pc[c] = "next"
  /\ next[c] = Len(Program[c])
  /\ Goto(c, "done")
  /\ UNCHANGED <<mtx, tasks, stop, task, item, future, next, owner, pushed, started>>

\* All enqueued: f1.get(); f2.get(), which return (WaitedForReturn); or the futures
\* are dropped.
Get(c) ==
  /\ pc[c] = "next"
  /\ next[c] = Len(Program[c])
  /\ c \in Waiters =>
       \A i \in DOMAIN Program[c] : future[Program[c][i]] = "value"
  /\ Goto(c, "done")
  /\ UNCHANGED <<mtx, tasks, stop, task, item, future, next, owner, pushed, started>>

\* The destructor: it runs when no user is left.
SetStop ==
  /\ owner = "live"
  /\ \A c \in Clients : pc[c] = "done"
  /\ stop' = TRUE
  /\ owner' = "notify"
  /\ UNCHANGED <<mtx, tasks, pc, task, item, future, next, pushed, started>>

\* Mutated form: notify_one.
NotifyOnlyOne ==
  /\ owner = "notify"
  /\ \/ \E w \in Workers : pc[w] = "waiting" /\ Goto(w, "lock")
     \/ (\A w \in Workers : pc[w] # "waiting") /\ UNCHANGED pc
  /\ owner' = "join"
  /\ UNCHANGED <<mtx, tasks, stop, task, item, future, next, pushed, started>>

NotifyAll ==
  /\ owner = "notify"
  /\ pc' = [x \in Actors |-> IF pc[x] = "waiting" THEN "lock" ELSE pc[x]]
  /\ owner' = "join"
  /\ UNCHANGED <<mtx, tasks, stop, task, item, future, next, pushed, started>>

\* The last worker has been joined.
Join ==
  /\ owner = "join"
  /\ \A w \in Workers : pc[w] = "exited"
  /\ owner' = "destroyed"
  /\ UNCHANGED <<mtx, tasks, stop, pc, task, item, future, next, pushed, started>>

-----------------------------------------------------------------------------
Enqueue(x) == EnqueueLock(x) \/ EnqueuePush(x) \/ EnqueueNotify(x)

Work(w) ==
  \/ Acquire(w) \/ Check(w) \/ Block(w) \/ Exit(w) \/ Take(w) \/ Run(w) \/ FinishTask(w)
  \/ Enqueue(w) \/ EnqueueRefused(w)

Use(c) == Call(c) \/ Enqueue(c) \/ Get(c)

Destroy == SetStop \/ NotifyAll \/ Join

Next ==
  \/ \E w \in Workers : Work(w) \/ WakeSpuriously(w)
  \/ \E c \in Clients : Use(c)
  \/ Destroy

Spec == Init /\ [][Next]_vars

\* Every thread runs, and spurious wakeups do not go on for ever.  Nothing is
\* assumed of who gets mtx or whom notify_one wakes.
FairSpec ==
  /\ Spec
  /\ <>[][\A w \in Workers : ~ WakeSpuriously(w)]_vars
  /\ \A w \in Workers : WF_vars(Work(w))
  /\ \A c \in Clients : WF_vars(Use(c))
  /\ WF_vars(Destroy)

-----------------------------------------------------------------------------
(* Properties *)

\* What was enqueued is what has been started and what waits, in one order: no
\* task is lost, run twice or overtaken on its way through the queue.  The
\* runs check this order as that of the queue in ImplementsService.
TasksAccounted == pushed = started \o tasks

\* A worker that has come through its wait finds a task at the front, or leaves: the
\* one it was woken for may have been taken by another, and between its predicate and
\* its pop nobody else takes one.  front() of an empty queue is undefined
\* (Include.h:34-41).
FrontExists == \A w \in Workers : pc[w] = "take" => stop \/ tasks # << >>

\* No wakeup of enqueue is lost: when a task waits and no worker is awake to
\* take it, some enqueue has yet to notify.
NoStrandedTask ==
  tasks # << >> /\ (\A w \in Workers : pc[w] \in {"blocking", "waiting"}) =>
    \E x \in Actors : pc[x] = "enq_notify"

\* When the destructor has returned, nobody is inside the pool, and every task
\* that was accepted has run to its end.
DestroyedIsDrained ==
  owner = "destroyed" =>
    /\ \A x \in Actors : pc[x] \in {"exited", "done"}
    /\ \A i \in DOMAIN pushed : future[pushed[i]] \in {"value", "exception"}

\* To its users the pool is a service that starts tasks in the order it took them,
\* keeps an exception in the future of the task that threw it, accepts nothing once
\* stop is set and finishes all it has accepted before the destructor returns
\* (Include.h:28-101).
Service == INSTANCE TaskService WITH
  queue <- tasks, running <- task, closed <- stop, gone <- (owner = "destroyed")
ImplementsService == Service!Spec

\* Every task that enqueue accepted ends, and its future becomes ready.
TasksEnd == \A k \in Tasks : future[k] = "pending" ~> future[k] \in {"value", "exception"}

\* The destructor returns, if no worker is between its predicate and its sleep
\* when stop is set.  A worker that is there misses notify_all, for stop changes
\* without mtx, and if nothing wakes it the join never ends (Include.h:91-97).
DestructorReturns ==
  owner = "notify" /\ (\A w \in Workers : pc[w] # "blocking") ~> owner = "destroyed"

\* What the join rests on: if no worker is between its predicate and its sleep when
\* stop is set, none sleeps from notify_all on, spurious wakeups, notifications of
\* enqueue and the order of the threads notwithstanding (Include.h:33-35, 91-97).
Sleepless == \A w \in Workers : pc[w] \notin {"blocking", "waiting"}
NoneLeftAsleep ==
  [](owner = "notify" /\ (\A w \in Workers : pc[w] # "blocking") => [](owner # "notify" => Sleepless))
=============================================================================
