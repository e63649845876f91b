----------------------------- MODULE ThreadPool -----------------------------
(***************************************************************************)
(* The task queue of ThreadPool (ThreadPool.h).  Its workers read and      *)
(* change everything under one mutex, and a worker that finds nothing to   *)
(* do releases it and sleeps in one step, so a critical section is an      *)
(* action; the notification of enqueue comes after its critical section.   *)
(* stop is never set and there is no destructor: the threads are never     *)
(* joined.  Tasks return: an exception of one would end the process.       *)
(***************************************************************************)
EXTENDS Naturals, Sequences

CONSTANTS Workers, Callers, Tasks, NoTask

VARIABLES
  tasks,      \* the queue
  at,         \* per worker: where it is
  running,    \* per worker: the task it runs
  notifying,  \* the callers of enqueue that have pushed and not yet notified
  \* History variables.
  pushed,     \* the tasks enqueued, in order
  started     \* the tasks taken off the queue, in order

vars == <<tasks, at, running, notifying, pushed, started>>

TypeOK ==
  /\ tasks \in Seq(Tasks)
  /\ at \in [Workers -> {"awake", "asleep", "running"}]
  /\ running \in [Workers -> Tasks \cup {NoTask}]
  /\ notifying \subseteq Callers
  /\ pushed \in Seq(Tasks)
  /\ started \in Seq(Tasks)

Init ==
  /\ tasks = << >>
  /\ at = [w \in Workers |-> "awake"]
  /\ running = [w \in Workers |-> NoTask]
  /\ notifying = {}
  /\ pushed = << >>
  /\ started = << >>

\* Mutated form: condition.wait without the predicate.
WaitBlindly(w) ==
  /\ at[w] = "awake"
  /\ at' = [at EXCEPT ![w] = "asleep"]
  /\ UNCHANGED <<tasks, running, notifying, pushed, started>>

\* The predicate is false, and the worker sleeps.
Wait(w) ==
  /\ at[w] = "awake"
  /\ tasks = << >>
  /\ at' = [at EXCEPT ![w] = "asleep"]
  /\ UNCHANGED <<tasks, running, notifying, pushed, started>>

WakeSpuriously(w) ==
  /\ at[w] = "asleep"
  /\ at' = [at EXCEPT ![w] = "awake"]
  /\ UNCHANGED <<tasks, running, notifying, pushed, started>>

\* Mutated form: the last task is taken.
TakeLast(w) ==
  /\ at[w] = "awake"
  /\ tasks # << >>
  /\ running' = [running EXCEPT ![w] = tasks[Len(tasks)]]
  /\ tasks' = SubSeq(tasks, 1, Len(tasks) - 1)
  /\ started' = Append(started, tasks[Len(tasks)])
  /\ at' = [at EXCEPT ![w] = "running"]
  /\ UNCHANGED <<notifying, pushed>>

Take(w) ==
  /\ at[w] = "awake"
  /\ tasks # << >>
  /\ running' = [running EXCEPT ![w] = Head(tasks)]
  /\ tasks' = Tail(tasks)
  /\ started' = Append(started, Head(tasks))
  /\ at' = [at EXCEPT ![w] = "running"]
  /\ UNCHANGED <<notifying, pushed>>

\* task() returns.
Finish(w) ==
  /\ at[w] = "running"
  /\ running' = [running EXCEPT ![w] = NoTask]
  /\ at' = [at EXCEPT ![w] = "awake"]
  /\ UNCHANGED <<tasks, notifying, pushed, started>>

Enqueue(c, k) ==
  /\ c \notin notifying
  /\ tasks' = Append(tasks, k)
  /\ pushed' = Append(pushed, k)
  /\ notifying' = notifying \cup {c}
  /\ UNCHANGED <<at, running, started>>

\* condition.notify_one: one sleeper wakes, if there is one.
Notify(c) ==
  /\ c \in notifying
  /\ \/ \E w \in Workers : at[w] = "asleep" /\ at' = [at EXCEPT ![w] = "awake"]
     \/ (\A w \in Workers : at[w] # "asleep") /\ UNCHANGED at
  /\ notifying' = notifying \ {c}
  /\ UNCHANGED <<tasks, running, pushed, started>>

Work(w) == Wait(w) \/ Take(w) \/ Finish(w)
=============================================================================
