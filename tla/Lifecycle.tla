----------------------------- MODULE Lifecycle -----------------------------
(***************************************************************************)
(* main (CruddXwebb.cpp): the two pools, the port and the accept loop, and *)
(* what happens when any of it fails.  poolv2 is a ThreadSafePool with     *)
(* main for its only client, pool a ThreadPool; they are declared in the   *)
(* order pool, poolv2 and destroyed in the other.  What main enqueues only *)
(* prints, so no task throws.  The connections' threads are detached and   *)
(* modelled by Server.                                                     *)
(***************************************************************************)
EXTENDS Naturals, Sequences

CONSTANTS
  Workers, Tasks, Program,   \* poolv2's threads, and what main enqueues there: f1, f2
  PoolWorkers, PoolProgram,  \* pool's threads, and what main enqueues there
  main, NoTask, None,
  MaxServed                  \* bound: connections accepted

VARIABLES
  mtx, tasks, stop, pc, task, item, future, next, owner, pushed, started,    \* poolv2's
  poolTasks, poolAt, poolRunning, poolNotifying, poolPushed, poolStarted,    \* pool's
  stage,    \* how far main is
  served    \* the connections accepted

PoolTasks == {PoolProgram[i] : i \in DOMAIN PoolProgram}

ASSUME TasksDistinct == NoTask \notin Tasks \cup PoolTasks
ASSUME ThreadsDistinct == main \notin Workers /\ None \notin Workers \cup {main}

\* main waits for the future of every task; both pools are made with four threads.
ASSUME ProgramsTyped == Program \in [{main} -> Seq(Tasks)] /\ PoolProgram \in Seq(PoolTasks)
ASSUME AllEnqueued == \A k \in Tasks : \E i \in DOMAIN Program[main] : Program[main][i] = k
ASSUME PoolHasWorkers == PoolWorkers # {}
ASSUME BoundNat == MaxServed \in Nat

V2 == INSTANCE ThreadSafePool WITH
  Clients <- {main}, Waiters <- {main}, Throwing <- {}, Child <- [k \in Tasks |-> NoTask]

Pool == INSTANCE ThreadPool WITH
  Workers <- PoolWorkers, Callers <- {main}, Tasks <- PoolTasks,
  tasks <- poolTasks, at <- poolAt, running <- poolRunning, notifying <- poolNotifying,
  pushed <- poolPushed, started <- poolStarted

v2Vars == <<mtx, tasks, stop, pc, task, item, future, next, owner, pushed, started>>
poolVars == <<poolTasks, poolAt, poolRunning, poolNotifying, poolPushed, poolStarted>>
vars == <<v2Vars, poolVars, stage, served>>

\* "leaving" is from the catch block to the end of poolv2's destructor; then pool's
\* members are destroyed, which ends in "aborted" or for some workers in "stuck".
Stages == {"poolv2", "pool", "accepting", "leaving", "aborted", "stuck"}

TypeOK ==
  /\ V2!TypeOK
  /\ Pool!TypeOK
  /\ stage \in Stages
  /\ served \in 0..MaxServed

Init ==
  /\ V2!Init
  /\ Pool!Init
  /\ stage = "poolv2"
  /\ served = 0

-----------------------------------------------------------------------------
(* main *)

\* auto f1 = poolv2.enqueue(...); auto f2 = ...; f1.get(); f2.get().
UsePoolV2 ==
  /\ stage = "poolv2"
  /\ V2!Use(main)
  /\ UNCHANGED <<poolVars, stage, served>>

PoolV2Used ==
  /\ stage = "poolv2"
  /\ pc[main] = "done"
  /\ stage' = "pool"
  /\ UNCHANGED <<v2Vars, poolVars, served>>

UsePool ==
  /\ stage = "pool"
  /\ \/ Len(poolPushed) < Len(PoolProgram) /\ Pool!Enqueue(main, PoolProgram[Len(poolPushed) + 1])
     \/ Pool!Notify(main)
  /\ UNCHANGED <<v2Vars, stage, served>>

PoolUsed == stage = "pool" /\ Len(poolPushed) = Len(PoolProgram) /\ main \notin poolNotifying

\* The acceptor is open, or its constructor throws (the port is taken).
Listen ==
  /\ PoolUsed
  /\ stage' \in {"accepting", "leaving"}
  /\ UNCHANGED <<v2Vars, poolVars, served>>

Accept ==
  /\ stage = "accepting"
  /\ served < MaxServed
  /\ served' = served + 1
  /\ UNCHANGED <<v2Vars, poolVars, stage>>

\* accept, or the construction of the connection's thread, throws.
AcceptFails ==
  /\ stage = "accepting"
  /\ stage' = "leaving"
  /\ UNCHANGED <<v2Vars, poolVars, served>>

\* return 1: ~ThreadSafePool.
DestroyPoolV2 ==
  /\ stage = "leaving"
  /\ V2!Destroy
  /\ UNCHANGED <<poolVars, stage, served>>

\* Mutated form: the pools declared the other way round.
AbortFirst ==
  /\ stage = "leaving"
  /\ stage' = "aborted"
  /\ UNCHANGED <<v2Vars, poolVars, served>>

\* Then the members of pool, the last first.  Its condition is destroyed while workers
\* sleep on it, which is undefined: MSVC's does nothing, glibc's waits for them, and
\* nobody wakes them.  Behind it each std::thread is joinable, so that its destructor
\* calls std::terminate, and main's return value reaches nobody.
Abort ==
  /\ stage = "leaving"
  /\ owner = "destroyed"
  /\ stage' = "aborted"
  /\ UNCHANGED <<v2Vars, poolVars, served>>

WaitForSleepers ==
  /\ stage = "leaving"
  /\ owner = "destroyed"
  /\ \E w \in PoolWorkers : poolAt[w] = "asleep"
  /\ stage' = "stuck"
  /\ UNCHANGED <<v2Vars, poolVars, served>>

Main == UsePoolV2 \/ PoolV2Used \/ UsePool \/ Listen

-----------------------------------------------------------------------------
(* The pools' threads, as long as the process lives. *)

V2Work(w) ==
  /\ stage # "aborted"
  /\ V2!Work(w)
  /\ UNCHANGED <<poolVars, stage, served>>

PoolWork(w) ==
  /\ stage # "aborted"
  /\ Pool!Work(w)
  /\ UNCHANGED <<v2Vars, stage, served>>

WakeSpuriously ==
  /\ stage # "aborted"
  /\ \/ \E w \in Workers : V2!WakeSpuriously(w) /\ UNCHANGED poolVars
     \/ \E w \in PoolWorkers : Pool!WakeSpuriously(w) /\ UNCHANGED v2Vars
  /\ UNCHANGED <<stage, served>>

Next ==
  \/ Main \/ Accept \/ AcceptFails \/ DestroyPoolV2 \/ Abort \/ WaitForSleepers
  \/ \E w \in Workers : V2Work(w)
  \/ \E w \in PoolWorkers : PoolWork(w)
  \/ WakeSpuriously

Spec == Init /\ [][Next]_vars

\* Every thread runs; the clients and failures that accept waits for may not come.
FairSpec ==
  /\ Spec
  /\ <>[][~ WakeSpuriously]_vars
  /\ WF_vars(Main)
  /\ WF_vars(DestroyPoolV2 \/ Abort \/ WaitForSleepers)
  /\ \A w \in Workers : WF_vars(V2Work(w))
  /\ \A w \in PoolWorkers : WF_vars(PoolWork(w))

-----------------------------------------------------------------------------
(* Properties *)

\* pool starts the tasks in the order main enqueued them, each once.
PoolTasksAccounted == poolPushed = poolStarted \o poolTasks

\* No notification of pool is lost: a task that waits while every worker sleeps
\* has an enqueue that is about to notify.
NoStrandedPoolTask ==
  poolTasks # << >> /\ (\A w \in PoolWorkers : poolAt[w] = "asleep") => main \in poolNotifying

\* The port is open only after the two tasks of poolv2 have run, and with the two
\* of pool on their way.
ServesAfterTasks ==
  stage = "accepting" =>
    /\ \A k \in Tasks : future[k] = "value"
    /\ poolPushed = PoolProgram

\* The members of pool go when poolv2 is destroyed: no thread of it is left running,
\* whatever failed and when.
AbortsOrderly ==
  stage \in {"aborted", "stuck"} => \A w \in Workers : pc[w] = "exited" /\ tasks = << >>

\* main gets to its port or to its catch block: waiting for the futures and for the
\* mutex of pool ends.
StartsUp == <>(stage \in {"accepting", "leaving", "aborted", "stuck"})

\* A task of pool that main enqueued is run, unless the process ends first.
PoolTasksRun ==
  \A k \in PoolTasks :
    k \in {poolPushed[i] : i \in DOMAIN poolPushed} ~>
      \/ stage = "aborted"
      \/ /\ k \in {poolStarted[i] : i \in DOMAIN poolStarted}
         /\ \A w \in PoolWorkers : poolRunning[w] # k

\* After a fatal error the process does end, unless a worker of poolv2 was between
\* its predicate and its sleep when stop was set (Include.h:91-97), or the condition
\* of pool waits for its sleepers.
FatalErrorEnds ==
  owner = "notify" /\ (\A w \in Workers : pc[w] # "blocking") ~>
    stage \in {"aborted", "stuck"}
=============================================================================
