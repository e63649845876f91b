---------------------------- MODULE TaskService ----------------------------
(***************************************************************************)
(* What a ThreadSafePool promises: tasks start in the order in which they  *)
(* were accepted, each of them once; what a task returns or throws is what *)
(* its future says, and concerns no other task; a closed pool accepts      *)
(* nothing, but everything it has accepted ends before it is gone.         *)
(***************************************************************************)
EXTENDS Sequences

CONSTANTS Workers, Tasks, Child, Throwing, NoTask

VARIABLES
  queue,    \* the tasks that have been accepted and not started
  running,  \* per worker: its task
  future,   \* per task: what its future says
  closed, gone

vars == <<queue, running, future, closed, gone>>

Init ==
  /\ queue = << >>
  /\ running = [w \in Workers |-> NoTask]
  /\ future = [k \in Tasks |-> "none"]
  /\ ~ closed /\ ~ gone

Accept(k) ==
  /\ ~ closed
  /\ queue' = Append(queue, k)
  /\ future' = [future EXCEPT ![k] = "pending"]
  /\ UNCHANGED <<running, closed, gone>>

Start(w) ==
  /\ queue # << >> /\ running[w] = NoTask
  /\ queue' = Tail(queue)
  /\ running' = [running EXCEPT ![w] = Head(queue)]
  /\ UNCHANGED <<future, closed, gone>>

\* A task ends with an exception if it throws, or if it is one that enqueues and the
\* pool is closed by then.
End(w) ==
  /\ running[w] # NoTask
  /\ \E outcome \in {"value", "exception"} :
       /\ outcome = "value" => running[w] \notin Throwing
       /\ outcome = "exception" =>
            running[w] \in Throwing \/ (closed /\ Child[running[w]] # NoTask)
       /\ future' = [future EXCEPT ![running[w]] = outcome]
  /\ running' = [running EXCEPT ![w] = NoTask]
  /\ UNCHANGED <<queue, closed, gone>>

Close ==
  /\ ~ closed
  /\ closed' = TRUE
  /\ UNCHANGED <<queue, running, future, gone>>

Vanish ==
  /\ closed /\ ~ gone
  /\ queue = << >> /\ \A w \in Workers : running[w] = NoTask
  /\ gone' = TRUE
  /\ UNCHANGED <<queue, running, future, closed>>

Next ==
  \/ \E k \in Tasks : Accept(k)
  \/ \E w \in Workers : Start(w) \/ End(w)
  \/ Close \/ Vanish

Spec == Init /\ [][Next]_vars
=============================================================================
