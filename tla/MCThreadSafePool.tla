-------------------------- MODULE MCThreadSafePool --------------------------
(* Small instances of ThreadSafePool for TLC. *)
EXTENDS ThreadSafePool

CONSTANTS w1, w2, w3, main, other, a, b, c, d

ThreeWorkers == {w1, w2, w3}
MainOnly == {main}

\* Two threads that enqueue, one of which does not wait, and a task that enqueues
\* one that throws.
TwoClients == {main, other}
FourTasks == {a, b, c, d}
TwoPrograms == [x \in TwoClients |-> IF x = main THEN <<a, b>> ELSE <<c>>]
OneThrows == {d}
OneChild == [k \in FourTasks |-> IF k = c THEN d ELSE NoTask]
=============================================================================
