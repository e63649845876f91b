---------------------------- MODULE MCLifecycle ----------------------------
(* A small instance of Lifecycle for TLC. *)
EXTENDS Lifecycle

CONSTANTS w1, w2, p1, p2, f1, f2, task1, task2

MCWorkers == {w1, w2}
MCPoolWorkers == {p1, p2}
MCTasks == {f1, f2}
MCProgram == [c \in {main} |-> <<f1, f2>>]
MCPoolProgram == <<task1, task2>>
=============================================================================
