------------------------------- MODULE Table -------------------------------
(***************************************************************************)
(* What a JsonStore promises its callers as long as the process and the    *)
(* disk do not fail: every call takes effect at one instant, on the array  *)
(* the call before it left.                                                *)
(***************************************************************************)
CONSTANTS
  Threads, Calls, InitialArrays,
  Outcomes(_, _),  \* array, call: the arrays it may leave, each with its reply
  Nullopt          \* what a thread that has called nothing was replied

VARIABLES
  table,  \* the array
  reply   \* what the last call of each thread returned

vars == <<table, reply>>

Init ==
  /\ table \in InitialArrays
  /\ reply = [t \in Threads |-> Nullopt]

Apply(t, c) ==
  \E o \in Outcomes(table, c) :
    /\ table' = o.arr
    /\ reply' = [reply EXCEPT ![t] = o.reply]

Next == \E t \in Threads, c \in Calls : Apply(t, c)

Spec == Init /\ [][Next]_vars
=============================================================================
