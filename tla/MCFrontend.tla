----------------------------- MODULE MCFrontend -----------------------------
(* A small instance of Frontend for TLC. *)
EXTENDS Frontend

CONSTANTS p1, p2, A, B

MCPages == {p1, p2}
MCTitles == {B}
MCSlots == 1..3

\* An item, and what a page sends of one.
MCDocs ==
  [title : {A, B}, birth : 1..(MaxClicks + 2)] \cup [title : {B}]

\* Two: a page may still show the second when the first is the last one removed.
MCInitialItems == [i \in 1..2 |-> [id |-> i, doc |-> [title |-> A, birth |-> i]]]
=============================================================================
