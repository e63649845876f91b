----------------------------- MODULE JsonArray -----------------------------
(***************************************************************************)
(* The value of a JsonStore table and what each operation of JsonStore     *)
(* (json_store.h) computes from it.  A table is one JSON array; a record   *)
(* is split into its integer member "id" and doc, the rest of the object.  *)
(* JsonStore runs these operators on the array it read under its mutex,    *)
(* Table applies them in one atomic step, Server uses them directly.       *)
(*                                                                         *)
(* The operators are written without recursion, so that they can be proved *)
(* about: a loop over the array appears as the property its result has.    *)
(***************************************************************************)
EXTENDS Integers, Sequences

CONSTANTS
  Docs,   \* JSON objects, their "id" member aside: functions from keys to values
  NoId,   \* stands for the "id" of a request body that has no such member
  NotObject  \* a body that is JSON but no object, and has elements: 5, [1]

\* item[it.key()] = it.value() for every key of the patch.
Overlay(doc, patch) ==
  [k \in DOMAIN doc \cup DOMAIN patch |-> IF k \in DOMAIN patch THEN patch[k] ELSE doc[k]]

\* Writing one object's members into another gives an object.
ASSUME DocsClosed == \A doc, patch \in Docs : Overlay(doc, patch) \in Docs

Records == [id : Nat, doc : Docs]
Arrays  == Seq(Records)
Bodies  == [id : Int \cup {NoId}, doc : Docs]  \* what a client may send: it may name an id

Ids(a) == {a[i].id : i \in DOMAIN a}

\* The indices of the records with a given id.
Positions(a, id) == {i \in DOMAIN a : a[i].id = id}

First(S) == CHOOSE i \in S : \A j \in S : i <= j

\* Every id is smaller than the id of every record after it.
Ascending(a) == \A i, j \in DOMAIN a : i < j => a[i].id < a[j].id

(***************************************************************************)
(* insert: next_id starts at 1 and is raised to id + 1 by every record     *)
(* whose id has reached it.  An "id" sent by the client is overwritten.    *)
(***************************************************************************)
\* Mutated form: the number of records for the largest id.
NextIdFromCount(a) == Len(a) + 1

NextId(a) ==
  CHOOSE n \in {1} \cup {id + 1 : id \in Ids(a)} : \A id \in Ids(a) : id < n

\* Mutated form: the record is put in front.
InsertedFront(a, body) == <<[id |-> NextId(a), doc |-> body.doc]>> \o a

Inserted(a, body) == Append(a, [id |-> NextId(a), doc |-> body.doc])

(***************************************************************************)
(* update: the first record with the id is merged with the patch; the key  *)
(* "id" of the patch is skipped.  Used only when the id is present.  A     *)
(* patch that is no object has no it.key(): the loop throws at its head.   *)
(***************************************************************************)
\* Mutated form: the key "id" of the patch is merged like the others.
MergeWithId(record, patch) ==
  [id |-> IF patch.id = NoId THEN record.id ELSE patch.id,
   doc |-> Overlay(record.doc, patch.doc)]

Merge(record, patch) ==
  [id |-> record.id, doc |-> Overlay(record.doc, patch.doc)]

Updated(a, id, patch) ==
  LET i == First(Positions(a, id)) IN [a EXCEPT ![i] = Merge(@, patch)]

(***************************************************************************)
(* remove: the records whose id differs, in their order.  kept runs through *)
(* the increasing enumerations of their indices, of which there is one.    *)
(***************************************************************************)
Enumerations(S, n) ==
  {e \in UNION {[1..k -> S] : k \in 0..n} :
     /\ \A i, j \in DOMAIN e : i < j => e[i] < e[j]
     /\ \A s \in S : \E i \in DOMAIN e : e[i] = s}

\* Mutated form: <= for ==.
RemovedUpTo(a, id) ==
  {[k \in DOMAIN kept |-> a[kept[k]]] :
     kept \in Enumerations({i \in DOMAIN a : a[i].id > id}, Len(a))}

Removed(a, id) ==
  {[k \in DOMAIN kept |-> a[kept[k]]] :
     kept \in Enumerations(DOMAIN a \ Positions(a, id), Len(a))}

(***************************************************************************)
(* The calls of JsonStore's interface, and their outcomes: the array the   *)
(* operation leaves and what it returns.  A std::optional and the bool of  *)
(* remove are (ok, recs): recs is empty when there is no value.            *)
(***************************************************************************)
CallTypes ==
  [op : {"all"}] \cup
  [op : {"find_if"}, matching : SUBSET Docs] \cup  \* the predicate, as the docs it accepts
  [op : {"find_by_id", "remove"}, id : Int] \cup
  [op : {"insert"}, body : Bodies] \cup
  [op : {"update"}, id : Int, patch : Bodies \cup {NotObject}] \cup
  [op : {"save_all"}, arr : {a \in Arrays : Ascending(a)}]

Replies == [ok : BOOLEAN, recs : Arrays]

Nullopt  == [ok |-> FALSE, recs |-> << >>]
Value(r) == [ok |-> TRUE, recs |-> <<r>>]
\* it.key() throws: the operation leaves without a reply and without a write.
ThrowsAt(a, c) == c.op = "update" /\ c.patch = NotObject /\ Positions(a, c.id) # {}

FirstOf(a, S) == IF S = {} THEN Nullopt ELSE Value(a[First(S)])

Outcomes(a, c) ==
  CASE c.op = "all"        -> {[arr |-> a, reply |-> [ok |-> TRUE, recs |-> a]]}
    [] c.op = "find_if"    ->
         {[arr |-> a, reply |-> FirstOf(a, {i \in DOMAIN a : a[i].doc \in c.matching})]}
    [] c.op = "find_by_id" -> {[arr |-> a, reply |-> FirstOf(a, Positions(a, c.id))]}
    [] c.op = "insert"     ->
         LET b == Inserted(a, c.body) IN {[arr |-> b, reply |-> Value(b[Len(b)])]}
    [] c.op = "update"     ->
         IF Positions(a, c.id) = {} THEN {[arr |-> a, reply |-> Nullopt]}
         ELSE IF c.patch = NotObject THEN {}
         ELSE LET b == Updated(a, c.id, c.patch)
              IN {[arr |-> b, reply |-> Value(b[First(Positions(a, c.id))])]}
    [] c.op = "remove"     ->
         {[arr |-> b, reply |-> [ok |-> Len(b) # Len(a), recs |-> << >>]] : b \in Removed(a, c.id)}
    [] c.op = "save_all"   -> {[arr |-> c.arr, reply |-> [ok |-> TRUE, recs |-> << >>]]}

\* Whether the operation calls write_locked: remove does even when nothing matches.
Writes(a, c) ==
  \/ c.op \in {"insert", "remove", "save_all"}
  \/ c.op = "update" /\ Positions(a, c.id) # {} /\ c.patch # NotObject
=============================================================================
