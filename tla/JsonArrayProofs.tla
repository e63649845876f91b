-------------------------- MODULE JsonArrayProofs --------------------------
(* What the operations of JsonArray preserve, for every array and call. *)
EXTENDS JsonArray, FiniteSetTheorems, TLAPS

\* Merging keeps the type of an object (DocsClosed, in the form provers use).
LEMMA OverlayType ==
  ASSUME NEW doc \in Docs, NEW patch \in Docs
  PROVE  Overlay(doc, patch) \in Docs
  BY DocsClosed

\* A record of an array has a natural id and an object.
LEMMA ElementType ==
  ASSUME NEW a \in Arrays, NEW i \in DOMAIN a
  PROVE  a[i] \in Records /\ a[i].id \in Nat /\ a[i].doc \in Docs
<1>1. a[i] \in Records
  BY DEF Arrays
<1> QED
  BY <1>1 DEF Records

\* The id insert picks is above every id of the table (json_store.h:43-46).
LEMMA NextIdAbove ==
  ASSUME NEW a \in Arrays, Ascending(a)
  PROVE  /\ NextId(a) \in Nat \ {0}
         /\ \A i \in DOMAIN a : a[i].id < NextId(a)
<1> DEFINE S == {1} \cup {id + 1 : id \in Ids(a)}
           P(n) == \A id \in Ids(a) : id < n
<1>1. \A i \in DOMAIN a : a[i].id \in Nat
  BY ElementType
<1>2. \E n \in S : P(n)
  <2>1. CASE a = << >>
    <3>1. DOMAIN a = {}
      BY <2>1
    <3> QED
      BY <3>1 DEF Ids
  <2>2. CASE a # << >>
    <3> DEFINE l == Len(a)
    <3>1. l \in DOMAIN a /\ \A i \in DOMAIN a : i <= l /\ i \in Int /\ l \in Int
      BY <2>2 DEF Arrays
    <3>2. \A i \in DOMAIN a : a[i].id < a[l].id + 1
      BY <3>1, <1>1 DEF Ascending
    <3>3. a[l].id + 1 \in S
      BY <3>1 DEF Ids
    <3> QED
      BY <3>2, <3>3 DEF Ids
  <2> QED
    BY <2>1, <2>2
<1>3. NextId(a) \in S /\ P(NextId(a))
  BY <1>2 DEF NextId
<1> QED
  BY <1>1, <1>3 DEF Ids

\* insert: the array stays ascending, the new record has a fresh id.
LEMMA InsertedAscending ==
  ASSUME NEW a \in Arrays, Ascending(a), NEW body \in Bodies
  PROVE  /\ Inserted(a, body) \in Arrays
         /\ Ascending(Inserted(a, body))
         /\ Len(Inserted(a, body)) \in DOMAIN Inserted(a, body)
<1> DEFINE r == [id |-> NextId(a), doc |-> body.doc]
           b == Append(a, r)
<1>1. r \in Records
  BY NextIdAbove DEF Records, Bodies
<1>2. b \in Arrays /\ Len(b) = Len(a) + 1 /\ Len(a) \in Nat
  BY <1>1 DEF Arrays
<1>3. DOMAIN b = 1..Len(a) + 1 /\ DOMAIN a = 1..Len(a)
  BY <1>2 DEF Arrays
<1>4. \A i \in 1..Len(a) : b[i] = a[i]
  BY <1>1 DEF Arrays
<1>5. b[Len(a) + 1] = r
  BY <1>1 DEF Arrays
<1>6. Ascending(b)
  <2> SUFFICES ASSUME NEW i \in DOMAIN b, NEW j \in DOMAIN b, i < j
               PROVE  b[i].id < b[j].id
    BY DEF Ascending
  <2>1. CASE j \in 1..Len(a)
    <3>1. i \in 1..Len(a)
      BY <2>1, <1>2, <1>3
    <3> QED
      BY <2>1, <3>1, <1>4, <1>3 DEF Ascending
  <2>2. CASE j = Len(a) + 1
    <3>1. i \in 1..Len(a)
      BY <2>2, <1>2, <1>3
    <3> HIDE DEF r
    <3>2. b[i].id = a[i].id /\ b[j].id = r.id
      BY <2>2, <3>1, <1>4, <1>5
    <3>3. r.id = NextId(a)
      BY DEF r
    <3> QED
      BY <3>1, <3>2, <3>3, <1>3, NextIdAbove
  <2> QED
    BY <2>1, <2>2, <1>2, <1>3
<1> QED
  BY <1>2, <1>3, <1>6 DEF Inserted

\* insert: the table grows by the new record, with the document that was sent.
LEMMA InsertedAppends ==
  ASSUME NEW a \in Arrays, Ascending(a), NEW body \in Bodies
  PROVE  \E r \in Records : r.doc = body.doc /\ Inserted(a, body) = Append(a, r)
<1> DEFINE r == [id |-> NextId(a), doc |-> body.doc]
<1>1. r \in Records /\ r.doc = body.doc
  BY NextIdAbove DEF Records, Bodies
<1> QED
  BY <1>1 DEF Inserted

\* update: same ids in the same places.
LEMMA UpdatedAscending ==
  ASSUME NEW a \in Arrays, Ascending(a), NEW id \in Int, NEW patch \in Bodies,
         Positions(a, id) # {}
  PROVE  /\ Updated(a, id, patch) \in Arrays
         /\ Ascending(Updated(a, id, patch))
         /\ First(Positions(a, id)) \in DOMAIN Updated(a, id, patch)
         /\ Len(Updated(a, id, patch)) = Len(a)
<1> DEFINE P == Positions(a, id)
           i == First(P)
           b == Updated(a, id, patch)
<1>1. i \in DOMAIN a
  <2>1. PICK p \in P : p \in DOMAIN a /\ a[p].id = id
    BY DEF Positions
  <2>2. \A q \in P : q = p
    BY <2>1 DEF Positions, Ascending, Arrays, Records
  <2>3. p <= p
    BY <2>1 DEF Arrays
  <2>4. \E q \in P : \A s \in P : q <= s
    BY <2>1, <2>2, <2>3
  <2>5. i \in P
    BY <2>4 DEF First
  <2> QED
    BY <2>5, <2>1, <2>2
<1> HIDE DEF i
<1>2. Merge(a[i], patch) \in Records /\ Merge(a[i], patch).id = a[i].id
  <2>1. a[i].id \in Nat /\ a[i].doc \in Docs /\ patch.doc \in Docs
    BY <1>1, ElementType DEF Bodies
  <2>2. Overlay(a[i].doc, patch.doc) \in Docs
    BY <2>1, OverlayType
  <2> QED
    BY <2>1, <2>2 DEF Merge, Records
<1>3. b = [a EXCEPT ![i] = Merge(a[i], patch)]
  BY DEF Updated, i
<1>4. b \in Arrays
  BY <1>1, <1>2, <1>3 DEF Arrays
<1>5. DOMAIN b = DOMAIN a /\ \A k \in DOMAIN a : b[k].id = a[k].id
  BY <1>1, <1>2, <1>3 DEF Arrays
<1>6. Ascending(b)
  BY <1>5 DEF Ascending
<1>7. Len(b) = Len(a)
  BY <1>4, <1>5 DEF Arrays
<1> QED
  BY <1>1, <1>4, <1>5, <1>6, <1>7 DEF i

\* remove: what stays keeps its order.
LEMMA RemovedAscending ==
  ASSUME NEW a \in Arrays, Ascending(a), NEW id \in Int, NEW b \in Removed(a, id)
  PROVE  /\ b \in Arrays
         /\ Ascending(b)
         /\ id \notin Ids(b)
         /\ \A i \in DOMAIN a : a[i].id # id => a[i].id \in Ids(b)
<1> DEFINE keep == DOMAIN a \ Positions(a, id)
<1>1. PICK kept \in Enumerations(keep, Len(a)) : b = [k \in DOMAIN kept |-> a[kept[k]]]
  BY DEF Removed
<1>2. PICK n \in 0..Len(a) : kept \in [1..n -> keep]
  BY DEF Enumerations
<1>3. DOMAIN b = 1..n /\ n \in Nat
  BY <1>1, <1>2 DEF Arrays
<1>4. \A k \in 1..n : kept[k] \in DOMAIN a /\ b[k] = a[kept[k]] /\ b[k].id # id
  BY <1>1, <1>2 DEF Positions
<1>5. b \in Arrays
  <2>1. b = [k \in 1..n |-> a[kept[k]]] /\ \A k \in 1..n : a[kept[k]] \in Records
    BY <1>1, <1>2, <1>4 DEF Arrays
  <2> QED
    BY <2>1, <1>3 DEF Arrays
<1>6. Ascending(b)
  <2>1. \A i, j \in 1..n : i < j => kept[i] < kept[j]
    BY <1>2 DEF Enumerations
  <2> QED
    BY <2>1, <1>3, <1>4 DEF Ascending
<1>7. ASSUME NEW i \in DOMAIN a, a[i].id # id
      PROVE  a[i].id \in Ids(b)
  <2>1. i \in keep
    BY <1>7 DEF Positions
  <2>2. PICK k \in DOMAIN kept : kept[k] = i
    BY <2>1 DEF Enumerations
  <2> QED
    BY <2>2, <1>2, <1>3, <1>4 DEF Ids
<1>8. id \notin Ids(b)
  BY <1>3, <1>4 DEF Ids
<1> QED
  BY <1>5, <1>6, <1>7, <1>8

\* The indices of a sequence of n elements are n.
LEMMA CountTo ==
  ASSUME NEW n \in Nat
  PROVE  IsFiniteSet(1..n) /\ Cardinality(1..n) = n
  BY FS_Interval, SMT

\* remove: one record less if the id is there, and as many as before if not.
LEMMA RemovedLength ==
  ASSUME NEW a \in Arrays, Ascending(a), NEW id \in Int, NEW b \in Removed(a, id)
  PROVE  Len(b) = IF Positions(a, id) = {} THEN Len(a) ELSE Len(a) - 1
<1> DEFINE keep == DOMAIN a \ Positions(a, id)
<1>1. PICK kept \in Enumerations(keep, Len(a)) : b = [k \in DOMAIN kept |-> a[kept[k]]]
  BY DEF Removed
<1>2. PICK n \in 0..Len(a) : kept \in [1..n -> keep]
  BY DEF Enumerations
<1>3. DOMAIN b = 1..n /\ n \in Nat /\ Len(a) \in Nat /\ DOMAIN a = 1..Len(a)
  BY <1>1, <1>2 DEF Arrays
<1>4. Len(b) = n
  BY <1>3, RemovedAscending DEF Arrays
<1>5. kept \in Bijection(1..n, keep)
  <2>0. DOMAIN kept = 1..n /\ keep \subseteq Nat
    BY <1>2, <1>3
  <2>1. \A i, j \in 1..n : kept[i] \in Nat /\ (i < j => kept[i] < kept[j])
    <3>1. \A i, j \in DOMAIN kept : i < j => kept[i] < kept[j]
      BY DEF Enumerations
    <3>2. \A i \in 1..n : kept[i] \in Nat
      BY <1>2, <2>0
    <3> QED
      BY <2>0, <3>1, <3>2
  <2>2. \A i, j \in 1..n : kept[i] = kept[j] => i = j
    BY <2>1, <1>3
  <2>3. \A s \in keep : \E i \in 1..n : kept[i] = s
    BY <1>2 DEF Enumerations
  <2> QED
    BY <1>2, <2>2, <2>3 DEF Bijection, Injection, Surjection, IsInjective
<1>6. Cardinality(keep) = n
  <2>1. IsFiniteSet(1..n) /\ Cardinality(1..n) = n
    BY <1>3, CountTo
  <2>2. ExistsBijection(1..n, keep)
    BY <1>5 DEF ExistsBijection
  <2> HIDE DEF keep
  <2> QED
    BY <2>1, <2>2, FS_Bijection
<1>7. IsFiniteSet(DOMAIN a) /\ Cardinality(DOMAIN a) = Len(a)
  BY <1>3, CountTo
<1>8. CASE Positions(a, id) = {}
  <2>1. keep = DOMAIN a
    BY <1>8
  <2> QED
    BY <1>4, <1>6, <1>7, <1>8, <2>1
<1>9. CASE Positions(a, id) # {}
  <2>1. PICK p \in DOMAIN a : a[p].id = id
    BY <1>9 DEF Positions
  <2>2. Positions(a, id) = {p}
    BY <2>1 DEF Positions, Ascending, Arrays, Records
  <2>3. keep = DOMAIN a \ {p}
    BY <2>2
  <2>4. Cardinality(DOMAIN a \ {p}) = Len(a) - 1
    BY <1>7, <2>1, FS_RemoveElement
  <2> QED
    BY <1>4, <1>6, <1>9, <2>3, <2>4
<1> QED
  BY <1>8, <1>9

\* A lookup loop stops at the first match (there is one if there is a match at all).
LEMMA FirstIsLeast ==
  ASSUME NEW a \in Arrays, NEW S \in SUBSET DOMAIN a, S # {}
  PROVE  First(S) \in S /\ \A j \in S : First(S) <= j
<1>1. S \subseteq Nat
  BY DEF Arrays
<1>2. PICK i \in S : \A j \in S : <<j, i>> \notin OpToRel(<, Nat)
  BY <1>1, NatLessThanWellFounded, WFMin
<1>3. \A j \in S : ~ (j < i)
  BY <1>1, <1>2 DEF OpToRel
<1>4. \A j \in S : i <= j
  BY <1>1, <1>3
<1> QED
  BY <1>4 DEF First

\* A lookup that finds a record finds the same one when others have been appended.
LEMMA FirstOfAppended ==
  ASSUME NEW a \in Arrays, NEW r \in Records, NEW S \in SUBSET DOMAIN a, S # {},
         NEW T, S \subseteq T, T \subseteq S \cup {Len(a) + 1}
  PROVE  FirstOf(Append(a, r), T) = FirstOf(a, S)
<1>1. First(S) \in S /\ \A j \in S : First(S) <= j
  BY FirstIsLeast
<1>2. Len(a) \in Nat /\ DOMAIN a = 1..Len(a)
  BY DEF Arrays
<1>3. First(T) = First(S)
  <2>1. \A j \in T : First(S) <= j
    BY <1>1, <1>2
  <2>2. \A i \in T : (\A j \in T : i <= j) => i = First(S)
    BY <1>1, <1>2, <2>1
  <2> QED
    BY <1>1, <2>1, <2>2 DEF First
<1>4. Append(a, r)[First(S)] = a[First(S)]
  BY <1>1, <1>2 DEF Arrays
<1> QED
  BY <1>3, <1>4 DEF FirstOf

\* A lookup answers with nothing or with a record of the array.
LEMMA FirstOfType ==
  ASSUME NEW a \in Arrays, NEW S \in SUBSET DOMAIN a,
         S # {} => First(S) \in DOMAIN a
  PROVE  FirstOf(a, S) \in Replies
<1>1. CASE S = {}
  BY <1>1 DEF FirstOf, Nullopt, Replies, Arrays
<1>2. CASE S # {}
  BY <1>2 DEF FirstOf, Value, Replies, Arrays
<1> QED
  BY <1>1, <1>2

\* A value is a one-record answer.
LEMMA ValueType ==
  ASSUME NEW a \in Arrays, NEW i \in DOMAIN a
  PROVE  Value(a[i]) \in Replies
  BY ElementType DEF Value, Replies, Arrays

\* Every operation, run on an ascending table, leaves an ascending table, and
\* one that does not write leaves the table it found.
LEMMA OutcomeOf ==
  ASSUME NEW a \in Arrays, Ascending(a), NEW c \in CallTypes, NEW o \in Outcomes(a, c)
  PROVE  /\ o.arr \in Arrays
         /\ Ascending(o.arr)
         /\ o.reply \in Replies
         /\ ~ Writes(a, c) => o.arr = a
<1>1. CASE c.op = "all"
  <2>1. o = [arr |-> a, reply |-> [ok |-> TRUE, recs |-> a]]
    BY <1>1 DEF Outcomes
  <2> QED
    BY <1>1, <2>1 DEF Replies
<1>2. CASE c.op = "find_if"
  <2> DEFINE S == {i \in DOMAIN a : a[i].doc \in c.matching}
  <2>1. o = [arr |-> a, reply |-> FirstOf(a, S)]
    BY <1>2 DEF Outcomes
  <2>2. S # {} => First(S) \in DOMAIN a
    BY FirstIsLeast
  <2>3. FirstOf(a, S) \in Replies
    BY <2>2, FirstOfType
  <2> QED
    BY <1>2, <2>1, <2>3
<1>3. CASE c.op = "find_by_id"
  <2>1. o = [arr |-> a, reply |-> FirstOf(a, Positions(a, c.id))]
    BY <1>3 DEF Outcomes
  <2>2. Positions(a, c.id) \in SUBSET DOMAIN a
    BY DEF Positions
  <2>3. FirstOf(a, Positions(a, c.id)) \in Replies
    BY <2>2, FirstIsLeast, FirstOfType
  <2> QED
    BY <1>3, <2>1, <2>3
<1>4. CASE c.op = "insert"
  <2> DEFINE b == Inserted(a, c.body)
  <2>1. c.body \in Bodies
    BY <1>4 DEF CallTypes
  <2>2. o = [arr |-> b, reply |-> Value(b[Len(b)])]
    BY <1>4 DEF Outcomes
  <2>3. b \in Arrays /\ Ascending(b) /\ Len(b) \in DOMAIN b
    BY <2>1, InsertedAscending
  <2> HIDE DEF b
  <2>4. Value(b[Len(b)]) \in Replies
    BY <2>3, ValueType
  <2> QED
    BY <1>4, <2>2, <2>3, <2>4 DEF Writes
<1>5. CASE c.op = "update"
  <2>1. c.id \in Int /\ c.patch \in Bodies \cup {NotObject}
    BY <1>5 DEF CallTypes
  <2>2. CASE Positions(a, c.id) = {}
    <3>1. o = [arr |-> a, reply |-> Nullopt]
      BY <1>5, <2>2 DEF Outcomes
    <3>2. Nullopt \in Replies
      BY DEF Nullopt, Replies, Arrays
    <3> QED
      BY <1>5, <3>1, <3>2
  <2>3. CASE Positions(a, c.id) # {}
    <3>0. c.patch # NotObject
      BY <1>5, <2>3 DEF Outcomes
    <3> DEFINE b == Updated(a, c.id, c.patch)
               i == First(Positions(a, c.id))
    <3>1. o = [arr |-> b, reply |-> Value(b[i])]
      BY <1>5, <2>3, <3>0 DEF Outcomes
    <3>2. b \in Arrays /\ Ascending(b) /\ i \in DOMAIN b
      BY <2>1, <2>3, <3>0, UpdatedAscending
    <3> HIDE DEF b, i
    <3>3. Value(b[i]) \in Replies
      BY <3>2, ValueType
    <3> QED
      BY <1>5, <2>3, <3>0, <3>1, <3>2, <3>3 DEF Writes
  <2> QED
    BY <2>2, <2>3
<1>6. CASE c.op = "remove"
  <2>1. PICK b \in Removed(a, c.id) :
          o = [arr |-> b, reply |-> [ok |-> Len(b) # Len(a), recs |-> << >>]]
    BY <1>6 DEF Outcomes
  <2>2. b \in Arrays /\ Ascending(b)
    BY <1>6, RemovedAscending DEF CallTypes
  <2>3. o.reply \in Replies
    BY <2>1 DEF Replies, Arrays
  <2> QED
    BY <1>6, <2>1, <2>2, <2>3 DEF Writes
<1>7. CASE c.op = "save_all"
  <2>1. o = [arr |-> c.arr, reply |-> [ok |-> TRUE, recs |-> << >>]]
    BY <1>7 DEF Outcomes
  <2>2. c.arr \in Arrays /\ Ascending(c.arr)
    BY <1>7 DEF CallTypes
  <2>3. o.reply \in Replies
    BY <2>1 DEF Replies, Arrays
  <2> QED
    BY <1>7, <2>1, <2>2, <2>3 DEF Writes
<1> QED
  BY <1>1, <1>2, <1>3, <1>4, <1>5, <1>6, <1>7 DEF CallTypes

\* What the handlers of the server rely on: an insert adds one record, behind the others.
LEMMA InsertOutcome ==
  ASSUME NEW a \in Arrays, Ascending(a), NEW body \in Bodies,
         NEW o \in Outcomes(a, [op |-> "insert", body |-> body])
  PROVE  /\ o.arr \in Arrays
         /\ Ascending(o.arr)
         /\ Len(o.arr) = Len(a) + 1
         /\ \E r \in Records : r.doc = body.doc /\ o.arr = Append(a, r)
<1>1. o.arr = Inserted(a, body)
  BY DEF Outcomes
<1>2. PICK r \in Records : r.doc = body.doc /\ Inserted(a, body) = Append(a, r)
  BY InsertedAppends
<1>3. Len(Append(a, r)) = Len(a) + 1
  BY DEF Arrays
<1> QED
  BY <1>1, <1>2, <1>3, InsertedAscending

\* An update neither adds nor drops a record, whether it finds its id or not.
LEMMA UpdateOutcome ==
  ASSUME NEW a \in Arrays, Ascending(a), NEW id \in Int, NEW patch \in Bodies \cup {NotObject},
         NEW o \in Outcomes(a, [op |-> "update", id |-> id, patch |-> patch])
  PROVE  /\ o.arr \in Arrays
         /\ Ascending(o.arr)
         /\ Len(o.arr) = Len(a)
<1>1. CASE Positions(a, id) = {}
  <2>1. o.arr = a
    BY <1>1 DEF Outcomes
  <2> QED
    BY <2>1
<1>2. CASE Positions(a, id) # {}
  <2>1. patch # NotObject /\ o.arr = Updated(a, id, patch)
    BY <1>2 DEF Outcomes
  <2> QED
    BY <1>2, <2>1, UpdatedAscending
<1> QED
  BY <1>1, <1>2

\* A remove that answers true has taken one record out, any other none.
LEMMA RemoveOutcome ==
  ASSUME NEW a \in Arrays, Ascending(a), NEW id \in Int,
         NEW o \in Outcomes(a, [op |-> "remove", id |-> id])
  PROVE  /\ o.arr \in Arrays
         /\ Ascending(o.arr)
         /\ Len(o.arr) = IF o.reply.ok THEN Len(a) - 1 ELSE Len(a)
<1>1. PICK b \in Removed(a, id) :
        o = [arr |-> b, reply |-> [ok |-> Len(b) # Len(a), recs |-> << >>]]
  BY DEF Outcomes
<1>2. b \in Arrays /\ Ascending(b)
  BY RemovedAscending
<1>3. Len(b) = Len(a) \/ Len(b) = Len(a) - 1
  BY RemovedLength
<1> QED
  BY <1>1, <1>2, <1>3
=============================================================================
