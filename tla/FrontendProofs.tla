--------------------------- MODULE FrontendProofs ---------------------------
(***************************************************************************)
(* The safety invariants of Frontend, for any number of tabs, calls under  *)
(* way and clicks.  IInv types the state and the calls (Typed), ties every *)
(* row a page shows or sends to the table (RowsNamed), and says per page   *)
(* what a dashboard that is not yet right still waits for (Guarded, Owns). *)
(***************************************************************************)
EXTENDS Frontend, JsonArrayProofs

Calls == [Slots -> CallRecords \cup {NoCall}]

\* The requests to make an item that have not reached the server: each of them
\* will take a number of its own.
Creating(cs) == {s \in Slots : cs[s] # NoCall /\ cs[s].op = "create" /\ cs[s].answer = NoAnswer}

\* What a call brings along: the item and the title it is about; a page that awaits
\* an answer that has come; the table of an answer in its order.
WellFormed(c) ==
  /\ c.op \in {"create", "update"} => c.title \in Titles
  /\ c.op \in {"update", "remove"} => c.row \in Records
  /\ c.op = "timer" => c.answer # NoAnswer
  /\ c.answer # NoAnswer => c.page \in Pages /\ Ascending(c.answer.list)

Asked(cs) == \A s \in Slots : cs[s] # NoCall => WellFormed(cs[s])

Born(a) == \A i \in DOMAIN a : "birth" \in DOMAIN a[i].doc

\* Items are told apart by their number, and there are numbers for those to come.
Numbered ==
  /\ Born(items)
  /\ births + Cardinality(Creating(calls)) <= Len(InitialItems) + clicks

Typed == TypeOK /\ Ascending(items) /\ Asked(calls) /\ Numbered

\* A row that has been drawn names the item it showed, or its id is freed; so it has
\* never an id that is still to be handed out for the first time.
Named(row) ==
  \/ row.id \in freed
  \/ /\ row.id <= Top(items)
     /\ \A i \in DOMAIN items : items[i].id = row.id => items[i].doc.birth = row.doc.birth

\* Wherever a row is: on a page, in a call, in an answer under way.
RowsIn(c) ==
  ({c.row} \ {NoRow}) \cup
  (IF c.answer = NoAnswer THEN {} ELSE {c.answer.list[i] : i \in DOMAIN c.answer.list})

RowsNamed ==
  /\ \A p \in Pages : \A i \in DOMAIN rows[p] : Named(rows[p][i])
  /\ \A s \in Slots : calls[s] # NoCall => \A row \in RowsIn(calls[s]) : Named(row)

\* The calls of a page, by what they ask for.
Awaits(cs, p, ops) == {s \in Slots : cs[s] # NoCall /\ cs[s].page = p /\ cs[s].op \in ops}
Arrived(cs, p, ops) == {s \in Awaits(cs, p, ops) : cs[s].answer # NoAnswer}
Changing == {"create", "update", "remove"}

\* A dashboard that has found no session is still asking.
Guarded(p) ==
  at[p] = "index" /\ "lost" \notin trouble[p] => signed[p] \/ Awaits(calls, p, {"session"}) # {}

\* A dashboard that does not show its own changes will reload, or is loading; and
\* what it draws next shows them, or is drawn over.
Owns(p) ==
  /\ own[p] <= version
  /\ at[p] = "index" /\ trouble[p] = {} =>
       \/ Arrived(calls, p, Changing) # {}
       \/ /\ drawn[p] >= own[p] \/ Awaits(calls, p, {"list"}) # {}
          /\ \A s \in Arrived(calls, p, {"list"}) : calls[s].answer.version >= own[p]

PagesRight == \A p \in Pages : Guarded(p) /\ Owns(p)

IInv == Typed /\ RowsNamed /\ PagesRight

-----------------------------------------------------------------------------
(* How the calls under way change when nothing is submitted or served: a call stays,
goes, loses its page or becomes a timer, or a page asks for something. *)
Passes(c, d) ==
  \/ d = c
  \/ c.answer = NoAnswer /\ d = [c EXCEPT !.page = NoPage]
  \/ c.answer # NoAnswer /\ d = [c EXCEPT !.op = "timer"]

New(c) == c.answer = NoAnswer /\ c.row = NoRow /\ c.op \in {"session", "list"}

Evolve(cs, ds) ==
  /\ ds \in Calls
  /\ \A s \in Slots : ds[s] # NoCall => New(ds[s]) \/ (cs[s] # NoCall /\ Passes(cs[s], ds[s]))

\* A page's calls are not touched.
Same(cs, ds, p) ==
  \A s \in Slots :
    (cs[s] # NoCall /\ cs[s].page = p) \/ (ds[s] # NoCall /\ ds[s].page = p) => ds[s] = cs[s]

(* Lemmas on the helpers. *)

\* A set of slots that is not empty has a least element.
LEMMA LeastSlot ==
  ASSUME NEW S \in SUBSET Slots, S # {}
  PROVE  Min(S) \in S
<1>1. S \subseteq Nat
  BY BoundsTyped
<1>2. PICK i \in S : \A j \in S : <<j, i>> \notin OpToRel(<, Nat)
  BY <1>1, NatLessThanWellFounded, WFMin
<1>3. \A j \in S : ~ (j < i)
  BY <1>1, <1>2 DEF OpToRel
<1>4. \A j \in S : i <= j
  BY <1>1, <1>3
<1> QED
  BY <1>4 DEF Min

\* The largest id of a table, and nothing above it.
LEMMA TopOf ==
  ASSUME NEW a \in Arrays, Ascending(a)
  PROVE  /\ Top(a) \in Nat
         /\ \A i \in DOMAIN a : a[i].id <= Top(a)
         /\ NextId(a) > Top(a)
<1> DEFINE S == Ids(a) \cup {0}
<1>1. \A i \in DOMAIN a : a[i].id \in Nat
  BY ElementType
<1>2. S \subseteq Nat
  BY <1>1 DEF Ids
<1>3. NextId(a) \in Nat \ {0} /\ \A i \in DOMAIN a : a[i].id < NextId(a)
  BY NextIdAbove
<1>4. \E m \in S : \A n \in S : m >= n
  <2>1. CASE a = << >>
    <3>1. DOMAIN a = {}
      BY <2>1
    <3> QED
      BY <3>1 DEF Ids
  <2>2. CASE a # << >>
    <3> DEFINE l == Len(a)
    <3>1. l \in DOMAIN a /\ \A i \in DOMAIN a : i <= l /\ i \in Int /\ l \in Int
      BY <2>2 DEF Arrays
    <3>2. \A i \in DOMAIN a : a[l].id >= a[i].id
      BY <3>1, <1>1 DEF Ascending
    <3>3. a[l].id \in S /\ a[l].id >= 0
      BY <3>1, <1>1 DEF Ids
    <3>4. \A n \in S : a[l].id >= n
      BY <3>2, <3>3 DEF Ids
    <3> QED
      BY <3>3, <3>4
  <2> QED
    BY <2>1, <2>2
<1>5. Top(a) \in S /\ \A n \in S : Top(a) >= n
  BY <1>4 DEF Top, Max
<1>6. NextId(a) > Top(a)
  BY <1>3, <1>5 DEF Ids
<1> QED
  BY <1>2, <1>5, <1>6 DEF Ids

LEMMA CallType ==
  ASSUME NEW p \in Pages, NEW op \in Ops, NEW row \in Records \cup {NoRow},
         NEW title \in Titles \cup {NoRow}
  PROVE  /\ Call(p, op, row, title) \in CallRecords
         /\ Call(p, op, row, title) # NoCall
  BY MarkersDistinct DEF Call, CallRecords

\* A call is put into a slot that was free.
LEMMA PutAt ==
  ASSUME NEW cs \in Calls, NEW call \in CallRecords, Free(cs) # {}
  PROVE  \E f \in Slots : /\ cs[f] = NoCall
                         /\ Put(cs, call) = [cs EXCEPT ![f] = call]
                         /\ Put(cs, call) \in Calls
<1> DEFINE f == Min(Free(cs))
<1>1. f \in Free(cs)
  BY LeastSlot DEF Free
<1>2. Put(cs, call) = [cs EXCEPT ![f] = call]
  BY DEF Put
<1> HIDE DEF f
<1> QED
  BY <1>1, <1>2 DEF Free, Calls

LEMMA EvolveKeeps ==
  ASSUME NEW cs \in Calls, Asked(cs), NEW ds, Evolve(cs, ds)
  PROVE  /\ Asked(ds)
         /\ Creating(ds) \subseteq Creating(cs)
         /\ \A s \in Slots : ds[s] # NoCall =>
              \A row \in RowsIn(ds[s]) : cs[s] # NoCall /\ row \in RowsIn(cs[s])
<1>1. ASSUME NEW s \in Slots, ds[s] # NoCall
      PROVE  /\ WellFormed(ds[s])
             /\ s \in Creating(ds) => s \in Creating(cs)
             /\ \A row \in RowsIn(ds[s]) : cs[s] # NoCall /\ row \in RowsIn(cs[s])
  <2>1. CASE New(ds[s])
    BY <2>1 DEF New, WellFormed, Creating, RowsIn
  <2>2. CASE cs[s] # NoCall /\ Passes(cs[s], ds[s])
    <3>1. cs[s] \in CallRecords /\ WellFormed(cs[s])
      BY <2>2 DEF Calls, Asked
    <3>2. CASE ds[s] = cs[s]
      BY <2>2, <3>1, <3>2 DEF Creating
    <3>3. CASE cs[s].answer = NoAnswer /\ ds[s] = [cs[s] EXCEPT !.page = NoPage]
      <4>1. /\ ds[s].op = cs[s].op /\ ds[s].row = cs[s].row
            /\ ds[s].title = cs[s].title /\ ds[s].answer = cs[s].answer
        BY <3>1, <3>3 DEF CallRecords
      <4> QED
        BY <2>2, <3>1, <3>3, <4>1 DEF WellFormed, Creating, RowsIn
    <3>4. CASE cs[s].answer # NoAnswer /\ ds[s] = [cs[s] EXCEPT !.op = "timer"]
      <4>1. /\ ds[s].op = "timer" /\ ds[s].row = cs[s].row
            /\ ds[s].page = cs[s].page /\ ds[s].answer = cs[s].answer
        BY <3>1, <3>4 DEF CallRecords
      <4> QED
        BY <2>2, <3>1, <3>4, <4>1 DEF WellFormed, Creating, RowsIn
    <3> QED
      BY <2>2, <3>2, <3>3, <3>4 DEF Passes
  <2> QED
    BY <1>1, <2>1, <2>2 DEF Evolve
<1>2. Creating(ds) \subseteq Creating(cs)
  BY <1>1 DEF Creating
<1> QED
  BY <1>1, <1>2 DEF Asked

\* What has been dropped, evolved.
LEMMA DropEvolves ==
  ASSUME calls \in Calls, NEW s \in Slots
  PROVE  /\ Drop(s) \in Calls /\ Drop(s)[s] = NoCall
         /\ \A t \in Slots \ {s} : Drop(s)[t] = calls[t]
         /\ Evolve(calls, Drop(s))
         /\ \A ds : Evolve(Drop(s), ds) => Evolve(calls, ds)
<1>1. Drop(s) \in Calls /\ Drop(s)[s] = NoCall /\ \A t \in Slots \ {s} : Drop(s)[t] = calls[t]
  BY DEF Drop, Calls
<1> QED
  BY <1>1 DEF Evolve, Passes

\* fetchItems: one list call more.
LEMMA LoadCalls ==
  ASSUME NEW cs \in Calls, NEW p \in Pages, Free(cs) # {}, Load(cs, p)
  PROVE  /\ Evolve(cs, calls')
         /\ \A q \in Pages \ {p} : Same(cs, calls', q)
         /\ Awaits(calls', p, {"list"}) # {}
         /\ \A ops : Arrived(calls', p, ops) = Arrived(cs, p, ops)
         /\ \A s \in Slots : cs[s] # NoCall => calls'[s] = cs[s]
<1> DEFINE c == Call(p, "list", NoRow, NoRow)
<1>1. c \in CallRecords /\ c # NoCall
  BY CallType DEF Ops
<1>2. c.page = p /\ c.op = "list" /\ c.answer = NoAnswer /\ c.row = NoRow
  BY DEF Call
<1>3. calls' = Put(cs, c)
  BY DEF Load
<1> HIDE DEF c
<1>4. PICK f \in Slots : cs[f] = NoCall /\ calls' = [cs EXCEPT ![f] = c] /\ calls' \in Calls
  BY <1>1, <1>3, PutAt
<1>5. calls'[f] = c /\ \A s \in Slots \ {f} : calls'[s] = cs[s]
  BY <1>4 DEF Calls
<1>6. Evolve(cs, calls')
  BY <1>2, <1>4, <1>5 DEF Evolve, New, Passes
<1>7. \A q \in Pages \ {p} : Same(cs, calls', q)
  BY <1>2, <1>4, <1>5 DEF Same
<1>8. f \in Awaits(calls', p, {"list"})
  BY <1>1, <1>2, <1>5 DEF Awaits
<1>9. \A ops : Arrived(calls', p, ops) = Arrived(cs, p, ops)
  BY <1>2, <1>4, <1>5 DEF Arrived, Awaits
<1> QED
  BY <1>4, <1>5, <1>6, <1>7, <1>8, <1>9

\* Navigate: nobody awaits the calls of the page that is left; index.html begins
\* with two calls of its own.
LEMMA NavigateCalls ==
  ASSUME NEW cs \in Calls, NEW p \in Pages, NEW document, Navigate(cs, p, document)
  PROVE  /\ Evolve(cs, calls')
         /\ \A q \in Pages \ {p} : Same(cs, calls', q)
         /\ \A ops : Arrived(calls', p, ops) = {}
         /\ document = "index" =>
              Awaits(calls', p, {"session"}) # {} /\ Awaits(calls', p, {"list"}) # {}
<1> DEFINE left == [s \in Slots |->
             IF s \notin Under(cs, p) THEN cs[s]
             ELSE IF cs[s].answer = NoAnswer THEN [cs[s] EXCEPT !.page = NoPage] ELSE NoCall]
           c == Call(p, "session", NoRow, NoRow)
           d == Call(p, "list", NoRow, NoRow)
           guarded == Put(left, c)
<1>1. IF document # "index" THEN calls' = left
      ELSE Cardinality(Free(left)) >= 2 /\ calls' = Put(guarded, d)
  BY DEF Navigate
<1>2. /\ c \in CallRecords /\ c # NoCall /\ c.page = p /\ c.op = "session" /\ New(c)
      /\ d \in CallRecords /\ d # NoCall /\ d.page = p /\ d.op = "list" /\ New(d)
  <2>1. c \in CallRecords /\ c # NoCall /\ d \in CallRecords /\ d # NoCall
    BY CallType DEF Ops
  <2> QED
    BY <2>1 DEF Call, New
<1>3. ASSUME NEW s \in Slots
      PROVE  /\ left[s] \in CallRecords \cup {NoCall}
             /\ left[s] # NoCall => cs[s] # NoCall /\ Passes(cs[s], left[s]) /\ left[s].page # p
             /\ \A q \in Pages \ {p} :
                  (cs[s] # NoCall /\ cs[s].page = q) \/ (left[s] # NoCall /\ left[s].page = q)
                    => left[s] = cs[s]
  <2>1. CASE s \notin Under(cs, p)
    BY <2>1 DEF Under, Passes, Calls
  <2>2. CASE s \in Under(cs, p) /\ cs[s].answer # NoAnswer
    BY <2>2 DEF Under
  <2>3. CASE s \in Under(cs, p) /\ cs[s].answer = NoAnswer
    <3>1. cs[s] \in CallRecords /\ cs[s].page = p /\ cs[s] # NoCall
      BY <2>3 DEF Under, Calls
    <3>2. left[s] = [cs[s] EXCEPT !.page = NoPage]
      BY <2>3
    <3>3. left[s].page = NoPage /\ left[s] \in CallRecords
      BY <3>1, <3>2 DEF CallRecords
    <3> QED
      BY <2>3, <3>1, <3>2, <3>3, MarkersDistinct DEF Passes
  <2> QED
    BY <2>1, <2>2, <2>3
<1>4. left \in Calls
  BY <1>3 DEF Calls
<1> HIDE DEF left, c, d
<1>5. CASE document # "index"
  <2>1. calls' = left
    BY <1>1, <1>5
  <2> QED
    BY <1>3, <1>4, <1>5, <2>1 DEF Evolve, Same, Arrived, Awaits
<1>6. CASE document = "index"
  <2>1. IsFiniteSet(Free(left)) /\ Cardinality(Free(left)) >= 2
    BY <1>1, <1>6, FS_Subset, BoundsTyped DEF Free
  <2>2. Free(left) # {}
    BY <2>1, FS_EmptySet
  <2>3. PICK f \in Slots : /\ left[f] = NoCall
                           /\ guarded = [left EXCEPT ![f] = c]
                           /\ guarded \in Calls
    BY <1>2, <1>4, <2>2, PutAt
  <2> HIDE DEF guarded
  <2>4. Free(guarded) # {}
    <3>1. Free(guarded) = Free(left) \ {f}
      BY <1>2, <1>4, <2>3 DEF Free, Calls
    <3>2. Cardinality(Free(left) \ {f}) = Cardinality(Free(left)) - 1
      BY <2>1, <2>3, FS_RemoveElement DEF Free
    <3>3. Cardinality(Free(left)) \in Nat
      BY <2>1, FS_CardinalityType
    <3>4. Cardinality(Free(guarded)) # 0
      BY <2>1, <3>1, <3>2, <3>3
    <3> QED
      BY <3>4, FS_EmptySet
  <2>5. PICK g \in Slots : /\ guarded[g] = NoCall
                           /\ Put(guarded, d) = [guarded EXCEPT ![g] = d]
                           /\ Put(guarded, d) \in Calls
    BY <1>2, <2>3, <2>4, PutAt
  <2>6. calls' \in Calls /\ calls'[f] = c /\ calls'[g] = d
        /\ \A s \in Slots \ {f, g} : calls'[s] = left[s]
    BY <1>1, <1>2, <1>4, <1>6, <2>3, <2>5 DEF Calls
  <2>7. left[f] = NoCall /\ left[g] = NoCall
    BY <1>2, <1>4, <2>3, <2>5 DEF Calls
  <2>8. Evolve(cs, calls')
    BY <1>2, <1>3, <2>6 DEF Evolve
  <2>9. \A q \in Pages \ {p} : Same(cs, calls', q)
    <3> SUFFICES ASSUME NEW q \in Pages \ {p}, NEW s \in Slots,
                        \/ cs[s] # NoCall /\ cs[s].page = q
                        \/ calls'[s] # NoCall /\ calls'[s].page = q
                 PROVE  calls'[s] = cs[s]
      BY DEF Same
    <3>1. CASE s \in {f, g}
      BY <1>2, <1>3, <2>6, <2>7, <3>1
    <3>2. CASE s \notin {f, g}
      BY <1>3, <2>6, <3>2
    <3> QED
      BY <3>1, <3>2
  <2>10. \A ops : Arrived(calls', p, ops) = {}
    BY <1>2, <1>3, <2>6 DEF Arrived, Awaits, New
  <2>11. f \in Awaits(calls', p, {"session"}) /\ g \in Awaits(calls', p, {"list"})
    BY <1>2, <2>6 DEF Awaits
  <2> QED
    BY <2>8, <2>9, <2>10, <2>11
<1> QED
  BY <1>5, <1>6

-----------------------------------------------------------------------------
(* What a change makes of a table: a record of the new one is an item of the old one
under its id, or has an id above all of the old ones. *)
Descends(a, b) ==
  \A k \in DOMAIN b :
    /\ "birth" \in DOMAIN b[k].doc
    /\ \/ b[k].id > Top(a)
       \/ \E j \in DOMAIN a : a[j].id = b[k].id /\ a[j].doc.birth = b[k].doc.birth

LEMMA InsertDescends ==
  ASSUME NEW a \in Arrays, Ascending(a), Born(a), NEW title, NEW n,
         [title |-> title, birth |-> n] \in Docs,
         NEW o \in Outcomes(a, [op |-> "insert", body |->
                    [id |-> NoId, doc |-> [title |-> title, birth |-> n]]])
  PROVE  o.arr \in Arrays /\ Ascending(o.arr) /\ Descends(a, o.arr)
<1> DEFINE body == [id |-> NoId, doc |-> [title |-> title, birth |-> n]]
           r == [id |-> NextId(a), doc |-> body.doc]
<1>1. body \in Bodies
  BY DEF Bodies
<1>2. o.arr = Inserted(a, body)
  BY DEF Outcomes
<1>3. o.arr \in Arrays /\ Ascending(o.arr)
  BY <1>1, <1>2, InsertedAscending
<1>4. r \in Records /\ r.id > Top(a) /\ "birth" \in DOMAIN r.doc
  BY NextIdAbove, TopOf DEF Records
<1>5. o.arr = Append(a, r)
  BY <1>2 DEF Inserted
<1> HIDE DEF r, body
<1>6. DOMAIN a = 1..Len(a) /\ DOMAIN o.arr = 1..Len(a) + 1 /\ Len(a) \in Nat
  BY <1>4, <1>5 DEF Arrays
<1>7. \A k \in 1..Len(a) : o.arr[k] = a[k]
  BY <1>4, <1>5 DEF Arrays
<1>8. o.arr[Len(a) + 1] = r
  BY <1>4, <1>5 DEF Arrays
<1>9. ASSUME NEW k \in DOMAIN o.arr
      PROVE  /\ "birth" \in DOMAIN o.arr[k].doc
             /\ \/ o.arr[k].id > Top(a)
                \/ \E j \in DOMAIN a : a[j].id = o.arr[k].id /\ a[j].doc.birth = o.arr[k].doc.birth
  <2>1. CASE k = Len(a) + 1
    BY <1>4, <1>8, <2>1
  <2>2. CASE k \in 1..Len(a)
    BY <1>6, <1>7, <2>2 DEF Born
  <2> QED
    BY <1>6, <1>9, <2>1, <2>2
<1> QED
  BY <1>3, <1>9 DEF Descends

LEMMA UpdateDescends ==
  ASSUME NEW a \in Arrays, Ascending(a), Born(a), NEW id \in Int, NEW title,
         [title |-> title] \in Docs,
         NEW o \in Outcomes(a, [op |-> "update", id |-> id, patch |->
                    [id |-> NoId, doc |-> [title |-> title]]])
  PROVE  o.arr \in Arrays /\ Ascending(o.arr) /\ Descends(a, o.arr)
<1> DEFINE patch == [id |-> NoId, doc |-> [title |-> title]]
           i == First(Positions(a, id))
<1>1. patch \in Bodies
  BY DEF Bodies
<1>2. CASE Positions(a, id) = {}
  <2>1. o.arr = a
    BY <1>2 DEF Outcomes
  <2> QED
    BY <2>1 DEF Descends, Born
<1>3. CASE Positions(a, id) # {}
  <2>1. o.arr = Updated(a, id, patch)
    BY <1>3 DEF Outcomes
  <2>2. o.arr \in Arrays /\ Ascending(o.arr)
    BY <1>1, <1>3, <2>1, UpdatedAscending
  <2>3. i \in DOMAIN a
    BY <1>3, FirstIsLeast DEF Positions
  <2>4. o.arr = [a EXCEPT ![i] = Merge(a[i], patch)]
    BY <2>1 DEF Updated
  <2> DEFINE d == Overlay(a[i].doc, [title |-> title])
  <2>5. Merge(a[i], patch).id = a[i].id /\ Merge(a[i], patch).doc = d
    BY DEF Merge
  <2>6. "birth" \in DOMAIN d /\ d.birth = a[i].doc.birth
    <3>1. "birth" \in DOMAIN a[i].doc
      BY <2>3 DEF Born
    <3>2. DOMAIN [title |-> title] = {"title"} /\ "birth" # "title"
      OBVIOUS
    <3>3. "birth" \in DOMAIN d /\ d["birth"] = a[i].doc["birth"]
      BY <3>1, <3>2 DEF Overlay
    <3> QED
      BY <3>3
  <2> HIDE DEF i, d, patch
  <2>7. DOMAIN o.arr = DOMAIN a /\ o.arr[i] = Merge(a[i], patch)
        /\ \A k \in DOMAIN a \ {i} : o.arr[k] = a[k]
    BY <2>3, <2>4 DEF Arrays
  <2>8. Descends(a, o.arr)
    BY <2>3, <2>5, <2>6, <2>7 DEF Descends, Born
  <2> QED
    BY <2>2, <2>8
<1> QED
  BY <1>2, <1>3

LEMMA RemoveDescends ==
  ASSUME NEW a \in Arrays, Ascending(a), Born(a), NEW id \in Int,
         NEW o \in Outcomes(a, [op |-> "remove", id |-> id])
  PROVE  o.arr \in Arrays /\ Ascending(o.arr) /\ Descends(a, o.arr)
<1> DEFINE keep == DOMAIN a \ Positions(a, id)
<1>1. o.arr \in Removed(a, id)
  BY DEF Outcomes
<1>2. o.arr \in Arrays /\ Ascending(o.arr)
  BY <1>1, RemovedAscending
<1>3. PICK kept \in Enumerations(keep, Len(a)) : o.arr = [k \in DOMAIN kept |-> a[kept[k]]]
  BY <1>1 DEF Removed
<1>4. PICK n \in 0..Len(a) : kept \in [1..n -> keep]
  BY DEF Enumerations
<1>5. \A k \in DOMAIN o.arr : kept[k] \in DOMAIN a /\ o.arr[k] = a[kept[k]]
  BY <1>3, <1>4
<1> QED
  BY <1>2, <1>5 DEF Descends, Born

\* A row that named its item before the change names it after, or its id is freed.
LEMMA NamedAfterChange ==
  ASSUME NEW row \in Records, Named(row), items \in Arrays, Ascending(items),
         items' \in Arrays, Ascending(items'), Descends(items, items'),
         freed' = freed \cup (Top(items') + 1..Top(items))
  PROVE  Named(row)'
<1>1. Top(items) \in Nat /\ Top(items') \in Nat /\ row.id \in Nat
  BY TopOf DEF Records
<1>2. CASE row.id \in freed
  BY <1>2 DEF Named
<1>3. CASE row.id <= Top(items) /\ row.id > Top(items')
  BY <1>1, <1>3 DEF Named
<1>4. CASE /\ row.id <= Top(items) /\ row.id <= Top(items')
           /\ \A i \in DOMAIN items : items[i].id = row.id => items[i].doc.birth = row.doc.birth
  <2>1. ASSUME NEW k \in DOMAIN items', items'[k].id = row.id
        PROVE  items'[k].doc.birth = row.doc.birth
    <3>1. \E j \in DOMAIN items : items[j].id = items'[k].id /\ items[j].doc.birth = items'[k].doc.birth
      BY <1>1, <1>4, <2>1 DEF Descends
    <3> QED
      BY <1>4, <2>1, <3>1
  <2> QED
    BY <1>4, <2>1 DEF Named
<1> QED
  BY <1>1, <1>2, <1>3, <1>4 DEF Named

-----------------------------------------------------------------------------
(* The invariant. *)

\* Fewer requests to come leave enough numbers.
LEMMA NumberedKept ==
  ASSUME Numbered, births \in Nat, clicks \in Nat, NEW S, S \subseteq Creating(calls)
  PROVE  /\ births + Cardinality(S) <= Len(InitialItems) + clicks
         /\ IsFiniteSet(S) /\ IsFiniteSet(Creating(calls))
         /\ Cardinality(S) \in Nat /\ Cardinality(Creating(calls)) \in Nat
<1>1. IsFiniteSet(Creating(calls))
  BY BoundsTyped, FS_Subset DEF Creating
<1>2. IsFiniteSet(S) /\ Cardinality(S) <= Cardinality(Creating(calls))
  BY <1>1, FS_Subset
<1>3. Cardinality(S) \in Nat /\ Cardinality(Creating(calls)) \in Nat
  BY <1>1, <1>2, FS_CardinalityType
<1>4. Len(InitialItems) \in Nat
  BY InitialTyped DEF Arrays
<1> QED
  BY <1>1, <1>2, <1>3, <1>4 DEF Numbered

\* Nothing is submitted or served: what is said of calls stays.
LEMMA QuietCalls ==
  ASSUME IInv, items' = items, births' = births, freed' = freed,
         clicks' \in {clicks, clicks + 1}, Evolve(calls, calls')
  PROVE  /\ calls' \in Calls /\ Asked(calls)' /\ Numbered'
         /\ \A s \in Slots : calls'[s] # NoCall => \A row \in RowsIn(calls'[s]) : Named(row)'
         /\ \A row : Named(row)' <=> Named(row)
<1>1. calls \in Calls /\ Asked(calls)
  BY DEF IInv, Typed, TypeOK, Calls
<1>2. calls' \in Calls
  BY DEF Evolve
<1>3. /\ Asked(calls') /\ Creating(calls') \subseteq Creating(calls)
      /\ \A s \in Slots : calls'[s] # NoCall =>
           \A row \in RowsIn(calls'[s]) : calls[s] # NoCall /\ row \in RowsIn(calls[s])
  BY <1>1, EvolveKeeps
<1>4. Asked(calls)'
  BY <1>3 DEF Asked
<1>5. \A row : Named(row)' <=> Named(row)
  BY DEF Named
<1>6. Numbered'
  <2>1. births \in Nat /\ clicks \in Nat
    BY BoundsTyped DEF IInv, Typed, TypeOK
  <2>2. births + Cardinality(Creating(calls')) <= Len(InitialItems) + clicks
        /\ Cardinality(Creating(calls')) \in Nat
    BY <1>3, <2>1, NumberedKept DEF IInv, Typed
  <2>3. Len(InitialItems) \in Nat
    BY InitialTyped DEF Arrays
  <2>4. births' + Cardinality(Creating(calls')) <= Len(InitialItems) + clicks'
    BY <2>1, <2>2, <2>3
  <2>5. Born(items)'
    BY DEF IInv, Typed, Numbered, Born
  <2> QED
    BY <2>4, <2>5 DEF Numbered, Creating
<1>7. \A s \in Slots : calls'[s] # NoCall => \A row \in RowsIn(calls'[s]) : Named(row)'
  BY <1>3, <1>5 DEF IInv, RowsNamed
<1> QED
  BY <1>2, <1>4, <1>5, <1>6, <1>7

\* A page whose calls and variables stay.
LEMMA PageKept ==
  ASSUME NEW p \in Pages, Guarded(p), Owns(p), Same(calls, calls', p),
         at'[p] = at[p], signed'[p] = signed[p], trouble'[p] = trouble[p],
         own'[p] = own[p], drawn'[p] = drawn[p], own[p] \in Nat,
         version \in Nat, version' \in {version, version + 1}
  PROVE  Guarded(p)' /\ Owns(p)'
<1>1. \A ops : /\ Awaits(calls', p, ops) = Awaits(calls, p, ops)
               /\ Arrived(calls', p, ops) = Arrived(calls, p, ops)
               /\ \A s \in Arrived(calls, p, ops) : calls'[s] = calls[s]
  BY DEF Same, Awaits, Arrived
<1>2. Guarded(p)'
  BY <1>1 DEF Guarded
<1>3. own'[p] <= version'
  BY DEF Owns
<1>4. at[p] = "index" /\ trouble[p] = {} =>
       \/ Arrived(calls', p, Changing) # {}
       \/ /\ drawn[p] >= own[p] \/ Awaits(calls', p, {"list"}) # {}
          /\ \A s \in Arrived(calls', p, {"list"}) : calls'[s].answer.version >= own[p]
  BY <1>1 DEF Owns
<1> QED
  BY <1>2, <1>3, <1>4 DEF Owns, Changing

LEMMA SameThrough ==
  ASSUME NEW cs, NEW ds, NEW es, NEW p, Same(cs, ds, p), Same(ds, es, p)
  PROVE  Same(cs, es, p)
  BY DEF Same

\* Dropping a call touches its page only.
LEMMA DropSame ==
  ASSUME calls \in Calls, NEW s \in Slots, NEW p, ~ (calls[s] # NoCall /\ calls[s].page = p)
  PROVE  Same(calls, Drop(s), p)
  BY DropEvolves DEF Same

\* What a click or the landing of an answer does to a page p first: nothing, or it
\* takes one of p's calls out.
From(cs, p) ==
  cs = calls \/ \E s \in Slots : cs = Drop(s) /\ calls[s] # NoCall /\ calls[s].page = p

LEMMA FromCalls ==
  ASSUME calls \in Calls, NEW p \in Pages, NEW cs, From(cs, p)
  PROVE  /\ cs \in Calls
         /\ \A ds : Evolve(cs, ds) => Evolve(calls, ds)
         /\ \A q \in Pages \ {p} : Same(calls, cs, q)
         /\ \A ops, s : s \in Arrived(cs, p, ops) => s \in Arrived(calls, p, ops) /\ cs[s] = calls[s]
<1>1. CASE cs = calls
  BY <1>1 DEF Same
<1>2. ASSUME NEW s \in Slots, cs = Drop(s), calls[s] # NoCall, calls[s].page = p
      PROVE  /\ cs \in Calls
             /\ \A ds : Evolve(cs, ds) => Evolve(calls, ds)
             /\ \A q \in Pages \ {p} : Same(calls, cs, q)
             /\ \A ops, t : t \in Arrived(cs, p, ops) => t \in Arrived(calls, p, ops) /\ cs[t] = calls[t]
  <2>1. cs \in Calls /\ \A ds : Evolve(cs, ds) => Evolve(calls, ds)
    BY <1>2, DropEvolves
  <2>2. \A q \in Pages \ {p} : Same(calls, cs, q)
    BY <1>2, DropSame
  <2>3. cs[s] = NoCall /\ \A t \in Slots \ {s} : cs[t] = calls[t]
    BY <1>2, DropEvolves
  <2> QED
    BY <2>1, <2>2, <2>3 DEF Arrived, Awaits
<1> QED
  BY <1>1, <1>2 DEF From

\* No item yet, no row yet.
LEMMA EmptyTable == << >> \in Arrays /\ Ascending(<< >>) /\ DOMAIN << >> = {}
  BY DEF Arrays, Ascending

\* A document is opened.
LEMMA NavigateInv ==
  ASSUME IInv, NEW p \in Pages, NEW document \in Documents, NEW cs, From(cs, p),
         Navigate(cs, p, document), UNCHANGED serverVars,
         clicks' \in 0..MaxClicks, clicks' \in {clicks, clicks + 1}
  PROVE  IInv'
<1>1. TypeOK /\ Typed /\ RowsNamed /\ PagesRight /\ calls \in Calls
  BY DEF IInv, Typed, TypeOK, Calls
<1>2. /\ cs \in Calls /\ Evolve(calls, calls')
      /\ \A q \in Pages \ {p} : Same(calls, calls', q)
      /\ \A ops : Arrived(calls', p, ops) = {}
      /\ document = "index" =>
           Awaits(calls', p, {"session"}) # {} /\ Awaits(calls', p, {"list"}) # {}
  <2>1. cs \in Calls /\ (\A ds : Evolve(cs, ds) => Evolve(calls, ds))
        /\ \A q \in Pages \ {p} : Same(calls, cs, q)
    BY <1>1, FromCalls
  <2>2. Evolve(cs, calls') /\ \A q \in Pages \ {p} : Same(cs, calls', q)
    BY <2>1, NavigateCalls
  <2>3. /\ \A ops : Arrived(calls', p, ops) = {}
        /\ document = "index" =>
             Awaits(calls', p, {"session"}) # {} /\ Awaits(calls', p, {"list"}) # {}
    BY <2>1, NavigateCalls
  <2> QED
    BY <2>1, <2>2, <2>3, SameThrough
<1>3. /\ items' = items /\ session' = session /\ births' = births
      /\ version' = version /\ own' = own /\ freed' = freed
  BY DEF serverVars
<1>4. /\ at' = [at EXCEPT ![p] = document]
      /\ signed' = [signed EXCEPT ![p] = FALSE]
      /\ rows' = [rows EXCEPT ![p] = << >>]
      /\ editing' = [editing EXCEPT ![p] = {}]
      /\ drawn' = [drawn EXCEPT ![p] = 0]
      /\ trouble' = [trouble EXCEPT ![p] = {}]
  BY DEF Navigate
<1>5. /\ calls' \in Calls /\ Asked(calls)' /\ Numbered'
      /\ \A s \in Slots : calls'[s] # NoCall => \A row \in RowsIn(calls'[s]) : Named(row)'
      /\ \A row : Named(row)' <=> Named(row)
  BY <1>2, <1>3, QuietCalls
<1>6. TypeOK'
  BY <1>1, <1>3, <1>4, <1>5, EmptyTable DEF TypeOK, Calls
<1>7. Typed'
  BY <1>1, <1>3, <1>5, <1>6 DEF Typed, Ascending
<1>8. RowsNamed'
  BY <1>1, <1>4, <1>5, EmptyTable DEF RowsNamed, TypeOK
<1>9. ASSUME NEW q \in Pages
      PROVE  Guarded(q)' /\ Owns(q)'
  <2>1. CASE q = p
    BY <1>1, <1>2, <1>3, <1>4, <2>1 DEF Guarded, Owns, PagesRight, TypeOK
  <2>2. CASE q # p
    <3>1. Guarded(q) /\ Owns(q) /\ own[q] \in Nat /\ version \in Nat
      BY <1>1 DEF PagesRight, TypeOK
    <3>2. /\ at'[q] = at[q] /\ signed'[q] = signed[q] /\ trouble'[q] = trouble[q]
          /\ own'[q] = own[q] /\ drawn'[q] = drawn[q]
      BY <1>1, <1>3, <1>4, <2>2 DEF TypeOK
    <3> QED
      BY <1>2, <1>3, <2>2, <3>1, <3>2, PageKept
  <2> QED
    BY <2>1, <2>2
<1> QED
  BY <1>7, <1>8, <1>9 DEF IInv, PagesRight

\* A page loads its items anew.
LEMMA LoadInv ==
  ASSUME IInv, NEW p \in Pages, NEW cs, From(cs, p), Free(cs) # {}, Load(cs, p),
         Awaits(calls, p, {"session"}) \subseteq Awaits(cs, p, {"session"}),
         UNCHANGED <<serverVars, at, signed, rows, editing, drawn>>,
         clicks' \in 0..MaxClicks, clicks' \in {clicks, clicks + 1}
  PROVE  IInv'
<1>1. TypeOK /\ Typed /\ RowsNamed /\ PagesRight /\ calls \in Calls
  BY DEF IInv, Typed, TypeOK, Calls
<1>2. /\ cs \in Calls /\ (\A ds : Evolve(cs, ds) => Evolve(calls, ds))
      /\ \A q \in Pages \ {p} : Same(calls, cs, q)
  BY <1>1, FromCalls
<1>3. /\ Evolve(cs, calls') /\ (\A q \in Pages \ {p} : Same(cs, calls', q))
      /\ Awaits(calls', p, {"list"}) # {}
      /\ \A ops : Arrived(calls', p, ops) = Arrived(cs, p, ops)
      /\ \A s \in Slots : cs[s] # NoCall => calls'[s] = cs[s]
  BY <1>2, LoadCalls
<1>4. Evolve(calls, calls') /\ \A q \in Pages \ {p} : Same(calls, calls', q)
  BY <1>2, <1>3, SameThrough
<1>5. trouble' = [trouble EXCEPT ![p] =
        IF \E s \in Under(cs, p) : cs[s].op = "list" THEN @ \cup {"overlapping"} ELSE @]
  BY DEF Load
<1>6. /\ items' = items /\ session' = session /\ births' = births
      /\ version' = version /\ own' = own /\ freed' = freed
      /\ at' = at /\ signed' = signed /\ rows' = rows /\ editing' = editing /\ drawn' = drawn
  BY DEF serverVars
<1>7. /\ calls' \in Calls /\ Asked(calls)' /\ Numbered'
      /\ \A s \in Slots : calls'[s] # NoCall => \A row \in RowsIn(calls'[s]) : Named(row)'
      /\ \A row : Named(row)' <=> Named(row)
  BY <1>4, <1>6, QuietCalls
<1>8. TypeOK'
  <2>1. trouble' \in [Pages -> SUBSET {"lost", "overlapping"}]
    BY <1>1, <1>5 DEF TypeOK
  <2> QED
    BY <1>1, <1>6, <1>7, <2>1 DEF TypeOK, Calls
<1>9. Typed'
  BY <1>1, <1>6, <1>7, <1>8 DEF Typed, Ascending
<1>10. RowsNamed'
  BY <1>1, <1>6, <1>7 DEF RowsNamed
<1>11. ASSUME NEW q \in Pages
       PROVE  Guarded(q)' /\ Owns(q)'
  <2>1. Guarded(q) /\ Owns(q) /\ own[q] \in Nat /\ version \in Nat
    BY <1>1 DEF PagesRight, TypeOK
  <2>2. CASE q = p
    <3>1. Awaits(calls', p, {"session"}) = {} => Awaits(calls, p, {"session"}) = {}
      BY <1>3 DEF Awaits
    <3>2. Guarded(q)'
      BY <1>1, <1>5, <1>6, <2>1, <2>2, <3>1 DEF Guarded, TypeOK
    <3>3. ASSUME trouble'[p] = {}
          PROVE  Arrived(calls', p, {"list"}) = {}
      <4>1. \A s \in Under(cs, p) : cs[s].op # "list"
        BY <1>1, <1>5, <3>3 DEF TypeOK
      <4>2. Arrived(cs, p, {"list"}) = {}
        BY <4>1 DEF Arrived, Awaits, Under
      <4> QED
        BY <1>3, <4>2
    <3>4. Owns(q)'
      BY <1>3, <1>6, <2>1, <2>2, <3>3 DEF Owns
    <3> QED
      BY <3>2, <3>4
  <2>3. CASE q # p
    <3>1. trouble'[q] = trouble[q]
      BY <1>1, <1>5, <2>3 DEF TypeOK
    <3> QED
      BY <1>4, <1>6, <2>1, <2>3, <3>1, PageKept
  <2> QED
    BY <2>2, <2>3
<1> QED
  BY <1>9, <1>10, <1>11 DEF IInv, PagesRight

\* A step of the pages that changes no table and keeps calls as they evolve, except
\* those of the pages in P, where what is said of a page is given.
LEMMA PageStep ==
  ASSUME IInv, NEW P \in SUBSET Pages, Evolve(calls, calls'),
         \A q \in Pages \ P : Same(calls, calls', q),
         UNCHANGED <<items, births, version, own, freed, at>>, TypeOK',
         clicks' \in {clicks, clicks + 1},
         \A q \in Pages \ P : /\ signed'[q] = signed[q] /\ trouble'[q] = trouble[q]
                                /\ drawn'[q] = drawn[q],
         \A q \in Pages : \A i \in DOMAIN rows'[q] : Named(rows'[q][i]),
         \A q \in P : Guarded(q)' /\ Owns(q)'
  PROVE  IInv'
<1>1. TypeOK /\ Typed /\ RowsNamed /\ PagesRight /\ calls \in Calls
  BY DEF IInv, Typed, TypeOK, Calls
<1>2. /\ items' = items /\ births' = births /\ version' = version
      /\ own' = own /\ freed' = freed /\ at' = at
  OBVIOUS
<1>3. /\ calls' \in Calls /\ Asked(calls)' /\ Numbered'
      /\ \A s \in Slots : calls'[s] # NoCall => \A row \in RowsIn(calls'[s]) : Named(row)'
      /\ \A row : Named(row)' <=> Named(row)
  BY <1>2, QuietCalls
<1>4. Typed'
  BY <1>1, <1>2, <1>3 DEF Typed, Ascending
<1>5. RowsNamed'
  BY <1>3 DEF RowsNamed
<1>6. ASSUME NEW q \in Pages, q \notin P
      PROVE  Guarded(q)' /\ Owns(q)'
  <2>1. Guarded(q) /\ Owns(q) /\ own[q] \in Nat /\ version \in Nat
    BY <1>1 DEF PagesRight, TypeOK
  <2> QED
    BY <1>2, <1>6, <2>1, PageKept
<1> QED
  BY <1>4, <1>5, <1>6 DEF IInv, PagesRight

\* A click that sends a request: none of those that Guarded and Owns look for.
LEMMA SubmitInv ==
  ASSUME IInv, NEW p \in Pages, NEW op \in Ops \ {"list", "session", "timer"},
         NEW row \in Records \cup {NoRow}, NEW title \in Titles \cup {NoRow},
         row # NoRow => Named(row),
         op \in {"create", "update"} => title \in Titles,
         op \in {"update", "remove"} => row \in Records,
         Submit(p, op, row, title)
  PROVE  IInv'
<1> DEFINE c == Call(p, op, row, title)
<1>1. TypeOK /\ Typed /\ RowsNamed /\ PagesRight /\ calls \in Calls
  BY DEF IInv, Typed, TypeOK, Calls
<1>2. c \in CallRecords /\ c # NoCall
  BY CallType
<1>3. c.page = p /\ c.op = op /\ c.row = row /\ c.title = title /\ c.answer = NoAnswer
  BY DEF Call
<1>4. /\ items' = items /\ session' = session /\ births' = births
      /\ version' = version /\ own' = own /\ freed' = freed
      /\ at' = at /\ signed' = signed /\ rows' = rows /\ editing' = editing
      /\ drawn' = drawn /\ trouble' = trouble
      /\ clicks \in 0..MaxClicks /\ clicks < MaxClicks /\ clicks' = clicks + 1
      /\ Free(calls) # {} /\ calls' = Put(calls, c)
  BY <1>1 DEF Submit, Click, serverVars, pageVars, TypeOK
<1> HIDE DEF c
<1>5. PICK f \in Slots : calls[f] = NoCall /\ calls' = [calls EXCEPT ![f] = c] /\ calls' \in Calls
  BY <1>1, <1>2, <1>4, PutAt
<1>6. calls'[f] = c /\ \A s \in Slots \ {f} : calls'[s] = calls[s]
  BY <1>1, <1>5 DEF Calls
<1>7. TypeOK'
  <2>1. clicks' \in 0..MaxClicks
    BY <1>4, BoundsTyped
  <2> QED
    BY <1>1, <1>4, <1>5, <2>1 DEF TypeOK, Calls
<1>8. Asked(calls)'
  <2>1. WellFormed(c)
    BY <1>3 DEF WellFormed
  <2> QED
    BY <1>1, <1>6, <2>1 DEF Typed, Asked
<1>9. Numbered'
  <2>1. births \in Nat /\ clicks \in Nat
    BY <1>1, <1>4 DEF TypeOK
  <2>2. Creating(calls') \subseteq Creating(calls) \cup {f}
    BY <1>6 DEF Creating
  <2>3. f \notin Creating(calls)
    BY <1>5 DEF Creating
  <2>4. /\ births + Cardinality(Creating(calls)) <= Len(InitialItems) + clicks
        /\ IsFiniteSet(Creating(calls)) /\ Cardinality(Creating(calls)) \in Nat
    BY <1>1, <2>1, NumberedKept DEF Typed
  <2>5. IsFiniteSet(Creating(calls) \cup {f})
        /\ Cardinality(Creating(calls) \cup {f}) = Cardinality(Creating(calls)) + 1
    BY <2>3, <2>4, FS_AddElement
  <2>6. Cardinality(Creating(calls')) \in Nat
        /\ Cardinality(Creating(calls')) <= Cardinality(Creating(calls)) + 1
    BY <2>2, <2>5, FS_Subset, FS_CardinalityType
  <2>7. Len(InitialItems) \in Nat
    BY InitialTyped DEF Arrays
  <2>8. births' + Cardinality(Creating(calls')) <= Len(InitialItems) + clicks'
    BY <1>4, <2>1, <2>4, <2>6, <2>7
  <2>9. Born(items)'
    BY <1>1, <1>4 DEF Typed, Numbered, Born
  <2> QED
    BY <2>8, <2>9 DEF Numbered, Creating
<1>10. Typed'
  BY <1>1, <1>4, <1>7, <1>8, <1>9 DEF Typed, Ascending
<1>11. RowsNamed'
  <2>1. \A r : Named(r)' <=> Named(r)
    BY <1>4 DEF Named
  <2>2. \A r \in RowsIn(c) : Named(r)
    BY <1>3 DEF RowsIn
  <2>3. \A s \in Slots : calls'[s] # NoCall => \A r \in RowsIn(calls'[s]) : Named(r)'
    BY <1>1, <1>6, <2>1, <2>2 DEF RowsNamed
  <2> QED
    BY <1>1, <1>4, <2>1, <2>3 DEF RowsNamed
<1>12. ASSUME NEW q \in Pages
       PROVE  Guarded(q)' /\ Owns(q)'
  <2>1. Guarded(q) /\ Owns(q)
    BY <1>1 DEF PagesRight
  <2>2. \A s : s \in Awaits(calls, q, {"session"}) => s \in Awaits(calls', q, {"session"})
    BY <1>5, <1>6 DEF Awaits
  <2>3. \A s : s \in Awaits(calls, q, {"list"}) => s \in Awaits(calls', q, {"list"})
    BY <1>5, <1>6 DEF Awaits
  <2>4. \A s : s \in Arrived(calls, q, Changing) => s \in Arrived(calls', q, Changing)
    BY <1>5, <1>6 DEF Arrived, Awaits
  <2>5. \A s : s \in Arrived(calls', q, {"list"}) =>
          s \in Arrived(calls, q, {"list"}) /\ calls'[s] = calls[s]
    BY <1>3, <1>6 DEF Arrived, Awaits
  <2>6. Guarded(q)'
    BY <1>4, <2>1, <2>2 DEF Guarded
  <2>7. own[q] <= version
        /\ (at[q] = "index" /\ trouble[q] = {} =>
              \/ Arrived(calls', q, Changing) # {}
              \/ /\ drawn[q] >= own[q] \/ Awaits(calls', q, {"list"}) # {}
                 /\ \A s \in Arrived(calls', q, {"list"}) : calls'[s].answer.version >= own[q])
    BY <2>1, <2>3, <2>4, <2>5 DEF Owns
  <2>8. Owns(q)'
    BY <1>4, <2>7 DEF Owns, Changing
  <2> QED
    BY <2>6, <2>8
<1> QED
  BY <1>10, <1>11, <1>12 DEF IInv, PagesRight

\* The items name themselves.
LEMMA ItemsNamed ==
  ASSUME items \in Arrays, Ascending(items)
  PROVE  \A i \in DOMAIN items : Named(items[i])
<1>1. \A i, j \in DOMAIN items : items[i].id = items[j].id => i = j
  BY ElementType DEF Ascending, Arrays
<1> QED
  BY <1>1, TopOf DEF Named

\* The server answers a call, or it is nobody's any more.
LEMMA AnsweredCalls ==
  ASSUME TypeOK, Ascending(items), Asked(calls), NEW s \in Slots, Unserved(s),
         NEW ok \in BOOLEAN, Answered(s, ok)
  PROVE  /\ calls' \in Calls /\ Asked(calls)'
         /\ Creating(calls') = Creating(calls) \ {s}
         /\ \A t \in Slots \ {s} : calls'[t] = calls[t]
         /\ calls[s].page \notin Pages => calls'[s] = NoCall
         /\ calls[s].page \in Pages =>
              /\ calls'[s] # NoCall /\ calls'[s].answer # NoAnswer
              /\ calls'[s].page = calls[s].page /\ calls'[s].op = calls[s].op
              /\ calls'[s].row = calls[s].row
              /\ IF calls[s].op = "list"
                 THEN calls'[s].answer.list = items /\ calls'[s].answer.version = version
                 ELSE calls'[s].answer.list = << >>
<1> DEFINE c == calls[s]
           answer == [ok |-> ok, list |-> IF c.op = "list" THEN items ELSE << >>,
                      version |-> IF c.op = "list" THEN version ELSE 0]
           d == [c EXCEPT !.answer = answer]
<1>1. c \in CallRecords /\ c # NoCall /\ c.answer = NoAnswer /\ WellFormed(c)
      /\ c.page \in Pages \cup {NoPage} /\ calls \in Calls
  BY DEF Unserved, TypeOK, Asked, CallRecords, Calls
<1>2. calls' = [calls EXCEPT ![s] = IF c.page = NoPage THEN NoCall ELSE d]
  BY DEF Answered
<1>3. answer \in Answers /\ answer # NoAnswer /\ Ascending(answer.list)
  <2>1. answer \in Answers
    BY EmptyTable DEF Answers, TypeOK
  <2> QED
    BY <2>1, EmptyTable, MarkersDistinct
<1>4. IF c.op = "list" THEN answer.list = items /\ answer.version = version
      ELSE answer.list = << >>
  OBVIOUS
<1> HIDE DEF answer
<1>5. /\ d \in CallRecords /\ d # NoCall
      /\ d.page = c.page /\ d.op = c.op /\ d.row = c.row /\ d.title = c.title
      /\ d.answer = answer
  <2>1. d \in CallRecords
    BY <1>1, <1>3 DEF CallRecords
  <2> QED
    BY <1>1, <2>1, MarkersDistinct DEF CallRecords
<1> HIDE DEF d
<1>6. calls' \in Calls
      /\ calls'[s] = (IF c.page = NoPage THEN NoCall ELSE d)
      /\ \A t \in Slots \ {s} : calls'[t] = calls[t]
  BY <1>1, <1>2, <1>5 DEF Calls
<1> HIDE DEF c
<1>7. c.page \in Pages => WellFormed(d)
  BY <1>1, <1>3, <1>5 DEF WellFormed
<1>8. Asked(calls)'
  BY <1>1, <1>6, <1>7 DEF Asked
<1>9. Creating(calls') = Creating(calls) \ {s}
  BY <1>3, <1>5, <1>6 DEF Creating
<1> QED
  BY <1>1, <1>3, <1>4, <1>5, <1>6, <1>8, <1>9, MarkersDistinct DEF c

\* What a page waits for, when one call has been served: its changes await a reload.
LEMMA ServedPages ==
  ASSUME IInv, NEW s \in Slots, Unserved(s), NEW ok \in BOOLEAN, Answered(s, ok),
         UNCHANGED pageVars, version' \in {version, version + 1},
         \A q \in Pages :
           \/ own'[q] = own[q]
           \/ calls[s].page = q /\ calls[s].op \in Changing /\ own'[q] = version'
  PROVE  PagesRight'
<1>1. TypeOK /\ Typed /\ PagesRight
  BY DEF IInv, Typed
<1>2. /\ at' = at /\ signed' = signed /\ drawn' = drawn /\ trouble' = trouble
  BY DEF pageVars
<1>3. /\ \A t \in Slots \ {s} : calls'[t] = calls[t]
      /\ calls[s].page \notin Pages => calls'[s] = NoCall
      /\ calls[s].page \in Pages =>
           /\ calls'[s] # NoCall /\ calls'[s].answer # NoAnswer
           /\ calls'[s].page = calls[s].page /\ calls'[s].op = calls[s].op
           /\ calls[s].op = "list" => calls'[s].answer.version = version
  BY <1>1, AnsweredCalls DEF Typed
<1>4. calls[s] # NoCall /\ calls[s].answer = NoAnswer
  BY DEF Unserved
<1> SUFFICES ASSUME NEW q \in Pages
             PROVE  Guarded(q)' /\ Owns(q)'
  BY DEF PagesRight
<1>5. Guarded(q) /\ Owns(q) /\ own[q] \in Nat /\ version \in Nat
  BY <1>1 DEF PagesRight, TypeOK
<1>6. CASE calls[s].page # q
  <2>1. Same(calls, calls', q)
    BY <1>3, <1>6 DEF Same
  <2> QED
    BY <1>2, <1>5, <1>6, <2>1, PageKept
<1>7. CASE calls[s].page = q
  <2>1. /\ calls'[s] # NoCall /\ calls'[s].answer # NoAnswer
        /\ calls'[s].page = q /\ calls'[s].op = calls[s].op
        /\ calls[s].op = "list" => calls'[s].answer.version = version
    BY <1>3, <1>7
  <2>2. \A ops : Awaits(calls', q, ops) = Awaits(calls, q, ops)
    BY <1>3, <1>4, <1>7, <2>1 DEF Awaits
  <2>3. Guarded(q)'
    BY <1>2, <1>5, <2>2 DEF Guarded
  <2>4. own'[q] <= version'
    BY <1>5 DEF Owns
  <2>5. CASE calls[s].op \in Changing
    <3>1. s \in Arrived(calls', q, Changing)
      BY <2>1, <2>5 DEF Arrived, Awaits
    <3> QED
      BY <2>3, <2>4, <3>1 DEF Owns, Changing
  <2>6. CASE calls[s].op \notin Changing
    <3>1. own'[q] = own[q]
      BY <2>6
    <3>2. \A t \in Arrived(calls, q, Changing) : t \in Arrived(calls', q, Changing)
      BY <1>3, <1>4 DEF Arrived, Awaits
    <3>3. \A t \in Arrived(calls', q, {"list"}) :
            \/ calls'[t].answer.version >= own[q]
            \/ t \in Arrived(calls, q, {"list"}) /\ calls'[t] = calls[t]
      <4> SUFFICES ASSUME NEW t \in Arrived(calls', q, {"list"})
                   PROVE  \/ calls'[t].answer.version >= own[q]
                          \/ t \in Arrived(calls, q, {"list"}) /\ calls'[t] = calls[t]
        OBVIOUS
      <4>1. CASE t = s
        <5>1. calls[s].op = "list"
          BY <2>1, <4>1 DEF Arrived, Awaits
        <5> QED
          BY <1>5, <2>1, <4>1, <5>1 DEF Owns
      <4>2. CASE t # s
        BY <1>3, <4>2 DEF Arrived, Awaits
      <4> QED
        BY <4>1, <4>2
    <3>4. at[q] = "index" /\ trouble[q] = {} =>
            \/ Arrived(calls', q, Changing) # {}
            \/ /\ drawn[q] >= own[q] \/ Awaits(calls', q, {"list"}) # {}
               /\ \A t \in Arrived(calls', q, {"list"}) : calls'[t].answer.version >= own[q]
      BY <1>5, <2>2, <3>2, <3>3 DEF Owns
    <3>5. Owns(q)'
      BY <1>2, <2>4, <3>1, <3>4 DEF Owns, Changing
    <3> QED
      BY <2>3, <3>5
  <2> QED
    BY <2>5, <2>6
<1> QED
  BY <1>6, <1>7

\* Reading, and what is done to the session.
LEMMA ServeOtherInv ==
  ASSUME IInv, NEW s \in Slots, ServeOther(s)
  PROVE  IInv'
<1>1. TypeOK /\ Typed /\ RowsNamed /\ PagesRight /\ Ascending(items) /\ Asked(calls)
  BY DEF IInv, Typed
<1>2. PICK ok \in BOOLEAN :
        /\ session' = IF calls[s].op = "login" /\ ok THEN TRUE
                      ELSE IF calls[s].op = "logout" THEN FALSE ELSE session
        /\ Answered(s, ok)
  BY DEF ServeOther
<1>3. /\ Unserved(s) /\ items' = items /\ births' = births /\ version' = version
      /\ own' = own /\ freed' = freed /\ clicks' = clicks /\ UNCHANGED pageVars
      /\ at' = at /\ signed' = signed /\ rows' = rows /\ editing' = editing
      /\ drawn' = drawn /\ trouble' = trouble
  BY DEF ServeOther, pageVars
<1>4. /\ calls' \in Calls /\ Asked(calls)'
      /\ Creating(calls') = Creating(calls) \ {s}
      /\ \A t \in Slots \ {s} : calls'[t] = calls[t]
      /\ calls[s].page \notin Pages => calls'[s] = NoCall
      /\ calls[s].page \in Pages =>
           /\ calls'[s].answer # NoAnswer /\ calls'[s].row = calls[s].row
           /\ calls'[s].answer.list \in {items, << >>}
  BY <1>1, <1>2, <1>3, AnsweredCalls
<1>5. session' \in BOOLEAN
  BY <1>1, <1>2 DEF TypeOK
<1>6. TypeOK'
  BY <1>1, <1>3, <1>4, <1>5 DEF TypeOK, Calls
<1>7. Numbered'
  <2>1. births \in Nat /\ clicks \in Nat /\ Numbered
    BY <1>1, BoundsTyped DEF TypeOK, Typed
  <2>2. births + Cardinality(Creating(calls')) <= Len(InitialItems) + clicks
    BY <1>4, <2>1, NumberedKept
  <2> QED
    BY <1>3, <2>1, <2>2 DEF Numbered, Creating, Born
<1>8. Typed'
  BY <1>1, <1>3, <1>4, <1>6, <1>7 DEF Typed, Ascending
<1>9. RowsNamed'
  <2>1. \A row : Named(row)' <=> Named(row)
    BY <1>3 DEF Named
  <2>2. \A i \in DOMAIN items : Named(items[i])
    BY <1>1, ItemsNamed DEF TypeOK
  <2>3. ASSUME NEW t \in Slots, calls'[t] # NoCall, NEW row \in RowsIn(calls'[t])
        PROVE  Named(row)
    <3>1. CASE t # s
      BY <1>1, <1>4, <2>3, <3>1 DEF RowsNamed
    <3>2. CASE t = s
      <4>1. /\ calls'[s].answer # NoAnswer /\ calls'[s].row = calls[s].row
            /\ calls'[s].answer.list \in {items, << >>}
        BY <1>4, <2>3, <3>2
      <4>2. calls[s] # NoCall
        BY <1>3 DEF Unserved
      <4>3. calls[s].row # NoRow => Named(calls[s].row)
        BY <1>1, <4>2 DEF RowsNamed, RowsIn
      <4>4. \A i \in DOMAIN calls'[s].answer.list : Named(calls'[s].answer.list[i])
        BY <2>2, <4>1, EmptyTable
      <4> QED
        BY <2>3, <3>2, <4>1, <4>3, <4>4 DEF RowsIn
    <3> QED
      BY <3>1, <3>2
  <2> QED
    BY <1>1, <1>3, <2>1, <2>3 DEF RowsNamed
<1>10. PagesRight'
  BY <1>2, <1>3, ServedPages
<1> QED
  BY <1>8, <1>9, <1>10 DEF IInv

\* A change: the numbers that are left suffice, and what it leaves descends from what
\* it found.
LEMMA ChangeDescends ==
  ASSUME IInv, NEW s \in Slots, Unserved(s), calls[s].op \in Changing,
         NEW o \in Outcomes(items, Requested(calls[s]))
  PROVE  o.arr \in Arrays /\ Ascending(o.arr) /\ Descends(items, o.arr)
<1> DEFINE c == calls[s]
<1>1. TypeOK /\ Numbered /\ Born(items) /\ items \in Arrays /\ Ascending(items)
  BY DEF IInv, Typed, Numbered, TypeOK
<1>2. c # NoCall /\ c.answer = NoAnswer /\ WellFormed(c)
  BY DEF Unserved, IInv, Typed, Asked
<1>3. CASE c.op = "create"
  <2>1. c.title \in Titles
    BY <1>2, <1>3 DEF WellFormed
  <2>2. births \in Nat /\ clicks \in Nat /\ MaxClicks \in Nat /\ clicks <= MaxClicks
    BY <1>1, BoundsTyped DEF TypeOK
  <2>3. Cardinality(Creating(calls)) \in Nat /\ IsFiniteSet(Creating(calls))
        /\ births + Cardinality(Creating(calls)) <= Len(InitialItems) + clicks
    BY <1>1, <2>2, NumberedKept
  <2>4. s \in Creating(calls)
    BY <1>2, <1>3 DEF Creating
  <2>5. Cardinality(Creating(calls)) # 0
    BY <2>3, <2>4, FS_EmptySet
  <2>6. Len(InitialItems) \in Nat
    BY InitialTyped DEF Arrays
  <2>7. births + 1 \in 1..(Len(InitialItems) + MaxClicks)
    BY <2>2, <2>3, <2>5, <2>6
  <2>8. [title |-> c.title, birth |-> births + 1] \in Docs
    BY <2>1, <2>7, DocsNumbered
  <2>9. Requested(c) = [op |-> "insert", body |->
          [id |-> NoId, doc |-> [title |-> c.title, birth |-> births + 1]]]
    BY <1>3 DEF Requested
  <2> HIDE DEF c
  <2>10. o \in Outcomes(items, Requested(c))
    BY DEF c
  <2> QED
    BY <1>1, <2>8, <2>9, <2>10, InsertDescends
<1>4. CASE c.op = "update"
  <2>1. c.title \in Titles /\ c.row \in Records
    BY <1>2, <1>4 DEF WellFormed
  <2>2. [title |-> c.title] \in Docs /\ c.row.id \in Int
    BY <2>1, DocsNumbered DEF Records
  <2>3. Requested(c) = [op |-> "update", id |-> c.row.id, patch |->
          [id |-> NoId, doc |-> [title |-> c.title]]]
    BY <1>4 DEF Requested
  <2> HIDE DEF c
  <2>4. o \in Outcomes(items, Requested(c))
    BY DEF c
  <2> QED
    BY <1>1, <2>2, <2>3, <2>4, UpdateDescends
<1>5. CASE c.op = "remove"
  <2>1. c.row.id \in Int
    BY <1>2, <1>5 DEF WellFormed, Records
  <2>2. Requested(c) = [op |-> "remove", id |-> c.row.id]
    BY <1>5 DEF Requested
  <2> HIDE DEF c
  <2>3. o \in Outcomes(items, Requested(c))
    BY DEF c
  <2> QED
    BY <1>1, <2>1, <2>2, <2>3, RemoveDescends
<1> QED
  BY <1>3, <1>4, <1>5 DEF Changing

\* The routes that change the table.
LEMMA ServeChangeInv ==
  ASSUME IInv, NEW s \in Slots, ServeChange(s)
  PROVE  IInv'
<1> DEFINE c == calls[s]
<1>1. /\ TypeOK /\ Typed /\ RowsNamed /\ PagesRight /\ Numbered /\ Born(items)
      /\ items \in Arrays /\ Ascending(items) /\ Asked(calls)
      /\ session \in BOOLEAN /\ births \in Nat /\ version \in Nat
      /\ clicks \in 0..MaxClicks /\ clicks \in Nat
  BY BoundsTyped DEF IInv, Typed, TypeOK, Numbered
<1>2. /\ Unserved(s) /\ c.op \in Changing /\ Answered(s, session)
      /\ births' = IF session /\ c.op = "create" THEN births + 1 ELSE births
      /\ session' = session /\ clicks' = clicks /\ UNCHANGED pageVars
      /\ at' = at /\ signed' = signed /\ rows' = rows /\ editing' = editing
      /\ drawn' = drawn /\ trouble' = trouble
  BY DEF ServeChange, Changing, pageVars
<1>3. PICK o \in Outcomes(items, Requested(c)) :
        /\ items' = IF session THEN o.arr ELSE items
        /\ version' = IF session /\ o.arr # items THEN version + 1 ELSE version
        /\ own' = IF session /\ o.arr # items /\ c.page # NoPage
                  THEN [own EXCEPT ![c.page] = version + 1] ELSE own
        /\ freed' = freed \cup (Top(items') + 1..Top(items))
  BY DEF ServeChange, Change
<1>4. o.arr \in Arrays /\ Ascending(o.arr) /\ Descends(items, o.arr)
  BY <1>2, <1>3, ChangeDescends
<1>5. items' \in Arrays /\ Ascending(items') /\ Descends(items, items') /\ Born(items')
  <2>1. Descends(items, items)
    BY <1>1 DEF Descends, Born
  <2>2. items' \in Arrays /\ Ascending(items') /\ Descends(items, items')
    BY <1>1, <1>3, <1>4, <2>1
  <2> QED
    BY <2>2 DEF Descends, Born
<1>6. /\ calls' \in Calls /\ Asked(calls)'
      /\ Creating(calls') = Creating(calls) \ {s}
      /\ \A t \in Slots \ {s} : calls'[t] = calls[t]
      /\ c.page \notin Pages => calls'[s] = NoCall
      /\ c.page \in Pages =>
           /\ calls'[s].answer # NoAnswer /\ calls'[s].row = c.row
           /\ calls'[s].answer.list = << >>
  BY <1>1, <1>2, AnsweredCalls DEF Changing
<1>7. c # NoCall /\ c.answer = NoAnswer /\ c \in CallRecords /\ c.page \in Pages \cup {NoPage}
  BY <1>1, <1>2 DEF Unserved, TypeOK, CallRecords
<1>8. /\ version' \in {version, version + 1} /\ version' \in Nat
      /\ own' \in [Pages -> Nat]
      /\ \A q \in Pages :
           \/ own'[q] = own[q]
           \/ c.page = q /\ c.op \in Changing /\ own'[q] = version'
  <2>1. version' \in {version, version + 1} /\ version' \in Nat
    BY <1>1, <1>3
  <2>2. own \in [Pages -> Nat]
    BY <1>1 DEF TypeOK
  <2>3. CASE session /\ o.arr # items /\ c.page # NoPage
    <3>1. c.page \in Pages /\ own' = [own EXCEPT ![c.page] = version'] /\ version' \in Nat
      BY <1>3, <1>7, <2>1, <2>3
    <3> QED
      BY <1>2, <2>1, <2>2, <3>1
  <2>4. CASE ~ (session /\ o.arr # items /\ c.page # NoPage)
    BY <1>3, <2>1, <2>2, <2>4
  <2> QED
    BY <2>3, <2>4
<1>9. freed' \subseteq Nat
  <2>1. Top(items') \in Nat /\ Top(items) \in Nat
    BY <1>1, <1>5, TopOf
  <2>2. freed \subseteq Nat
    BY <1>1 DEF TypeOK
  <2>3. \A m, n \in Nat : m + 1..n \subseteq Nat
    OBVIOUS
  <2>4. Top(items') + 1..Top(items) \subseteq Nat
    BY <2>1, <2>3
  <2> QED
    BY <1>3, <2>2, <2>4
<1>10. TypeOK'
  <2>1. births' \in Nat
    BY <1>1, <1>2
  <2> QED
    BY <1>1, <1>2, <1>5, <1>6, <1>8, <1>9, <2>1 DEF TypeOK, Calls
<1>11. Numbered'
  <2>1. /\ IsFiniteSet(Creating(calls)) /\ Cardinality(Creating(calls)) \in Nat
        /\ births + Cardinality(Creating(calls)) <= Len(InitialItems) + clicks
        /\ births + Cardinality(Creating(calls')) <= Len(InitialItems) + clicks
        /\ Cardinality(Creating(calls')) \in Nat
    BY <1>1, <1>6, NumberedKept
  <2>2. Len(InitialItems) \in Nat
    BY InitialTyped DEF Arrays
  <2>3. CASE session /\ c.op = "create"
    <3>1. s \in Creating(calls)
      BY <1>7, <2>3 DEF Creating
    <3>2. Cardinality(Creating(calls')) = Cardinality(Creating(calls)) - 1
      BY <1>6, <2>1, <3>1, FS_RemoveElement
    <3>3. births' + Cardinality(Creating(calls')) <= Len(InitialItems) + clicks'
      BY <1>1, <1>2, <2>1, <2>2, <2>3, <3>2
    <3> QED
      BY <1>5, <3>3 DEF Numbered, Creating, Born
  <2>4. CASE ~ (session /\ c.op = "create")
    <3>1. births' + Cardinality(Creating(calls')) <= Len(InitialItems) + clicks'
      BY <1>2, <2>1, <2>4
    <3> QED
      BY <1>5, <3>1 DEF Numbered, Creating, Born
  <2> QED
    BY <2>3, <2>4
<1>12. Typed'
  BY <1>5, <1>6, <1>10, <1>11 DEF Typed, Ascending
<1>13. RowsNamed'
  <2>1. \A row \in Records : Named(row) => Named(row)'
    BY <1>1, <1>3, <1>5, NamedAfterChange
  <2>2. ASSUME NEW p \in Pages, NEW i \in DOMAIN rows[p], NEW row, row = rows[p][i]
        PROVE  Named(row)'
    <3>1. rows[p] \in Arrays /\ Named(rows[p][i])
      BY <1>1 DEF RowsNamed, TypeOK
    <3>2. row \in Records /\ Named(row)
      BY <2>2, <3>1, ElementType
    <3> QED
      BY <2>1, <3>2
  <2>3. ASSUME NEW t \in Slots, calls'[t] # NoCall, NEW row \in RowsIn(calls'[t])
        PROVE  Named(row)'
    <3>1. calls[t] # NoCall /\ row \in RowsIn(calls[t])
      <4>1. CASE t # s
        BY <1>6, <2>3, <4>1
      <4>2. CASE t = s
        <5>1. row = c.row /\ c.row # NoRow
          BY <1>6, <2>3, <4>2, EmptyTable DEF RowsIn
        <5> QED
          BY <1>7, <4>2, <5>1 DEF RowsIn
      <4> QED
        BY <4>1, <4>2
    <3>2. Named(row)
      BY <1>1, <3>1 DEF RowsNamed
    <3>3. row \in Records
      <4>1. calls[t] \in CallRecords
        BY <1>1, <3>1 DEF TypeOK
      <4>2. calls[t].row \in Records \cup {NoRow} /\ calls[t].answer \in Answers \cup {NoAnswer}
        BY <4>1 DEF CallRecords
      <4>3. calls[t].answer # NoAnswer =>
              \A i \in DOMAIN calls[t].answer.list : calls[t].answer.list[i] \in Records
        BY <4>2, ElementType DEF Answers
      <4> QED
        BY <3>1, <4>2, <4>3 DEF RowsIn
    <3> QED
      BY <2>1, <3>2, <3>3
  <2> QED
    BY <1>2, <2>2, <2>3 DEF RowsNamed
<1>14. PagesRight'
  BY <1>1, <1>2, <1>8, ServedPages
<1> QED
  BY <1>12, <1>13, <1>14 DEF IInv

\* What is left to a page when one of its calls is taken out.
LEMMA AfterDrop ==
  ASSUME calls \in Calls, NEW s \in Slots, NEW p \in Pages
  PROVE  /\ \A ops : Awaits(Drop(s), p, ops) = Awaits(calls, p, ops) \ {s}
         /\ \A ops : Arrived(Drop(s), p, ops) = Arrived(calls, p, ops) \ {s}
         /\ \A t \in Slots \ {s} : Drop(s)[t] = calls[t]
<1>1. Drop(s)[s] = NoCall /\ \A t \in Slots \ {s} : Drop(s)[t] = calls[t]
  BY DropEvolves
<1> QED
  BY <1>1 DEF Awaits, Arrived

\* A call that has landed is one of a page.
LEMMA LandingCall ==
  ASSUME IInv, NEW s \in Slots, NEW ops, Landing(s, ops)
  PROVE  /\ calls[s] # NoCall /\ calls[s] \in CallRecords /\ calls[s].op \in ops
         /\ calls[s].page \in Pages /\ calls[s].answer # NoAnswer
         /\ calls[s].answer \in Answers /\ Ascending(calls[s].answer.list)
         /\ From(Drop(s), calls[s].page)
  BY DEF IInv, Typed, TypeOK, Asked, WellFormed, Landing, CallRecords, From

\* The rest of loadItems.
LEMMA DrawInv ==
  ASSUME IInv, NEW s \in Slots, Draw(s)
  PROVE  IInv'
<1>1. TypeOK /\ RowsNamed /\ PagesRight /\ calls \in Calls
  BY DEF IInv, Typed, TypeOK, Calls
<1>2. PICK p \in Pages :
      /\ calls[s] # NoCall /\ calls[s].op = "list" /\ p = calls[s].page
      /\ calls[s].answer # NoAnswer /\ calls[s].answer \in Answers
      /\ Ascending(calls[s].answer.list)
  BY LandingCall DEF Draw
<1>3. /\ rows' = [rows EXCEPT ![p] = calls[s].answer.list]
      /\ editing' = [editing EXCEPT ![p] = {}]
      /\ drawn' = [drawn EXCEPT ![p] = calls[s].answer.version]
      /\ calls' = Drop(s)
      /\ UNCHANGED <<items, births, version, own, freed, at>>
      /\ session' = session /\ clicks' = clicks /\ signed' = signed /\ trouble' = trouble
  BY <1>2 DEF Draw, serverVars
<1>4. calls[s].answer.list \in Arrays /\ calls[s].answer.version \in Nat
  BY <1>2 DEF Answers
<1>5. /\ calls' \in Calls /\ Evolve(calls, calls')
      /\ \A q \in Pages \ {p} : Same(calls, calls', q)
  BY <1>1, <1>2, <1>3, DropEvolves, DropSame
<1>6. TypeOK'
  BY <1>1, <1>2, <1>3, <1>4, <1>5 DEF TypeOK, Calls
<1>7. ASSUME NEW q \in Pages, NEW i \in DOMAIN rows'[q]
      PROVE  Named(rows'[q][i])
  <2>1. CASE q = p
    <3>1. rows'[q] = calls[s].answer.list
      BY <1>1, <1>2, <1>3, <2>1 DEF TypeOK
    <3>2. rows'[q][i] \in RowsIn(calls[s])
      BY <1>2, <1>7, <3>1 DEF RowsIn
    <3> QED
      BY <1>1, <1>2, <3>2 DEF RowsNamed
  <2>2. CASE q # p
    <3>1. rows'[q] = rows[q]
      BY <1>1, <1>3, <2>2 DEF TypeOK
    <3> QED
      BY <1>1, <1>7, <3>1 DEF RowsNamed
  <2> QED
    BY <2>1, <2>2
<1>8. Guarded(p) /\ Owns(p)
  BY <1>1, <1>2 DEF PagesRight
<1>9. /\ \A ops : Awaits(calls', p, ops) = Awaits(calls, p, ops) \ {s}
      /\ \A ops : Arrived(calls', p, ops) = Arrived(calls, p, ops) \ {s}
      /\ \A t \in Slots \ {s} : calls'[t] = calls[t]
  BY <1>1, <1>2, <1>3, AfterDrop
<1>10. s \in Arrived(calls, p, {"list"}) /\ s \notin Arrived(calls, p, Changing)
       /\ s \notin Awaits(calls, p, {"session"})
  BY <1>2 DEF Arrived, Awaits, Changing
<1>11. drawn'[p] = calls[s].answer.version
  BY <1>1, <1>2, <1>3 DEF TypeOK
<1>12. Guarded(p)'
  BY <1>3, <1>8, <1>9, <1>10 DEF Guarded
<1>13. at[p] = "index" /\ trouble[p] = {} =>
         \/ Arrived(calls', p, Changing) # {}
         \/ /\ drawn'[p] >= own[p]
            /\ \A t \in Arrived(calls', p, {"list"}) : calls'[t].answer.version >= own[p]
  <2>1. \A t \in Arrived(calls', p, {"list"}) : t \in Arrived(calls, p, {"list"}) /\ calls'[t] = calls[t]
    BY <1>9 DEF Arrived, Awaits
  <2>2. Arrived(calls', p, Changing) = Arrived(calls, p, Changing)
    BY <1>9, <1>10
  <2> QED
    BY <1>8, <1>10, <1>11, <2>1, <2>2 DEF Owns
<1>14. Owns(p)'
  BY <1>3, <1>8, <1>13 DEF Owns, Changing
<1>15. \A q \in Pages \ {p} : /\ signed'[q] = signed[q] /\ trouble'[q] = trouble[q]
                             /\ drawn'[q] = drawn[q]
  BY <1>1, <1>3 DEF TypeOK
<1>16. {p} \in SUBSET Pages /\ (\A q \in {p} : Guarded(q)' /\ Owns(q)')
       /\ clicks' \in {clicks, clicks + 1}
  BY <1>3, <1>12, <1>14
<1> QED
  BY <1>3, <1>5, <1>6, <1>7, <1>15, <1>16, PageStep

\* An answer that neither opens a document nor reloads: to a check that has found a
\* session, to a login that failed, to a registration.
LEMMA SettledInv ==
  ASSUME IInv, NEW s \in Slots, NEW p \in Pages,
         calls[s] # NoCall, calls[s].page = p, calls[s].op \in {"session", "login", "register"},
         Evolve(calls, calls'), \A t \in Slots \ {s} : calls'[t] = calls[t],
         calls'[s] # NoCall => calls'[s].page = p /\ calls'[s].op = "timer",
         UNCHANGED <<serverVars, at, rows, editing, drawn, trouble, clicks>>,
         signed' \in {signed, [signed EXCEPT ![p] = TRUE]},
         calls[s].op = "session" => signed' = [signed EXCEPT ![p] = TRUE]
  PROVE  IInv'
<1>1. TypeOK /\ RowsNamed /\ PagesRight /\ calls \in Calls
  BY DEF IInv, Typed, TypeOK, Calls
<1>2. /\ UNCHANGED <<items, births, version, own, freed, at>>
      /\ session' = session /\ clicks' = clicks /\ rows' = rows /\ editing' = editing
      /\ drawn' = drawn /\ trouble' = trouble
  BY DEF serverVars
<1>3. \A q \in Pages \ {p} : Same(calls, calls', q)
  BY DEF Same
<1>4. TypeOK'
  BY <1>1, <1>2 DEF TypeOK, Evolve, Calls
<1>5. Guarded(p) /\ Owns(p)
  BY <1>1 DEF PagesRight
<1>6. /\ Awaits(calls', p, {"list"}) = Awaits(calls, p, {"list"})
      /\ Arrived(calls', p, Changing) = Arrived(calls, p, Changing)
      /\ Arrived(calls', p, {"list"}) = Arrived(calls, p, {"list"})
      /\ \A t \in Arrived(calls, p, {"list"}) : calls'[t] = calls[t]
  BY DEF Awaits, Arrived, Changing
<1>7. calls[s].op # "session" => \A t \in Awaits(calls, p, {"session"}) : t \in Awaits(calls', p, {"session"})
  BY DEF Awaits
<1>8. Guarded(p)'
  <2>1. CASE calls[s].op = "session"
    <3>1. signed'[p]
      BY <1>1, <2>1 DEF TypeOK
    <3> QED
      BY <3>1 DEF Guarded
  <2>2. CASE calls[s].op # "session"
    <3>1. signed[p] => signed'[p]
      BY <1>1 DEF TypeOK
    <3> QED
      BY <1>2, <1>5, <1>7, <2>2, <3>1 DEF Guarded
  <2> QED
    BY <2>1, <2>2
<1>9. Owns(p)'
  <2>1. at[p] = "index" /\ trouble[p] = {} =>
          \/ Arrived(calls', p, Changing) # {}
          \/ /\ drawn[p] >= own[p] \/ Awaits(calls', p, {"list"}) # {}
             /\ \A t \in Arrived(calls', p, {"list"}) : calls'[t].answer.version >= own[p]
    BY <1>5, <1>6 DEF Owns
  <2> QED
    BY <1>2, <1>5, <2>1 DEF Owns, Changing
<1>10. \A q \in Pages \ {p} : /\ signed'[q] = signed[q] /\ trouble'[q] = trouble[q]
                             /\ drawn'[q] = drawn[q]
  BY <1>1, <1>2 DEF TypeOK
<1>11. \A q \in Pages : \A i \in DOMAIN rows'[q] : Named(rows'[q][i])
  BY <1>1, <1>2 DEF RowsNamed
<1>12. {p} \in SUBSET Pages /\ (\A q \in {p} : Guarded(q)' /\ Owns(q)')
       /\ clicks' \in {clicks, clicks + 1}
  BY <1>2, <1>8, <1>9
<1> QED
  BY <1>2, <1>3, <1>4, <1>10, <1>11, <1>12, PageStep

\* The rest of guardPage.
LEMMA GuardInv ==
  ASSUME IInv, NEW s \in Slots, Guard(s)
  PROVE  IInv'
<1>1. PICK p \in Pages :
        /\ p = calls[s].page /\ calls[s] # NoCall /\ calls[s].op = "session"
        /\ From(Drop(s), p)
  BY LandingCall DEF Guard
<1>2. UNCHANGED serverVars /\ clicks' = clicks
  BY DEF Guard
<1>3. calls \in Calls /\ clicks \in 0..MaxClicks
  BY DEF IInv, Typed, TypeOK, Calls
<1>4. CASE calls[s].answer.ok
  <2>1. /\ signed' = [signed EXCEPT ![p] = TRUE] /\ calls' = Drop(s)
        /\ UNCHANGED <<at, rows, editing, drawn, trouble>>
    BY <1>1, <1>4 DEF Guard
  <2>2. /\ Evolve(calls, calls') /\ calls'[s] = NoCall
        /\ \A t \in Slots \ {s} : calls'[t] = calls[t]
    BY <1>3, <2>1, DropEvolves
  <2> QED
    BY <1>1, <1>2, <2>1, <2>2, SettledInv
<1>5. CASE ~ calls[s].answer.ok
  <2>1. Navigate(Drop(s), p, "login")
    BY <1>1, <1>5 DEF Guard
  <2>2. "login" \in Documents
    BY DEF Documents
  <2> QED
    BY <1>1, <1>2, <1>3, <2>1, <2>2, NavigateInv
<1> QED
  BY <1>4, <1>5

\* A login is answered.
LEMMA AfterLoginInv ==
  ASSUME IInv, NEW s \in Slots, AfterLogin(s)
  PROVE  IInv'
<1>1. PICK p \in Pages :
        /\ p = calls[s].page /\ calls[s] # NoCall /\ calls[s].op = "login"
        /\ From(Drop(s), p)
  BY LandingCall DEF AfterLogin
<1>2. UNCHANGED serverVars /\ clicks' = clicks
  BY DEF AfterLogin
<1>3. calls \in Calls /\ clicks \in 0..MaxClicks
  BY DEF IInv, Typed, TypeOK, Calls
<1>4. CASE ~ calls[s].answer.ok
  <2>1. calls' = Drop(s) /\ UNCHANGED <<at, signed, rows, editing, drawn, trouble>>
    BY <1>4 DEF AfterLogin, pageVars
  <2>2. /\ Evolve(calls, calls') /\ calls'[s] = NoCall
        /\ \A t \in Slots \ {s} : calls'[t] = calls[t]
    BY <1>3, <2>1, DropEvolves
  <2> QED
    BY <1>1, <1>2, <2>1, <2>2, SettledInv
<1>5. CASE calls[s].answer.ok
  <2>1. Navigate(Drop(s), p, "index")
    BY <1>1, <1>5 DEF AfterLogin
  <2>2. "index" \in Documents
    BY DEF Documents
  <2> QED
    BY <1>1, <1>2, <1>3, <2>1, <2>2, NavigateInv
<1> QED
  BY <1>4, <1>5

\* A registration is answered.
LEMMA AfterRegisterInv ==
  ASSUME IInv, NEW s \in Slots, AfterRegister(s)
  PROVE  IInv'
<1>1. PICK p \in Pages :
        /\ p = calls[s].page /\ calls[s] # NoCall /\ calls[s].op = "register"
        /\ calls[s].answer # NoAnswer /\ calls[s] \in CallRecords
  BY LandingCall DEF AfterRegister
<1>2. /\ UNCHANGED serverVars /\ clicks' = clicks
      /\ UNCHANGED <<at, signed, rows, editing, drawn, trouble>>
      /\ calls' = IF calls[s].answer.ok THEN [calls EXCEPT ![s].op = "timer"] ELSE Drop(s)
  BY DEF AfterRegister, pageVars
<1>3. calls \in Calls
  BY DEF IInv, Typed, TypeOK, Calls
<1>4. /\ Evolve(calls, calls') /\ \A t \in Slots \ {s} : calls'[t] = calls[t]
      /\ calls'[s] # NoCall => calls'[s].page = p /\ calls'[s].op = "timer"
  <2>1. CASE calls[s].answer.ok
    <3> DEFINE d == [calls[s] EXCEPT !.op = "timer"]
    <3>1. d \in CallRecords /\ d.page = p /\ d.op = "timer" /\ Passes(calls[s], d)
      BY <1>1 DEF CallRecords, Ops, Passes
    <3>2. calls' = [calls EXCEPT ![s] = d]
      BY <1>2, <2>1
    <3> HIDE DEF d
    <3>3. calls' \in Calls /\ calls'[s] = d /\ \A t \in Slots \ {s} : calls'[t] = calls[t]
      BY <1>3, <3>1, <3>2 DEF Calls
    <3> QED
      BY <1>1, <3>1, <3>3 DEF Evolve, Passes
  <2>2. CASE ~ calls[s].answer.ok
    BY <1>2, <1>3, <2>2, DropEvolves
  <2> QED
    BY <2>1, <2>2
<1> QED
  BY <1>1, <1>2, <1>4, SettledInv

\* A logout is answered, or the timer of register.html is over.
LEMMA ToLoginInv ==
  ASSUME IInv, NEW s \in Slots, ToLogin(s)
  PROVE  IInv'
<1>1. PICK p \in Pages : p = calls[s].page /\ From(Drop(s), p)
  BY LandingCall DEF ToLogin
<1>2. UNCHANGED serverVars /\ clicks' = clicks /\ Navigate(Drop(s), p, "login")
  BY <1>1 DEF ToLogin
<1>3. clicks \in 0..MaxClicks /\ "login" \in Documents
  BY DEF IInv, Typed, TypeOK, Documents
<1> QED
  BY <1>1, <1>2, <1>3, NavigateInv

\* A change is answered: loadItems.
LEMMA ReloadInv ==
  ASSUME IInv, NEW s \in Slots, Reload(s)
  PROVE  IInv'
<1>1. PICK p \in Pages :
        /\ p = calls[s].page /\ From(Drop(s), p)
        /\ calls[s].op \in {"create", "update", "remove"}
  BY LandingCall DEF Reload
<1>2. /\ clicks' = clicks /\ Load(Drop(s), p)
      /\ UNCHANGED <<serverVars, at, signed, rows, editing, drawn>>
  BY <1>1 DEF Reload
<1>3. clicks \in 0..MaxClicks /\ calls \in Calls
  BY DEF IInv, Typed, TypeOK, Calls
<1>4. Free(Drop(s)) # {}
  BY <1>3, DropEvolves DEF Free
<1>5. Awaits(calls, p, {"session"}) \subseteq Awaits(Drop(s), p, {"session"})
  <2>1. s \notin Awaits(calls, p, {"session"})
    BY <1>1 DEF Awaits
  <2> QED
    BY <1>3, <2>1, AfterDrop
<1> QED
  BY <1>1, <1>2, <1>3, <1>4, <1>5, LoadInv

\* A call is lost: nothing more is promised of its page.
LEMMA LoseInv ==
  ASSUME IInv, NEW s \in Slots, Lose(s)
  PROVE  IInv'
<1>1. TypeOK /\ RowsNamed /\ PagesRight /\ calls \in Calls
  BY DEF IInv, Typed, TypeOK, Calls
<1>2. /\ UNCHANGED <<items, births, version, own, freed, at>>
      /\ session' = session /\ clicks' = clicks /\ signed' = signed /\ rows' = rows
      /\ editing' = editing /\ drawn' = drawn /\ calls' = Drop(s)
      /\ trouble' = [p \in Pages |->
           IF p = calls[s].page THEN trouble[p] \cup {"lost"} ELSE trouble[p]]
  BY DEF Lose, serverVars
<1>3. PICK P \in SUBSET Pages : P = {p \in Pages : p = calls[s].page}
  OBVIOUS
<1>4. Evolve(calls, calls') /\ calls' \in Calls
  BY <1>1, <1>2, DropEvolves
<1>5. \A q \in Pages \ P : Same(calls, calls', q)
  BY <1>1, <1>2, <1>3, DropSame
<1>6. trouble' \in [Pages -> SUBSET {"lost", "overlapping"}]
  BY <1>1, <1>2 DEF TypeOK
<1>7. TypeOK'
  BY <1>1, <1>2, <1>4, <1>6 DEF TypeOK, Calls
<1>8. \A q \in P : Guarded(q)' /\ Owns(q)'
  <2> SUFFICES ASSUME NEW q \in P
               PROVE  Guarded(q)' /\ Owns(q)'
    OBVIOUS
  <2>1. "lost" \in trouble'[q]
    BY <1>2, <1>3
  <2>2. own[q] <= version
    BY <1>1 DEF PagesRight, Owns
  <2> QED
    BY <1>2, <2>1, <2>2 DEF Guarded, Owns
<1>9. \A q \in Pages \ P : /\ signed'[q] = signed[q] /\ trouble'[q] = trouble[q]
                          /\ drawn'[q] = drawn[q]
  BY <1>2, <1>3
<1>10. \A q \in Pages : \A i \in DOMAIN rows'[q] : Named(rows'[q][i])
  BY <1>1, <1>2 DEF RowsNamed
<1>11. clicks' \in {clicks, clicks + 1}
  BY <1>2
<1> QED
  BY <1>2, <1>4, <1>5, <1>7, <1>8, <1>9, <1>10, <1>11, PageStep

\* Steps that touch no call: a row enters edit mode, the session ends, nothing happens.
LEMMA CallsKeptInv ==
  ASSUME IInv,
         UNCHANGED <<items, births, version, own, freed, at, signed, rows, drawn, trouble, calls>>,
         session' \in BOOLEAN, clicks' \in 0..MaxClicks, clicks' \in {clicks, clicks + 1},
         editing' \in [Pages -> SUBSET Nat], \A p \in Pages : editing'[p] \subseteq Ids(rows[p])
  PROVE  IInv'
<1>1. TypeOK /\ RowsNamed /\ calls \in Calls
  BY DEF IInv, Typed, TypeOK, Calls
<1>2. TypeOK'
  BY <1>1 DEF TypeOK
<1>3. Evolve(calls, calls') /\ \A q \in Pages : Same(calls, calls', q)
  BY <1>1 DEF Evolve, Passes, Same
<1>4. {} \in SUBSET Pages /\ \A q \in Pages : \A i \in DOMAIN rows'[q] : Named(rows'[q][i])
  BY <1>1 DEF RowsNamed
<1>5. \A q \in {} : Guarded(q)' /\ Owns(q)'
  OBVIOUS
<1>6. \A q \in Pages \ {} : /\ signed'[q] = signed[q] /\ trouble'[q] = trouble[q]
                           /\ drawn'[q] = drawn[q] /\ Same(calls, calls', q)
  BY <1>3
<1> QED
  BY <1>2, <1>3, <1>4, <1>5, <1>6, PageStep

\* What users do.
LEMMA UserInv ==
  ASSUME IInv, NEW p \in Pages, User(p)
  PROVE  IInv'
<1>1. TypeOK /\ RowsNamed /\ calls \in Calls /\ From(calls, p) /\ MaxClicks \in Nat
  BY BoundsTyped DEF IInv, Typed, TypeOK, Calls, From
<1>2. Click => clicks' \in 0..MaxClicks /\ clicks' = clicks + 1
  BY <1>1 DEF Click, TypeOK
<1>3. ASSUME NEW document \in Documents, Visit(p, document)
      PROVE  IInv'
  <2>1. Navigate(calls, p, document) /\ UNCHANGED serverVars /\ Click
    BY <1>3 DEF Visit
  <2> QED
    BY <1>1, <1>2, <2>1, NavigateInv
<1>4. CASE SubmitLogin(p)
  <2>1. "login" \in Ops \ {"list", "session", "timer"}
    BY DEF Ops
  <2> QED
    BY <1>4, <2>1, SubmitInv DEF SubmitLogin
<1>5. CASE SubmitRegister(p)
  <2>1. "register" \in Ops \ {"list", "session", "timer"}
    BY DEF Ops
  <2> QED
    BY <1>5, <2>1, SubmitInv DEF SubmitRegister
<1>6. CASE ClickLogout(p)
  <2>1. "logout" \in Ops \ {"list", "session", "timer"}
    BY DEF Ops
  <2> QED
    BY <1>6, <2>1, SubmitInv DEF ClickLogout
<1>7. ASSUME NEW title \in Titles, SubmitCreate(p, title)
      PROVE  IInv'
  <2>1. "create" \in Ops \ {"list", "session", "timer"}
    BY DEF Ops
  <2> QED
    BY <1>7, <2>1, SubmitInv DEF SubmitCreate
<1>8. ASSUME NEW row \in RowOf(p)
      PROVE  /\ row \in Records /\ Named(row)
             /\ row.id \in Nat /\ row.id \in Ids(rows[p])
  <2>1. PICK i \in DOMAIN rows[p] : row = rows[p][i]
    BY DEF RowOf
  <2>2. rows[p] \in Arrays /\ Named(row)
    BY <1>1, <2>1 DEF TypeOK, RowsNamed
  <2> QED
    BY <2>1, <2>2, ElementType DEF Ids
<1>9. ASSUME NEW row \in RowOf(p), ClickDelete(p, row)
      PROVE  IInv'
  <2>1. "remove" \in Ops \ {"list", "session", "timer"}
    BY DEF Ops
  <2> QED
    BY <1>8, <1>9, <2>1, SubmitInv DEF ClickDelete
<1>10. ASSUME NEW row \in RowOf(p), NEW title \in Titles, ClickSave(p, row, title)
       PROVE  IInv'
  <2>1. "update" \in Ops \ {"list", "session", "timer"}
    BY DEF Ops
  <2> QED
    BY <1>8, <1>10, <2>1, SubmitInv DEF ClickSave
<1>11. ASSUME NEW row \in RowOf(p), EnterEditMode(p, row)
       PROVE  IInv'
  <2>1. /\ UNCHANGED <<items, births, version, own, freed, at, signed, rows, drawn, trouble, calls>>
        /\ session' = session /\ editing' = [editing EXCEPT ![p] = @ \cup {row.id}] /\ Click
    BY <1>11 DEF EnterEditMode, serverVars
  <2>2. row.id \in Nat /\ row.id \in Ids(rows[p])
    BY <1>8
  <2>3. /\ session' \in BOOLEAN /\ editing' \in [Pages -> SUBSET Nat]
        /\ \A q \in Pages : editing'[q] \subseteq Ids(rows[q])
    BY <1>1, <2>1, <2>2 DEF TypeOK
  <2> QED
    BY <1>2, <2>1, <2>3, CallsKeptInv
<1>12. ASSUME NEW row \in RowOf(p), ClickCancel(p, row)
       PROVE  IInv'
  <2>1. /\ Click /\ Free(calls) # {} /\ Load(calls, p)
        /\ UNCHANGED <<serverVars, at, signed, rows, editing, drawn>>
    BY <1>12 DEF ClickCancel
  <2> QED
    BY <1>1, <1>2, <2>1, LoadInv
<1> QED
  BY <1>3, <1>4, <1>5, <1>6, <1>7, <1>9, <1>10, <1>11, <1>12 DEF User

\* The pages before anything has happened.
LEMMA InitInv == Init => IInv
<1> SUFFICES ASSUME Init
             PROVE  IInv
  OBVIOUS
<1>1. /\ items = InitialItems /\ items \in Arrays /\ Ascending(items) /\ Born(items)
      /\ session \in BOOLEAN /\ calls = [s \in Slots |-> NoCall]
      /\ clicks = 0 /\ births = Len(InitialItems) /\ version = 0 /\ freed = {}
      /\ own = [p \in Pages |-> 0] /\ drawn = [p \in Pages |-> 0]
      /\ editing = [p \in Pages |-> {}] /\ trouble = [p \in Pages |-> {}]
  BY InitialTyped DEF Init, Born
<1>2. /\ at \in [Pages -> Documents] /\ signed \in [Pages -> BOOLEAN]
      /\ rows \in [Pages -> {<< >>, items}]
      /\ \A p \in Pages : at[p] = "index" => signed[p]
  BY DEF Init, Documents
<1>3. TypeOK
  <2>1. Len(InitialItems) \in Nat /\ MaxClicks \in Nat
    BY InitialTyped, BoundsTyped DEF Arrays
  <2>2. rows \in [Pages -> Arrays] /\ \A p \in Pages : Ascending(rows[p])
    BY <1>1, <1>2, EmptyTable
  <2> QED
    BY <1>1, <1>2, <2>1, <2>2 DEF TypeOK
<1>4. Asked(calls)
  BY <1>1 DEF Asked
<1>5. Numbered
  <2>1. Creating(calls) = {}
    BY <1>1 DEF Creating
  <2>2. Cardinality(Creating(calls)) = 0
    BY <2>1, FS_EmptySet
  <2>3. Len(InitialItems) \in Nat
    BY InitialTyped DEF Arrays
  <2> QED
    BY <1>1, <2>2, <2>3 DEF Numbered
<1>6. RowsNamed
  <2>1. \A i \in DOMAIN items : Named(items[i])
    BY <1>1, ItemsNamed
  <2> QED
    BY <1>1, <1>2, <2>1, EmptyTable DEF RowsNamed
<1>7. PagesRight
  <2> SUFFICES ASSUME NEW p \in Pages
               PROVE  Guarded(p) /\ Owns(p)
    BY DEF PagesRight
  <2>1. \A ops : Arrived(calls, p, ops) = {}
    BY <1>1 DEF Arrived, Awaits
  <2> QED
    BY <1>1, <1>2, <2>1 DEF Guarded, Owns
<1> QED
  BY <1>1, <1>3, <1>4, <1>5, <1>6, <1>7 DEF IInv, Typed

\* Every step keeps the invariant.
LEMMA NextInv == IInv /\ [Next]_vars => IInv'
<1> SUFFICES ASSUME IInv, [Next]_vars
             PROVE  IInv'
  OBVIOUS
<1>1. TypeOK /\ clicks \in 0..MaxClicks /\ session \in BOOLEAN
      /\ editing \in [Pages -> SUBSET Nat] /\ \A p \in Pages : editing[p] \subseteq Ids(rows[p])
  BY DEF IInv, Typed, TypeOK
<1>2. ASSUME NEW p \in Pages, User(p)
      PROVE  IInv'
  BY <1>2, UserInv
<1>3. ASSUME NEW s \in Slots, Progress(s)
      PROVE  IInv'
  BY <1>3, ServeChangeInv, ServeOtherInv, DrawInv, ReloadInv, GuardInv, AfterLoginInv,
     AfterRegisterInv, ToLoginInv DEF Progress
<1>4. ASSUME NEW s \in Slots, Lose(s)
      PROVE  IInv'
  BY <1>4, LoseInv
<1>5. CASE SessionEnds
  <2>1. /\ session' \in BOOLEAN /\ clicks' = clicks /\ editing' = editing
        /\ UNCHANGED <<items, births, version, own, freed, at, signed, rows, drawn, trouble, calls>>
    BY <1>5 DEF SessionEnds, pageVars
  <2> QED
    BY <1>1, <2>1, CallsKeptInv
<1>6. CASE UNCHANGED vars
  <2>1. /\ session' = session /\ clicks' = clicks /\ editing' = editing
        /\ UNCHANGED <<items, births, version, own, freed, at, signed, rows, drawn, trouble, calls>>
    BY <1>6 DEF vars, serverVars, pageVars
  <2> QED
    BY <1>1, <2>1, CallsKeptInv
<1> QED
  BY <1>2, <1>3, <1>4, <1>5, <1>6 DEF Next

LEMMA Invariant == Spec => []IInv
  BY InitInv, NextInv, PTL DEF Spec

-----------------------------------------------------------------------------
\* The state is typed: no item is drawn twice on a page, a row in edit mode is one
\* that is drawn, and a page's answers are awaited (app.js).
THEOREM FrontendTypes == Spec => []TypeOK
<1>1. IInv => TypeOK
  BY DEF IInv, Typed
<1> QED
  BY <1>1, Invariant, PTL

\* What a user edits or deletes is the item the row showed, however old the row, except
\* under an id that insert may hand out again (app.js:53, json_store.h:43).
THEOREM RowsNameItemsAlways == Spec => []RowsNameItems
<1>1. IInv => RowsNameItems
  <2> SUFFICES ASSUME IInv
               PROVE  RowsNameItems
    OBVIOUS
  <2>1. \A p \in Pages : \A row \in RowOf(p) : Named(row)
    BY DEF IInv, RowsNamed, RowOf
  <2>2. \A s \in Slots : calls[s] # NoCall /\ calls[s].row # NoRow => Named(calls[s].row)
    BY DEF IInv, RowsNamed, RowsIn
  <2> DEFINE Shown == (UNION {RowOf(p) : p \in Pages}) \cup
                 ({calls[s].row : s \in {t \in Slots : calls[t] # NoCall}} \ {NoRow})
  <2>3. ASSUME NEW row \in Shown
        PROVE  Named(row)
    <3>1. CASE \E p \in Pages : row \in RowOf(p)
      BY <2>1, <3>1
    <3>2. CASE \E s \in Slots : calls[s] # NoCall /\ row = calls[s].row /\ row # NoRow
      BY <2>2, <3>2
    <3> QED
      BY <2>3, <3>1, <3>2
  <2>4. \A row \in Shown, i \in DOMAIN items :
          items[i].id = row.id => items[i].doc.birth = row.doc.birth \/ row.id \in freed
    BY <2>3 DEF Named
  <2> QED
    BY <2>4 DEF RowsNameItems
<1> QED
  BY <1>1, Invariant, PTL

\* A dashboard at rest has found a session, in whatever order the answers came, unless
\* the call that asks was lost (auth.js, guardPage).
THEOREM DashboardGuardedAlways == Spec => []DashboardGuarded
<1>1. IInv => DashboardGuarded
  BY DEF IInv, PagesRight, Guarded, DashboardGuarded, Idle, Under, Awaits
<1> QED
  BY <1>1, Invariant, PTL

\* A dashboard at rest shows the changes its user made on it, unless a call was lost or
\* two loadItems overlapped (app.js:61).
THEOREM OwnChangesShownAlways == Spec => []OwnChangesShown
<1>1. IInv => OwnChangesShown
  BY DEF IInv, PagesRight, Owns, OwnChangesShown, Idle, Under, Awaits, Arrived
<1> QED
  BY <1>1, Invariant, PTL
=============================================================================
