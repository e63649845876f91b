------------------------------ MODULE Frontend ------------------------------
(***************************************************************************)
(* The pages of public/, open in several tabs of one browser, which share  *)
(* its session cookie: index.html with app.js and auth.js, login.html and  *)
(* register.html.  Every fetch is a call of its own: the server may handle *)
(* calls in any order, answers may come in any order, or never, and a page *)
(* goes on when the answer it awaits lands.  A navigation drops the code   *)
(* of the page, not the requests it has sent.  The server's side is one    *)
(* step per request (Server and JsonStore have its inside).                *)
(*                                                                         *)
(* An item's doc has a member "birth", its number among all items ever     *)
(* made, that the program does not have: it tells items of one id apart.   *)
(***************************************************************************)
EXTENDS JsonArray, FiniteSets, FiniteSetsExt

CONSTANTS
  Pages,         \* the browser's tabs
  Titles,        \* what is typed into a title field
  InitialItems,  \* the table when the first page is opened
  NoPage, NoCall, NoAnswer, NoRow,
  Slots,         \* bound: calls under way at one time, as a set of numbers
  MaxClicks      \* bound: what users do in one behaviour

ASSUME InitialTyped ==
  /\ InitialItems \in Arrays /\ Ascending(InitialItems)
  /\ \A i \in DOMAIN InitialItems :
       "birth" \in DOMAIN InitialItems[i].doc /\ InitialItems[i].doc.birth = i

ASSUME BoundsTyped ==
  Slots \subseteq Nat /\ IsFiniteSet(Slots) /\ MaxClicks \in Nat

\* What the pages send, and the items that come of it, are objects.
ASSUME DocsNumbered ==
  \A title \in Titles :
    /\ [title |-> title] \in Docs
    /\ \A n \in 1..(Len(InitialItems) + MaxClicks) : [title |-> title, birth |-> n] \in Docs

VARIABLES
  items, session,  \* the server: the table, and whether the browser's cookie is a session's
  at,              \* per page: which document it shows
  signed,          \* per page: guardPage has found a session and wired the logout button
  rows,            \* per page: the items drawn
  editing,         \* per page: the ids of the rows in edit mode
  calls,           \* the fetches under way
  clicks,          \* how much the users have done: for the bound
  \* History variables.
  births,          \* how many items were ever made
  version,         \* how many changes the table has had
  own,             \* per page: the version its last change made
  drawn,           \* per page: the version of the table it shows
  freed,           \* the ids that insert has come to hand out a second time
  trouble          \* per page load: "lost" a call, or "overlapping" loadItems

serverVars == <<items, session, births, version, own, freed>>
pageVars == <<at, signed, rows, editing, drawn, trouble>>
vars == <<serverVars, pageVars, calls, clicks>>

Ops == {"session", "list", "create", "update", "remove", "login", "register", "logout", "timer"}
Documents == {"index", "login", "register"}

Answers == [ok : BOOLEAN, list : Arrays, version : Nat]
CallRecords ==
  [page : Pages \cup {NoPage}, op : Ops, row : Records \cup {NoRow}, title : Titles \cup {NoRow},
   answer : Answers \cup {NoAnswer}]

ASSUME MarkersDistinct ==
  NoPage \notin Pages /\ NoCall \notin CallRecords /\ NoAnswer \notin Answers /\ NoRow \notin Records

\* The rows of a page ascend: no item is drawn twice.
TypeOK ==
  /\ items \in Arrays
  /\ session \in BOOLEAN
  /\ at \in [Pages -> Documents]
  /\ signed \in [Pages -> BOOLEAN]
  /\ rows \in [Pages -> Arrays] /\ editing \in [Pages -> SUBSET Nat]
  /\ \A p \in Pages : Ascending(rows[p]) /\ editing[p] \subseteq Ids(rows[p])
  /\ trouble \in [Pages -> SUBSET {"lost", "overlapping"}]
  /\ calls \in [Slots -> CallRecords \cup {NoCall}]
  /\ clicks \in 0..MaxClicks
  /\ births \in Nat /\ version \in Nat
  /\ own \in [Pages -> Nat] /\ drawn \in [Pages -> Nat]
  /\ freed \subseteq Nat

\* Every page is at login.html, or at the dashboard, which is at rest.
Init ==
  /\ items = InitialItems
  /\ session \in BOOLEAN
  /\ \/ /\ at = [p \in Pages |-> "login"]
        /\ signed = [p \in Pages |-> FALSE]
        /\ rows = [p \in Pages |-> << >>]
     \/ /\ session
        /\ at = [p \in Pages |-> "index"]
        /\ signed = [p \in Pages |-> TRUE]
        /\ rows = [p \in Pages |-> items]
  /\ editing = [p \in Pages |-> {}]
  /\ calls = [s \in Slots |-> NoCall]
  /\ clicks = 0
  /\ births = Len(InitialItems)
  /\ version = 0
  /\ own = [p \in Pages |-> 0]
  /\ drawn = [p \in Pages |-> 0]
  /\ freed = {}
  /\ trouble = [p \in Pages |-> {}]

-----------------------------------------------------------------------------
Free(cs) == {s \in Slots : cs[s] = NoCall}
Under(cs, p) == {s \in Slots : cs[s] # NoCall /\ cs[s].page = p}

Call(p, op, row, title) ==
  [page |-> p, op |-> op, row |-> row, title |-> title, answer |-> NoAnswer]

Put(cs, call) == [cs EXCEPT ![Min(Free(cs))] = call]
Drop(s) == [calls EXCEPT ![s] = NoCall]

\* fetchItems: a page that has such a call out already runs the risk of drawing the
\* older answer over the newer one.
Load(cs, p) ==
  /\ calls' = Put(cs, Call(p, "list", NoRow, NoRow))
  /\ trouble' = [trouble EXCEPT ![p] =
       IF \E s \in Under(cs, p) : cs[s].op = "list" THEN @ \cup {"overlapping"} ELSE @]

\* The document of a page is replaced: what has not reached the server may yet do so,
\* nobody awaits it.  index.html begins with guardPage and loadItems.
Navigate(cs, p, document) ==
  LET left == [s \in Slots |->
        IF s \notin Under(cs, p) THEN cs[s]
        ELSE IF cs[s].answer = NoAnswer THEN [cs[s] EXCEPT !.page = NoPage] ELSE NoCall]
      guarded == Put(left, Call(p, "session", NoRow, NoRow))
  IN /\ at' = [at EXCEPT ![p] = document]
     /\ signed' = [signed EXCEPT ![p] = FALSE]
     /\ rows' = [rows EXCEPT ![p] = << >>]
     /\ editing' = [editing EXCEPT ![p] = {}]
     /\ drawn' = [drawn EXCEPT ![p] = 0]
     /\ trouble' = [trouble EXCEPT ![p] = {}]
     /\ IF document # "index" THEN calls' = left
        ELSE /\ Cardinality(Free(left)) >= 2  \* bound
             /\ calls' = Put(guarded, Call(p, "list", NoRow, NoRow))

-----------------------------------------------------------------------------
(* What users do. *)

Click == clicks < MaxClicks /\ clicks' = clicks + 1

\* A link, an address typed in, a reload.
Visit(p, document) ==
  /\ Click
  /\ Navigate(calls, p, document)
  /\ UNCHANGED serverVars

\* A click that only sends one request.
Submit(p, op, row, title) ==
  /\ Click
  /\ Free(calls) # {}  \* bound
  /\ calls' = Put(calls, Call(p, op, row, title))
  /\ UNCHANGED <<serverVars, pageVars>>

SubmitLogin(p) == at[p] = "login" /\ Submit(p, "login", NoRow, NoRow)
SubmitRegister(p) == at[p] = "register" /\ Submit(p, "register", NoRow, NoRow)
ClickLogout(p) == at[p] = "index" /\ signed[p] /\ Submit(p, "logout", NoRow, NoRow)

\* The button "Ajouter", with a title.
SubmitCreate(p, title) == at[p] = "index" /\ Submit(p, "create", NoRow, title)

RowOf(p) == {rows[p][i] : i \in DOMAIN rows[p]}

\* "Supprimer", confirmed; a row in edit mode has no such button.
ClickDelete(p, row) == row.id \notin editing[p] /\ Submit(p, "remove", row, NoRow)

\* "Modifier".
EnterEditMode(p, row) ==
  /\ Click
  /\ row.id \notin editing[p]
  /\ editing' = [editing EXCEPT ![p] = @ \cup {row.id}]
  /\ UNCHANGED <<serverVars, at, signed, rows, drawn, trouble, calls>>

\* "Enregistrer", with a title: the row stays in edit mode.
ClickSave(p, row, title) == row.id \in editing[p] /\ Submit(p, "update", row, title)

\* "Annuler" draws everything anew.
ClickCancel(p, row) ==
  /\ Click
  /\ row.id \in editing[p]
  /\ Free(calls) # {}  \* bound
  /\ Load(calls, p)
  /\ UNCHANGED <<serverVars, at, signed, rows, editing, drawn>>

-----------------------------------------------------------------------------
(* The server. *)

\* The largest id, 0 if there is none.
Top(a) == Max(Ids(a) \cup {0})

\* A change, if the cookie is a session's, and its history.
Change(c, call) ==
  \E o \in Outcomes(items, call) :
    LET changed == session /\ o.arr # items
    IN /\ items' = IF session THEN o.arr ELSE items
       /\ version' = IF changed THEN version + 1 ELSE version
       /\ own' = IF changed /\ c.page # NoPage THEN [own EXCEPT ![c.page] = version + 1] ELSE own
       /\ freed' = freed \cup (Top(items') + 1..Top(items))

Answered(s, ok) ==
  LET c == calls[s]
      answer == [ok |-> ok, list |-> IF c.op = "list" THEN items ELSE << >>,
                 version |-> IF c.op = "list" THEN version ELSE 0]
  IN calls' = [calls EXCEPT ![s] = IF c.page = NoPage THEN NoCall ELSE [c EXCEPT !.answer = answer]]

Requested(c) ==
  CASE c.op = "create" -> [op |-> "insert", body |->
         [id |-> NoId, doc |-> [title |-> c.title, birth |-> births + 1]]]
    [] c.op = "update" -> [op |-> "update", id |-> c.row.id, patch |->
         [id |-> NoId, doc |-> [title |-> c.title]]]
    [] c.op = "remove" -> [op |-> "remove", id |-> c.row.id]

Unserved(s) == calls[s] # NoCall /\ calls[s].answer = NoAnswer

ServeChange(s) ==
  /\ Unserved(s) /\ calls[s].op \in {"create", "update", "remove"}
  /\ Change(calls[s], Requested(calls[s]))
  /\ births' = IF session /\ calls[s].op = "create" THEN births + 1 ELSE births
  /\ Answered(s, session)
  /\ UNCHANGED <<session, pageVars, clicks>>

\* Reading needs no session; the check tells of it; a login may be refused; a
\* registration may too, and makes no session.
ServeOther(s) ==
  /\ Unserved(s) /\ calls[s].op \in {"list", "session", "login", "register", "logout"}
  /\ LET op == calls[s].op
     IN \E ok \in BOOLEAN :
          /\ op \in {"list", "logout"} => ok
          /\ op = "session" => ok = session
          /\ session' = IF op = "login" /\ ok THEN TRUE ELSE IF op = "logout" THEN FALSE ELSE session
          /\ Answered(s, ok)
  /\ UNCHANGED <<items, births, version, own, freed, pageVars, clicks>>

\* The twelve hours are over, or the server has been started again.
SessionEnds ==
  /\ session
  /\ session' = FALSE
  /\ UNCHANGED <<items, births, version, own, freed, pageVars, calls, clicks>>

-----------------------------------------------------------------------------
(* The continuations. *)

Landing(s, ops) ==
  /\ calls[s] # NoCall
  /\ calls[s].answer # NoAnswer
  /\ calls[s].op \in ops

\* Mutated form: loadItems does not empty the table first.
DrawBelow(s) ==
  /\ Landing(s, {"list"})
  /\ LET p == calls[s].page
     IN /\ rows' = [rows EXCEPT ![p] = @ \o calls[s].answer.list]
        /\ drawn' = [drawn EXCEPT ![p] = calls[s].answer.version]
  /\ calls' = Drop(s)
  /\ UNCHANGED <<serverVars, at, signed, editing, trouble, clicks>>

\* The rest of loadItems.
Draw(s) ==
  /\ Landing(s, {"list"})
  /\ LET p == calls[s].page
     IN /\ rows' = [rows EXCEPT ![p] = calls[s].answer.list]
        /\ editing' = [editing EXCEPT ![p] = {}]
        /\ drawn' = [drawn EXCEPT ![p] = calls[s].answer.version]
  /\ calls' = Drop(s)
  /\ UNCHANGED <<serverVars, at, signed, trouble, clicks>>

\* Mutated form: updateItem and deleteItem without loadItems.
ReloadNever(s) ==
  /\ Landing(s, {"create", "update", "remove"})
  /\ calls' = Drop(s)
  /\ UNCHANGED <<serverVars, pageVars, clicks>>

\* After a change, whatever its status: await loadItems().
Reload(s) ==
  /\ Landing(s, {"create", "update", "remove"})
  /\ Load(Drop(s), calls[s].page)
  /\ UNCHANGED <<serverVars, at, signed, rows, editing, drawn, clicks>>

\* Mutated form: the page stays when the check finds no session.
GuardStays(s) ==
  /\ Landing(s, {"session"})
  /\ signed' = [signed EXCEPT ![calls[s].page] = calls[s].answer.ok]
  /\ calls' = Drop(s)
  /\ UNCHANGED <<serverVars, at, rows, editing, drawn, trouble, clicks>>

\* Mutated form: the page that asks opens itself again.
GuardLoops(s) ==
  /\ Landing(s, {"session"})
  /\ IF calls[s].answer.ok
     THEN /\ signed' = [signed EXCEPT ![calls[s].page] = TRUE]
          /\ calls' = Drop(s)
          /\ UNCHANGED <<at, rows, editing, drawn, trouble>>
     ELSE Navigate(Drop(s), calls[s].page, "index")
  /\ UNCHANGED <<serverVars, clicks>>

\* The rest of guardPage.
Guard(s) ==
  /\ Landing(s, {"session"})
  /\ IF calls[s].answer.ok
     THEN /\ signed' = [signed EXCEPT ![calls[s].page] = TRUE]
          /\ calls' = Drop(s)
          /\ UNCHANGED <<at, rows, editing, drawn, trouble>>
     ELSE Navigate(Drop(s), calls[s].page, "login")
  /\ UNCHANGED <<serverVars, clicks>>

\* A login that succeeds opens the dashboard; one that fails shows why.
AfterLogin(s) ==
  /\ Landing(s, {"login"})
  /\ IF calls[s].answer.ok
     THEN Navigate(Drop(s), calls[s].page, "index")
     ELSE calls' = Drop(s) /\ UNCHANGED pageVars
  /\ UNCHANGED <<serverVars, clicks>>

\* A registration that succeeds sets a timer, which opens login.html.
AfterRegister(s) ==
  /\ Landing(s, {"register"})
  /\ calls' = IF calls[s].answer.ok THEN [calls EXCEPT ![s].op = "timer"] ELSE Drop(s)
  /\ UNCHANGED <<serverVars, pageVars, clicks>>

ToLogin(s) ==
  /\ Landing(s, {"logout", "timer"})
  /\ Navigate(Drop(s), calls[s].page, "login")
  /\ UNCHANGED <<serverVars, clicks>>

\* A request or an answer is lost: fetch throws, and nothing after it runs.
Lose(s) ==
  /\ calls[s] # NoCall /\ calls[s].op # "timer"
  /\ calls' = Drop(s)
  /\ trouble' = [p \in Pages |-> IF p = calls[s].page THEN trouble[p] \cup {"lost"} ELSE trouble[p]]
  /\ UNCHANGED <<serverVars, at, signed, rows, editing, drawn, clicks>>

-----------------------------------------------------------------------------
User(p) ==
  \/ \E document \in Documents : Visit(p, document)
  \/ SubmitLogin(p) \/ SubmitRegister(p) \/ ClickLogout(p)
  \/ \E title \in Titles : SubmitCreate(p, title)
  \/ \E row \in RowOf(p) :
       \/ ClickDelete(p, row) \/ EnterEditMode(p, row) \/ ClickCancel(p, row)
       \/ \E title \in Titles : ClickSave(p, row, title)

Progress(s) ==
  \/ ServeChange(s) \/ ServeOther(s)
  \/ Draw(s) \/ Reload(s) \/ Guard(s) \/ AfterLogin(s) \/ AfterRegister(s) \/ ToLogin(s)

Next ==
  \/ \E p \in Pages : User(p)
  \/ \E s \in Slots : Progress(s) \/ Lose(s)
  \/ SessionEnds

Spec == Init /\ [][Next]_vars

\* While calls are under way, some call is served or its answer lands: less than
\* that each of them does, and enough for PagesRest.
FairSpec == Spec /\ WF_vars(\E s \in Slots : Progress(s))

-----------------------------------------------------------------------------
(* Properties *)

Idle(p) == Under(calls, p) = {}

\* A page at rest shows every change its user made on it, before a reload or after,
\* unless one of its calls was lost or two loadItems overlapped (app.js:61).
OwnChangesShown ==
  \A p \in Pages :
    at[p] = "index" /\ Idle(p) /\ trouble[p] = {} => drawn[p] >= own[p]

\* What a user edits or deletes is the item the row showed, however old the row is,
\* except where insert may hand out the id again: once all records from that id on
\* are removed, the last of them last or not (json_store.h:43, app.js:53).
RowsNameItems ==
  LET Shown == (UNION {RowOf(p) : p \in Pages}) \cup
               ({calls[s].row : s \in {t \in Slots : calls[t] # NoCall}} \ {NoRow})
  IN \A row \in Shown, i \in DOMAIN items :
       items[i].id = row.id => items[i].doc.birth = row.doc.birth \/ row.id \in freed

\* A dashboard at rest has found a session, or lost the call that asks for it: no
\* order of answers keeps it open without having asked.
DashboardGuarded ==
  \A p \in Pages : at[p] = "index" /\ Idle(p) /\ "lost" \notin trouble[p] => signed[p]

\* When the users stop, the pages come to rest: no page sends another back and forth.
PagesRest == <>[](\A p \in Pages : Idle(p))
=============================================================================
