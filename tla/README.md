# CruddXwebb in TLA+

A TLA+ model of the CruddXwebb web application (`src/CruddXwebb`), the TLC
configurations that check it on small instances, and proofs, checked by TLAPS,
of what holds for every instance. References such as `json_store.h:43` are to
files under `src/CruddXwebb/`.

## 1. The system

CruddXwebb is one process. It serves a page, accounts with login sessions, and a
REST interface to a table of items, over HTTP with Boost.Beast. The rest of
`src/` is vendored (Boost, nlohmann json under `packages/`) or built (`x64/`).

| Component | Source | State it keeps | Operations |
|---|---|---|---|
| JsonStore | `json_store.h` | a JSON file, a mutex | constructor, all, save_all, insert, find_by_id, update, remove, find_if |
| SessionManager | `session_manager.h` | map from token to user and time of creation, a mutex, a random generator | create_session, username_for, destroy_session |
| Handlers, router, connection loop | `CruddXwebb.cpp` 47-392 | two stores and one session manager, as globals; per connection a socket and a buffer | the routes below `/api/`, static files, read and write of messages |
| ThreadSafePool | `Include.h` | task queue, mutex, condition variable, atomic `stop`, workers | constructor, enqueue (with a future), destructor |
| ThreadPool | `ThreadPool.h` | the same without atomic and destructor, and a second queue of items | constructor, enqueue, push, pop, try_pop, empty |
| main | `CruddXwebb.cpp` 522-572 | both pools, the acceptor | start-up tasks, accept loop, fatal-error path |
| Frontend | `public/js/*.js`, `public/*.html` | rows on the page, fields being edited | load, create, update, delete, session guard, logout |
| Parsing | `CruddXwebb.cpp` 56-121, 296-330 | none | get_cookie, mime_type, path and id |
| SHA256 | `sha256.h` | none | hash |
| Logger, CrashFactory, unused functions | `CruddXwebb.cpp` 394-519 | none that matters | console output |

How they interact. `main` starts the pools, waits for two futures, and then
starts one detached thread per accepted connection. That thread runs
`handle_connection`: read a request, `route()` it to a handler, write the
response, until an error, an exception, or `Connection: close`. A handler calls
the global `g_users`, `g_items` and `g_sessions`. Each of these objects locks
its own mutex in each call, and no lock spans two calls. The browser calls the
routes and holds the session token as a cookie. The pools take no part in
serving.

What is hard about it:

* the stores rewrite a whole file for each change, and truncate it first;
* a handler makes several calls, and other connections run between them: lookup
  and insert in `register`, lookup and `create_session` in `login`, session
  check and change in the item routes;
* failures are silent: a failed read is an empty table, a failed open or write
  is reported to nobody, a response that cannot be written leaves its effect
  behind, an exception closes a connection or becomes "invalid id";
* a restart loses the sessions and keeps the files and the browsers' cookies;
* the pools' workers and enqueuers meet at a condition variable, and the
  destructor sets `stop` without the mutex; the second pool has no destructor;
* a page's calls are served and answered in any order, and every row on it may
  be older than the table.

What makes each component correct:

* JsonStore: calls are atomic; ids are unique; no call undoes another; what was
  confirmed is in the file; the mutex is always released.
* SessionManager: a token answers with its user until it is destroyed or twelve
  hours old, whoever asks and whenever.
* Server: sessions are those of the logins; changes need a session that was good
  when the request arrived; accounts are stable under the sessions that name
  them; the number of items agrees with what clients were told; no client that
  stops reading keeps the others' requests from being handled.
* Pools: no task is lost, doubled, overtaken, stranded or taken from an empty
  queue; every accepted task ends; the destructor drains the queue and returns.
* main: the port opens after the start-up tasks; a fatal error takes the pools
  down in order and ends the process.
* Frontend: a page shows the changes made on it, an edit changes the item its
  row shows, the dashboard stays open only for a session, pages come to rest.
* Parsing: the session cookie is found among all others, an id names the item
  it was sent for or is refused.
* SHA256: the hash is SHA-256 for every length of a password.

## 2. The modules

| Module | What it is |
|---|---|
| `JsonArray` | the value of a table and what each operation computes from it, as operators |
| `Table` | abstract specification of a store: every call takes effect in one step |
| `JsonStore` | a store with its threads, mutex, file and faults; implements `Table` |
| `LiveSessions` | abstract specification of the session table: sessions vanish when they expire |
| `SessionManager` | the session table with lazy expiry; implements `LiveSessions` |
| `Server` | handlers, router and connections, composed of `JsonArray` and `SessionManager` |
| `TaskService` | abstract specification of the pool: tasks are accepted, started and ended |
| `ThreadSafePool` | workers, enqueuers and destructor at mutex and condition variable; implements `TaskService` |
| `ThreadPool` | the task queue of the pool without destructor |
| `Lifecycle` | `main`, composed of `ThreadSafePool` and `ThreadPool` |
| `Frontend` | the pages in a browser's tabs, their calls and the table they show; uses `JsonArray` |
| `Parsing` | `get_cookie` and the id of a target, as operators on text |
| `Requests` | the headers and targets that clients write for `Parsing`, beside what they mean |
| `Sha256` | the hash, one action per pass of a loop |
| `MC...` | constants for TLC |
| `...Proofs` | theorems and proofs |

**JsonArray.** A record is its member `id` and `doc`, the rest of the object, a
function from keys to values. `Inserted`, `Updated` and `Removed` are the bodies
of insert, update and remove; `Outcomes(a, c)` is what call `c` makes of array
`a` and returns. Loops appear as the property of their result, so that the
operators can be proved about: `NextId` is the number that is 1 or one past an
id, and past all of them, which is what the loop at `json_store.h:43-46` leaves;
`Removed` runs through the increasing enumeration of the indices that are kept.

**JsonStore.** One action per step that another process or a crash could see:
`Lock`, `ReadLocked`, then `ReturnUnwritten`, or `Throw`, or `Truncate` and
`WriteLocked`. `Throw` is an update whose patch is no object (`NotObject`):
`it.key()` throws once the record is found, the array in hand is lost and the
lock guard releases the mutex.
The truncation is a step of its own because `std::ofstream` with `trunc` empties
the file when it is opened (`json_store.h:120`) and the content follows when it
is written and flushed. The file is an array or `Torn`, which reads as the empty
array, as an empty or half-written file does. `Faults` says which failures
occur: `ReadFails` (`in.good()` is false), `OpenFails`, `WriteFails`, `Crash`.
History variables: `promised`, the array the last returned call left as far as
its caller was told, and `inserts`, for the bound.

**SessionManager.** Each operation holds the mutex throughout and reads the
clock inside it, so each is one action. `UsernameFor` is the only one that
removes an expired session. `generate_token` (`session_manager.h:55`) is a
choice of any token, tokens in use included.

**Server.** One action per call of a handler on a store or on the session table,
with what the handler does before the next call; `pc` says which call is next.
The operations on data are those of `JsonArray`, the steps on sessions those of
`SessionManager`. `Receive` is `http::read` of a request with a cookie the
clients have received (or none), `Send` and `SendFails` are `http::write`,
`Drop` is the end of a connection by an exception. `Crash` is the death of the
process and its restart. A store call is atomic here, which
`StoreImplementsTable` justifies as long as nothing fails; what a crash adds, an
emptied file under a call that writes, is in `Crash`. Reads, opens and writes of
the files that fail while the process lives are in `JsonStore` only. Headers,
wording of messages and MIME types are left out. The password hash is an
arbitrary function, cookie and id come parsed. A connection that ends and one
that starts make no difference to the shared state, so a thread that goes back
to `idle` stands for both. Assumption: `create_session` gets a token that was
never issued before. Each token comes from a generator that is seeded with one
32-bit value (`session_manager.h:54-60`), so this is likely, not certain;
`SessionManager` itself is checked and proved without it, and says what happens
on a collision: the token belongs to the user it was issued to last. History
variables: `issued`, `revoked`, `late`, `balance`.

**ThreadSafePool.** One action per step between two scheduling points: taking
the mutex, evaluating the predicate, going to sleep (which releases the mutex),
being woken, taking a task, running it, and for enqueue taking the mutex,
pushing, notifying. That the predicate and the sleep are two steps matters: the
worker holds the mutex in between, but the destructor does not take it. The test
of `stop` in `enqueue` and the push (`Include.h:84-85`) are one step,
`EnqueuePush`, placed at the test: `stop` may be set between the two, but the
queue is read and written only under the mutex, which is held across both, so
nobody sees whether the push came before or after. A task may enqueue a task
(`Child`); `EnqueueRefused` is the exception of `enqueue` on a stopped pool,
which ends in that task's future. A task may throw (`Throwing`); its future then
holds the exception. Clients enqueue their programs and then wait for their
futures (`Waiters`, as `main` does at `CruddXwebb.cpp:527-531`) or drop them.
Assumption (`WaitedForReturn`): no task that is waited for throws. `main`'s two
only print, and its `get()` calls stand outside the `try`: an exception there
would leave `main` and end the process, with no destructor to speak of. The
destructor runs when the clients are done.

**ThreadPool.** Here every access to the queue is under one mutex, and the
predicate and the sleep cannot be separated by a change, so a critical section
is one action: `Wait`, `Take`, `Enqueue`; `Finish` and `Notify` are outside it.
Its item queue (`push`, `pop`, `try_pop`, `empty`) is left out: the program
instantiates none of these members, and `empty` would not compile (it locks a
mutex that is not `mutable` in a `const` member).

**Lifecycle.** `main` with both pools, `stage` saying how far it is: the two
futures, the tasks of the second pool, the acceptor (which may throw), the
accept loop (which may throw), and the catch block. There `return 1` destroys
`poolv2`, whose destructor is that of `ThreadSafePool`, and then `pool`, whose
joinable threads make their destructors call `std::terminate`: `Abort`. The
value 1 reaches nobody. Before the threads, `pool`'s condition variable is
destroyed under workers that sleep on it, which is undefined behaviour: with
MSVC nothing happens, with glibc the destruction waits for the sleepers, whom
nobody wakes (`WaitForSleepers`, stage `"stuck"`). The model takes either.
Threads and memory that cannot be had during start-up are left out.

**Frontend.** One browser with several tabs, which share the cookie. A `fetch`
is a record in `calls`: sent by a page, served at some time (one step on the
table or the session, by `Outcomes` and `session`), landed at some time, or lost
at any time. Clicks send calls; what follows an `await` is the action that takes
the answer: `Draw` (the rest of `loadItems`), `Reload` (after create, update and
delete, whatever the status), `Guard` (the rest of `guardPage`), `AfterLogin`,
`AfterRegister` (with its timer), `ToLogin`. `Navigate` replaces a page's
document: its calls may still reach the server and their answers reach nobody.
`document` is `"index"`, `"login"` or `"register"`. An item has a member `birth`
in the model, its number among all items, which tells items of one id apart.
History variables: `version`, `own`, `drawn` (versions of the table), `freed`
(ids that `insert` has come to hand out a second time), `births`, `trouble`.

**Parsing.** Text is a sequence of characters. `GetCookie` is the loop over the
pieces between `;`, `Stoi` is `std::stoi` with `MaxInt` for the largest int,
`IdOf` what `route` makes of a target. As in `JsonArray`, a loop appears as the
property of its result: `Hits` are all the pieces that would be returned, and
the loop returns the least. `Numeral` is a recursive function.

**Requests.** A browser's cookies and the `Cookie` header it makes of them,
which grows by one cookie (`AddCookie`), and the number in `/api/items/${id}`,
which grows by one digit (`AddDigit`). So what is read can be compared with what
was meant, and a proof goes by steps where it would go by induction. The
assumptions on names and values are those of the cookie syntax of browsers: a
name is not empty and holds no `=`, a value may hold one, neither holds `;`; a
cookie without a name is sent as its value alone.

**Sha256.** `buffer`, `h`, `w` and the working variables; a word is a pair of 16
bit halves, so that every sum stays in TLC's integers. `Chunk`, `Extend`,
`Round` and `Accumulate` are `transform`, `Pad` is the padding in `hexdigest`.
The two bytes of length suffice below 2^13 bytes.

## 3. What the runs check

Passing runs:

* **`store_atomic`** (two threads, nine calls of all seven operations, three
  initial files, no faults). `ImplementsTable`: the interleaved store is
  `Table`, with the array its last returned call left as the abstract table.
  `Durable`: between operations the file is what callers were told.
  `MutexReleased`: whoever has the mutex gives it back, early returns and the
  exception included.
* **`store_faults`** (the same, with every fault). `IdsAscending`: ids in the
  file and in every local copy strictly ascend, so `next_id` is fresh and update
  and remove hit one record, even over torn files, failed writes and restarts.
  `SnapshotCurrent`: from read to write the file stays what was read (or the
  read failed), so a whole-file write undoes nobody's change.
* **`sessions`** (two threads, three tokens, two users, lifetime 2, clock to 5,
  tokens may repeat). `ImplementsEager`: lookups answer as if sessions vanished
  the instant they expire, at the boundary of `>` (`session_manager.h:38`) too.
* **`server_accounts`** (two connections, two users, two passwords and a short
  one, invalid bodies, two tokens, restarts). `SessionsMatchHistory`: the live
  sessions are those issued and not since logged out, expired or lost in a
  restart, each for its user. `SessionsHaveAccounts`: even after a crash that
  empties the users file, no session is left without its account.
  `LoginMatches`: the password that was checked is still that of the account
  when the session is created. `UsersOnlyGrow`.
* **`server_items`** (two connections, one user, one item, good, untitled,
  ill-typed and non-object bodies, valid, unknown and unparsable ids, restarts).
  `ActsAsLoggedIn`: a change acts for the user of its cookie, which was good
  when the request arrived. A request whose check came before a logout may still
  act after it; one that arrives after it may not. `ItemsBalanced`: items are
  those that were there, plus one per 201, minus one per 200 of a delete; that a
  delete is one step, so that of two racing ones one succeeds, is taken from
  `ImplementsTable`. `RequestsHandled`: once no more requests arrive, each that
  did comes to its response or to the end of its connection, even if no
  `http::write` ever returns. A store that stayed locked until the response is
  written (`DeleteLocked`) would break it.
* **`pool`** (three workers, two clients, four tasks of which one enqueues
  another, which throws). `FrontExists`: a worker past its wait finds a task or
  leaves, though the one it was woken for may have gone to another: what
  predicate and mutex are there for. `NoStrandedTask`: a task that waits while
  all workers sleep has a notification coming. `DestroyedIsDrained`.
  `ImplementsService`: the pool is `TaskService`, so tasks start in the order
  they were accepted in, none lost or doubled (`TasksAccounted` says that of the
  history, and is proved), nothing is accepted once `stop` is set, a future is
  set by its own task alone, and nothing is left when the destructor returns.
  `TasksEnd`. `DestructorReturns`: the destructor returns if no worker was
  between its predicate and its sleep when `stop` was set. `NoneLeftAsleep` is
  the part of that which is safety: under the same condition no worker sleeps
  from `notify_all` on. Without that condition the destructor may never return:
  the worker saw `stop` false, misses `notify_all`, and sleeps for ever
  (`Include.h:91-97`). Nothing in the repository promises otherwise, so this is
  a hazard of the list and not a finding.
* **`lifecycle`** (two workers in each pool, two tasks for each, two
  connections). `PoolTasksAccounted`, `NoStrandedPoolTask`, `PoolTasksRun`: the
  second pool's tasks run in order, once each, and no notification is lost.
  `ServesAfterTasks`: the port is open only after the futures are ready.
  `StartsUp`: `main` gets there. `AbortsOrderly`: when the process is
  terminated no worker of `poolv2` is left. `FatalErrorEnds`: after a fatal
  error the process does end, or is stuck in the condition variable of `pool`,
  with the exception named at `pool`.
* **`frontend`** (two tabs, three clicks, three calls under way, two items at
  first, one title to type, start at the login page or at a dashboard at rest).
  `OwnChangesShown`: a page at rest shows at least the changes made on it, if no
  call of it was lost and no two of its `loadItems` overlapped; when they do
  overlap, the older answer may stay on the page. `RowsNameItems`: what a row
  edits or deletes is the item it showed, except where the id may have been
  handed out again. That is so for every id above the largest one left, not only
  for that of a removed last record: with two items, the first removed and then
  the second, both ids come back. `DashboardGuarded`: whatever the order of
  answers and navigations, a dashboard that stays open has found a session or
  lost the call that asks. `PagesRest`: pages do not send one another back and
  forth.
* **`algorithms`** (ten messages; headers of up to three cookies of two names,
  one the end of the other, and of none; ids of up to three digits with `MaxInt`
  127; three tails). `DigestMatches`: the digests are those of another
  implementation, of lengths on both sides of 56, 64 and 120 bytes, and one is a
  hash in `data/users.json`. `CookieFound`: `get_cookie` returns the first
  cookie of the name in every header as browsers write them. `IdRoundTrips`: an
  id comes back from a target with a query or a tail, negated behind a `-`, one
  out of the range of int is refused, and so is a target without a number.

Runs that end in a violation, each a difference between the code and what the
repository says of it:

* **`store_crash`**: death between the truncation and the write leaves an empty
  table; `CruddXwebb.cpp:6-7` calls the files the persistence layer.
* **`server_register_race`**: two registrations of one name interleave between
  `find_if` and `insert` and both succeed; the second client is told "account
  created" for a password no login will accept; `CruddXwebb.cpp:176` says a name
  is taken once.
* **`server_open_reads`**: the two GET routes ask for no session;
  `CruddXwebb.cpp:9-11` calls the interface session-protected.

More behaviours are in the models and forbidden by nothing in the code: a call
whose open or write fails is answered like a success; a read that fails makes
the next insert replace the whole table; ids above the largest one left are
handed out again; an item that is refused with 401 is gone from the form; a
redraw ends the editing of every row; a second click before the answer creates
an item twice.

**Bounds.** `MaxInserts` (2 inserts per behaviour), `MaxId` (records up to id 2
or 3), `MaxNow` (last tick), and the constant sets. Two threads are enough for
every lost-update or check-then-act order, since each needs one interferer; the
third worker lets one sleep, one run and one exit. Two inserts on arrays of up
to two records give every case of `next_id` (empty, gap, after a removal). A
lifetime of 1 or 2 ticks has a tick before, at and after expiry; `server_items`
uses lifetime 0 and one tick for a session that is good and then is not. Two
tokens serve a login on each connection, or one before and one after a restart.
`server_accounts` uses symmetry over threads and tokens; it checks no liveness.
`MaxServed` (connections) says only that the loop goes round. `Slots` (calls
under way, 3) and `MaxClicks` (3) let a change and its reload, or the two calls
of a dashboard that opens, meet another page's change; three clicks are delete,
create and a row of the other tab, which is what `RowsNameItems` needs.
`MaxCookies`, `MaxDigits` and `MaxInt` are those of `algorithms`: `MaxInt` is
scaled down so that three digits pass both ends of the range and twice the
range; three cookies put the one that is looked for first, last and between.

**Fairness.** `JsonStore!FairSpec`: a thread inside an operation takes its next
step (ordinary statements and file calls, no waiting). `Server!FairSpec`: while
threads are inside handlers, one of them goes on, nobody in particular: the
holder of a store's mutex waits for nobody, but who gets it next is open. So a
thread could starve while requests keep coming, and `RequestsHandled` is about
behaviours in which they stop. Nothing is assumed of `http::write`, which is
synchronous and has no timeout (`CruddXwebb.cpp:383`), so that a client that
does not read stops its thread there for good; nor of clock or crashes.
`ThreadSafePool!FairSpec`: every thread runs, tasks end, and spurious wakeups do
not go on for ever; nothing of who gets the mutex or whom `notify_one` wakes.
`Lifecycle!FairSpec`: `main` and the workers of both pools run and spurious
wakeups end; nothing of clients and failures, for which `accept` may wait for
ever. `Frontend!FairSpec`: while calls are under way, some call is served or its
answer lands; nothing of users, of losses or of the session's end.
`CHECK_DEADLOCK FALSE` where the system really stops: `pool` and `lifecycle`,
whose pool and process end (or hang as described above), `frontend`, whose users
stop at the bound, and `algorithms`, whose inputs end.

## 4. What is proved

The proofs are for every value of the constants: any number of threads, any
calls, documents, initial files, tokens, lifetimes, workers and programs.

* `JsonArrayProofs`: `OutcomeOf`, by way of `NextIdAbove`, `InsertedAscending`,
  `UpdatedAscending`, `RemovedAscending`: on an ascending array every operation
  gives an ascending array and a typed reply.
* `JsonStoreProofs`: `IInv` is `TypeOK`, `IdsAscending` and `Exclusive` (who is
  inside an operation holds the mutex and has a call of the interface).
  `Exclusive` is what makes it inductive: without it two threads could be
  between read and write, and nothing is known of the array a thread is about to
  write. From it `TypeCorrect`, `IdsAscendingAlways`, and with one step more
  `SnapshotCurrentAlways`, under every set of faults. `DurableWithoutFaults` and
  `StoreImplementsTable` assume `Faults = {}`; their invariant `Faithful` adds
  that the file is torn only under a writing thread, whose local array is the
  promised one.
* `SessionManagerProofs`: `SessionTypes`; `LazyImplementsEager`, one lemma per
  action: a lookup that erases an expired session changes nothing in `Live`, a
  tick drops from `Live` what it makes expire.
* `ThreadSafePoolProofs`: `Control` (the mutex is held exactly at the points
  that hold it, an enqueuer has a task in hand, a worker has one exactly while
  it is inside `task()`) gives `PoolTypes` and `TasksAccountedAlways`, and
  `FrontExistsAlways`: from its predicate to its pop a worker holds the mutex.
  `NoStrandedTaskAlways` needs `Blocking`: a worker about to sleep holds the
  mutex, so the queue it saw empty still is. `DestroyedIsDrainedAlways` needs
  `Exits` (a worker leaves a stopped, empty pool), `Lifetime` (how far the
  destructor is), `Pending` (an unready future's task is in the queue or in a
  worker's hand) and `Known`. `PoolImplementsService`: of the threads' steps
  four are steps of a worker or an enqueuer in `TaskService` (`Take`,
  `EnqueuePush`, `FinishTask`, `EnqueueRefused`) and two are the destructor's
  (`SetStop`, `Join`); the others change nothing that it sees. `Join` needs
  `Exits`: a worker that has exited saw `stop` and an empty queue, and both
  stay. A refused enqueue needs `Spawned`: what a worker enqueues is its task's
  child, so the exception in the task's future is one that task may end with.
  These three theorems assume that there is a worker: `nth` may be 0
  (`Include.h:28`), `main` passes 4. `NoneLeftAsleepAlways` needs no such
  assumption: `Notified` (`stop` is set, no worker is between its predicate and
  its sleep, and none sleeps once `notify_all` has run) is preserved because the
  predicate sends nobody to sleep under `stop`, and `stop` is set once
  (`Lifetime`).

* `ServerProofs`: `IInv` is `Stores` (both tables typed and ascending, every
  user named, as many items as clients were told), `Table` (a session is one
  that was issued and not revoked, for its user), `SessionsHaveAccounts`, and
  `Connections`, which says of each thread: `Routed`, the request it handles is
  of the kind its `pc` belongs to, and its body has been checked as far;
  `Known`, the tokens of request and response were issued; `Late`, a cookie that
  was revoked or expired on arrival still is; `Acting`, past the session check
  it acts for the user its cookie was issued to, and the cookie was not late;
  `Checked`, between password check and `create_session` the user that was found
  is still the one `find` gives for the name, with the same hash. Without
  `Checked` nothing is known of the account a new session is for; it is stable
  because insert appends and nothing else changes `users` (`UsersGrow`, the
  action property) but a crash, which ends every request. Assumed: the users
  file at the start was written by this program, so its records have names (not
  that names are unique, which `server_register_race` refutes); the lifetime is
  a natural number; and the user that stands for "none" is no user's name.
* `LifecycleProofs`: `poolv2` is a `ThreadSafePool`, and `PoolV2Implemented`
  says so: every behaviour of `Lifecycle`, seen through `poolv2`, is one of that
  specification with `main` as its only client. So the invariants of
  `ThreadSafePoolProofs` are taken over by `INSTANCE`, not proved again. On top
  of them: `Calm` and `Got` (these tasks neither enqueue nor throw, and `main`
  is done with its futures only when each has its value), `PoolInv` (the tasks
  of `pool` start in the order of their enqueue, each once, and a notification
  is coming when one waits for sleepers), `Enqueued` and `Progress` (how far
  `main` is, and what it has finished by then). Assumed, as `main` has it:
  `pool` has workers, and every task of `poolv2` is one that `main` enqueues and
  waits for.
* `FrontendProofs`: `IInv` is `Typed`, `RowsNamed` and, per page, `Guarded` and
  `Owns`. `RowsNamed`: every row, on a page, in a call or in an answer under
  way, names its item or has a freed id, and has no id above the largest in the
  table: the last part is what excludes that `insert` gives a row's id to a new
  item unnoticed. `Guarded` and `Owns` say what a dashboard that is not yet
  right still waits for: the answer to its check; a change that will make it
  reload, or a list that is at least as new as its last change. `Typed` counts
  the requests to create that are under way, because each takes a number
  (`birth`) of its own. The proof of `RowsNameItems` failed at first: with only
  the ids of removed last records in `freed`, which one item at the start could
  not tell apart, the property was false. `freed` and the run are corrected.
* The lemmas these use are in `JsonArrayProofs`: `InsertOutcome`,
  `UpdateOutcome`, `RemoveOutcome` (what the calls return and how long the array
  is after them) and `FirstOfAppended` (a lookup that finds a record finds the
  same one after an append).

* `RequestsProofs`: for headers of any number of cookies and ids of any number
  of digits. `CookieFoundAlways`: the invariant `HeaderRead` says that a name
  has a hit among the pieces of the header exactly if the browser holds a cookie
  of it, and that the first hit has the first such cookie's value. One more
  cookie leaves the pieces before it (`PiecesStay`), is one piece more
  (`NewPiece`, with the space that `TrimOne` says is trimmed), and as the
  largest of the places where pieces begin it is no earlier hit (`MinStays`).
  `IdRoundTripsAlways`: the invariant `NumberWritten` says that there is a
  function of the kind `Numeral` chooses for the digits so far, and that it ends
  in the id; one more digit extends it by one place. That the function chosen is
  that one is `SummedOnce`: of two there would be a first place at which they
  differ. The rest is where `?`, a sign and the first character that is no digit
  cut the text (`TargetCut`, `DigitsAhead`). Assumed of the constants: the
  syntax of names and values, and that no tail goes on with the number or is one
  (`TailsTyped`).

The assumptions are those named `ASSUME` in the modules; TLC evaluates them in
the passing runs. `StoreImplementsTable` and the mutual exclusion it rests on
are what lets `Server` treat calls as single steps.

Each of these invariants held in a run of TLC before it was proved, with
`Numeral(digits) = id` in the place of `NumberWritten`, whose quantifier TLC
cannot evaluate. Every invariant and every safety property of the passing runs
is a theorem now, the refinements included, but for one. Only model-checked:

* `DigestMatches`: `Sha256` uses `Bitwise`, which the prover cannot read, and
  the property is about the digests of ten messages, not about all of them.
* Liveness: `MutexReleased`, `RequestsHandled`, `TasksEnd`, `DestructorReturns`,
  `StartsUp`, `PoolTasksRun`, `FatalErrorEnds`, `PagesRest`. The rule for
  fairness needs `ENABLED`, which the prover does not support.

What a recursive definition computes is proved where a state machine builds its
argument step by step (`Numeral`); the induction theorems of the library, which
take an operator as a parameter, are not used. `JsonArray` and `Parsing` state
what loops result in.

## 5. What is not modelled, and what is left

Everything of the program that keeps state is modelled, but for the item queue
of `ThreadPool`, for the reason given there. Left to do, should the program
change: a request to a store that fails while the process lives, in `Server` as
it is in `JsonStore`; the item queue, if it comes into use; the progress of a
thread inside a handler, if handlers come to loop.

Left out for good: `mime_type` and the reading of static files (a table and a
read without state; `Server` leaves open whether the file is there), `Logger`
and `CrashFactory` (console output), `readLargeFile`, `readChunk`, `javaExceute`
(never called), HTTP parsing and sockets (Boost.Beast), markup and stylesheet,
project files, vendored and built files. Ids are unbounded in the store's
models: `next_id` would overflow after some two thousand million inserts. Races
that would be undefined behaviour are excluded by the mutexes of the modelled
classes, which the models show step by step, but for the one named under
`Lifecycle`.
