# JustQueueIt in TLA+

JustQueueIt is a task queue in C++: an HTTP server that keeps tasks in memory.
These modules model the whole of its run-time behaviour, from the mutex of the
storage to the sessions of the server, check it with TLC on small instances and
prove with TLAPS, for every value of the constants, that the storage implements
its contract and every safety property of every part and of the whole that the
runs check.
Paths below are relative to the repository (`src/libraries/...`, `src/apps/...`).

## 1. The system

```
   owner thread                      worker threads (io_context::run)
  ┌─────────────┐  started flag  ┌──────────────────────────────────────┐
  │ StartServer │ <───────────── │ DoListen ──co_spawn──> DoSession ... │
  │ StopHandler │ ──stop, join─> │                            │         │
  └─────────────┘                └────────────────────────────┼─────────┘
                                              PrepareResponse │ (no co_await)
                                                              v
        Router::Route ──> typed adapter ──> task route ──> TasksManager
                                                              │
                                                              v
                                   DataStorage <── InMemoryStorage (shared_mutex)
```

| Component | Code | State | Operations | What makes it correct |
|---|---|---|---|---|
| DataStorage interface | `backend/data_storage/interface` | the set of tasks, the next id | CreateTask, GetTask, GetTasks, DeleteTask | a call takes effect at one instant between invocation and return; ids are handed out in order and never again |
| InMemoryStorage | `backend/data_storage/in_memory_storage`, `backend/interface/task` | `m_tasks` sorted by id, `m_id`, `m_mutex` | the same four | implements the contract under any interleaving and any exception; the vector stays sorted, which `lower_bound` needs |
| TasksManager | `backend/tasks_manager` | a pointer to the storage | forwards the four | adds nothing |
| Router | `rest/router` | `m_routes`, an unordered map from paths to handlers by method | AddRoute, Route | a request is answered by the last handler registered for its path and method, with the parameters of its path |
| Typed route adapter | `rest/router/rest_router.hpp` | none | deserialize, call, serialize | what failed decides the status; an effect is not lost silently |
| Task routes | `backend/server` | none | four handlers | the id that is deleted is the one in the path |
| Sessions | `rest/server` (DoSession, PrepareResponse, CreateResponse), `rest/core` | stage, request, response and deadline of each connection | read, route, respond, write, expire, fail | each request gets one answer, which tells what happened, unless memory runs out or the peer is gone; a silent peer does not hold a session |
| Server lifetime | `rest/server` (StartServer, DoListen, StopHandler) | threads, io_context, `started` | StartServer, Wait, Stop, destructor, listen, accept | Stop joins every thread; nobody waits for ever; no joinable thread is destroyed |
| Backend application | `apps/backend` | none | main | main returns only when the server has ended, and then it does; what can end it by `std::terminate` |
| utils | `utils` | none | compile-time traits, ENSURE | not modelled |
| Build, packaging, CI | `CMakeLists.txt`, `conanfile.py`, ... | none | none | not modelled |

How they interact.  The owner calls `StartServer`, which fills a router, posts
the listening coroutine to an `io_context` and starts threads that run it; the
owner then waits on the atomic `started`.  Each accepted connection becomes a
coroutine of its own.  A coroutine moves between threads, but only at a
`co_await`: preparing a response, from routing to the storage call, is one
uninterrupted stretch on one thread, and the threads meet at the storage's
mutex.  The router is shared and read-only once the server runs.

What is hard here, and hard to test:

- *Interleavings* of storage calls, with the second access to the vector in
  each call relying on what the first one found (`back()` after `emplace_back`,
  `erase(itr)` after `lower_bound`), and a copy that goes through all of it.
- *Failure in the middle*: `m_id++` before an allocation that may throw; a
  result that cannot be copied, serialized or sent after the effect; memory that
  runs out in one of the many copies around the handler, inside a `try` or
  outside of every one; listening, accepting or starting a thread fails.
- *Ordering*: `started` is stored, notified and waited for by two threads; Wait,
  Stop and the destructor in any order with the `io_context` running dry; the
  unspecified iteration order of the routing table.
- *Timeouts*: one deadline per request for the read and the write together.
- *Numeric edges*: `m_id` wraps; `std::stoull` accepts `1x` and `-2`.

`PROJECT.json` lists every such hazard at its line with the properties that
would catch it, and says so where none does.

## 2. Modules

| Module | Models |
|---|---|
| `DataStorage` | the contract of the storage, as an abstract specification |
| `InMemoryStorage` | the storage as written, lock by lock and access by access |
| `InMemoryStorageProofs` | its theorems, and that it implements the contract |
| `StorageTest`, `StorageTestProofs` | the storages' unit test, run by one caller of `InMemoryStorage` while others read; its theorems |
| `Router`, `RouterProofs` | the routing table being filled, and Route; its theorems, those about the unit test too |
| `QueryString`, `QueryStringProofs` | ParseParams on characters, and what a query means; that the two agree |
| `RouterTest` | the routing cases of the router's unit test, as data for `Router` |
| `Backend`, `BackendProofs` | composition: sessions, PrepareResponse, `Router!Route` with the real four routes, the handlers, and `DataStorage`; its theorems |
| `SessionDeadline`, `SessionDeadlineProofs` | one connection and the timer of its stream, which is a job beside the session; its theorems |
| `ServerLifetime`, `ServerLifetimeProofs` | threads, io_context, coroutines, started flag and StopHandler; its theorems |
| `Server` | composition of `ServerLifetime` and `Backend`: the sessions are the coroutines |
| `Programs` | the programs that use the server, on top of `Server`: main of the application, and the server's unit test |
| `ServerProofs` | the theorems of `Server` and `Programs` |
| `MC...` | instances for TLC: symmetry sets and the inputs |

How they compose.  `Backend` uses the storage through its contract
`DataStorage`, and `InMemoryStorage` is shown to implement that contract; so
`Backend` need not carry the mutex.  `Server` has an instance of `Backend` and
one of `ServerLifetime` and moves both at once: a session reads, prepares its
response and writes only while a thread runs its coroutine, it suspends where
the code has a `co_await`, and its end is the end of the coroutine.  Each of the
two parts makes an assumption about the other when it is checked alone, and
`Server` checks both (`ViewsAgree`): `Backend` counts its busy sessions instead
of having threads, and `ServerLifetime` lets a coroutine suspend or end whenever
it runs.

### InMemoryStorage

`m_tasks`, `m_id` are the members of the same name.  The `shared_mutex` is the
two sets `exclusive` and `shared` of those who hold it.  Each call goes through
`pc`: `lock` (waiting in the guard's constructor), `body` (first access), `tail`
(the access that depends on it), `unlock` or `unwind` (leaving with a result or
with an exception), back to `idle`.

| Action | Code in `in_memory_storage.cpp` |
|---|---|
| `LockExclusive`, `LockShared` | the guard's constructor: `std::lock_guard` in CreateTask, DeleteTask **and GetTask**, `std::shared_lock` in GetTasks |
| `EmplaceBack` | `m_id++` and `emplace_back`; if copying or growing throws, the id is spent and nothing appended |
| `CopyBack` | `return m_tasks.back()` |
| `Find` | `lower_bound` and the test of its result, one access; a vector that is not partitioned gives any position |
| `Erase`, `CopyItr` | `erase(itr)`, `return *itr` |
| `CopyNext` | the vector's copy constructor in GetTasks, one task per step |
| `CopyThrows` | copying a task to the result throws |
| `Return` | the guard's destructor |

`m_id` counts modulo `IdRange` (2^64 in the build).  `taken` is a history
variable, how often it was incremented; `NoWrap == taken <= IdRange` says that
it has not handed out an id twice.  `MaxCreates` bounds `taken` where a
CreateTask is invoked; calls already under way may go past it.

### DataStorage

Tasks are a set, ids come from an unbounded counter, and every call has one step
in which it takes effect.  `Fail` and `Lose` are the two things an exception may
mean: nothing happened (an id may be spent), or the effect stays and the result
is lost.  The refinement mapping in `InMemoryStorage` (`Storage`) makes
CreateTask take effect at `EmplaceBack`, DeleteTask at `Erase` or at the failed
search, and a read when its copy is complete; `Phases` and `Results` are the two
variables of the contract that it computes from `pc`, `out` and the vector.

`StorageTest` adds a variable `test`, the lines of the test that are left: a call,
the result the test requires, and what the lines before it leave in the storage
(the tasks and the number of ids given), which is the test's own reasoning made
explicit.  `TesterCalls` makes the next call, the others read meanwhile, and an
exception ends the test.  With no test left the callers
do what they like, so its run also covers `InMemoryStorage` as a whole.

### Router

`m_routes` maps a path to its RouteInfo: the handlers by method, and `named`,
whether `parameter_names` has been filled.  `order` is the order the unordered
map is iterated in, any order after an insertion of a new path, since that may
rehash; `added` is the history of AddRoute calls.  Paths are segments (literal,
`{:name}` parameter, or a capturing group written by hand, which makes
`match.size()` differ from the number of names); urls are words and a list of
query pairs.

AddRouteImpl changes the table in four statements after `try_emplace`, and the
ones that allocate may throw.  `AddRouteThrows` is what then stays: the path with
the handlers it had, with its names or, if the entry is new, perhaps without;
such an entry answers InternalServerError, or MethodNotAllowed for a method it
lacks, and hides no more than its own urls.

`Hits` are the positions of the table whose pattern matches, and `Route` takes the
first, as the loop with its `continue` does.  `Put` and `PutAll` are assignments
to a map (`params[name] = ...`); they stand in for `:>` and `@@`, which the
provers do not know.  `Empty` is the empty string, which has a name for the same
reason.  `PathsAssumption` and `RequestsAssumption` say that paths,
words and queries are sequences.

`QueryString` is ParseParams on characters, by a recursive function with one
argument per turn of the loop (`TurnsFrom`); `Key` and `Value` are the two parts
of a parameter, `Then` is the assignment by which a later one replaces an earlier.  `ParsesTheQuery` compares it with what a query
means, stated by the positions of its separators.  `Router` takes the pairs of a
query as given.

### Backend

`stage` of a session follows DoSession: `reading` (in `async_read`), `routing`
(PrepareResponse up to the storage call), `handling` (in the storage), `writing`
(in `async_write`), `none` once the coroutine has returned, `failed` once an
exception has left it.  At most `NumThreads` sessions are in `routing` and
`handling`, which is where a session occupies a thread.  `Refusal` is everything
that is answered without calling the storage, in the order of the code.
`Respond` is CreateResponse, where `prepare_payload` throws for a NoContent with
a body.

Memory may run out at every copy and every string on the way.  In the storage
that is `Fail` and `Lose`; everywhere else it is `RunsShort`, which may come while
the request is routed or when the handler's result is on its way to the answer.
What becomes of it depends on the `try` block it meets (`CaughtAs`): the two of
the typed adapter, around DeSerialize and around Serialize
(`rest_router.hpp:103-124`), make a BadRequest of it, after the effect in the
second case; the one around the handler in Route (`rest_router.cpp:99-106`) an
InternalServerError; each may fail over the text of its own answer.  The copies of
PrepareResponse and CreateResponse (`rest_server.cpp:85-111`) and those of Route
before its `try` are in none, and the exception leaves the session.

`effect` is history: what the session's request put into or took from the
storage; so is `short`, the sessions that have run out of memory at the request
they are at.  `Names` says when the word of a path names an id, from the digits
and the sign, where `Stoull` says what the call computes.  `order` never changes: the table is filled before the server runs.

### SessionDeadline

DoSession calls `stream.expires_after` once per turn of its loop
(`rest_server.cpp:119`), for the read and the write of one request.  Reading and
writing are any number of transfers; each arms the timer anew under the same
`deadline`.  When the timer goes off, its handler becomes a job of the io_context
(`handlers`), which looks whether its transfer is still the one under way
(`ChecksTransfer`) and closes the socket if so (`Closes`).  `transfer` is `ready`
when the operating system has done its part and the session's own job has not
run yet: in that gap the handler of the timer becomes stale.  `busy` is the
number of threads other sessions have taken, and time may pass while they have
all; otherwise `Tick` waits until nothing is left to do at the present time.

### ServerLifetime

The owner and DoListen meet at `started` in four steps: `Listen` stores it,
`Announce` notifies and goes on to `async_accept`; `WaitStarted` finds it unset
and goes to sleep in the same step, as `std::atomic::wait` does, until a notify,
and `StartReturns` finds it set.  `Stop` is `CallStop` (the test of `stopped()`),
`StopsContext` (`stop()`, which may find the context stopped in the meantime) and
the joins of Wait; the destructor is `Destroy` and the same two.

`worker[w]` is `unborn`, `loop` (in `run()` with nothing to do), the coroutine the
thread is running, or `exited`; `job[k]` is the state of a coroutine; `stopper`
says whether the io_context is stopped and who did it, the owner or the context
itself when its last coroutine ended.  `owner` is the program counter of the one
thread that uses the handler; `owns` means it has the handler and is in none of
its functions.  `Destroyed` and `Terminates` follow the shared pointer to
`ServerLifetime`, of which each worker's lambda holds a copy.

### Server and Programs

An action of `Server` is an action of one part with the other unchanged
(`Owner`, `Schedule`, `Complete`, `GoesOn`, `Expire`) or one of both: `Suspends`
and `Ends` end a session's turn on its thread.  `GoesOn` is the stretch from the
end of `async_read` to the answer, which no other coroutine of that thread can
interrupt and Stop does not either: Stop only keeps threads from taking the next
coroutine.  Cut off by Stop, a session stays where it was, waiting or queued.

`Programs` adds `main`.  The application is `StartServer`, `Wait`, return; the
unit test of the server is `StartServer`, its requests, `Stop`, return.  Return
destroys the handler.  If StartServer throws, the test catches it; the main of the
application has no `try`, so it ends by `std::terminate` there, as does a program
that destroys joinable threads.  The clients of both are the arbitrary ones of
`Server`.

## 3. Runs

| Run | Question | Bounds | Distinct states |
|---|---|---|---|
| `storage_linear` | does InMemoryStorage implement DataStorage, and does its unit test hold beside readers? | 2 callers, 2 payloads, ids 0..3, 3 creates | 98,658 |
| `storage_wrap` | what holds when `m_id` wraps? is `StorageInv` invariant? does every call return? | 2 callers, 2 payloads, ids 0..1, 4 creates | 123,040 |
| `lifetime` | what do Stop, Wait and the destructor guarantee? is `IInv` invariant? do Stop and StartServer come back? | 3 threads, 2 sessions | 5,406 |
| `router_table` | does Route follow the registrations, whatever the order? does ParseParams parse? | 5 paths and the 3 of the test, 2 methods, 2 handlers, 3 calls of AddRoute; urls of up to 6 characters out of 5 | 57,380 |
| `backend_safe` | what does an answer tell the client? | 2 sessions, 2 threads, 18 kinds of request, ids 0..2, 2 creates | 1,187,756 |
| `session_deadline` | whom does the timer of a connection cut off, and when? | 1 thread, a deadline of 3, 10 units of time | 3,861 |
| `server_stop` | what does Stop leave behind in the middle of requests? | 2 sessions, 2 threads, 3 kinds of request, 1 create, one order of the table | 1,297,923 |
| `programs` | how do the programs end? do requests settle, are silent peers dropped? | 2 sessions, 1 thread, 1 kind of request, one order of the table | 37,107 |
| `lifetime_bind`, `lifetime_dry`, `router_doc`, `backend_doc` | see Findings | | |

**Why the bounds are enough.**  Two callers are enough for every conflict over
the mutex: each exclusion is between two.  (That no bound is hidden here is what
the proofs show.)  In `storage_linear` three tasks fit without a wrap, so an
erase can hit the first, the middle and the last, and a copy spans steps of the
other caller; ids 0..3 leave one that was never handed out.  `storage_wrap` has
two ids and four creations, so every id is used twice and the vector gets
unsorted and holds duplicates.  Three threads show joining in order with
threads that end in another order; two sessions show one ending while the other
goes on; a session slot is reused when its session has ended.  The router's
paths are chosen for the cases that differ: two that match the same urls, two
that overlap others, a name used twice, a group without a name; three
registrations are enough for two overlapping paths and an overwritten, failed or
unrelated third; the paths of the test are not mixed with these (`Interesting`).
Six characters hold a query with two parameters of one key and different values,
empty parameters and a second `=` or `?`.  The requests of `backend_safe` have one for every way out of
PrepareResponse and for every handler with and without a task, a negative id,
an id with a tail (`1x`), a query key named `id`, an Accept header the result
cannot be serialized to, with and without keep-alive.  Ten units of time are
three deadlines of three and one more, so that a timer armed for one request can
be late for the next and the one after.  `server_stop` has one request that
changes the storage, one whose session ends by an exception and one that is
refused; the second session is what another thread does while Stop waits for
the first.  `programs` runs on the one thread the application's configuration
asks for, where sessions wait for each other most.  Both take the table of routes
in one order (`OneOrderSpec`): no url of their requests matches two of the four
routes, and `backend_safe` has both orders.

**What they check.**

- `Linearizable` (`storage_linear`): the refinement of DataStorage.
  `SortedById`: the precondition of `lower_bound`.  `TestHoldsBesideReaders`:
  every REQUIRE of the unit test, on each of its paths; `TestIInv` is the
  inductive invariant behind it.
- `RepliesAnswerTheCall`, `OnlyTheNamedTaskIsDeleted` (`storage_wrap`) hold even
  after a wrap, where the vector is no longer sorted and the contract no longer
  kept: two tasks may share an id and `lower_bound` may miss one, but no caller
  gets another's task and no other id is deleted.
- `StorageInv` (`storage_wrap`), `IInv` (`lifetime`, `router_table`,
  `backend_safe`, `session_deadline`), `TestIInv` (`storage_linear`) and
  `ProgramInv` (`programs`): the inductive invariants of section 5, each with the
  type invariant of its module in it.
- `CallsReturn` (`storage_wrap`): once new calls stop, every call returns,
  exceptions included.  While new calls keep coming nothing of the sort holds:
  `std::shared_mutex` does not promise fairness.
- `StopJoins`, `TerminatesOnlyAfterRunningDry`, `WaitOutlastsTheSessions`,
  `StopReturns` (`lifetime`): what the owner may rely on after Stop, Wait and the
  destructor.  `StartReturnsIfListening`: StartServer comes back if listening
  succeeds, also when it fell asleep before `started` was stored, or looks at it
  between the store and the notify.
- `RouteFollowsRegistrations`, `PathParamsWin`, `UnrelatedRoutesDoNotInterfere`
  (`router_table`): the first two speak of the history of AddRoute calls and of
  the request only, not of how Route goes about it; a registration that throws
  takes no handler away.  `TestHoldsBesideOtherRoutes`: the cases of the unit
  test, if the calls of AddRoute that the request of the case could tell (the
  test's own, and any for a path that matches) are those of the case.  `QueriesAreParsed`:
  `ParsesTheQuery` for every url within the bound.
- `StatusTellsTheEffect` (`backend_safe`): an answer other than Ok means that the
  storage is as if the request had not been, save after a BadRequest to a client
  that does not accept JSON, and after a BadRequest or InternalServerError when
  memory has run out at this very request.  `DeletesNameTheirPath`: what a DELETE
  takes out is named by its path, whatever its query says.
  `OnlyMissingTasksGoUnanswered`: a request that was read and gets no answer is
  the GET of a missing task, or memory has run out at it, or the write of its
  answer failed or timed out.
- `CutOnlyByItsOwnDeadline`, `RequestsEndInTime` (`session_deadline`): on one
  thread the timer is never late for the wrong request, and no peer stretches a
  request by sending or reading in small pieces.  The time a handler takes
  counts too: an answer prepared past the deadline may be cut off though its
  effect stays.  With two threads the first of these fails: the timer's handler
  checks its transfer, another thread completes it, answers and starts to read
  the next request, and the handler then closes the socket.  There is no strand
  to rule that out (`rest_server.cpp:158`), and no text that claims it cannot
  happen, so it is recorded here and not as a finding.
- `ViewsAgree`, `StopLeavesNoCallBehind`, `NothingHappensAfterStop`,
  `OnlyStopCutsOff` (`server_stop`): Stop waits for the handlers under way,
  their effects stay and their answers are lost; afterwards the mutex of the
  storage is free and nothing moves.
- `MainEndsWithTheServer` (`programs`): the application returns only when nothing
  is left to be cut off.  `std::terminate` ends it only if StartServer throws: on
  one thread, the default, before any session has started, with more threads
  perhaps while some are served by the threads that did start.  It never ends by
  destroying its handler; the test does, if its server had run dry.
  `MainReturns`, `RequestsSettle`, `StopReturns`, `PeersAreDropped`: the
  application does return once listening has ended and the clients have fallen
  silent, a request settles even if Stop comes meanwhile, and no peer can hold a
  session in a read or a write.

Every property has a mutant of a definition that breaks it (`PROJECT.json`,
`mutants`); in the modules a mutant stands before its original and its comment
begins with *Mistake*.

**Deadlock** is checked where the modelled part never stops.  It is off for
`ServerLifetime`, `Server` and `Programs`, where the end of the server is the end
of the behaviour (and where an owner that waits for ever is a finding), for
`Router`, which stops when `MaxAdds` routes are added, and for `SessionDeadline`,
which ends with the connection or at `MaxTime`.

**Fairness.**  Weak fairness of each thread's steps, in all liveness runs: the
operating system runs threads that can run, and none of the modelled steps is
disabled by a thread that merely wants to run.  In `Programs` the thread of main
is one of them, except that nothing makes the test stop the server; the passing
of time (`Expire`) and what it completes (`TimesOut`) are weakly fair; and each
coroutine that is ready is taken with strong fairness, since the queue of an
`io_context` is served in order while threads come and go.  Nothing is assumed of
clients, of the owner of the handler, of I/O, or of the order in which the mutex
serves its waiters.

## 4. Findings

1. `lifetime_bind`: `StartServer` never returns if `open`, `bind` or `listen`
   throws.  LogError prints the error, the context runs dry, the threads exit,
   and `started.wait(false)` has nobody left to end it.
2. `lifetime_dry`: one failed `async_accept` ends DoListen; when the last session
   ends the context stops itself; then `Stop` (and the destructor) sees
   `stopped()` and does not join, and destroying the handler destroys joinable
   threads, which terminates the process.  `TerminatesOnlyAfterRunningDry` shows
   that this is the only way.
3. `router_doc`: with two registered paths that match one url, Route may answer
   MethodNotAllowed although one of them has a handler for the method, depending
   on the iteration order of the map.
4. `backend_doc`: a GET of a task that does not exist is never answered.  The
   handler's NoContent has the body `null`, `prepare_payload` refuses a body
   there, and the exception ends the session.  `OnlyMissingTasksGoUnanswered`
   shows that this is the only request that goes unanswered as long as memory
   lasts and the peer takes its answer.

## 5. Proofs

Every theorem holds for all values of the constants that satisfy the named
assumptions; nothing else is assumed.

| Module | Theorem | States |
|---|---|---|
| `InMemoryStorageProofs` | `Invariance` | `Spec => []StorageInv` |
| | `TypeCorrectness` | `Spec => []TypeOK` |
| | `Sortedness` | `Spec => []SortedById` |
| | `OwnReplies` | `Spec => []RepliesAnswerTheCall` |
| | `Exclusion` | `Spec => []LockInv` |
| | `NoOtherTaskDeleted` | `Spec => OnlyTheNamedTaskIsDeleted` |
| | `Implementation` | `Spec /\ []NoWrap => Linearizable` |
| `StorageTestProofs` | `UnitTestHolds` | `TestSpec => []TestHoldsBesideReaders` |
| | `SoundTestsHold` | the same of every set of sound tests on a fresh storage |
| | `TestInvariance` | `TestSpec => []TestIInv` |
| | `TestRunsTheStorage` | `TestSpec => Spec` |
| `ServerLifetimeProofs` | `Invariance`, `TypeCorrectness` | `Spec => []IInv`, `[]TypeOK` |
| | `StopHasJoined` | `Spec => []StopJoins` |
| | `TerminationNeedsADryContext` | `Spec => []TerminatesOnlyAfterRunningDry` |
| | `WaitWaitsForSessions` | `Spec => WaitOutlastsTheSessions` |
| `SessionDeadlineProofs` | `Invariance`, `TypeCorrectness` | `Spec => []IInv`, `[]TypeOK` |
| | `OneThreadCutsByItsOwnDeadline` | `Spec => CutOnlyByItsOwnDeadline`, if `NumThreads = 1` |
| | `RequestsHaveADeadline` | `Spec => RequestsEndInTime` |
| `RouterProofs` | `Invariance` | `Spec => []IInv` |
| | `RoutesAsRegistered` | `Spec => []RouteFollowsRegistrations` |
| | `PathBeforeQuery` | `Spec => []PathParamsWin` |
| | `OtherRoutesDoNotMatter` | `Spec => UnrelatedRoutesDoNotInterfere` |
| | `UnitTestHoldsBesideOtherRoutes` | `Spec => []TestHoldsBesideOtherRoutes` |
| `QueryStringProofs` | `EveryQueryIsParsed` | `ParsesTheQuery` |
| | `QueriesAreAlwaysParsed` | `Spec => []QueriesAreParsed` |
| `BackendProofs` | `Invariance`, `TypeCorrectness` | `Spec => []IInv`, `[]TypeOK` |
| | `StatusesAreTrue` | `Spec => []StatusTellsTheEffect` |
| | `NoStrayDelete` | `Spec => DeletesNameTheirPath` |
| | `TheRestIsAnswered` | `Spec => OnlyMissingTasksGoUnanswered` |
| `ServerProofs` | `ImplementsItsParts` | `Spec => Lifetime!Spec /\ Backend!Spec` |
| | `Invariance` | `Spec => []IInv` |
| | `ViewsAlwaysAgree` | `Spec => []ViewsAgree` |
| | `NoCallIsLeftBehind` | `Spec => []StopLeavesNoCallBehind` |
| | `QuietAfterStop` | `Spec => NothingHappensAfterStop` |
| | `OnlyStopLeavesSessionsOpen` | `Spec => []OnlyStopCutsOff` |
| | `ProgramsRunTheServer` | `ProgramSpec => Spec` |
| | `ProgramInvariance` | `ProgramSpec => []ProgramInv` |
| | `MainOutlivesTheServer` | `ProgramSpec => []MainEndsWithTheServer` |

**Assumptions.**  `IdRangeAssumption` and `NumThreadsAssumption`: at least one
value of `size_t` and one thread.  `SessionsAssumption`: a session is not called
like the listener or like what a thread does without a coroutine.
`NumeralsAssumption`: what `std::stoull` reads is a natural number, perhaps with a
minus sign, and `size_t` has a value.  `TimeoutAssumption` and the bounds of `SessionDeadline`: naturals, the timeout not
zero.  `PathsAssumption`, `RequestsAssumption`: paths, the words of a url and a
query are sequences, of strings where the code has strings.  `TestAssumption`: the
tester is a caller, the test's payloads are payloads, and `size_t` has more values
than the three ids the test uses.  `LettersAssumption`, `MaxLenAssumption`: the
letters of a url are not its separators, and its length is a natural.  The proofs
hold for any value of the bounds (`MaxCreates`, `MaxAdds`, `MaxTime`, `MaxLen`) and
so do not rest on them.  TLC evaluates each assumption on the runs of section 3.

**The storage.**  None of its theorems is inductive as it stands.  That the ids
are sorted needs that the next id is above all of them (`VectorInv`, which holds
up to the wrap).  That CreateTask returns its own task needs that nobody touched
the vector between `emplace_back` and `back()`, that is, `TailInv`: what a caller
found at its first access is still so at its second.  `TailInv` is kept by the
steps of the *other* callers because they cannot be past the lock at the same
time, `LockInv`: whoever is past the lock holds it in the mode of its call, and
a writer holds it alone.  `CallInv` says that results are empty until they are
copied, `CopyInv` that what GetTasks has copied is a prefix of the vector.
`StorageInv` is their conjunction; `InitStorageInv` and `NextStorageInv` show that
it is inductive, one step per action and one below it per conjunct the action can
disturb.

**The refinement.**  `InitRefines` and `NextRefines`: under `StorageInv`, and
with no id handed out twice before or after the step, a step of the storage is the step of
`DataStorage` named in section 2 or leaves all its variables alone.  A finished
lookup is a listing of the tasks with its id because `lower_bound` of a sorted
vector finds the one there is (`LowerBoundOfSorted`), a finished copy is the
listing of all because the vector is sorted (`ListsItsElements`).  The
hypothesis `[]NoWrap` is necessary: after 2^64 creations two tasks share an id,
and the contract no longer holds (`storage_wrap`).

**The storages' test.**  `Sound` says of a sequence of lines that it is right of a
storage nobody else uses: each line's result and what it leaves follow from its
call and what there is before (`Answers`, `Leaves`), with no mention of locks or
steps.  `SoundTestsHold`: any sound test that starts with an empty storage holds
beside any number of readers.  The invariant behind it, `TestInv`, is that the
storage holds what the next line says until its call takes effect, and what the
line leaves from then on.  The readers keep it since they change nothing; the
tester's steps keep it because `StorageInv` says what it found at its first access and
that nobody else has the lock.
`PathsAreSound` then goes through the paths of doctest, by joining sound pieces
(`SoundJoin`).

**The lifetime.**  `OwnerInv` relates where the owner is to who stopped the
io_context and what is left to join: the owner stops it only from inside a
function that goes on to join, so back outside of it `stopper = "owner"` means
that `joinable` is empty.  `ThreadInv`: a thread that is not joinable any more
has ended, and it has ended only because of a stop.  `RanDryInv`: a context that
stopped itself has no coroutine left.  `StopJoins` needs the first two;
`TerminatesOnlyAfterRunningDry` that a thread destroyed joinable has ended, by a
stop, and not by the owner's; `WaitOutlastsTheSessions` all three.  That a
coroutine is on one thread at a time (`OneWorkerPerCoroutine`) is what the
io_context promises; it is part of the invariant and no result about this code.
`SpawnInv`: while StartServer spawns, or if it threw, the last thread is unborn,
and no session exists before the first thread does.

**The deadline.**  `WaitInv`: the deadline of the stream is always that of the
request under way, a transfer under way has its timer armed or a handler of it
due, and a handler that may still close the socket belongs to a deadline that
has passed.  The last is where one thread is needed: between the look at the
transfer and the closing no other step of the session fits in.

**The router.**  `TableInv` relates the table to the history: its paths are those
for which AddRoute was tried, and the handler at a path and method is that of the
last call for them that did not throw.  `Route` asks the first match of an
arbitrary order; `RouteFollowsRegistrations` follows since `Dispatch` answers from
the entry alone, `UnrelatedRoutesDoNotInterfere` since with one match the order
is of no consequence and the entry is not touched.  For the unit test,
`NothingMatches` and `PathMatches` say what Route answers if the calls a request
could tell are those of a case; what remains is to compute which of the three
paths match which urls (`TestPathsMatch`) and the parameters (`TestParams`).
`LeastElement`,
`GreatestElement`, `OrdersListAll` and `AssignedLast` are the lemmas about the
operators.

**The query.**  That the definition of `TurnsFrom` has a solution (`SomeTurns`),
and that its value at every start is right (`TurnsAreRight`), are inductions from
the end of the query to its beginning.  The library's induction theorems cannot
be used, so each takes a least or greatest counterexample and refutes it.
`Right(query, params, start)` is the invariant of the loop, read backwards: the
map has a key for every interval between separators from that start on, and a
key has the value of the last of them with that key.  `TurnIsRight` is one turn
of the loop: by `TurnReadsInterval` it reads the one interval that begins there,
and `Then` lets a later interval win.  `KeyHasNoEquals` and `OnlyKey`: a
parameter has exactly one key without `=`.

**The backend.**  `BackendProofs` takes an instance of `RouterProofs` for the table
of the four routes and derives what each request may ask of the storage
(`HandlerOfMethod`, `CallsFit`: a DELETE reaches the storage with the id in its
path, whatever is in its query) and that a refusal is an error
(`RefusalsAreErrors`).  `EffectInv`: a session before its call has no effect, and
one in its call has the effect of that call, once it has acted, and no other
(`InCall`); `TellsTheEffect` then speaks of its answer.  That a DELETE has no effect
but on the task its path names needs `StoullNames`: the number the call computes
is one the word names.  Where memory runs out, `RunsShortKeepsIInv` shows that an
answer, if one is still made, is one of the errors `CaughtAs` allows there.
`IInvBySession` takes the invariant apart by session; each action is
one lemma about its own session, `OthersKeepIInv` is the rest.  That a created
task is new rests on ids below `nextId`.

**The whole.**  `ServerProofs` shows that a step of the server is a step or a
stutter of each part, and so takes over both invariants without proving them
again.  What is new is `JobFits`, the first three conjuncts of `ViewsAgree`.  The
fourth, that there is room for a session a thread resumes, is counting: running
sessions have a thread each, by `OneWorkerPerCoroutine`, and the one resumed is
not among those in a request (`ThreadsSuffice`).  After Stop all threads have
ended, so nothing runs, so nothing is in a request; a context that ran dry has
no waiting or ready session either.  Any step of a program is a step of the
server (`ProgramSteps`), and `MainInv` says what `main` may find: after `Wait` the
application is left with a server that ran dry and no thread to join, so that
only an exception of StartServer is left to end it by `std::terminate`; on one
thread that comes before the only thread is born, and `SpawnInv` says that no
session has started then.

**Only model-checked.**  Liveness (`CallsReturn`, `StopReturns`,
`StartReturnsIfListening`, `MainReturns`, `RequestsSettle`, `PeersAreDropped`),
which with fairness and ENABLED is out of the prover's reach; every safety
property of the passing runs has a theorem.  No module has a RECURSIVE operator.

## 6. Not modelled

- Boost.Asio, Boost.Beast, reflect-cpp, the standard library: as this code uses
  them (marked external in `PROJECT.json`), from their use here.
- With more than one thread, the timer of a `tcp_stream` may run beside its
  session, a data race inside Beast.  `SessionDeadline` shows the order of steps
  that hurts most (section 3), not everything a race may do; `ServerLifetime`
  and `Server` let a timer only complete the operation it belongs to.
- Registrations that throw before the table is touched (`invalid_argument`,
  `regex_error`) change nothing and are left out.
- Of the unit tests: the router's typed handlers and the one that throws, whose
  code `Backend` models with the real routes, and the mock objects.
- A client that asks again after it got no answer: nothing in the code can tell,
  and a second POST makes a second task.
- Regular expressions other than `{:name}`, literals and one whole-segment group
  in a registered path.
- What JSON and headers look like: a body is a payload or not, a header is one of
  the known content types or not.
- More than one thread using a `StopHandler`, and destruction of static objects
  after main returns.
- `utils` (compile-time only), build files and CI (no run-time behaviour).

## 7. Plan

Done: the storage (contract, implementation, refinement), the router with its
failures and its query, the lifetime of the server, the request path, the
deadline of a connection, the composition of all of it with Stop in mid-request,
and the programs; all of it model-checked, and every safety property of it
proved.

Left:

1. Liveness, should the prover get ENABLED: `CallsReturn` and `StopReturns` first.
2. The races of Beast's timer with more than one thread (section 6), if Beast
   documents what a race may do.
