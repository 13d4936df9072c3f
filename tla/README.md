# A TLA+ model of libiw4x

libiw4x is a DLL that stands in for the Microsoft gaming runtime (the XAsync, XTaskQueue,
XGameSave, XUser, ... interfaces of `xgameruntime.dll`) and for the XCurl library when the
game runs on its own. Most of it is multi-threaded plumbing: callbacks queued for threads the
game or the library owns, operations polled, canceled and collected from several threads,
files replaced while the process may end, and a process exit that must run destructors
before Windows ends the threads. This directory models that plumbing, checks it with TLC and
proves its safety properties with TLAPS.

Paths below are relative to `src/libiw4x/libiw4x/`.

## Inventory

| Component | State | Operations | What is hard | What makes it correct |
|---|---|---|---|---|
| Task port (`gdk/task-queue.cxx`, `gdk/sync.hxx`) | mode, ring of callbacks with due times, terminated and canceled flags, workers, one condition variable | open, submit, dispatch, terminate, stop | submit and terminate wake after the unlock; timeouts; `due()` swaps ring entries; stop joins | each callback is called once and undelayed ones in order; stop leaves nothing behind; nobody sleeps while there is work |
| Queue pool (`gdk/task-queue.cxx`) | fixed arrays of queues and ports with owners and borrow counts, handle counts, the process queue | create, create composite, duplicate, close (release), terminate, get and set process queue, stop | release leaves the mutex between its two critical sections; owners and borrowers close in any order; the process queue is a bare pointer | a port outlives every queue that uses it and then returns to the pool; a queue lives as long as its handles |
| Asynchronous operations (`gdk/async.cxx`) | 128 slots, each with a word of token and hold count; per slot the status, block, operation or provider | begin, provider begin, schedule, complete, get status, get result, cancel; tasks run and announce | lock-free lookup of a slot that may be freed and reused; four parties race to settle an operation; submits may be refused | holds are counted exactly, no slot is used after it was freed, an operation settles and is announced once, waiters return, slots come back |
| Game save (`gdk/save.cxx`, `gdk/path.cxx`) | pools of containers and updates, operations, the files | create/close container and update, submit blob write, submit update, read blobs | concurrent operations on one `.part` file, failing system calls, handles reused, the process ending anywhere | a blob is never torn or lost, newer contents are not replaced by older ones, writes go where the update was made for |
| XCurl (`xcurl/*.cxx`) | transfers, a multi handle with a list of locally answered transfers and a ring of completions | easy init/setopt/cleanup, multi init/add/remove/perform/read/cleanup | callbacks re-enter between the copy of the list and its collection; full ring; completions of removed transfers | every local answer is delivered once and then reported |
| Exit process (`win32/process-threads-api.cxx`) | owner thread, exit code, completion flag | ExitProcess, cleanup thread | re-entry from destructors and detach handlers, deadlines racing completion | destructors finish before the original ExitProcess runs; the first code wins; the process ends |
| Hexadecimal (`hexadecimal.[hc]xx`) | none | encode, decode, relaxed decode | lengths inferred from text; eight digits at a time in one word | decoding inverts encoding; the fast path writes what the table says |
| Event handlers (`gdk/handler.hxx`, `invite.cxx`, `networking.cxx`) | fixed tables of handlers | register, unregister, deliver an invitation, post | tokens are slot indices and are reused; handlers are copied, posted and called later, while queues are terminated | a registration stays until it is ended; every event ends in one call for each handler that was there, or is dropped by a port that is full or closed |
| Users, identity (`gdk/user.cxx`, `identity.cxx`) | the persisted identity, a name, change handlers; user handles stand for the one user | read or mint the identity; sign-in, token, serve, set name | the file is written in place, the process may end there, and a failed read looks like no file | a process finds what earlier ones saved |
| Runtime (`gdk/runtime.cxx`, `registry.cxx`, `vtable.cxx`) | the flag `up`, table of interfaces | initialize, uninitialize, query | uninitialize races late events, and may be called from a handler | a queue that was stopped calls no more events; calls of the runtime return |
| UI, store, storage, system, features | the player's selection | the player picker; asynchronous operations with constant answers | the picker's result looks at the operation twice, without a hold in between | a selection is handed out |
| Text, path, error, argument, types; logger; contract; hooks | none shared | conversions, logging, assertions, patching | nothing concurrent | not modelled |

Interactions: the operations of `async.cxx` are tasks of task ports (`submit`, `run_held`) and
find their port through a queue of the pool; every game save, user, UI and store call is an
operation of `async.cxx`; events for handlers are posted to the completion port of the
process queue; uninitialising the runtime stops every port of the pool.

## Modules

| Module | Models | EXTENDS / INSTANCE |
|---|---|---|
| `CallbackQueue` | the promise of a port, abstractly: sets and an order, no ring, lock or thread | |
| `TaskPort` | `task_port` with its clients, workers and condition variable | INSTANCE `CallbackQueue` (refinement) |
| `TaskPort_proofs` | theorems about `TaskPort` | EXTENDS `TaskPort` |
| `QueuePool` | `queue_pool`, handles, the process queue | |
| `QueuePool_proofs` | theorems about `QueuePool` | EXTENDS `QueuePool` |
| `Operation` | the promise of an async block, abstractly: operations that begin, settle, are announced, closed and end; no slot, hold or task | |
| `Async` | `async.cxx` but for `post`; the result of the player picker (`ui.cxx`) | uses the promise of `CallbackQueue` for its tasks; INSTANCE `Operation` (refinement) |
| `Async_proofs` | theorems about the hold protocol of `Async` | EXTENDS `Async` |
| `AsyncCalls_proofs` | theorems about what `Async` does for a client | EXTENDS `Async_proofs` |
| `Identity` | the identity file and how it is read and minted | |
| `GameSave` | the save root, containers, updates, store and read operations, the file system | EXTENDS `Identity` |
| `GameSave_proofs` | theorems about `GameSave` and `Identity` | EXTENDS `GameSave` |
| `Events` | handler tables, invitations and notifications, `post`, `queue_terminate`, the runtime's flag and shutdown | uses the promise of `CallbackQueue` for its ports |
| `Events_proofs` | theorems about `Events` | EXTENDS `Events` |
| `XCurl` | transfers, one multi handle | |
| `XCurl_proofs` | theorems about `XCurl` | EXTENDS `XCurl` |
| `ExitProcess`, `ExitProcess_proofs` | the ExitProcess replacement and theorems about it | |
| `Hexadecimal` | the codec as operators | |
| `MC*` | the constants and symmetry of the runs; `MCHexadecimal` also generates the inputs and states the reference definitions | EXTENDS the module |

How state and steps correspond to the code. A critical section is one step, so is each atomic
access that is made outside one, and so is each call that leaves the module (a callback, a
provider, a system call). A wake-up that follows an unlock is a step of its own. `pc` says
which of these steps a thread makes next; the names of its values follow the functions.

* `TaskPort`: `items` is the ring `items_[head_ .. head_+count_)`, `queued_` its length. A
  waiting thread has a deadline (of its dispatch) and an alarm (of its wait); `Tick` moves
  `now()`. `dispatch` reads the clock twice between two looks at the ring: the second reading
  may be later (`SecondReading`). Waits may end spuriously. Callback contents and addresses
  are dropped: a callback is a model value, submitted at most once.
* `QueuePool`: what `TaskPort` calls open and stopped is the set `running` here. Handles are
  counted per queue. `process_queue` is four steps, one for each access to the two atomics.
* `Async`: `token` and `holds` are the halves of the slot's word; `tasks[r][k]` counts tasks
  the ports accepted and have not yet called, which is all that remains of a port.
  `find`, `release`, `submit`, `finish`, `retire` and `dispose` are chains of steps that any
  call may be in the middle of; `announce` is two, the read of the routine under the mutex and
  the call after it (`Announce`, `CallRoutine`). `show_player_picker_result` is a lookup whose hold is dropped
  (`PendingOperation`), a read through the pointer it leaves (`Peek`) and a second lookup
  that collects (`Collect`); what a freed operation holds is anything. A selection has size 0
  until the work is done, and 1 then. An operation of `Operation` is a token: it starts when
  its slot is claimed, is open when the call that began it returns, closed when the slot is
  retired, ending when the last hold is dropped and over when the slot goes to the free list
  (`Stage`, `Owner`, `Verdict`); its routine is due between the two steps of `announce` (`Due`).
* `GameSave`: a content is a stamp. Opening, writing, closing and moving are separate steps
  of an operation and any may fail; `Restart` drops all memory and keeps the files. A
  container lies under the identity of the process that created it. A write of the identity
  that stops in the middle leaves the empty file or one whose first digits read as another
  identity (`Cut`). Random identities do not repeat.
* `Events`: a task is the event of one registration and one invitation, or the callback of a
  `queue_terminate`. The completion port of a queue is a bounded sequence with its two flags:
  the ring, the wake-ups and the order of its callbacks are `TaskPort`'s, and events have no
  delay. `process_queue` is one step (`QueuePool` has the four). `live` copies the handlers of
  the slots in use in the order of the slots (`InOrder`), for the invitation the thread
  delivers (`invite`).
* `XCurl`: an answer is delivered or not; a request is none, local or network. libcurl is
  external: it may finish any transfer it was given, and report it. The loop of `answered()`
  is the recursive function `Turns`: a turn (`Collect1`) passes over an element or moves the
  last one into its place.
* `ExitProcess`: deadlines may pass at any moment, destructors may hang or call ExitProcess.
* `Hexadecimal`: a text is a sequence of one-character strings, a machine word eight octets;
  addition and multiplication of words carry from octet to octet as the CPU does.

### What the code is trusted to be given

The models restrict clients to the contract of the interfaces, because the code checks none of
it: handles are closed only by those who hold them; a composite is built from ports of queues
that are held; a queue made the process queue keeps a handle (`set_process_queue` takes none);
an async block is given to a new operation only when it has none, and is not polled by others
until begin returns; and a block is not collected or canceled while another call is in the
middle of looking it up (`Overlap = FALSE` in `Async`; `async_overlap` shows what happens
otherwise); one `perform` runs at a time on a multi handle, and a transfer is changed or
cleaned up only while it is in none. `stop` is called on a port by one thread, and not from a
callback on one of its own workers (`Events` lets a handler shut the runtime down, and
`PostedSettle` names the join of a worker by itself as its exception). A player picker's
result is asked for with the block of a picker. Handlers of `Events` call nothing else of the
runtime, and every registration passes a place for its token.

## Runs

| Run | Instance | What it shows |
|---|---|---|
| `task_port_safety` | 2 clients, up to 2 workers, 4 callbacks (2 of them delayed), ring of 3, manual, pool and immediate mode | OnceOnly: no callback is lost, duplicated or both queued and run, and the ring is not overfilled (`TypeOK` is part of it). UndelayedInOrder. StoppedIsQuiet: after stop nothing is queued or running. NoLostWakeup: a callback that is due does not wait while all waiters sleep past it. The port implements `CallbackQueue`. |
| `task_port_liveness` | 2 clients, 2 workers, 2 callbacks | PoolCallsEveryCallback; BlockedReturn: stop returns and terminate releases blocked clients |
| `task_port_consumed_wakeup` | 3 clients, 1 delayed callback | **violated**, see findings |
| `queue_pool` | 2 threads, 3 queues, one pair of ports, 2 handles per queue, 1 pinned | BooksBalance, HeldPortsStay, SpentPortsReturn, HandlesKeepQueues, ProcessQueueAlive |
| `async_safety` | 2 clients, 1 worker, one slot used twice, operations with and without a provider, player pickers | HoldsCounted, HeldSlotsLive and FreeSlotsUnused over reuse of the slot, CalledOnce (completion routine and provider's cleanup), PicksDelivered, SettlesOnce, with the queue terminated at any time |
| `async_liveness` | one slot, waiting clients | WorkSettles, WaitersReturn, RetiredSlotsFreed; `Async` implements `Operation` (ImplementsOperation) on this small instance, and by proof on any |
| `async_overlap` | as above with `Overlap = TRUE` | **violated**, see findings |
| `game_save` | 2 operations on one blob, 2 contents and the empty one, 2 writes per update, 2 identities and one cut short | TornOnlyByOverlap, EmptiedOnlyByRefusal, NewestKept, WritesStayHome, SavesFound |
| `xcurl` | 2 transfers, list and ring of 2 | AnswersKept, ReportedAfterAnswer, and (liveness) AnswersReported |
| `hexadecimal` | all texts of up to 8 of 4 characters, octet sequences of up to 4 of 5 octets | DecodersRead (decoding inverts encoding, the relaxed decoder reads pairs), SpreadMatchesAlphabet |
| `events` | a client, a listener and a worker, a table of one slot, ring of 2, 2 registrations, an invitation, a terminated queue, a shutdown | RegistrationsKept, EachToOneEnd, TerminateWaits, QuietAfterShutdown, and (liveness) PostedSettle |
| `exit_process` | 3 callers and the cleanup thread, distinct codes | NativeExitAfterDestruction, FirstCodeCanonical, RequestEndsProcess |

Every property of a passing run is falsified by a mutant of a modelled definition (the
definitions named `X_How` beside `X`, listed in `PROJECT.json`).

### Bounds

* A port is used with more callbacks than its ring has room for, so it is full and wraps,
  callbacks overtake each other in all ways two delayed and two undelayed ones can, and there
  are as many waiters as wake-ups can be given to. The instants are 0 and 1 (2 where a
  callback must be late): only the order of due times, deadlines and now matters to the code.
* Three queues over two ports are an owner and two composites of its ports: all orders of
  closing owner and borrowers, both sides of a composite on one port, and a pool that is full
  for both ports and queues. `MaxPinned` bounds the queues a client makes the process queue.
* Two tokens on one slot let it be reused while calls for its former operation are under
  way. Hold counts come from two clients, a worker and the tasks between them. Hold counts
  near 2^16 are not reached: there are 128 operations and a handful of tasks for each.
* Two operations on one blob are the only ones that meet: operations share nothing but the
  files of one place. Two contents are an older and a newer one, and an emptied write is a
  third that overlaps them. With one container and one update each handle is reused after it
  was closed, and a write that strays goes to the empty path of a closed container. Two
  identities and `Cut` are the identity that was lost, the one minted after it and the one
  read from a file cut short.
* In `Events` a table with one slot is full, and its token names one registration after the
  other. Two registrations, an invitation and the callback of a `queue_terminate` are one
  task more than a ring has room for. One queue of the game's own, in manual or immediate
  mode, and the fallback with its worker can each be the process queue, the one terminated
  and the one stopped; with one worker a worker in a handler is a port nobody else empties.
* In XCurl a list and a ring of two with two transfers fill up, because completions of
  removed transfers stay in the ring.
* The characters `0`, `B`, `x`, `:` are a digit that begins a prefix, one that does not, the
  prefix and a separator; the octets have digits on both sides of 9/10 in both places.

### Fairness

* `TaskPort`: weak fairness of each thread's own steps and of the clock: threads are
  scheduled, callbacks return, time passes. Clients need not call anything. No fairness on
  spurious wake-ups.
* `Async`: weak fairness of threads; strong fairness for each kind of task of each slot,
  because a port runs what it accepted and in order (`PoolCallsEveryCallback`,
  `UndelayedInOrder`), while a worker may be busy with others in between.
* `XCurl`: `AnswersReported` assumes a client that keeps performing and ever again reads until
  the ring is empty, as libcurl's users do; the assumption is the premise of the property.
* `Events`: weak fairness of each thread's steps within a call, of workers and of handlers
  returning. Nobody has to call anything; in particular nobody has to dispatch the game's own
  queue.
* `ExitProcess`: weak fairness of threads inside the replacement (deadlines pass), strong
  fairness of the original ExitProcess (it ends the process however often detach handlers
  re-enter). Nothing is assumed of destructors.

## Proofs

Every safety property of the passing runs is a theorem, but for the codec's. A theorem holds
for every value of the constants that the module's assumption allows: the sizes of the runs
become any natural numbers, the threads any sets.

**`TaskPort_proofs`** (`PortConstants`: the constants have their types, and clients are not
workers).

* `TypesHold`, `CallbacksKept` (which includes the types), `UndelayedKeepOrder`, `StopQuiets`:
  the safety invariants of the run `task_port_safety`; `PortRefines`: the port implements
  `CallbackQueue`.
* `WakeupsReachWorkers`: `NoLostWakeup`, where clients do not dispatch a port that has workers
  (`DispatchModes \cap PoolModes = {}`, so in all the runs). With such a client the wake-up can
  be consumed by one that gives up, as in `task_port_consumed_wakeup`.

`IInv` is the type invariant with `ThreadInv`, `OnceInv` and `OrderInv`.
`ThreadInv` says which thread may be where: a thread has a current callback exactly while it
calls it, a worker that was joined is idle or gone, one client at a time stops the port, and a
closed port has no workers and an empty ring. The type invariant needs it,
because a thread in the middle of a call must have a callback to return from. `OnceInv` is
`OnceOnly` spelt out over ring positions and threads, the form in which steps can be followed.
`OrderInv` strengthens `UndelayedInOrder`, which compares what is in the ring with what has
left it and is not inductive: undelayed callbacks must also be due and lie in the ring in the
order of their ranks. That is what `due()`, which moves the head into the gap it leaves, could
destroy: the lemma `TakenFromRing` says what the ring is afterwards, and `TakeFacts` that the
order survives, because an undelayed head would have been the one that was taken. The
refinement then needs, besides `IInv`, that only a terminated port is canceled. `NoLostWakeup`
needs `WakeInv`: a worker waits without a deadline and leaves only a terminated port with an
empty ring, so a worker that was woken looks at the ring again before it can sleep or leave.

**`QueuePool_proofs`** (`PoolConstants`): `BooksAlwaysBalance`, `PortsOutliveQueues`,
`PortsGivenBackOnce`, `QueuesOutliveHandles`, `ProcessQueueStaysAlive`, all the invariants of the
run `queue_pool`. `BooksBalance` counts with cardinalities; the proof follows the borrows, the
owners and the two totals one by one (`BorrowBooks`, `OwnBooks`, `CountBooks`). The rest is about
calls that are in the middle: a thread on its way to release a queue took its last handle
(`ReleaseInv`), whatever was read as the process queue has a handle that stays, or is the
fallback (`ProcessInv`), and ports in use are stopped all at once only when the runtime goes
down (`DownInv`).

**`Async_proofs`** (`AsyncConstants`, which says that the threads are finitely many, and
`~Overlap`: no block is collected or canceled while another call is looking it up).
`HoldsAlwaysCounted`, `HeldSlotsStayLive`, `FreeSlotsStayUnused`, `FirstOutcomeStays` (the action
property `SettlesOnce`), and `ReleaseAlwaysFindsHold`, the assertion `holds_of (s) != 0` of
`release`. The run `async_overlap` violates the last one with `Overlap`, so the condition is
needed. The count of holds (`CountInv`) is only kept if a thread that holds a slot finds its own
token there (`BusyInv`), which needs that tokens are given once (`TokenInv`), that a slot being
set up is its thread's own (`SetUpInv`), that blocks and operations name each other until the
operation is retired (`BlockInv`) by the one party that may (`BeginInv`), that tasks find what
they are to run (`ContentInv`), and that who drops the last hold is alone with the slot until it
is on the free list (`DisposeInv`, `FreeInv`).

**`AsyncCalls_proofs`** (the same condition): `RoutinesCalledOnce` (`CalledOnce`),
`SettledPicksDelivered` (`PicksDelivered`) and `OperationRefines`: `Async` implements
`Operation`. On top of the hold protocol: a slot holds what the
operation was begun with (`OriginInv`); a provider's cleanup is ahead, with the one thread that
disposes of the slot, or past (`CleanInv`); an announcement is with one announcer, in one task or
made (`AnnounceInv`); an operation of the runtime that settles well has its selection
(`ChosenInv`), and the size a picker's caller has read of a settled operation is still right
when it looks again without a hold (`ReadInv`).

The refinement says more than those invariants: that an operation's completion routine is taken
from its block at most once, while it is settled and not closed, and called before the last hold
is dropped; that an operation is closed to its client only when it has settled or its begin
failed; and that a provider whose begin failed is cleaned up exactly twice and any other exactly
once. `announce` reads the routine under the mutex and calls it after the unlock. Hence a client
that collects or cancels between the two has its routine called for a block that is no longer the
operation's: `Operation` allows it (`Tell` of a closed operation), and TLC finds it violated if
`Tell` is kept to operations that are not closed. What holds is that nobody calls a routine when
the last hold is dropped (`LastAlone`), as the caller holds the slot.

`CleanInv` counts the cleanups. `LifeInv` adds that a settled operation has an outcome and only
settled operations are collected or retired, but by the call that began them (`SettledInv`); that
a slot that was filled, and is neither disposed of nor undone, has an operation or a provider
(`FilledInv`); and that a task which announces an operation finds its block linked or the
operation retired (`UnlinkedInv`). The mapping chooses the slot of a token, which is the only one
that has it (`OneSlot`), and says that a routine is due (`Due`) while a thread is about to call
it. So each step is followed by what it does to the one slot it touches (the lemmas `Seen...`):
it is one step of `Operation` for the token of that slot, and the views of all the other tokens
stay, as do the routines due but for the two steps of `announce` (`DueKept`); what moves only
threads, holds that are not the last and tasks is a stutter.

**`Events_proofs`** (`EventConstants`): `RegistrationsStay`, `TasksComeToOneEnd`, `WaitsAreKept`,
and the action property `StoppedQueuesStayQuiet`. Tokens and slots name each other (`RegInv`); a
thread's position says which callbacks it may be in and where it goes on (`ThreadInv`); a
stopped queue is canceled for good and its workers have left (`StopInv`); an invitation is
copied once (`CopyInv`); one thread at a time ends a queue (`EndInv`); and every task that is due
is in one batch, in one port, called or dropped, once (`PlaceInv`). That `live` lists each
registration once needs an enumeration of the slots in order for any table: it is shown to
exist by looking at the least set size for which there is none.

**`GameSave_proofs`** (`IdentityConstants`, `SaveConstants`).

* `SavesAreFound`, `WritesGoHome`. `SavesFound`
  compares the disk with the identity in memory, which a restart forgets, so it is not inductive.
  The invariant ties both to the identity *file*: the file holds the identity of a process that
  knows its user, and nobody mints one then (`UserKept`); the root, every container and every
  operation are this user's or nobody's, also one whose container was closed (`AllOwn`); and
  unless an identity was misread, what is stored is under the identity in the file and nobody is
  minting another (`Saved`). `WritesStayHome` needs that an update which is no orphan points to
  a container in use that lies where the update was created (`TargetsHome`).
* `BlobsStayWhole` (`TornOnlyByOverlap`), `BlobsKeepTheirData` (`EmptiedOnlyByRefusal`),
  `OldNeverReturns` (`NewestKept`), from `BlobInv`: what an operation has still to write is the
  end of what it began with (`Remaining`); a `.part` about to be moved is torn only under
  another's write (`TornInv`); a blob is empty on disk or in a list only if it was lost by a
  refusal (`EmptyFiles`, `EmptyLists`); a content is in one update or operation until it is over
  (`HolderInv`); and nothing older is at, or beside, a place that an operation has replaced
  (`NewInv`).

**`XCurl_proofs`** (`XCurlConstants`): `XCurlTypes`, `NoAnswerLost` (`AnswersKept`),
`CompletionsFollowAnswers` (`ReportedAfterAnswer`). `Books` says of any list and ring that no
transfer is on them twice, that what is listed was added, is answered here, is not reported and
has its flag tell whether the answer was given (`Listed`), that what has a completion was
answered once (`Queued`), and that nothing is forgotten (`Kept`). `answered()` goes through the
list while it changes it: a turn keeps `Books` of the list and the ring as they are in the loop
(`TurnKeepsBooks`), and so do all turns, by looking at the least turn that would not
(`CollectedKeepsBooks`). Nothing has to be known of the copy `perform` delivers from: it may name
transfers that were removed, closed or added again since.

**`ExitProcess_proofs`** (`ExitConstants`): `DestructionFirst` and `FirstCodeWins`. The invariant
adds to the types what a thread's position says about the owner (`OwnerInv`), that the code is
the owner's once published (`CodeInv`), and that completion is published by the cleanup thread
as its last step and known to every thread on its way to the original ExitProcess
(`CompleteInv`).

The inductive invariants were model-checked on the instances of the runs before they were
proved; the proofs do not rest on that.

Only model-checked: all liveness properties (`PoolCallsEveryCallback`, `BlockedReturn`,
`WorkSettles`, `WaitersReturn`, `RetiredSlotsFreed`, `AnswersReported`, `PostedSettle`,
`RequestEndsProcess`), because fairness and ENABLED are beyond the prover; `DecodersRead` and
`SpreadMatchesAlphabet` of the codec, which are about what recursive definitions compute and
need induction over data, in a module that uses `Bitwise`; and the two violated properties,
which are false.

## Findings

* `task_port_consumed_wakeup`. `submit` wakes one waiter. If that one has a timeout that ends
  before the delayed callback is due, it returns without passing the wake-up on, and another
  thread that was asleep in `dispatch (INFINITE)` before the submit stays asleep when the
  callback falls due. The driver in `tests/gdk/task-queue` expects `dispatch (INFINITE)` to
  run a delayed callback. It takes two threads that dispatch one manual port; a port's own
  workers have no timeouts and are not affected.
* `async_overlap`. `held_state::find` takes a hold whenever the token matches, also when the
  hold count has fallen to zero and `dispose` is under way. The poll then works on a slot that
  goes to the free list, and its `release` fails the assertion `holds_of (s) != 0`. It takes a
  thread that polls a block while another collects or cancels it.

Properties with an exception built in state a limit of the code that a reader should know:
`TornOnlyByOverlap` (two operations on one blob share its `.part`, and one whose write fails can
spoil what the other moves), `EmptiedOnlyByRefusal` (a refused submit has already moved the
data out of the update), `WritesStayHome` (an update keeps a pointer to a container that may
have been closed), `SavesFound` (an identity file that cannot be read is taken for none and
written over), `RegistrationsKept` (a token used twice may end another registration),
`QuietAfterShutdown` (an immediate queue does not look at its flags, and a queue made after the
list was taken is not stopped), `PostedSettle` (a shutdown from a handler on a worker makes the
worker wait for itself), `PicksDelivered` (a picker asked for its result at the moment it
settles may lose it), `CalledOnce` (a provider whose begin fails is cleaned up twice, as `Operation` says),
`ProcessQueueAlive` (null if the process queue is cleared in the middle of `process_queue`),
`ReportedAfterAnswer` (remove leaves the completion in the ring), and `FirstCodeCanonical` (the
snapshot of a later caller that gives up before the owner has published its code).

## Not modelled

* Callbacks that close the queue they run on (the same join of a worker by itself that `Events`
  has for a shutdown), that post, register or terminate. Listed ports that are released and
  opened again before `stop_queues` comes to them.
* Delays close to 2^32 ms, which the code cannot tell from INFINITE: instants are naturals.
* The lifetime of client memory: blocks are never freed.
* Game saves: the count of open providers, which nothing reads, enumeration, the layout of
  results, updates of several blobs as a whole, which the code does not promise. XCurl:
  getinfo, poll, several multi handles, options passed through.
* Users: handles and operations with constant answers; change handlers, which are registered
  like the others and never called; the name, a string behind a mutex.
* UI but for the player picker, store, storage, system, features, networking answers: constant
  answers over `Async`. The interface table: constant.
* Integers, formatters and dumps of the hexadecimal module.
* Text, path, error, argument and type helpers, logger, contract, start-up and hooks: nothing
  shared between threads, or straight-line code.
* The vendored libraries under `upstream/` (libcurl, zlib, quill, ...).

## Plan

What would come next: `Events` with handlers that call back and two workers; `GameSave` with
enumeration against concurrent stores; `XCurl` with poll against add.
