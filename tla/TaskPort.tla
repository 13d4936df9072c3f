------------------------------ MODULE TaskPort ------------------------------
(***************************************************************************)
(* gdk::task_port: the bounded queue of callbacks behind every XTaskQueue  *)
(* port.  Client threads submit callbacks, dispatch them, terminate and    *)
(* stop the port; a port opened in one of the pool modes has worker        *)
(* threads of its own that dispatch until the port is terminated.          *)
(*                                                                         *)
(* What runs under mutex_ is one step.  The wake-up of a condition         *)
(* variable follows the unlock and is a step of its own, and so is the     *)
(* call of a callback.  The ring items_[head_ .. head_ + count_) is the    *)
(* sequence items; queued_, which is stored in every critical section that *)
(* changes count_, is Len(items).                                          *)
(***************************************************************************)
EXTENDS Naturals, Sequences, FiniteSets

CONSTANTS Callbacks,     \* callback instances, each submitted at most once
          Delay,         \* Delay[x]: the delay x is submitted with
          Clients,       \* threads that call the port
          MaxWorkers,    \* task_port::max_workers
          Capacity,      \* task_port::capacity
          Modes,         \* the modes the port may be opened in
          DispatchModes, \* the modes in which clients call dispatch
          Timeouts,      \* the finite timeouts clients pass to dispatch
          MaxClock,      \* bound: the last instant that is modelled
          Nil            \* no callback

AllModes ==
    {"manual", "async", "thread_pool", "serialized_thread_pool", "immediate"}

ASSUME PortConstants ==
    /\ Delay \in [Callbacks -> Nat]
    /\ MaxWorkers \in Nat /\ Capacity \in Nat /\ MaxClock \in Nat
    /\ Modes \subseteq AllModes /\ DispatchModes \subseteq AllModes
    /\ Timeouts \subseteq Nat
    /\ Nil \notin Callbacks
    /\ Clients \cap (1..MaxWorkers) = {}

Workers == 1..MaxWorkers
Threads == Clients \cup Workers

\* The deadline of dispatch(INFINITE), and the alarm of a wait without one.
Never == MaxClock + 1

VARIABLES mode, terminated, canceled, items,
          due,        \* due[x]: the due field of the item of callback x
          opened,     \* a client holds the port: open was called, stop has not returned
          workers,    \* started and not yet joined (workers_[0 .. worker_count_))
          stopping,   \* the client inside stop, if there is one
          pc,         \* where each thread is
          cur,        \* the callback each thread is calling
          deadline,   \* of the dispatch call each waiting thread is in
          alarm,      \* when the wait of each waiting thread times out
          clock,      \* now()
          rank,       \* history: the order in which callbacks were accepted
          issued,     \* history: how many were accepted
          finished,   \* history: the callbacks that returned
          dismissed   \* history: the callbacks called with the canceled flag

portVars    == <<mode, terminated, canceled, items, due>>
threadVars  == <<pc, cur, deadline, alarm>>
historyVars == <<rank, issued, finished, dismissed>>
vars == <<portVars, threadVars, historyVars, opened, workers, stopping, clock>>

Range(f) == {f[i] : i \in DOMAIN f}

Queued  == Range(items)
Running == {cur[t] : t \in {u \in Threads : cur[u] # Nil}}

Fresh(x) == rank[x] = 0 /\ x \notin Running \cup finished

States == {"idle", "loop", "running", "wake_one", "wake_all", "waiting",
           "woken", "stop", "join", "drain", "exited"}

TypeOK ==
    /\ mode \in AllModes
    /\ terminated \in BOOLEAN /\ canceled \in BOOLEAN /\ opened \in BOOLEAN
    /\ items \in Seq(Callbacks) /\ Len(items) <= Capacity
    /\ due \in [Callbacks -> Nat]
    /\ workers \in SUBSET Workers /\ stopping \in SUBSET Clients
    /\ pc \in [Threads -> States]
    /\ cur \in [Threads -> Callbacks \cup {Nil}]
    /\ deadline \in [Threads -> 0..Never] /\ alarm \in [Threads -> 0..Never]
    /\ clock \in 0..MaxClock
    /\ rank \in [Callbacks -> Nat] /\ issued \in Nat
    /\ finished \in SUBSET Callbacks /\ dismissed \in SUBSET Callbacks

Init ==
    /\ mode = "manual" /\ terminated = FALSE /\ canceled = FALSE /\ items = <<>>
    /\ due = [x \in Callbacks |-> 0]
    /\ opened = FALSE /\ workers = {} /\ stopping = {}
    /\ pc = [t \in Threads |-> "idle"]
    /\ cur = [t \in Threads |-> Nil]
    /\ deadline = [t \in Threads |-> 0] /\ alarm = [t \in Threads |-> 0]
    /\ clock = 0
    /\ rank = [x \in Callbacks |-> 0] /\ issued = 0
    /\ finished = {} /\ dismissed = {}

-----------------------------------------------------------------------------
(* Opening: the pool opens a port it took before anyone else can reach it.  *)

worker_count(m) ==
    CASE m \in {"async", "thread_pool"}     -> MaxWorkers
      [] m = "serialized_thread_pool"       -> IF MaxWorkers = 0 THEN 0 ELSE 1
      [] m \in {"manual", "immediate"}      -> 0

\* The workers are started in turn, and the first one that cannot be started
\* ends the loop: n of them run.
Open(m, n) ==
    /\ ~opened
    /\ \A c \in Clients : pc[c] = "idle"
    /\ n <= worker_count(m)
    /\ mode' = m
    /\ items' = <<>>
    /\ terminated' = FALSE
    /\ canceled' = FALSE
    /\ opened' = TRUE
    /\ workers' = 1..n
    /\ pc' = [t \in Threads |-> IF t \in 1..n THEN "loop" ELSE "idle"]
    /\ UNCHANGED <<due, stopping, cur, deadline, alarm, clock, historyVars>>

-----------------------------------------------------------------------------
(* Submitting.  A refused callback leaves no trace and may be tried again.  *)

\* In immediate mode the callback runs on the submitter, before any lock.
SubmitInline(c, x) ==
    /\ opened /\ pc[c] = "idle"
    /\ Fresh(x)
    /\ mode = "immediate"
    /\ pc' = [pc EXCEPT ![c] = "running"]
    /\ cur' = [cur EXCEPT ![c] = x]
    /\ UNCHANGED <<portVars, historyVars, deadline, alarm, opened, workers, stopping, clock>>

\* Mutant of Submit: no check that the port is terminated.
Submit_AfterTermination(c, x) ==
    /\ opened /\ pc[c] = "idle" /\ Fresh(x) /\ mode # "immediate"
    /\ Len(items) # Capacity
    /\ clock + Delay[x] <= MaxClock
    /\ items' = Append(items, x)
    /\ due' = [due EXCEPT ![x] = clock + Delay[x]]
    /\ issued' = issued + 1
    /\ rank' = [rank EXCEPT ![x] = issued']
    /\ pc' = [pc EXCEPT ![c] = "wake_one"]
    /\ UNCHANGED <<mode, terminated, canceled, cur, deadline, alarm, opened,
                   workers, stopping, clock, finished, dismissed>>

Submit(c, x) ==
    /\ opened /\ pc[c] = "idle"
    /\ Fresh(x)
    /\ mode # "immediate"
    /\ ~terminated
    /\ Len(items) # Capacity
    /\ clock + Delay[x] <= MaxClock
    /\ items' = Append(items, x)
    /\ due' = [due EXCEPT ![x] = clock + Delay[x]]
    /\ issued' = issued + 1
    /\ rank' = [rank EXCEPT ![x] = issued']
    /\ pc' = [pc EXCEPT ![c] = "wake_one"]
    /\ UNCHANGED <<mode, terminated, canceled, cur, deadline, alarm, opened,
                   workers, stopping, clock, finished, dismissed>>

\* Mutant of WakeOne: the wake-up is forgotten.
WakeOne_Forgotten(c) ==
    /\ pc[c] = "wake_one"
    /\ pc' = [pc EXCEPT ![c] = "idle"]
    /\ UNCHANGED <<portVars, historyVars, cur, deadline, alarm, opened, workers, stopping, clock>>

\* condition::wake_one, after the unlock: one waiter, if there is one.
WakeOne(c) ==
    /\ pc[c] = "wake_one"
    /\ LET asleep == {t \in Threads : pc[t] = "waiting"} IN
       \/ /\ asleep = {}
          /\ pc' = [pc EXCEPT ![c] = "idle"]
       \/ \E t \in asleep : pc' = [pc EXCEPT ![c] = "idle", ![t] = "woken"]
    /\ UNCHANGED <<portVars, historyVars, cur, deadline, alarm, opened, workers, stopping, clock>>

-----------------------------------------------------------------------------
(* Dispatching                                                              *)

\* Mutant of DuePositions: the search runs from the tail.
DuePositions_LastFirst ==
    {i \in 1..Len(items) :
        IF terminated
        THEN i = 1
        ELSE /\ due[items[i]] <= clock
             /\ \A j \in (i + 1)..Len(items) : due[items[j]] > clock}

\* The position due() brings to the head of the ring: the first item whose time
\* has come, or the head whatever its time once the port is terminated.
DuePositions ==
    {i \in 1..Len(items) :
        IF terminated
        THEN i = 1
        ELSE /\ due[items[i]] <= clock
             /\ \A j \in 1..(i - 1) : due[items[j]] > clock}

\* Mutant of TakenFrom: the head is advanced without the swap.
TakenFrom_Unswapped(s, i) == Tail(s)

\* due() swaps the head with item i, and dispatch then advances the head.
TakenFrom(s, i) ==
    [k \in 1..(Len(s) - 1) |-> IF k + 1 = i THEN s[1] ELSE s[k + 1]]

Earliest ==
    IF items = <<>>
    THEN Never
    ELSE CHOOSE d \in {due[x] : x \in Queued} : \A x \in Queued : d <= due[x]

Min(a, b) == IF a <= b THEN a ELSE b

\* dispatch reads the clock again after due() found nothing, perhaps later.
SecondReading == {n \in {clock, clock + 1} : n <= MaxClock}

\* Where a thread goes when the dispatch call it made returns false.
AfterDispatch(t) == IF t \in Workers THEN "exited" ELSE "idle"

Take(t) ==
    /\ \E i \in DuePositions :
          /\ items' = TakenFrom(items, i)
          /\ cur' = [cur EXCEPT ![t] = items[i]]
          /\ dismissed' = IF canceled THEN dismissed \cup {items[i]} ELSE dismissed
    /\ pc' = [pc EXCEPT ![t] = "running"]
    /\ deadline' = [deadline EXCEPT ![t] = 0]
    /\ alarm' = [alarm EXCEPT ![t] = 0]
    /\ UNCHANGED <<mode, terminated, canceled, due, opened, workers, stopping,
                   clock, rank, issued, finished>>

GiveUp(t, limit) ==
    /\ DuePositions = {}
    /\ \E n \in SecondReading :
          /\ terminated \/ n >= limit
          /\ clock' = n
    /\ pc' = [pc EXCEPT ![t] = AfterDispatch(t)]
    /\ deadline' = [deadline EXCEPT ![t] = 0]
    /\ alarm' = [alarm EXCEPT ![t] = 0]
    /\ UNCHANGED <<portVars, historyVars, cur, opened, workers, stopping>>

\* Mutant of Sleep: the wait ignores the items that are not due yet.
Sleep_PastDue(t, limit) ==
    /\ DuePositions = {}
    /\ ~terminated
    /\ \E n \in SecondReading : n < limit /\ clock' = n
    /\ pc' = [pc EXCEPT ![t] = "waiting"]
    /\ deadline' = [deadline EXCEPT ![t] = limit]
    /\ alarm' = [alarm EXCEPT ![t] = limit]
    /\ UNCHANGED <<portVars, historyVars, cur, opened, workers, stopping>>

\* condition::wait releases the mutex and starts to wait in one step; the wait
\* ends at the deadline or when the next item falls due.
Sleep(t, limit) ==
    /\ DuePositions = {}
    /\ ~terminated
    /\ \E n \in SecondReading :
          /\ n < limit
          /\ clock' = n
    /\ pc' = [pc EXCEPT ![t] = "waiting"]
    /\ deadline' = [deadline EXCEPT ![t] = limit]
    /\ alarm' = [alarm EXCEPT ![t] = Min(limit, Earliest)]
    /\ UNCHANGED <<portVars, historyVars, cur, opened, workers, stopping>>

\* One turn of the loop in dispatch, from locking the mutex to releasing it.
Turn(t, limit) == Take(t) \/ GiveUp(t, limit) \/ Sleep(t, limit)

\* The limits of a dispatch call made now.
Limits == {clock + d : d \in {e \in Timeouts : clock + e <= MaxClock}} \cup {Never}

\* A client's call; with timeout 0 and nothing queued it returns without locking,
\* which is the GiveUp of that turn.
Dispatch(c) ==
    /\ opened /\ pc[c] = "idle"
    /\ mode \in DispatchModes
    /\ \E limit \in Limits : Turn(c, limit)

Work(w) == pc[w] = "loop" /\ Turn(w, Never)

Resume(t) == pc[t] = "woken" /\ Turn(t, deadline[t])

WaitTimesOut(t) ==
    /\ pc[t] = "waiting"
    /\ alarm[t] <= clock
    /\ pc' = [pc EXCEPT ![t] = "woken"]
    /\ UNCHANGED <<portVars, historyVars, cur, deadline, alarm, opened, workers, stopping, clock>>

\* The system may end the wait of a condition variable for no reason.
WakeSpuriously(t) ==
    /\ pc[t] = "waiting"
    /\ pc' = [pc EXCEPT ![t] = "woken"]
    /\ UNCHANGED <<portVars, historyVars, cur, deadline, alarm, opened, workers, stopping, clock>>

\* The callback returns to whoever called it: work, stop, or a client's call.
CallbackReturns(t) ==
    /\ pc[t] = "running"
    /\ finished' = finished \cup {cur[t]}
    /\ cur' = [cur EXCEPT ![t] = Nil]
    /\ pc' = [pc EXCEPT ![t] = IF t \in Workers THEN "loop"
                               ELSE IF t \in stopping THEN "drain" ELSE "idle"]
    /\ UNCHANGED <<portVars, deadline, alarm, opened, workers, stopping, clock,
                   rank, issued, dismissed>>

-----------------------------------------------------------------------------
(* Terminating and stopping                                                 *)

Terminate(c) ==
    /\ opened /\ pc[c] = "idle"
    /\ terminated' = TRUE
    /\ canceled' = (canceled \/ mode # "manual")
    /\ pc' = [pc EXCEPT ![c] = "wake_all"]
    /\ UNCHANGED <<mode, items, due, cur, deadline, alarm, opened, workers,
                   stopping, clock, historyVars>>

\* One client stops a port: the one that released its last holder.
Stop(c) ==
    /\ opened /\ pc[c] = "idle"
    /\ stopping = {}
    /\ terminated' = TRUE
    /\ canceled' = TRUE
    /\ stopping' = {c}
    /\ pc' = [pc EXCEPT ![c] = "stop"]
    /\ UNCHANGED <<mode, items, due, cur, deadline, alarm, opened, workers,
                   clock, historyVars>>

\* Mutant of WakeAll: wake_one where wake_all is meant.
WakeAll_WakesOne(c) ==
    /\ pc[c] \in {"wake_all", "stop"}
    /\ LET up     == IF pc[c] = "stop" THEN "join" ELSE "idle"
           asleep == {t \in Threads : pc[t] = "waiting"}
       IN \/ asleep = {} /\ pc' = [pc EXCEPT ![c] = up]
          \/ \E t \in asleep : pc' = [pc EXCEPT ![c] = up, ![t] = "woken"]
    /\ UNCHANGED <<portVars, historyVars, cur, deadline, alarm, opened, workers, stopping, clock>>

\* condition::wake_all, after the unlock of terminate or of stop.
WakeAll(c) ==
    /\ pc[c] \in {"wake_all", "stop"}
    /\ pc' = [t \in Threads |->
                IF t = c THEN IF pc[c] = "stop" THEN "join" ELSE "idle"
                ELSE IF pc[t] = "waiting" THEN "woken" ELSE pc[t]]
    /\ UNCHANGED <<portVars, historyVars, cur, deadline, alarm, opened, workers, stopping, clock>>

\* Mutant of Join: one worker is joined instead of all of them.
Join_First(c) ==
    /\ pc[c] = "join"
    /\ workers # {} => pc[1] = "exited"
    /\ workers' = {}
    /\ pc' = [pc EXCEPT ![c] = "drain"]
    /\ UNCHANGED <<portVars, historyVars, cur, deadline, alarm, opened, stopping, clock>>

Join(c) ==
    /\ pc[c] = "join"
    /\ \A w \in workers : pc[w] = "exited"
    /\ workers' = {}
    /\ pc' = [pc EXCEPT ![c] = "drain"]
    /\ UNCHANGED <<portVars, historyVars, cur, deadline, alarm, opened, stopping, clock>>

\* while (dispatch (0)): what the workers left is called, canceled.
Drain(c) == pc[c] = "drain" /\ Take(c)

StopReturns(c) ==
    /\ pc[c] = "drain"
    /\ DuePositions = {}
    /\ opened' = FALSE
    /\ stopping' = {}
    /\ pc' = [pc EXCEPT ![c] = "idle"]
    /\ UNCHANGED <<portVars, historyVars, cur, deadline, alarm, workers, clock>>

-----------------------------------------------------------------------------
Tick ==
    /\ clock < MaxClock
    /\ clock' = clock + 1
    /\ UNCHANGED <<portVars, threadVars, historyVars, opened, workers, stopping>>

\* What a thread inside the port does by itself.
Step(t) ==
    \/ Resume(t) \/ WaitTimesOut(t) \/ CallbackReturns(t)
    \/ t \in Workers /\ Work(t)
    \/ /\ t \in Clients
       /\ WakeOne(t) \/ WakeAll(t) \/ Join(t) \/ Drain(t) \/ StopReturns(t)

\* What a client chooses to call.
Call(c) ==
    \/ \E x \in Callbacks : SubmitInline(c, x) \/ Submit(c, x)
    \/ Dispatch(c) \/ Terminate(c) \/ Stop(c)

Next ==
    \/ \E m \in Modes, n \in 0..MaxWorkers : Open(m, n)
    \/ \E c \in Clients : Call(c)
    \/ \E t \in Threads : Step(t) \/ WakeSpuriously(t)
    \/ Tick

Spec == Init /\ [][Next]_vars

\* Every thread that can go on does, callbacks return, and time passes.  Clients
\* need not call anything, and no wake-up is spurious on demand.
Fairness == WF_vars(Tick) /\ \A t \in Threads : WF_vars(Step(t))

FairSpec == Spec /\ Fairness

-----------------------------------------------------------------------------
(* Properties                                                               *)

Position(x) == {i \in 1..Len(items) : items[i] = x}
Callers(x)  == {t \in Threads : cur[t] = x}

\* Every callback submit accepted is in one place: at one position of the ring,
\* in the hands of one thread, or returned; due()'s swap, the race of workers,
\* clients and stop for the ring, and the reset of the ring by open neither lose
\* a callback nor hand it out twice, nor overfill the ring.
OnceOnly ==
    /\ TypeOK
    /\ \A x \in Callbacks :
          /\ \A i, j \in Position(x) : i = j
          /\ \A t, u \in Callers(x) : t = u
          /\ Position(x) # {} => rank[x] # 0 /\ Callers(x) = {}
          /\ x \in finished => Position(x) = {} /\ Callers(x) = {}
          /\ rank[x] # 0 => Position(x) # {} \/ Callers(x) # {} \/ x \in finished

\* Callbacks without a delay are handed out in the order submit accepted them,
\* although due() moves delayed callbacks about the ring (task-queue.cxx 136-142):
\* one still in the ring was accepted after every one that has left it.
UndelayedInOrder ==
    \A i \in 1..Len(items) : \A y \in Callbacks :
        /\ Delay[items[i]] = 0
        /\ Delay[y] = 0
        /\ rank[y] # 0 /\ Position(y) = {}
        => rank[y] < rank[items[i]]

\* When stop has returned the port is quiet: the ring is empty, the workers have
\* left, and none of them is in a callback, so the pool may open the port again.
StoppedIsQuiet ==
    ~opened =>
        /\ items = <<>>
        /\ workers = {}
        /\ \A w \in Workers : pc[w] \in {"idle", "exited"} /\ cur[w] = Nil

\* No wake-up is lost between the unlock in submit and wake_one: when a port with
\* workers has callbacks queued, somebody is on the way to them.  A worker is up, a
\* submitter or a terminator is about to wake one, or a worker sleeps no longer than
\* until the next callback falls due.
NoLostWakeup ==
    items # <<>> /\ workers # {} =>
        \/ \E c \in Clients : pc[c] \in {"wake_one", "wake_all", "stop"}
        \/ \E w \in workers : pc[w] \in {"loop", "running", "woken"}
        \/ \E w \in workers : pc[w] = "waiting" /\ alarm[w] <= Earliest
        \/ \E c \in stopping : pc[c] \in {"join", "drain"}

\* The port implements the abstract queue: the ring is its pending set, the
\* threads' hands its running set.
Abstract == INSTANCE CallbackQueue
              WITH pending  <- Queued,
                   running  <- Running,
                   canceled <- dismissed,
                   closed   <- terminated \/ ~opened

ImplementsCallbackQueue == Abstract!Spec

\* A callback accepted by a port that has workers is eventually called and returns,
\* delayed or not, whatever is terminated or stopped meanwhile.
PoolCallsEveryCallback ==
    \A x \in Callbacks : (x \in Queued /\ workers # {}) ~> (x \in finished)

\* stop returns: its wake_all and the terminated flag bring every worker out of
\* dispatch (INFINITE), and the drain ends.
StopCompletes == (stopping # {}) ~> (~opened)

\* Once the port is terminated no client stays blocked in dispatch.
TerminationReleasesClients ==
    \A c \in Clients : (pc[c] = "waiting" /\ terminated) ~> (pc[c] # "waiting")

\* Nobody stays blocked when a port goes down, by stop or by terminate.
BlockedReturn == StopCompletes /\ TerminationReleasesClients

\* A client blocked in dispatch (INFINITE) does not sleep through a callback that
\* has fallen due (tests/gdk/task-queue/driver.cxx 71-76 rely on it).
InfiniteDispatchSeesDueCallback ==
    \A c \in Clients :
        (pc[c] = "waiting" /\ deadline[c] = Never /\ DuePositions # {})
            ~> (pc[c] # "waiting" \/ DuePositions = {})

=============================================================================
