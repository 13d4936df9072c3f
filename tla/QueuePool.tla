----------------------------- MODULE QueuePool -----------------------------
(***************************************************************************)
(* gdk::queue_pool: the fixed pool of task queues and of the ports they    *)
(* are made of, the handles clients hold on queues, and the process queue. *)
(* A queue from create_queue owns two ports; a composite queue borrows the *)
(* ports of other queues, which must outlive their owner as long as they   *)
(* are borrowed.  The last close of a handle releases the queue: under the *)
(* pool's mutex it gives up its claims, outside it the ports nobody claims *)
(* are stopped (see TaskPort), and under the mutex again they are given    *)
(* back.  What runs under the mutex, and each atomic access, is one step.  *)
(*                                                                         *)
(* Clients keep to the contract of the API: they close only handles they   *)
(* were given, build composites only from ports of queues they hold, and   *)
(* keep a handle on a queue they made the process queue, because           *)
(* set_process_queue takes no reference of its own.                        *)
(***************************************************************************)
EXTENDS Integers, FiniteSets

CONSTANTS Threads,      \* client threads
          MaxQueues,    \* max_queues
          MaxPorts,     \* max_ports
          MaxHandles,   \* bound: handles clients hold on one queue
          MaxPinned     \* bound: queues that are ever made the process queue

ASSUME PoolConstants ==
    /\ MaxQueues \in Nat /\ MaxPorts \in Nat
    /\ MaxHandles \in Nat /\ MaxPinned \in Nat

Queues == 1..MaxQueues
Ports  == 1..MaxPorts
None   == 0             \* nullptr, and the index max_ports
Sides  == {"work", "completion"}

VARIABLES made_used, made_owns,
          made_ports,   \* made_ports[q][s]: the port on side s of queue q
          references,   \* task_queue::references_
          port_used, port_owned, port_borrows,
          ports, queues,
          running,      \* the ports that are open: task_port::open, not yet stop
          process,      \* current_process_queue
          fallback,     \* the static of process_queue
          pc,
          target,       \* the queue a thread releases, or loaded from process
          done,         \* the ports a thread has found spent, or stops all of
          handles,      \* the handles clients hold on each queue
          pinned,       \* the queues whose handle a client keeps for good
          down,         \* stop_queues was called
          cleared       \* history: the process queue was set to nullptr

poolVars  == <<made_used, made_owns, made_ports, references, queues>>
portVars  == <<port_used, port_owned, port_borrows, ports>>
threadVars == <<pc, target, done>>
vars == <<poolVars, portVars, threadVars, running, process, fallback,
          handles, pinned, down, cleared>>

States == {"idle", "release", "stop", "give", "fallback", "publish", "load",
           "duplicate", "stop_all"}

TypeOK ==
    /\ made_used \in [Queues -> BOOLEAN] /\ made_owns \in [Queues -> BOOLEAN]
    /\ made_ports \in [Queues -> [Sides -> Ports \cup {None}]]
    /\ references \in [Queues -> Nat] /\ handles \in [Queues -> Nat]
    /\ port_used \in [Ports -> BOOLEAN] /\ port_owned \in [Ports -> BOOLEAN]
    /\ port_borrows \in [Ports -> Nat]
    /\ ports \in Nat /\ queues \in Nat
    /\ running \in SUBSET Ports /\ pinned \in SUBSET Queues
    /\ process \in Queues \cup {None} /\ fallback \in Queues \cup {None}
    /\ pc \in [Threads -> States]
    /\ target \in [Threads -> Queues \cup {None}]
    /\ done \in [Threads -> SUBSET Ports]
    /\ down \in BOOLEAN /\ cleared \in BOOLEAN

Init ==
    /\ made_used = [q \in Queues |-> FALSE]
    /\ made_owns = [q \in Queues |-> FALSE]
    /\ made_ports = [q \in Queues |-> [s \in Sides |-> None]]
    /\ references = [q \in Queues |-> 0]
    /\ handles = [q \in Queues |-> 0]
    /\ port_used = [j \in Ports |-> FALSE]
    /\ port_owned = [j \in Ports |-> FALSE]
    /\ port_borrows = [j \in Ports |-> 0]
    /\ ports = 0 /\ queues = 0
    /\ running = {} /\ pinned = {}
    /\ process = None /\ fallback = None
    /\ pc = [t \in Threads |-> "idle"]
    /\ target = [t \in Threads |-> None]
    /\ done = [t \in Threads |-> {}]
    /\ down = FALSE /\ cleared = FALSE

-----------------------------------------------------------------------------
(* Creating queues                                                          *)

\* take_queue and take_port pick the first free slot.
FirstFree(i, S) == i \in S /\ \A j \in S : i <= j

FreeQueues == {q \in Queues : ~made_used[q]}
FreePorts  == {j \in Ports : ~port_used[j]}

\* create_queue takes two ports and a queue, or gives back what it took when one
\* of them is missing; it opens the ports before anyone can reach them.
create_queue(q, w, c) ==
    /\ FirstFree(w, FreePorts)
    /\ FirstFree(c, FreePorts \ {w})
    /\ FirstFree(q, FreeQueues)
    /\ port_used' = [port_used EXCEPT ![w] = TRUE, ![c] = TRUE]
    /\ port_owned' = [port_owned EXCEPT ![w] = TRUE, ![c] = TRUE]
    /\ ports' = ports + 2
    /\ made_used' = [made_used EXCEPT ![q] = TRUE]
    /\ made_owns' = [made_owns EXCEPT ![q] = TRUE]
    /\ made_ports' = [made_ports EXCEPT ![q] =
                        [s \in Sides |-> IF s = "work" THEN w ELSE c]]
    /\ queues' = queues + 1
    /\ references' = [references EXCEPT ![q] = 1]
    /\ running' = running \cup {w, c}
    /\ UNCHANGED port_borrows

Create(t) ==
    /\ pc[t] = "idle"
    /\ \E q \in Queues, w, c \in Ports :
          /\ create_queue(q, w, c)
          /\ handles' = [handles EXCEPT ![q] = 1]
    /\ UNCHANGED <<threadVars, process, fallback, pinned, down, cleared>>

\* Mutant of Borrowed: a port borrowed for both sides is counted once.
Borrowed_Once(w, c, j) == IF j \in {w, c} THEN 1 ELSE 0

\* Borrowing the same port for both sides counts twice.
Borrowed(w, c, j) == (IF j = w THEN 1 ELSE 0) + (IF j = c THEN 1 ELSE 0)

\* The ports a client can name: those of the queues it has a handle on.
Reachable == {made_ports[q][s] : q \in {r \in Queues : handles[r] > 0}, s \in Sides}

CreateComposite(t) ==
    /\ pc[t] = "idle"
    /\ \E w, c \in Reachable, q \in FreeQueues :
          /\ FirstFree(q, FreeQueues)
          /\ made_used' = [made_used EXCEPT ![q] = TRUE]
          /\ made_owns' = [made_owns EXCEPT ![q] = FALSE]
          /\ made_ports' = [made_ports EXCEPT ![q] =
                              [s \in Sides |-> IF s = "work" THEN w ELSE c]]
          /\ port_borrows' = [j \in Ports |-> port_borrows[j] + Borrowed(w, c, j)]
          /\ references' = [references EXCEPT ![q] = 1]
          /\ handles' = [handles EXCEPT ![q] = 1]
    /\ queues' = queues + 1
    /\ UNCHANGED <<port_used, port_owned, ports, running, threadVars, process,
                   fallback, pinned, down, cleared>>

-----------------------------------------------------------------------------
(* Handles                                                                  *)

Duplicate(t, q) ==
    /\ pc[t] = "idle"
    /\ handles[q] \in 1..(MaxHandles - 1)
    /\ references' = [references EXCEPT ![q] = @ + 1]
    /\ handles' = [handles EXCEPT ![q] = @ + 1]
    /\ UNCHANGED <<made_used, made_owns, made_ports, queues, portVars, threadVars,
                   running, process, fallback, pinned, down, cleared>>

\* Mutant of Close: the queue is released when one reference is left.
Close_Early(t, q) ==
    /\ pc[t] = "idle"
    /\ handles[q] > 0
    /\ q \in pinned => handles[q] > 1
    /\ references' = [references EXCEPT ![q] = @ - 1]
    /\ handles' = [handles EXCEPT ![q] = @ - 1]
    /\ IF references[q] <= 2
       THEN /\ pc' = [pc EXCEPT ![t] = "release"]
            /\ target' = [target EXCEPT ![t] = q]
       ELSE UNCHANGED <<pc, target>>
    /\ UNCHANGED <<made_used, made_owns, made_ports, queues, portVars, done,
                   running, process, fallback, pinned, down, cleared>>

Close(t, q) ==
    /\ pc[t] = "idle"
    /\ handles[q] > 0
    /\ q \in pinned => handles[q] > 1
    /\ references' = [references EXCEPT ![q] = @ - 1]
    /\ handles' = [handles EXCEPT ![q] = @ - 1]
    /\ IF references[q] = 1
       THEN /\ pc' = [pc EXCEPT ![t] = "release"]
            /\ target' = [target EXCEPT ![t] = q]
       ELSE UNCHANGED <<pc, target>>
    /\ UNCHANGED <<made_used, made_owns, made_ports, queues, portVars, done,
                   running, process, fallback, pinned, down, cleared>>

-----------------------------------------------------------------------------
(* release_queue                                                            *)

PortsOf(q) == {made_ports[q][s] : s \in Sides} \ {None}

\* How many sides of queue q are port j, and a count that stops at zero.
Uses(q, j) == Borrowed(made_ports[q]["work"], made_ports[q]["completion"], j)
Less(n, k) == IF n >= k THEN n - k ELSE 0

\* Mutant of ReleaseClaims: a port is spent when its owner goes, borrowed or not.
ReleaseClaims_IgnoresBorrows(t) ==
    /\ pc[t] = "release"
    /\ LET q == target[t] IN
       IF ~made_used[q]
       THEN /\ done' = [done EXCEPT ![t] = {}]
            /\ pc' = [pc EXCEPT ![t] = "idle"]
            /\ UNCHANGED <<poolVars, port_owned, port_borrows>>
       ELSE /\ IF made_owns[q]
               THEN /\ port_owned' = [j \in Ports |-> port_owned[j] /\ j \notin PortsOf(q)]
                    /\ UNCHANGED port_borrows
               ELSE /\ port_borrows' = [j \in Ports |-> Less(port_borrows[j], Uses(q, j))]
                    /\ UNCHANGED port_owned
            /\ LET spent == {j \in PortsOf(q) : /\ port_used[j]
                                                /\ ~port_owned'[j]}
               IN /\ done' = [done EXCEPT ![t] = spent]
                  /\ pc' = [pc EXCEPT ![t] = IF spent = {} THEN "idle" ELSE "stop"]
            /\ made_ports' = [made_ports EXCEPT ![q] = [s \in Sides |-> None]]
            /\ made_owns' = [made_owns EXCEPT ![q] = FALSE]
            /\ made_used' = [made_used EXCEPT ![q] = FALSE]
            /\ queues' = queues - 1
            /\ UNCHANGED references
    /\ target' = [target EXCEPT ![t] = None]
    /\ UNCHANGED <<port_used, ports, running, process, fallback, handles, pinned, down, cleared>>

\* The first critical section: the queue drops its claims, and the ports that
\* nobody claims any more are spent.
ReleaseClaims(t) ==
    /\ pc[t] = "release"
    /\ LET q == target[t] IN
       IF ~made_used[q]
       THEN /\ done' = [done EXCEPT ![t] = {}]
            /\ pc' = [pc EXCEPT ![t] = "idle"]
            /\ UNCHANGED <<poolVars, port_owned, port_borrows>>
       ELSE /\ IF made_owns[q]
               THEN /\ port_owned' = [j \in Ports |-> port_owned[j] /\ j \notin PortsOf(q)]
                    /\ UNCHANGED port_borrows
               ELSE /\ port_borrows' = [j \in Ports |-> Less(port_borrows[j], Uses(q, j))]
                    /\ UNCHANGED port_owned
            /\ LET spent == {j \in PortsOf(q) : /\ port_used[j]
                                                /\ ~port_owned'[j]
                                                /\ port_borrows'[j] = 0}
               IN /\ done' = [done EXCEPT ![t] = spent]
                  /\ pc' = [pc EXCEPT ![t] = IF spent = {} THEN "idle" ELSE "stop"]
            /\ made_ports' = [made_ports EXCEPT ![q] = [s \in Sides |-> None]]
            /\ made_owns' = [made_owns EXCEPT ![q] = FALSE]
            /\ made_used' = [made_used EXCEPT ![q] = FALSE]
            /\ queues' = queues - 1
            /\ UNCHANGED references
    /\ target' = [target EXCEPT ![t] = None]
    /\ UNCHANGED <<port_used, ports, running, process, fallback, handles, pinned, down, cleared>>

\* task_port::stop of each spent port in turn, outside the mutex.
StopSpent(t) ==
    /\ pc[t] = "stop"
    /\ \/ \E j \in done[t] \cap running :
             /\ running' = running \ {j}
             /\ UNCHANGED pc
       \/ /\ done[t] \cap running = {}
          /\ pc' = [pc EXCEPT ![t] = "give"]
          /\ UNCHANGED running
    /\ UNCHANGED <<poolVars, portVars, target, done, process, fallback, handles,
                   pinned, down, cleared>>

\* Mutant of GivePorts: one of the two spent ports is given back.
GivePorts_One(t) ==
    /\ pc[t] = "give"
    /\ \E i \in done[t] : port_used' = [port_used EXCEPT ![i] = FALSE]
    /\ ports' = ports - 1
    /\ done' = [done EXCEPT ![t] = {}]
    /\ pc' = [pc EXCEPT ![t] = "idle"]
    /\ UNCHANGED <<poolVars, port_owned, port_borrows, target, running, process,
                   fallback, handles, pinned, down, cleared>>

\* The second critical section: give_port for each of them.
GivePorts(t) ==
    /\ pc[t] = "give"
    /\ port_used' = [j \in Ports |-> port_used[j] /\ j \notin done[t]]
    /\ ports' = ports - Cardinality(done[t])
    /\ done' = [done EXCEPT ![t] = {}]
    /\ pc' = [pc EXCEPT ![t] = "idle"]
    /\ UNCHANGED <<poolVars, port_owned, port_borrows, target, running, process,
                   fallback, handles, pinned, down, cleared>>

-----------------------------------------------------------------------------
(* The process queue                                                        *)

SetProcess(t, q) ==
    /\ pc[t] = "idle"
    /\ handles[q] > 0
    /\ Cardinality(pinned \cup {q}) <= MaxPinned
    /\ process' = q
    /\ pinned' = pinned \cup {q}
    /\ UNCHANGED <<poolVars, portVars, threadVars, running, fallback, handles, down, cleared>>

\* Bound: it is cleared once.
ClearProcess(t) ==
    /\ pc[t] = "idle"
    /\ process # None
    /\ ~cleared
    /\ process' = None
    /\ cleared' = TRUE
    /\ UNCHANGED <<poolVars, portVars, threadVars, running, fallback, handles, pinned, down>>

\* process_queue: the queue that was set, else the fallback, made at most once.
LoadProcess(t) ==
    /\ pc[t] = "idle"
    /\ \A q \in Queues : handles[q] < MaxHandles
    /\ IF process # None
       THEN /\ target' = [target EXCEPT ![t] = process]
            /\ pc' = [pc EXCEPT ![t] = "duplicate"]
       ELSE /\ pc' = [pc EXCEPT ![t] = "fallback"]
            /\ UNCHANGED target
    /\ UNCHANGED <<poolVars, portVars, done, running, process, fallback, handles,
                   pinned, down, cleared>>

\* When there is no room for the fallback the program ends (fatal).
MakeFallback(t) ==
    /\ pc[t] = "fallback"
    /\ IF fallback = None
       THEN \E q \in Queues, w, c \in Ports :
               /\ create_queue(q, w, c)
               /\ fallback' = q
       ELSE UNCHANGED <<poolVars, portVars, running, fallback>>
    /\ pc' = [pc EXCEPT ![t] = "publish"]
    /\ UNCHANGED <<target, done, process, handles, pinned, down, cleared>>

\* Mutant of PublishFallback: the exchange is left out.
PublishFallback_Skipped(t) ==
    /\ pc[t] = "publish"
    /\ pc' = [pc EXCEPT ![t] = "load"]
    /\ UNCHANGED <<poolVars, portVars, target, done, running, process, fallback,
                   handles, pinned, down, cleared>>

\* compare_exchange_strong: a queue that was set meanwhile stays.
PublishFallback(t) ==
    /\ pc[t] = "publish"
    /\ process' = IF process = None THEN fallback ELSE process
    /\ pc' = [pc EXCEPT ![t] = "load"]
    /\ UNCHANGED <<poolVars, portVars, target, done, running, fallback, handles,
                   pinned, down, cleared>>

ReloadProcess(t) ==
    /\ pc[t] = "load"
    /\ target' = [target EXCEPT ![t] = process]
    /\ pc' = [pc EXCEPT ![t] = "duplicate"]
    /\ UNCHANGED <<poolVars, portVars, done, running, process, fallback, handles,
                   pinned, down, cleared>>

\* queue_get_current_process takes its reference after process_queue returned; when
\* that was a null reference the program ends here.
DuplicateProcess(t) ==
    /\ pc[t] = "duplicate"
    /\ target[t] # None
    /\ LET q == target[t] IN
       /\ references' = [references EXCEPT ![q] = @ + 1]
       /\ handles' = [handles EXCEPT ![q] = @ + 1]
    /\ target' = [target EXCEPT ![t] = None]
    /\ pc' = [pc EXCEPT ![t] = "idle"]
    /\ UNCHANGED <<made_used, made_owns, made_ports, queues, portVars, done,
                   running, process, fallback, pinned, down, cleared>>

-----------------------------------------------------------------------------
(* stop_queues, when the runtime is uninitialized: the ports in use are     *)
(* listed under the mutex and stopped after it; queues and handles remain.  *)
(* Bound: it is called once.                                                *)

StopAll(t) ==
    /\ pc[t] = "idle"
    /\ ~down
    /\ done' = [done EXCEPT ![t] = {j \in Ports : port_used[j]}]
    /\ pc' = [pc EXCEPT ![t] = "stop_all"]
    /\ down' = TRUE
    /\ UNCHANGED <<poolVars, portVars, target, running, process, fallback,
                   handles, pinned, cleared>>

StopNext(t) ==
    /\ pc[t] = "stop_all"
    /\ \/ \E j \in done[t] :
             /\ running' = running \ {j}
             /\ done' = [done EXCEPT ![t] = @ \ {j}]
             /\ UNCHANGED pc
       \/ /\ done[t] = {}
          /\ pc' = [pc EXCEPT ![t] = "idle"]
          /\ UNCHANGED <<running, done>>
    /\ UNCHANGED <<poolVars, portVars, target, process, fallback, handles,
                   pinned, down, cleared>>

-----------------------------------------------------------------------------
Step(t) ==
    \/ ReleaseClaims(t) \/ StopSpent(t) \/ GivePorts(t)
    \/ MakeFallback(t) \/ PublishFallback(t) \/ ReloadProcess(t) \/ DuplicateProcess(t)
    \/ StopNext(t)

Call(t) ==
    \/ Create(t) \/ CreateComposite(t) \/ LoadProcess(t) \/ ClearProcess(t)
    \/ StopAll(t)
    \/ \E q \in Queues : Duplicate(t, q) \/ Close(t, q) \/ SetProcess(t, q)

Next == \E t \in Threads : Call(t) \/ Step(t)

Spec == Init /\ [][Next]_vars

-----------------------------------------------------------------------------
(* Properties                                                               *)

Borrowers(j) == {b \in Queues \X Sides : /\ made_used[b[1]] /\ ~made_owns[b[1]]
                                         /\ made_ports[b[1]][b[2]] = j}
Owners(j) == {q \in Queues : made_used[q] /\ made_owns[q] /\ j \in PortsOf(q)}

Releasing(t) == pc[t] \in {"stop", "give"}

\* The pool's books agree with the queues alive: port_borrows counts the sides of
\* composite queues a port serves, port_owned says whether its owner lives, no port
\* has two owners, every count is in its range, and the counters behind the capacity warnings and queue_count are
\* the numbers of slots in use.
BooksBalance ==
    /\ TypeOK
    /\ \A j \in Ports :
          /\ port_borrows[j] = Cardinality(Borrowers(j))
          /\ port_owned[j] <=> Owners(j) # {}
          /\ \A q, r \in Owners(j) : q = r
    /\ ports = Cardinality({j \in Ports : port_used[j]})
    /\ queues = Cardinality({q \in Queues : made_used[q]})

\* A port that a live queue refers to stays: while a queue is alive, composite or
\* not, both its ports are allotted and, unless the runtime was shut down, have not
\* been stopped, whichever of the queues sharing them is closed first.
HeldPortsStay ==
    \A q \in Queues : made_used[q] =>
        \A s \in Sides :
            LET j == made_ports[q][s] IN
            /\ j \in Ports
            /\ port_used[j]
            /\ down \/ j \in running

\* Between the two critical sections of release_queue a spent port belongs to the
\* one thread that stops it: it is still allotted (the precondition of give_port), no
\* queue claims it and no other release returns it.  Every other allotted port is
\* claimed by a queue, so that none is lost to the pool.
SpentPortsReturn ==
    /\ \A t \in Threads : Releasing(t) =>
          \A j \in done[t] :
              /\ port_used[j] /\ Owners(j) = {} /\ Borrowers(j) = {}
              /\ \A u \in Threads : Releasing(u) /\ j \in done[u] => u = t
    /\ \A j \in Ports : port_used[j] =>
          \/ Owners(j) # {} \/ Borrowers(j) # {}
          \/ \E t \in Threads : Releasing(t) /\ j \in done[t]

\* A queue lives as long as a handle on it: references_ counts the clients' handles,
\* and the fallback's own, exactly; a queue with a handle is in use; and a queue whose
\* count fell to zero is released by one thread, once.
HandlesKeepQueues ==
    \A q \in Queues :
        LET owed == handles[q] + (IF q = fallback THEN 1 ELSE 0) IN
        /\ owed # 0 => made_used[q]
        /\ made_used[q] => references[q] = owed
        /\ \A t, u \in Threads :
              pc[t] = "release" /\ target[t] = q /\ pc[u] = "release" /\ target[u] = q
                  => t = u
        /\ made_used[q] /\ owed = 0 =>
              \E t \in Threads : pc[t] = "release" /\ target[t] = q

\* The process queue that process_queue returns, and queue_get_current_process
\* duplicates later, is alive: it has a handle behind it, and it is null only if
\* somebody cleared the process queue between the exchange and the second load
\* (task-queue.cxx 571-577).
ProcessQueueAlive ==
    \A t \in Threads : pc[t] = "duplicate" =>
        IF target[t] = None
        THEN cleared
        ELSE made_used[target[t]] /\ references[target[t]] > 0

=============================================================================
