------------------------------- MODULE Events -------------------------------
(***************************************************************************)
(* The events the runtime posts to the game, from the tables the game's    *)
(* handlers are registered in (gdk::handler_table), over invitations and   *)
(* connectivity notifications, to the completion port of the process       *)
(* queue that calls them, while the game terminates queues and shuts the   *)
(* runtime down and brings it up again.                                    *)
(*                                                                         *)
(* A completion port is what CallbackQueue promises of it, for callbacks   *)
(* without a delay: a bounded queue, closed by terminate or stop.  The     *)
(* work ports carry no events and are left to TaskPort and Async.  There   *)
(* are two queues: one of the game's own, and the fallback process_queue   *)
(* makes, which has workers.  What runs under a lock is one step, and so   *)
(* is the call of a handler.                                               *)
(***************************************************************************)
EXTENDS Naturals, Sequences, FiniteSets

CONSTANTS Clients,      \* threads of the game
          Listeners,    \* threads that hear of invitations
          Workers,      \* the workers of the fallback queue
          MaxHandlers,  \* handler_table::capacity
          Capacity,     \* task_port::capacity
          GameModes,    \* the modes the game's queue may be opened in
          ProcessQueues, \* what the game may set the process queue to
          MaxRegs,      \* bound: registrations
          MaxInvites,   \* bound: invitations
          MaxEnds,      \* bound: queues terminated
          MaxStops,     \* bound: shutdowns
          None

Threads == Clients \cup Listeners \cup Workers
Kinds   == {"invite", "connectivity"}
Slots   == 1..MaxHandlers
Regs    == 1..MaxRegs
Queues  == {"game", "fallback"}

\* A task: the event of registration r and invitation i, with 0 for the notification
\* a registration for connectivity begins with, or the callback of queue_terminate.
Event(r, i) == <<r, i>>
Ended(q)    == <<q>>
EventTasks  == Regs \X (0..MaxInvites)
Tasks       == EventTasks \cup {Ended(q) : q \in Queues}

ASSUME EventConstants ==
    /\ {MaxHandlers, Capacity, MaxRegs, MaxInvites, MaxEnds, MaxStops} \subseteq Nat
    /\ GameModes \subseteq {"manual", "immediate"}
    /\ ProcessQueues \subseteq {"game", None}
    /\ Clients \cap Listeners = {} /\ (Clients \cup Listeners) \cap Workers = {}
    /\ None \notin Kinds \cup Queues \cup Tasks

VARIABLES up,            \* runtime.cxx's up
          used, handlers,   \* the tables, a slot for each token
          mode, made,    \* the queues there are
          process,       \* current_process_queue
          items,         \* the completion port of each queue
          closed, canceled, \* its flags: terminated_ and canceled_
          terminated,    \* task_queue::terminated_
          pc,
          invite,        \* the invitation a listener delivers
          batch,         \* the events a thread has still to post
          dest,          \* the queue it posts to or terminates
          list, halting, \* the queues it has still to stop, and the one it stops
          waits,         \* the wait argument of its queue_terminate
          hand,          \* the callback it is in, and where it goes on after it
          stops, invites, regs,
          kind, token,   \* history: what a registration was for, and its token
          gone,          \* history: registrations the game has ended
          evicted,       \* history: registrations another one's token ended
          heard,         \* history: who was registered when an invitation was copied
          called, dropped, \* history: how often, for each task
          silenced,      \* history: queues that a shutdown has stopped
          waited         \* history: queues whose queue_terminate has waited

tableVars   == <<used, handlers>>
portVars    == <<closed, canceled, terminated>>
queueVars   == <<mode, made, process, items, portVars>>
stopVars    == <<list, halting>>
localVars   == <<invite, batch, dest, stopVars, waits, hand>>
boundVars   == <<stops, invites, regs>>
regVars     == <<kind, token, gone, evicted, heard>>
countVars   == <<called, dropped>>
endVars     == <<silenced, waited>>
vars == <<up, tableVars, queueVars, pc, localVars, boundVars, regVars, countVars, endVars>>

NoCall == [run |-> None, from |-> None, back |-> "idle"]

\* The game has initialised the runtime and opened a queue of its own.
Init ==
    /\ up = TRUE
    /\ used = [k \in Kinds |-> [s \in Slots |-> FALSE]]
    /\ handlers = [k \in Kinds |-> [s \in Slots |-> 0]]
    /\ \E m \in GameModes : mode = [q \in Queues |-> IF q = "game" THEN m ELSE "thread_pool"]
    /\ made = {"game"} /\ process = None
    /\ items = [q \in Queues |-> <<>>]
    /\ closed = {} /\ canceled = {} /\ terminated = {}
    /\ pc = [t \in Threads |-> "idle"]
    /\ invite = [t \in Threads |-> 0]
    /\ batch = [t \in Threads |-> <<>>] /\ dest = [t \in Threads |-> None]
    /\ list = [t \in Threads |-> {}] /\ halting = [t \in Threads |-> None]
    /\ waits = [t \in Threads |-> FALSE]
    /\ hand = [t \in Threads |-> NoCall]
    /\ stops = 0 /\ invites = 0 /\ regs = 0
    /\ kind = [r \in Regs |-> None] /\ token = [r \in Regs |-> 0]
    /\ gone = {} /\ evicted = {}
    /\ heard = [i \in 1..MaxInvites |-> {}]
    /\ called = [x \in Tasks |-> 0] /\ dropped = [x \in Tasks |-> 0]
    /\ silenced = {} /\ waited = {}

InCallback(t) == hand[t].run # None

\* A thread of the game that is not in a call of the runtime.
Free(c) == c \in Clients /\ pc[c] = "idle"

Goto(t, l) == pc' = [pc EXCEPT ![t] = l]
Count(f, x) == [f EXCEPT ![x] = @ + 1]

-----------------------------------------------------------------------------
(* The runtime flag                                                         *)

InitializeApiImplEx(c) ==
    /\ Free(c)
    /\ ~up
    /\ up' = TRUE
    /\ UNCHANGED <<tableVars, queueVars, pc, localVars, boundVars, regVars, countVars, endVars>>

-----------------------------------------------------------------------------
(* handler_table                                                            *)

\* Mutant of FreeSlots: the slots in use are not passed over.
FreeSlots_All(k) == Slots

FreeSlots(k) == {s \in Slots : ~used[k][s]}

\* add takes the first free slot, whose index is the token; with none left the call
\* fails and changes nothing.
add(k, r) ==
    \E s \in FreeSlots(k) :
        /\ \A z \in FreeSlots(k) : s <= z
        /\ handlers' = [handlers EXCEPT ![k][s] = r]
        /\ used' = [used EXCEPT ![k][s] = TRUE]
        /\ token' = [token EXCEPT ![r] = s]

\* XGameInviteRegisterForEvent, or XNetworkingRegisterConnectivityHintChanged, which goes
\* on to post the first notification.
Register(c, k) ==
    /\ Free(c)
    /\ regs < MaxRegs
    /\ regs' = regs + 1
    /\ add(k, regs')
    /\ kind' = [kind EXCEPT ![regs'] = k]
    /\ IF k = "connectivity"
       THEN batch' = [batch EXCEPT ![c] = <<Event(regs', 0)>>] /\ Goto(c, "post")
       ELSE UNCHANGED <<batch, pc>>
    /\ UNCHANGED <<up, queueVars, invite, dest, stopVars, waits, hand, stops, invites, gone,
                   evicted, heard, countVars, endVars>>

\* remove: whatever is in the slot of the token goes.  The game may use a token twice;
\* the second time it may name a registration that took the slot since.
Unregister(c, r) ==
    /\ Free(c)
    /\ token[r] # 0
    /\ used[kind[r]][token[r]]
    /\ used' = [used EXCEPT ![kind[r]][token[r]] = FALSE]
    /\ gone' = gone \cup {r}
    /\ evicted' = evicted \cup ({handlers[kind[r]][token[r]]} \ {r})
    /\ UNCHANGED <<up, handlers, queueVars, pc, localVars, boundVars, kind, token, heard,
                   countVars, endVars>>

-----------------------------------------------------------------------------
(* deliver_invite                                                           *)

\* An invitation that comes while the runtime is down is dropped.
Arrive(d) ==
    /\ d \in Listeners /\ pc[d] = "idle"
    /\ invites < MaxInvites
    /\ invites' = invites + 1
    /\ invite' = [invite EXCEPT ![d] = invites']
    /\ Goto(d, IF up THEN "copy" ELSE "idle")
    /\ UNCHANGED <<up, tableVars, queueVars, batch, dest, stopVars, waits, hand, stops, regs,
                   regVars, countVars, endVars>>

\* Mutant of live: the slots are copied whether they are in use or not.
live_All(k) == SelectSeq(handlers[k], LAMBDA r : r # 0)

\* The elements of a set of slots, in their order.
InOrder(S) ==
    CHOOSE f \in [1..Cardinality(S) -> S] :
        \A i, j \in 1..Cardinality(S) : i < j => f[i] < f[j]

\* live: the handlers of the slots in use, in the order of the slots.
live(k) ==
    LET U == {s \in Slots : used[k][s]}
    IN  [n \in 1..Cardinality(U) |-> handlers[k][InOrder(U)[n]]]

\* The registrations the game reckons with.
Registered(k) == {r \in Regs : kind[r] = k} \ (gone \cup evicted)

Copy(d) ==
    /\ pc[d] = "copy"
    /\ LET hs == live("invite") IN
       batch' = [batch EXCEPT ![d] = [n \in 1..Len(hs) |-> Event(hs[n], invite[d])]]
    /\ heard' = [heard EXCEPT ![invite[d]] = Registered("invite")]
    /\ Goto(d, "post")
    /\ UNCHANGED <<up, tableVars, queueVars, invite, dest, stopVars, waits, hand, boundVars, kind,
                   token, gone, evicted, countVars, endVars>>

-----------------------------------------------------------------------------
(* post                                                                     *)

\* process_queue: the queue that was set, or the fallback, made when it is first needed.
\* (QueuePool has its steps.)
Resolve(t) ==
    /\ pc[t] = "post"
    /\ batch[t] # <<>>
    /\ process' = IF process = None THEN "fallback" ELSE process
    /\ made' = made \cup {process'}
    /\ dest' = [dest EXCEPT ![t] = process']
    /\ Goto(t, "submit")
    /\ UNCHANGED <<up, tableVars, mode, items, portVars, invite, batch, stopVars, waits, hand,
                   boundVars, regVars, countVars, endVars>>

AllPosted(t) ==
    /\ pc[t] = "post"
    /\ batch[t] = <<>>
    /\ Goto(t, "idle")
    /\ UNCHANGED <<up, tableVars, queueVars, localVars, boundVars, regVars, countVars, endVars>>

Accepts(q) == q \notin closed /\ Len(items[q]) # Capacity

\* Thread t begins to call x, a callback of queue q, and goes on at b.
CallBack(t, x, q, b) ==
    /\ hand' = [hand EXCEPT ![t] = [run |-> x, from |-> q, back |-> b]]
    /\ called' = Count(called, x)
    /\ Goto(t, "running")

\* submit: inline in immediate mode, whatever the flags; queued; or refused, and then the
\* event is dropped.
Submit(t) ==
    /\ pc[t] = "submit"
    /\ LET q == dest[t]
           x == Head(batch[t]) IN
       \/ /\ mode[q] = "immediate"
          /\ CallBack(t, x, q, "post")
          /\ UNCHANGED <<items, dropped>>
       \/ /\ mode[q] # "immediate" /\ Accepts(q)
          /\ items' = [items EXCEPT ![q] = Append(@, x)]
          /\ Goto(t, "post")
          /\ UNCHANGED <<hand, countVars>>
       \/ /\ mode[q] # "immediate" /\ ~Accepts(q)
          /\ dropped' = Count(dropped, x)
          /\ Goto(t, "post")
          /\ UNCHANGED <<items, hand, called>>
    /\ batch' = [batch EXCEPT ![t] = Tail(@)]
    /\ dest' = [dest EXCEPT ![t] = None]
    /\ UNCHANGED <<up, tableVars, mode, made, process, portVars, invite, stopVars, waits,
                   boundVars, regVars, endVars>>

-----------------------------------------------------------------------------
(* Dispatching                                                              *)

\* The callback at the head is taken, with the canceled flag.  deliver throws the event
\* of a canceled callback away; run_completion does not look at the flag.  A callback
\* that stop calls within another callback is one step.
Take(t, q, b) ==
    /\ items[q] # <<>>
    /\ items' = [items EXCEPT ![q] = Tail(@)]
    /\ LET x == Head(items[q]) IN
       IF x \in EventTasks /\ q \in canceled
       THEN /\ dropped' = Count(dropped, x)
            /\ Goto(t, b)
            /\ UNCHANGED <<hand, called>>
       ELSE IF InCallback(t)
            THEN called' = Count(called, x) /\ Goto(t, b) /\ UNCHANGED <<hand, dropped>>
            ELSE CallBack(t, x, q, b) /\ UNCHANGED dropped

takeKept == <<up, tableVars, mode, made, process, portVars, invite, batch, dest, stopVars, waits,
              boundVars, regVars, endVars>>

\* A worker of the fallback queue dispatches until the port is closed and empty.
Work(w) ==
    /\ w \in Workers /\ pc[w] = "idle"
    /\ "fallback" \in made
    /\ Take(w, "fallback", "idle")
    /\ UNCHANGED takeKept

\* Mutant of WorkerExits: a worker leaves at the flag, whatever is still queued.
WorkerExits_AtFlag(w) ==
    /\ w \in Workers /\ pc[w] = "idle"
    /\ "fallback" \in closed
    /\ Goto(w, "exited")
    /\ UNCHANGED <<up, tableVars, queueVars, localVars, boundVars, regVars, countVars, endVars>>

WorkerExits(w) ==
    /\ w \in Workers /\ pc[w] = "idle"
    /\ "fallback" \in closed /\ items["fallback"] = <<>>
    /\ Goto(w, "exited")
    /\ UNCHANGED <<up, tableVars, queueVars, localVars, boundVars, regVars, countVars, endVars>>

\* The game dispatches its own queue.
Dispatch(c) ==
    /\ Free(c)
    /\ Take(c, "game", "idle")
    /\ UNCHANGED takeKept

Return(t) ==
    /\ pc[t] = "running"
    /\ Goto(t, hand[t].back)
    /\ hand' = [hand EXCEPT ![t] = NoCall]
    /\ UNCHANGED <<up, tableVars, queueVars, invite, batch, dest, stopVars, waits, boundVars,
                   regVars, countVars, endVars>>

-----------------------------------------------------------------------------
(* queue_set_current_process, queue_terminate                               *)

SetProcess(c, q) ==
    /\ Free(c)
    /\ process # q
    /\ process' = q
    /\ UNCHANGED <<up, tableVars, mode, made, items, portVars, pc, localVars, boundVars, regVars,
                   countVars, endVars>>

\* The second call for a queue ends here, with E_ABORT.  Then the work port is terminated.
Terminate(c, q, wait) ==
    /\ Free(c)
    /\ q \in made \ terminated
    /\ Cardinality(terminated) < MaxEnds
    /\ terminated' = terminated \cup {q}
    /\ dest' = [dest EXCEPT ![c] = q]
    /\ waits' = [waits EXCEPT ![c] = wait]
    /\ Goto(c, "announce")
    /\ UNCHANGED <<up, tableVars, mode, made, process, items, closed, canceled, invite, batch,
                   stopVars, hand, boundVars, regVars, countVars, endVars>>

\* The game's callback is queued behind the events, or called at once if the port will not
\* take it.
AnnounceEnd(c) ==
    /\ pc[c] = "announce"
    /\ LET q == dest[c] IN
       IF mode[q] # "immediate" /\ Accepts(q)
       THEN /\ items' = [items EXCEPT ![q] = Append(@, Ended(q))]
            /\ Goto(c, "close")
            /\ UNCHANGED <<hand, called>>
       ELSE CallBack(c, Ended(q), q, "close") /\ UNCHANGED items
    /\ UNCHANGED <<up, tableVars, mode, made, process, portVars, invite, batch, dest, stopVars,
                   waits, boundVars, regVars, dropped, endVars>>

\* Back from queue_terminate.
Leave(c) ==
    /\ dest' = [dest EXCEPT ![c] = None]
    /\ waits' = [waits EXCEPT ![c] = FALSE]
    /\ Goto(c, "idle")

\* task_port::terminate of the completion port.
CloseCompletion(c) ==
    /\ pc[c] = "close"
    /\ LET q == dest[c] IN
       /\ closed' = closed \cup {q}
       /\ canceled' = canceled \cup (IF mode[q] = "manual" THEN {} ELSE {q})
    /\ IF waits[c] THEN Goto(c, "wait") /\ UNCHANGED <<dest, waits>> ELSE Leave(c)
    /\ UNCHANGED <<up, tableVars, mode, made, process, items, terminated, invite, batch, stopVars,
                   hand, boundVars, regVars, countVars, endVars>>

\* while (dispatch (INFINITE)): the waiting thread helps to empty the closed port,
WaitTakes(c) ==
    /\ pc[c] = "wait"
    /\ Take(c, dest[c], "wait")
    /\ UNCHANGED takeKept

\* Mutant of WaitEnds: the wait ends with the flag, whatever is still queued.
WaitEnds_AtFlag(c) ==
    /\ pc[c] = "wait"
    /\ waited' = waited \cup {dest[c]}
    /\ Leave(c)
    /\ UNCHANGED <<up, tableVars, queueVars, invite, batch, stopVars, hand, boundVars, regVars,
                   countVars, silenced>>

\* and leaves it empty.
WaitEnds(c) ==
    /\ pc[c] = "wait"
    /\ items[dest[c]] = <<>>
    /\ waited' = waited \cup {dest[c]}
    /\ Leave(c)
    /\ UNCHANGED <<up, tableVars, queueVars, invite, batch, stopVars, hand, boundVars, regVars,
                   countVars, silenced>>

-----------------------------------------------------------------------------
(* UninitializeApiImpl: the flag, then stop_queues, which lists the queues  *)
(* under the pool's mutex and stops them after it                           *)

\* The game calls it from a thread of its own, or from a handler, but for one that a
\* shutdown calls itself.
UninitializeApiImpl(t) ==
    /\ Free(t) \/ (pc[t] = "running" /\ hand[t].back # "join")
    /\ stops < MaxStops
    /\ stops' = stops + 1
    /\ up' = FALSE
    /\ Goto(t, "list")
    /\ UNCHANGED <<tableVars, queueVars, localVars, invites, regs, regVars, countVars, endVars>>

ListQueues(t) ==
    /\ pc[t] = "list"
    /\ list' = [list EXCEPT ![t] = made]
    /\ Goto(t, "stop")
    /\ UNCHANGED <<up, tableVars, queueVars, invite, batch, dest, halting, waits, hand, boundVars,
                   regVars, countVars, endVars>>

\* task_port::stop: the flags,
StopQueue(t) ==
    /\ pc[t] = "stop"
    /\ \E q \in list[t] :
          /\ closed' = closed \cup {q}
          /\ canceled' = canceled \cup {q}
          /\ halting' = [halting EXCEPT ![t] = q]
    /\ Goto(t, "join")
    /\ UNCHANGED <<up, tableVars, mode, made, process, items, terminated, invite, batch, dest,
                   list, waits, hand, boundVars, regVars, countVars, endVars>>

\* Mutant of Joined: the workers are not waited for.
Joined_NotAwaited(q) == TRUE

\* the workers,
Joined(q) == q = "fallback" => \A w \in Workers : pc[w] = "exited"

\* what they left,
Drain(t) ==
    /\ pc[t] = "join"
    /\ Joined(halting[t])
    /\ Take(t, halting[t], "join")
    /\ UNCHANGED takeKept

\* until nothing is left.
Drained(t) ==
    /\ pc[t] = "join"
    /\ Joined(halting[t])
    /\ items[halting[t]] = <<>>
    /\ list' = [list EXCEPT ![t] = @ \ {halting[t]}]
    /\ silenced' = silenced \cup {halting[t]}
    /\ halting' = [halting EXCEPT ![t] = None]
    /\ Goto(t, "stop")
    /\ UNCHANGED <<up, tableVars, queueVars, invite, batch, dest, waits, hand, boundVars, regVars,
                   countVars, waited>>

\* The queues of the list have been stopped, and the call returns.
Stopped(t) ==
    /\ pc[t] = "stop"
    /\ list[t] = {}
    /\ Goto(t, IF InCallback(t) THEN "running" ELSE "idle")
    /\ UNCHANGED <<up, tableVars, queueVars, localVars, boundVars, regVars, countVars, endVars>>

-----------------------------------------------------------------------------
Step(t) ==
    \/ Copy(t) \/ Resolve(t) \/ AllPosted(t) \/ Submit(t)
    \/ Work(t) \/ WorkerExits(t) \/ Return(t)
    \/ AnnounceEnd(t) \/ CloseCompletion(t) \/ WaitTakes(t) \/ WaitEnds(t)
    \/ ListQueues(t) \/ StopQueue(t) \/ Drain(t) \/ Drained(t) \/ Stopped(t)

Call(t) ==
    \/ Arrive(t)
    \/ InitializeApiImplEx(t) \/ UninitializeApiImpl(t)
    \/ \E k \in Kinds : Register(t, k)
    \/ \E r \in Regs : Unregister(t, r)
    \/ Dispatch(t)
    \/ \E q \in ProcessQueues : SetProcess(t, q)
    \/ \E q \in Queues, wait \in BOOLEAN : Terminate(t, q, wait)

Next == \E t \in Threads : Step(t) \/ Call(t)

Spec == Init /\ [][Next]_vars

\* Threads go on and handlers return.  Nobody has to call anything, and nobody has to
\* dispatch the game's queue.
FairSpec == Spec /\ \A t \in Threads : WF_vars(Step(t))

-----------------------------------------------------------------------------
(* Properties                                                               *)

\* What the game believes of its registrations is what the table has, for every kind: a
\* registration it has not ended sits in the slot of its token, and no other slot is in
\* use -- but for a registration that was ended by a token of another one, kept and used
\* again after the slot had been given away (handler.hxx 61, 66).
RegistrationsKept ==
    \A k \in Kinds :
        /\ \A r \in Registered(k) : used[k][token[r]] /\ handlers[k][token[r]] = r
        /\ \A s \in Slots : used[k][s] => handlers[k][s] \in Registered(k)

\* Where a task is: to be posted, or queued.
Unposted(x) == {p \in Threads \X (1..MaxHandlers) :
                   p[2] <= Len(batch[p[1]]) /\ batch[p[1]][p[2]] = x}
Queued(x)   == {p \in Queues \X (1..Capacity) :
                   p[2] <= Len(items[p[1]]) /\ items[p[1]][p[2]] = x}

\* The tasks there have to be: an invitation for every handler that was registered when the
\* runtime took its copy of the table (invite.cxx 108), a first notification for every
\* registration for connectivity, and the callback of every queue_terminate.
Due == {x \in EventTasks : IF x[2] = 0 THEN kind[x[1]] = "connectivity"
                                       ELSE x[1] \in heard[x[2]]}
       \cup {Ended(q) : q \in {z \in terminated :
                \A c \in Clients : ~(pc[c] = "announce" /\ dest[c] = z)}}

\* An event reaches exactly those it is for, however registrations come and go before it
\* is called, and every task is in one place at a time and comes to one end: to be posted,
\* queued, called once, or dropped -- and dropped is an event only, by a port that was
\* full, terminated or stopped.  Nothing is lost between post, terminate, the waiting
\* thread, the workers and stop, or handed out twice.
EachToOneEnd ==
    \A x \in Tasks :
        /\ Cardinality(Unposted(x)) + Cardinality(Queued(x)) + called[x] + dropped[x]
              = IF x \in Due THEN 1 ELSE 0
        /\ dropped[x] > 0 => x \in EventTasks

\* Once UninitializeApiImpl has stopped a queue no worker is in a callback of it, and no
\* event of it is called any more, also when the runtime is up again (runtime.cxx 192-196)
\* -- but for a queue that calls its callbacks inline, which does not look at the flags
\* (task-queue.cxx 89).  A queue made after stop_queues took its list is not stopped: an
\* invitation that passed the check of the flag before (invite.cxx 98) still calls there.
QuietAfterShutdown ==
    [][/\ \A w \in Workers : hand'[w].run # None => hand'[w].from \notin silenced'
       /\ \A t \in Threads :
             /\ hand'[t] # hand[t]
             /\ hand'[t].run \in EventTasks
             => hand'[t].from \notin silenced \/ mode[hand'[t].from] = "immediate"]_vars

\* When a queue_terminate that waits has returned, its own callback has been called and the
\* completion port is empty, whoever else dispatches it: the queue can be closed.  The
\* callback may still be running, on the worker or the thread that took it.
TerminateWaits ==
    \A q \in waited : called[Ended(q)] = 1 /\ items[q] = <<>>

\* A shutdown that a worker calls from a handler stops the queue of the worker, which waits
\* for itself (task-queue.cxx 259).
SelfJoin == \E w \in Workers : pc[w] = "join" /\ halting[w] = "fallback"

\* Again and again the port with workers is empty and every thread of the game and every
\* listener is back from the runtime, whether it posted, terminated a queue and waited, or
\* shut the runtime down -- unless a worker waits for itself.
PostedSettle ==
    []<>(\/ items["fallback"] = <<>> /\ \A t \in Clients \cup Listeners : pc[t] = "idle"
         \/ SelfJoin)

=============================================================================
