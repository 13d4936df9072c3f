------------------------------- MODULE Async -------------------------------
(***************************************************************************)
(* gdk/async.cxx: the operations behind XAsyncBlocks.  An operation lives  *)
(* in a slot of a fixed pool; the slot's state word packs the operation's  *)
(* token with the number of holds on it.  The block names the slot and     *)
(* the token; a call on the block finds the slot and takes a hold, every   *)
(* queued task has a hold, and the operation itself has one until it is    *)
(* retired, when its result is taken or it is canceled.  Whoever drops the *)
(* last hold disposes of the operation and puts the slot on the free list. *)
(*                                                                         *)
(* A step is one atomic access to a state word, one critical section, or   *)
(* one call out of the module.  Client threads make calls; worker threads  *)
(* run the tasks that task ports accepted, each once (CallbackQueue).      *)
(* Clients keep to the contract of the API: a block is given to a new      *)
(* operation only when it has none, and until that call returns nobody     *)
(* polls, cancels or collects it.                                          *)
(***************************************************************************)
EXTENDS Integers, Sequences, FiniteSets

CONSTANTS Blocks,     \* the async blocks of the program
          Notified,   \* the blocks that have a completion routine
          Clients,    \* threads that call XAsync functions
          Workers,    \* threads that run the tasks of task queue ports
          MaxSlots,   \* max_operations
          MaxTokens,  \* bound: operations begun in a behaviour
          MaxScheduled, \* bound: tasks a provider has scheduled at a time
          BeginCalls, \* the calls with which clients begin operations
          BlockCalls, \* the calls clients make on blocks in use
          Overlap     \* may a block be retired while another call looks it up?

Threads == Clients \cup Workers
Slots   == 1..MaxSlots
Tokens  == 1..MaxTokens
None    == 0

Polls    == {"status", "wait", "take", "cancel", "pick"}
Provider == {"schedule", "complete"}
Begins   == {"begin", "provide"}

ASSUME AsyncConstants ==
    /\ MaxSlots \in Nat /\ MaxTokens \in Nat /\ MaxScheduled \in Nat
    /\ Overlap \in BOOLEAN
    /\ BeginCalls \subseteq Begins /\ BlockCalls \subseteq Polls \cup Provider
    /\ Notified \subseteq Blocks
    /\ IsFiniteSet(Clients) /\ IsFiniteSet(Workers) /\ Clients \cap Workers = {}
    /\ None \notin Blocks

VARIABLES token, holds,    \* the two halves of each slot's state word
          completed, status, retired, block,
          local,           \* the slot has an operation of the runtime's own
          provider,        \* the slot has a provider
          internal,        \* internal[a]: the slot and token block a names
          free, used, next,
          tasks,           \* tasks[r][k]: accepted tasks of kind k for slot r
          closing,         \* the task queue was terminated
          pc, call,        \* what each thread does, and for which call
          arg,             \* the block it does it for
          slot, seen,      \* the slot and token it read from the block
          outcome,         \* the status it is about to finish with
          read,            \* the size of a selection it read, and of which settled operation
          chosen,          \* the size of the selection of the slot's operation
          announcements,   \* history: completion routines called, per token
          cleanups,        \* history: provider cleanups, per token
          origin,          \* history: how the operation of a token was begun
          lost             \* history: selections no call can collect any more, and what
                           \* the call that took them had read the size of

slotVars   == <<token, holds, completed, status, retired, block, local, provider>>
poolVars   == <<free, used, next>>
threadVars == <<pc, call, arg, slot, seen, outcome, read>>
pickVars   == <<chosen, lost>>
historyVars == <<announcements, cleanups, origin>>
vars == <<slotVars, poolVars, threadVars, historyVars, internal, tasks, closing, pickVars>>

Kinds    == {"perform", "do_work", "announce"}
Statuses == {"pending", "ok", "fail", "abort"}

States == {"idle", "setup", "fill", "find", "held", "asleep", "finish", "signal",
           "submit", "enqueue", "withdraw", "retire", "unhold", "routine", "drop",
           "strip", "cleanup", "free", "peek", "again"}

Unnamed == [slot |-> None, token |-> None]
Unread  == [size |-> 0, of |-> None]

TypeOK ==
    /\ token \in [Slots -> 0..MaxTokens] /\ holds \in [Slots -> Nat]
    /\ completed \in [Slots -> BOOLEAN] /\ retired \in [Slots -> BOOLEAN]
    /\ status \in [Slots -> Statuses]
    /\ block \in [Slots -> Blocks \cup {None}]
    /\ local \in [Slots -> BOOLEAN] /\ provider \in [Slots -> BOOLEAN]
    /\ internal \in [Blocks -> [slot : 0..MaxSlots, token : 0..MaxTokens]]
    /\ free \in Seq(Slots) /\ used \in 0..MaxSlots /\ next \in 1..(MaxTokens + 1)
    /\ tasks \in [Slots -> [Kinds -> Nat]]
    /\ closing \in BOOLEAN
    /\ pc \in [Threads -> States]
    /\ call \in [Threads -> Polls \cup Provider \cup Begins \cup Kinds
                           \cup {"peek", "collect", "none"}]
    /\ arg \in [Threads -> Blocks \cup {None}]
    /\ slot \in [Threads -> 0..MaxSlots] /\ seen \in [Threads -> 0..MaxTokens]
    /\ outcome \in [Threads -> Statuses]
    /\ read \in [Threads -> [size : 0..1, of : 0..MaxTokens]]
    /\ chosen \in [Slots -> 0..1] /\ lost \subseteq Tokens \X (0..MaxTokens)
    /\ announcements \in [Tokens -> Nat] /\ cleanups \in [Tokens -> Nat]
    /\ origin \in [Tokens -> {"none", "local", "provider", "failed"}]

Init ==
    /\ token = [r \in Slots |-> None] /\ holds = [r \in Slots |-> 0]
    /\ completed = [r \in Slots |-> FALSE] /\ retired = [r \in Slots |-> FALSE]
    /\ status = [r \in Slots |-> "pending"]
    /\ block = [r \in Slots |-> None]
    /\ local = [r \in Slots |-> FALSE] /\ provider = [r \in Slots |-> FALSE]
    /\ internal = [a \in Blocks |-> Unnamed]
    /\ free = <<>> /\ used = 0 /\ next = 1
    /\ tasks = [r \in Slots |-> [k \in Kinds |-> 0]]
    /\ closing = FALSE
    /\ pc = [t \in Threads |-> "idle"]
    /\ call = [t \in Threads |-> "none"]
    /\ arg = [t \in Threads |-> None]
    /\ slot = [t \in Threads |-> None] /\ seen = [t \in Threads |-> None]
    /\ outcome = [t \in Threads |-> "pending"]
    /\ read = [t \in Threads |-> Unread]
    /\ chosen = [r \in Slots |-> 0] /\ lost = {}
    /\ announcements = [k \in Tokens |-> 0] /\ cleanups = [k \in Tokens |-> 0]
    /\ origin = [k \in Tokens |-> "none"]

Goto(t, l) ==
    /\ pc' = [pc EXCEPT ![t] = l]
    /\ UNCHANGED <<call, arg, slot, seen, outcome, read>>

Return(t) ==
    /\ pc' = [pc EXCEPT ![t] = "idle"]
    /\ call' = [call EXCEPT ![t] = "none"]
    /\ arg' = [arg EXCEPT ![t] = None]
    /\ slot' = [slot EXCEPT ![t] = None]
    /\ seen' = [seen EXCEPT ![t] = None]
    /\ outcome' = [outcome EXCEPT ![t] = "pending"]
    /\ read' = [read EXCEPT ![t] = Unread]

\* A call is being made to begin an operation on block a.
Beginning(a) == \E t \in Threads : call[t] \in Begins /\ arg[t] = a

-----------------------------------------------------------------------------
(* begin and provider_begin                                                 *)

\* acquire, first critical section: a slot from the free list or a new one, and
\* the next token.  With no slot left the call fails and changes nothing.
Acquire(c, a, b) ==
    /\ pc[c] = "idle"
    /\ internal[a] = Unnamed /\ ~Beginning(a)
    /\ next <= MaxTokens
    /\ \/ /\ free # <<>>
          /\ slot' = [slot EXCEPT ![c] = free[Len(free)]]
          /\ free' = SubSeq(free, 1, Len(free) - 1)
          /\ UNCHANGED used
       \/ /\ free = <<>> /\ used # MaxSlots
          /\ slot' = [slot EXCEPT ![c] = used + 1]
          /\ used' = used + 1
          /\ UNCHANGED free
    /\ seen' = [seen EXCEPT ![c] = next]
    /\ next' = next + 1
    /\ call' = [call EXCEPT ![c] = b]
    /\ arg' = [arg EXCEPT ![c] = a]
    /\ pc' = [pc EXCEPT ![c] = "setup"]
    /\ UNCHANGED <<slotVars, historyVars, outcome, read, internal, tasks, closing, pickVars>>

\* acquire, second critical section: the slot is reset, the block names it, and
\* the state word publishes the token with the operation's own hold.
SetUp(c) ==
    /\ pc[c] = "setup"
    /\ LET r == slot[c] IN
       /\ completed' = [completed EXCEPT ![r] = FALSE]
       /\ retired' = [retired EXCEPT ![r] = FALSE]
       /\ block' = [block EXCEPT ![r] = arg[c]]
       /\ status' = [status EXCEPT ![r] = "pending"]
       /\ provider' = [provider EXCEPT ![r] = FALSE]
       /\ token' = [token EXCEPT ![r] = seen[c]]
       /\ holds' = [holds EXCEPT ![r] = 1]
       /\ internal' = [internal EXCEPT ![arg[c]] = [slot |-> r, token |-> seen[c]]]
    /\ Goto(c, "fill")
    /\ UNCHANGED <<local, poolVars, historyVars, tasks, closing, pickVars>>

\* The operation is put in the slot; begin then submits its work.
FillLocal(c) ==
    /\ pc[c] = "fill" /\ call[c] = "begin"
    /\ local' = [local EXCEPT ![slot[c]] = TRUE]
    /\ chosen' = [chosen EXCEPT ![slot[c]] = 0]
    /\ origin' = [origin EXCEPT ![seen[c]] = "local"]
    /\ Goto(c, "submit")
    /\ UNCHANGED <<token, holds, completed, status, retired, block, provider,
                   poolVars, announcements, cleanups, internal, tasks, closing, lost>>

FillProvider(c) ==
    /\ pc[c] = "fill" /\ call[c] = "provide"
    /\ provider' = [provider EXCEPT ![slot[c]] = TRUE]
    /\ origin' = [origin EXCEPT ![seen[c]] = "provider"]
    /\ Goto(c, "held")
    /\ UNCHANGED <<token, holds, completed, status, retired, block, local,
                   poolVars, announcements, cleanups, internal, tasks, closing, pickVars>>

\* The provider's begin: when it fails, cleanup is called and the slot retired.
ProviderBegins(c) ==
    /\ pc[c] = "held" /\ call[c] = "provide"
    /\ \/ Return(c) /\ UNCHANGED <<origin, cleanups>>
       \/ /\ origin' = [origin EXCEPT ![seen[c]] = "failed"]
          /\ cleanups' = [cleanups EXCEPT ![seen[c]] = @ + 1]
          /\ Goto(c, "retire")
    /\ UNCHANGED <<slotVars, poolVars, announcements, internal, tasks, closing, pickVars>>

-----------------------------------------------------------------------------
(* Finding the operation of a block: held_state                             *)

\* find reads the slot and the token from the block, with no lock; a block that
\* names no operation ends the call.  By the contract of the API nobody polls a block
\* while it is being begun, only providers schedule and complete, and a picker's result is
\* asked for of an operation of the runtime.
LookUp(c, a, k) ==
    /\ pc[c] = "idle"
    /\ internal[a] # Unnamed
    /\ k \in Polls => ~Beginning(a)
    /\ k \in Provider => provider[internal[a].slot]
    /\ k = "pick" => local[internal[a].slot]
    /\ k = "schedule" =>
          tasks[internal[a].slot]["do_work"]
            + Cardinality({t \in Threads : call[t] = k}) < MaxScheduled
    /\ call' = [call EXCEPT ![c] = k]
    /\ arg' = [arg EXCEPT ![c] = a]
    /\ slot' = [slot EXCEPT ![c] = internal[a].slot]
    /\ seen' = [seen EXCEPT ![c] = internal[a].token]
    /\ pc' = [pc EXCEPT ![c] = "find"]
    /\ UNCHANGED <<slotVars, poolVars, historyVars, outcome, read, internal, tasks, closing,
                   pickVars>>

\* The compare-exchange loop: a hold is taken if the token is still there.
Find(c) ==
    /\ pc[c] = "find"
    /\ IF token[slot[c]] = seen[c]
       THEN holds' = [holds EXCEPT ![slot[c]] = @ + 1] /\ Goto(c, "held")
       ELSE Return(c) /\ UNCHANGED holds
    /\ UNCHANGED <<token, completed, status, retired, block, local, provider,
                   poolVars, historyVars, internal, tasks, closing, pickVars>>

-----------------------------------------------------------------------------
(* The calls, between find and the release of the hold                      *)

\* get_status without waiting, result_size: a look, no more.
GetStatus(c) ==
    /\ pc[c] = "held" /\ call[c] = "status"
    /\ Goto(c, "drop")
    /\ UNCHANGED <<slotVars, poolVars, historyVars, internal, tasks, closing, pickVars>>

\* get_status (wait): under the slot's mutex, until completed.
WaitStatus(c) ==
    /\ pc[c] = "held" /\ call[c] = "wait"
    /\ Goto(c, IF completed[slot[c]] THEN "drop" ELSE "asleep")
    /\ UNCHANGED <<slotVars, poolVars, historyVars, internal, tasks, closing, pickVars>>

\* take_result: an operation still pending, and one of another kind (its id differs),
\* stay; any other is retired, whether or not its result could be copied out.  A selection
\* is not copied into a buffer it does not fit in, and then it is lost.
TakeResult(c) ==
    /\ pc[c] = "held" /\ call[c] \in {"take", "collect"}
    /\ LET r == slot[c] IN
       \/ ~completed[r] /\ Goto(c, "drop") /\ UNCHANGED lost
       \/ completed[r] /\ status[r] = "ok" /\ Goto(c, "drop") /\ UNCHANGED lost
       \/ /\ completed[r] /\ Goto(c, "retire")
          /\ IF call[c] = "collect" /\ status[r] = "ok" /\ local[r] /\ read[c].size < chosen[r]
             THEN lost' = lost \cup {<<seen[c], read[c].of>>} ELSE UNCHANGED lost
    /\ UNCHANGED <<slotVars, poolVars, historyVars, internal, tasks, closing, chosen>>

\* show_player_picker_result begins with pending_operation: a pointer into the operation,
\* if it is a player picker, and the hold is dropped.
PendingOperation(c) ==
    /\ pc[c] = "held" /\ call[c] = "pick"
    /\ pc' = [pc EXCEPT ![c] = "drop"]
    /\ \/ local[slot[c]] /\ call' = [call EXCEPT ![c] = "peek"]
       \/ UNCHANGED call
    /\ UNCHANGED <<arg, slot, seen, outcome, read>>
    /\ UNCHANGED <<slotVars, poolVars, historyVars, internal, tasks, closing, pickVars>>

\* Mutant of Peek: the count is that of a picker nobody has answered.
Peek_Unanswered(c) ==
    /\ pc[c] = "peek"
    /\ read' = [read EXCEPT ![c] =
          [size |-> 0,
           of   |-> IF token[slot[c]] = seen[c] /\ completed[slot[c]] THEN seen[c] ELSE None]]
    /\ pc' = [pc EXCEPT ![c] = "again"]
    /\ UNCHANGED <<call, arg, slot, seen, outcome>>
    /\ UNCHANGED <<slotVars, poolVars, historyVars, internal, tasks, closing, pickVars>>

\* The size of the selection is read through that pointer: of an operation that may have
\* been disposed of since, and then it is anything.
Peek(c) ==
    /\ pc[c] = "peek"
    /\ LET r     == slot[c]
           there == token[r] = seen[c] /\ local[r] IN
       \E n \in IF there THEN {chosen[r]} ELSE {0, 1} :
          read' = [read EXCEPT ![c] =
                     [size |-> n, of |-> IF there /\ completed[r] THEN seen[c] ELSE None]]
    /\ pc' = [pc EXCEPT ![c] = "again"]
    /\ UNCHANGED <<call, arg, slot, seen, outcome>>
    /\ UNCHANGED <<slotVars, poolVars, historyVars, internal, tasks, closing, pickVars>>

\* result: the block is looked up again, for a buffer of that size.
Collect(c) ==
    /\ pc[c] = "again"
    /\ LET n == internal[arg[c]] IN
       IF n = Unnamed
       THEN Return(c)
       ELSE /\ ~Beginning(arg[c])
            /\ slot' = [slot EXCEPT ![c] = n.slot]
            /\ seen' = [seen EXCEPT ![c] = n.token]
            /\ call' = [call EXCEPT ![c] = "collect"]
            /\ pc' = [pc EXCEPT ![c] = "find"]
            /\ UNCHANGED <<arg, outcome, read>>
    /\ UNCHANGED <<slotVars, poolVars, historyVars, internal, tasks, closing, pickVars>>

Cancel(c) ==
    /\ pc[c] = "held" /\ call[c] = "cancel"
    /\ IF completed[slot[c]]
       THEN Goto(c, "retire")
       ELSE /\ pc' = [pc EXCEPT ![c] = "finish"]
            /\ outcome' = [outcome EXCEPT ![c] = "abort"]
            /\ UNCHANGED <<call, arg, slot, seen, read>>
    /\ UNCHANGED <<slotVars, poolVars, historyVars, internal, tasks, closing, pickVars>>

Complete(c) ==
    /\ pc[c] = "held" /\ call[c] = "complete"
    /\ \E s \in {"ok", "fail"} : outcome' = [outcome EXCEPT ![c] = s]
    /\ pc' = [pc EXCEPT ![c] = "finish"]
    /\ UNCHANGED <<call, arg, slot, seen, read>>
    /\ UNCHANGED <<slotVars, poolVars, historyVars, internal, tasks, closing, pickVars>>

Schedule(c) ==
    /\ pc[c] = "held" /\ call[c] = "schedule"
    /\ Goto(c, IF provider[slot[c]] THEN "submit" ELSE "drop")
    /\ UNCHANGED <<slotVars, poolVars, historyVars, internal, tasks, closing, pickVars>>

-----------------------------------------------------------------------------
(* finish: the first outcome counts, waiters are woken, and the completion  *)
(* routine is queued                                                        *)

AfterFinish(t) == IF call[t] = "cancel" THEN "retire" ELSE "drop"

\* Mutant of Finish: a second outcome replaces the first.
Finish_Again(t) ==
    /\ pc[t] = "finish"
    /\ status' = [status EXCEPT ![slot[t]] = outcome[t]]
    /\ completed' = [completed EXCEPT ![slot[t]] = TRUE]
    /\ arg' = [arg EXCEPT ![t] = block[slot[t]]]
    /\ pc' = [pc EXCEPT ![t] = "signal"]
    /\ UNCHANGED <<call, slot, seen, outcome, read>>
    /\ UNCHANGED <<token, holds, retired, block, local, provider, poolVars,
                   historyVars, internal, tasks, closing, pickVars>>

Finish(t) ==
    /\ pc[t] = "finish"
    /\ LET r == slot[t] IN
       IF completed[r]
       THEN Goto(t, AfterFinish(t)) /\ UNCHANGED <<status, completed>>
       ELSE /\ status' = [status EXCEPT ![r] = outcome[t]]
            /\ completed' = [completed EXCEPT ![r] = TRUE]
            /\ arg' = [arg EXCEPT ![t] = block[r]]
            /\ pc' = [pc EXCEPT ![t] = "signal"]
            /\ UNCHANGED <<call, slot, seen, outcome, read>>
    /\ UNCHANGED <<token, holds, retired, block, local, provider, poolVars,
                   historyVars, internal, tasks, closing, pickVars>>

\* Mutant of Signal: the waiters are not woken.
Signal_Silent(t) ==
    /\ pc[t] = "signal"
    /\ Goto(t, IF arg[t] \in Notified THEN "submit" ELSE AfterFinish(t))
    /\ UNCHANGED <<slotVars, poolVars, historyVars, internal, tasks, closing, pickVars>>

\* wake_all, after the unlock; the routine is submitted if the block had one.
Signal(t) ==
    /\ pc[t] = "signal"
    /\ pc' = [u \in Threads |->
                IF u = t THEN IF arg[t] \in Notified THEN "submit" ELSE AfterFinish(t)
                ELSE IF pc[u] = "asleep" /\ slot[u] = slot[t] THEN "held" ELSE pc[u]]
    /\ UNCHANGED <<call, arg, slot, seen, outcome, read>>
    /\ UNCHANGED <<slotVars, poolVars, historyVars, internal, tasks, closing, pickVars>>

-----------------------------------------------------------------------------
(* submit: the task gets a hold before the port sees it                     *)

TaskOf(t) == CASE call[t] = "begin"    -> "perform"
               [] call[t] = "schedule" -> "do_work"
               [] OTHER                -> "announce"

AfterSubmit(t) == IF call[t] = "schedule" THEN "drop" ELSE AfterFinish(t)

\* Mutant of HoldForTask: the task is queued without a hold of its own.
HoldForTask_Skipped(t) ==
    /\ pc[t] = "submit"
    /\ Goto(t, "enqueue")
    /\ UNCHANGED <<slotVars, poolVars, historyVars, internal, tasks, closing, pickVars>>

HoldForTask(t) ==
    /\ pc[t] = "submit"
    /\ holds' = [holds EXCEPT ![slot[t]] = @ + 1]
    /\ Goto(t, "enqueue")
    /\ UNCHANGED <<token, completed, status, retired, block, local, provider,
                   poolVars, historyVars, internal, tasks, closing, pickVars>>

\* The port takes the task; begin then returns at once, touching nothing more.
Enqueue(t) ==
    /\ pc[t] = "enqueue"
    /\ ~closing
    /\ tasks' = [tasks EXCEPT ![slot[t]][TaskOf(t)] = @ + 1]
    /\ IF call[t] = "begin" THEN Return(t) ELSE Goto(t, AfterSubmit(t))
    /\ UNCHANGED <<slotVars, poolVars, historyVars, internal, closing, pickVars>>

\* Mutant of Refuse: the hold of the refused task is not released.
Refuse_KeepsHold(t) ==
    /\ pc[t] = "enqueue"
    /\ Goto(t, IF call[t] = "begin" THEN "retire" ELSE AfterSubmit(t))
    /\ UNCHANGED <<slotVars, poolVars, historyVars, internal, tasks, closing, pickVars>>

\* The port is terminated, or full.
Refuse(t) ==
    /\ pc[t] = "enqueue"
    /\ Goto(t, "withdraw")
    /\ UNCHANGED <<slotVars, poolVars, historyVars, internal, tasks, closing, pickVars>>

-----------------------------------------------------------------------------
(* release: drop one hold, and dispose of the operation with the last       *)

Release(t, then) ==
    LET r == slot[t] IN
    /\ holds' = [holds EXCEPT ![r] = @ - 1]
    /\ IF holds[r] = 1 THEN Goto(t, "strip")
       ELSE IF then = "idle" THEN Return(t) ELSE Goto(t, then)
    /\ UNCHANGED <<token, completed, status, retired, block, local, provider,
                   poolVars, historyVars, internal, tasks, closing, pickVars>>

\* The hold of a task the port would not take.
Withdraw(t) ==
    /\ pc[t] = "withdraw"
    /\ Release(t, IF call[t] = "begin" THEN "retire" ELSE AfterSubmit(t))

\* The hold of the operation itself, once retired.
Unhold(t) ==
    /\ pc[t] = "unhold"
    /\ Release(t, IF call[t] \in Begins THEN "idle" ELSE "drop")

\* The hold of the call, or of the task that has run.
Drop(t) == pc[t] = "drop" /\ Release(t, IF call[t] = "peek" THEN "peek" ELSE "idle")

\* retire: the first to come unlinks the block and drops the operation's hold.
\* Without Overlap clients do not retire a block while another call looks it up.
Retire(t) ==
    /\ pc[t] = "retire"
    /\ LET r == slot[t] IN
       /\ \/ Overlap
          \/ \A u \in Threads : pc[u] = "find" => slot[u] # r \/ seen[u] # token[r]
       /\ IF retired[r]
          THEN /\ IF call[t] \in Begins THEN Return(t) ELSE Goto(t, "drop")
               /\ UNCHANGED <<retired, block, internal>>
          ELSE /\ retired' = [retired EXCEPT ![r] = TRUE]
               /\ internal' = [a \in Blocks |-> IF a = block[r] THEN Unnamed ELSE internal[a]]
               /\ block' = [block EXCEPT ![r] = None]
               /\ Goto(t, "unhold")
    /\ UNCHANGED <<token, holds, completed, status, local, provider, poolVars,
                   historyVars, tasks, closing, pickVars>>

\* Mutant of Strip: the provider is dropped without being remembered for cleanup.
Strip_Forgets(t) ==
    /\ pc[t] = "strip"
    /\ local' = [local EXCEPT ![slot[t]] = FALSE]
    /\ chosen' = [chosen EXCEPT ![slot[t]] = 0]
    /\ provider' = [provider EXCEPT ![slot[t]] = FALSE]
    /\ Goto(t, "free")
    /\ UNCHANGED <<token, holds, completed, status, retired, block, poolVars,
                   historyVars, internal, tasks, closing, lost>>

\* dispose: the contents are moved out under the slot's mutex,
Strip(t) ==
    /\ pc[t] = "strip"
    /\ local' = [local EXCEPT ![slot[t]] = FALSE]
    /\ chosen' = [chosen EXCEPT ![slot[t]] = 0]
    /\ provider' = [provider EXCEPT ![slot[t]] = FALSE]
    /\ Goto(t, IF provider[slot[t]] THEN "cleanup" ELSE "free")
    /\ UNCHANGED <<token, holds, completed, status, retired, block, poolVars,
                   historyVars, internal, tasks, closing, lost>>

\* the provider, if there was one, cleans up,
Cleanup(t) ==
    /\ pc[t] = "cleanup"
    /\ cleanups' = [k \in Tokens |->
                      IF k = token[slot[t]] THEN cleanups[k] + 1 ELSE cleanups[k]]
    /\ Goto(t, "free")
    /\ UNCHANGED <<slotVars, poolVars, announcements, origin, internal, tasks, closing, pickVars>>

\* Mutant of Free: the slot goes on the free list with its state word as it was.
Free_Uncleared(t) ==
    /\ pc[t] = "free"
    /\ free' = Append(free, slot[t])
    /\ Return(t)
    /\ UNCHANGED <<slotVars, used, next, historyVars, internal, tasks, closing, pickVars>>

\* and under the pool's mutex the state word is cleared and the slot freed.
Free(t) ==
    /\ pc[t] = "free"
    /\ token' = [token EXCEPT ![slot[t]] = None]
    /\ holds' = [holds EXCEPT ![slot[t]] = 0]
    /\ free' = Append(free, slot[t])
    /\ IF call[t] = "peek" THEN Goto(t, "peek") ELSE Return(t)
    /\ UNCHANGED <<completed, status, retired, block, local, provider, used, next,
                   historyVars, internal, tasks, closing, pickVars>>

-----------------------------------------------------------------------------
(* The tasks                                                                *)

RunTask(w, r, k) ==
    /\ pc[w] = "idle"
    /\ tasks[r][k] > 0
    /\ tasks' = [tasks EXCEPT ![r][k] = @ - 1]
    /\ slot' = [slot EXCEPT ![w] = r]
    /\ seen' = [seen EXCEPT ![w] = token[r]]
    /\ call' = [call EXCEPT ![w] = k]
    /\ pc' = [pc EXCEPT ![w] = "held"]
    /\ UNCHANGED <<slotVars, poolVars, historyVars, arg, outcome, read, internal, closing,
                   pickVars>>

\* Mutant of Perform: work that fails does not finish the operation.
Perform_FailsSilently(w) ==
    /\ pc[w] = "held" /\ call[w] = "perform"
    /\ \/ /\ outcome' = [outcome EXCEPT ![w] = "ok"]
          /\ pc' = [pc EXCEPT ![w] = "finish"]
          /\ UNCHANGED <<call, arg, slot, seen, read>>
       \/ Goto(w, "drop")
    /\ UNCHANGED <<slotVars, poolVars, historyVars, internal, tasks, closing, pickVars>>

\* perform: the work of the runtime's own operations, which for a player picker is the
\* selection, or E_ABORT when the port says canceled, as a terminated port may.
Perform(w) ==
    /\ pc[w] = "held" /\ call[w] = "perform"
    /\ \/ /\ outcome' = [outcome EXCEPT ![w] = "ok"]
          /\ chosen' = [chosen EXCEPT ![slot[w]] = 1]
       \/ outcome' = [outcome EXCEPT ![w] = "fail"] /\ UNCHANGED chosen
       \/ closing /\ outcome' = [outcome EXCEPT ![w] = "abort"] /\ UNCHANGED chosen
    /\ pc' = [pc EXCEPT ![w] = "finish"]
    /\ UNCHANGED <<call, arg, slot, seen, read>>
    /\ UNCHANGED <<slotVars, poolVars, historyVars, internal, tasks, closing, lost>>

\* do_work: the provider says it is done for now, or fails.
DoWork(w) ==
    /\ pc[w] = "held" /\ call[w] = "do_work"
    /\ \/ Goto(w, "drop")
       \/ /\ \/ outcome' = [outcome EXCEPT ![w] = "fail"]
             \/ closing /\ outcome' = [outcome EXCEPT ![w] = "abort"]
          /\ pc' = [pc EXCEPT ![w] = "finish"]
          /\ UNCHANGED <<call, arg, slot, seen, read>>
    /\ UNCHANGED <<slotVars, poolVars, historyVars, internal, tasks, closing, pickVars>>

\* Mutant of Announce: the routine is called although the block was unlinked.
Announce_Unlinked(w) ==
    /\ pc[w] = "held" /\ call[w] = "announce"
    /\ Goto(w, "routine")
    /\ UNCHANGED <<slotVars, poolVars, historyVars, internal, tasks, closing, pickVars>>

\* announce: under the mutex the completion routine is taken from the block, unless it was
\* unlinked,
Announce(w) ==
    /\ pc[w] = "held" /\ call[w] = "announce"
    /\ Goto(w, IF block[slot[w]] \in Notified THEN "routine" ELSE "drop")
    /\ UNCHANGED <<slotVars, poolVars, historyVars, internal, tasks, closing, pickVars>>

\* and called after the unlock, when the operation may have been retired.
CallRoutine(w) ==
    /\ pc[w] = "routine"
    /\ announcements' = [k \in Tokens |->
          IF k = token[slot[w]] THEN announcements[k] + 1 ELSE announcements[k]]
    /\ Goto(w, "drop")
    /\ UNCHANGED <<slotVars, poolVars, cleanups, origin, internal, tasks, closing, pickVars>>

\* The task queue of the operations is terminated.
Close ==
    /\ ~closing
    /\ closing' = TRUE
    /\ UNCHANGED <<slotVars, poolVars, threadVars, historyVars, internal, tasks, pickVars>>

-----------------------------------------------------------------------------
Step(t) ==
    \/ SetUp(t) \/ FillLocal(t) \/ FillProvider(t) \/ ProviderBegins(t)
    \/ Find(t) \/ GetStatus(t) \/ WaitStatus(t) \/ TakeResult(t) \/ Cancel(t)
    \/ Complete(t) \/ Schedule(t) \/ PendingOperation(t) \/ Peek(t) \/ Collect(t)
    \/ Finish(t) \/ Signal(t) \/ HoldForTask(t) \/ Enqueue(t) \/ Refuse(t)
    \/ Withdraw(t) \/ Unhold(t) \/ Drop(t) \/ Retire(t)
    \/ Strip(t) \/ Cleanup(t) \/ Free(t)
    \/ Perform(t) \/ DoWork(t) \/ Announce(t) \/ CallRoutine(t)

Next ==
    \/ \E c \in Clients, a \in Blocks, b \in BeginCalls : Acquire(c, a, b)
    \/ \E c \in Clients, a \in Blocks, k \in BlockCalls : LookUp(c, a, k)
    \/ \E w \in Workers, r \in Slots, k \in Kinds : RunTask(w, r, k)
    \/ \E t \in Threads : Step(t)
    \/ Close

Spec == Init /\ [][Next]_vars

\* Threads go on, providers' and clients' callbacks return, and the task ports run
\* every task they accepted, in turn (PoolCallsEveryCallback, UndelayedInOrder).
Fairness ==
    /\ \A t \in Threads : WF_vars(Step(t))
    /\ \A r \in Slots, k \in Kinds : SF_vars(\E w \in Workers : RunTask(w, r, k))

FairSpec == Spec /\ Fairness

-----------------------------------------------------------------------------
(* Properties                                                               *)

\* The threads that have a hold of their own on slot r, those that took one for a
\* task, and those about to drop the operation's.
Holders(r)    == {t \in Threads :
                    /\ slot[t] = r
                    /\ call[t] \notin Begins
                    /\ pc[t] \in {"held", "asleep", "finish", "signal", "submit",
                                  "enqueue", "withdraw", "retire", "unhold", "routine",
                                  "drop"}}
Submitters(r) == {t \in Threads : slot[t] = r /\ pc[t] \in {"enqueue", "withdraw"}}
Retirers(r)   == {t \in Threads : slot[t] = r /\ pc[t] = "unhold"}
Disposers(r)  == {t \in Threads : slot[t] = r /\ pc[t] \in {"strip", "cleanup", "free"}}

QueuedTasks(r) == tasks[r]["perform"] + tasks[r]["do_work"] + tasks[r]["announce"]

OwnHold(r) == IF token[r] # None /\ ~retired[r] THEN 1 ELSE 0

\* The hold count of a live slot is the number of parties that will release it: the
\* operation until it is retired, the calls that found it, and the tasks queued for it
\* or about to be.
HoldsCounted ==
    /\ TypeOK
    /\ \A r \in Slots : token[r] # None =>
          holds[r] = OwnHold(r) + Cardinality(Retirers(r)) + Cardinality(Holders(r))
                       + Cardinality(Submitters(r)) + QueuedTasks(r)

\* release finds a hold to drop: the assertion of release (async.cxx 251), and that of
\* submit (async.cxx 381).
ReleaseFindsHold ==
    \A t \in Threads :
        pc[t] \in {"submit", "withdraw", "unhold", "drop"} => holds[slot[t]] > 0

\* Whoever has a hold uses the operation it found: the slot still bears that token,
\* it has not been stripped or freed, and a task finds the operation or the provider
\* it is to run (the preconditions of perform and call_provider).
HeldSlotsLive ==
    /\ \A r \in Slots : \A t \in Holders(r) :
          /\ token[r] = seen[t]
          /\ Disposers(r) = {}
          /\ r \notin {free[i] : i \in DOMAIN free}
          /\ call[t] = "perform" => local[r]
          /\ call[t] = "do_work" => provider[r]
    /\ \A r \in Slots : QueuedTasks(r) > 0 => token[r] # None /\ Disposers(r) = {}

\* A slot is on the free list at most once, and then nothing refers to it: its state
\* word is clear, no block names it, no task is queued for it, and no thread works on it
\* but one whose lookup will not find it, or the holder of a picker's pointer.
FreeSlotsUnused ==
    /\ \A i, j \in DOMAIN free : free[i] = free[j] => i = j
    /\ \A i \in DOMAIN free :
          LET r == free[i] IN
          /\ token[r] = None /\ holds[r] = 0 /\ QueuedTasks(r) = 0
          /\ r <= used
          /\ \A a \in Blocks : internal[a].slot # r
          /\ \A t \in Threads : slot[t] = r => pc[t] \in {"find", "peek", "again"}
    /\ \A r \in Slots : Cardinality(Disposers(r)) <= 1

\* An operation settles once: when its work, its provider, a cancel and a terminated
\* queue race to finish it, the first outcome stays until the slot is used anew.
SettlesOnce ==
    [][\A r \in Slots :
          completed[r] /\ token[r] # None /\ token'[r] = token[r]
              => completed'[r] /\ status'[r] = status[r]]_vars

\* The completion routine of an operation is called at most once, however it ended.  A
\* provider whose begin succeeded is cleaned up once, by the time its slot is freed; an
\* operation of the runtime's own never sees a provider's cleanup.
CalledOnce ==
    \A k \in Tokens :
        LET gone == origin[k] # "none" /\ \A r \in Slots : token[r] # k IN
        /\ announcements[k] <= 1
        /\ origin[k] = "provider" => cleanups[k] <= 1 /\ (gone => cleanups[k] = 1)
        /\ origin[k] = "local" => cleanups[k] = 0

\* A player picker asked for its result once it has settled hands the selection out.  Lost
\* is only a selection whose size was read of an operation that had not settled then, or
\* was not the one collected: a call that should have said pending, and found the work
\* done between its two looks (ui.cxx 193, 198).
PicksDelivered == \A p \in lost : p[1] # p[2]

\* The operation of token k, wherever it is, as the block's client knows it: it is over when
\* its slot is freed, ending from the last hold on, closed from its retirement on.
SlotOf(k) == CHOOSE r \in Slots : token[r] = k
Alive(k)  == \E r \in Slots : token[r] = k
Stage(k)  == IF ~Alive(k) THEN IF origin[k] = "none" THEN "unborn" ELSE "over"
             ELSE IF holds[SlotOf(k)] = 0 THEN "ending"
             ELSE IF retired[SlotOf(k)] THEN "closed"
             ELSE IF \E t \in Threads : call[t] \in Begins /\ seen[t] = k THEN "starting"
             ELSE "open"
Verdict(k) == IF Alive(k) /\ completed[SlotOf(k)] THEN status[SlotOf(k)] ELSE "pending"
Owner(k)   == IF Alive(k) /\ ~retired[SlotOf(k)] THEN block[SlotOf(k)] ELSE None
Due        == {seen[t] : t \in {u \in Threads : pc[u] = "routine"}}

Abstract == INSTANCE Operation
              WITH Operations <- Tokens,
                   stage      <- [k \in Tokens |-> Stage(k)],
                   kind       <- origin,
                   owner      <- [k \in Tokens |-> Owner(k)],
                   verdict    <- [k \in Tokens |-> Verdict(k)],
                   due        <- Due,
                   told       <- announcements,
                   cleaned    <- cleanups

\* The slots, tokens, holds and tasks implement operations that settle once, whose completion
\* routine is due once between settling and being closed and is called before anybody lets
\* go of them, and that are left alone from then on.
ImplementsOperation == Abstract!Spec

\* Work that a task port accepted settles its operation.
WorkSettles == \A r \in Slots : (tasks[r]["perform"] > 0) ~> completed[r]

\* A thread that waits in get_status returns once the operation has settled, also when
\* it is canceled or collected by another thread meanwhile.
WaitersReturn ==
    \A c \in Clients : (pc[c] = "asleep" /\ completed[slot[c]]) ~> (pc[c] # "asleep")

\* A retired operation gives its slot back: no hold is forgotten.
RetiredSlotsFreed ==
    \A r \in Slots : (token[r] # None /\ retired[r]) ~> (token[r] = None)

=============================================================================
