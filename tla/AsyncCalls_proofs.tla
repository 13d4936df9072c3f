------------------------- MODULE AsyncCalls_proofs -------------------------
(***************************************************************************)
(* What Async does for the client of an operation, on top of the hold      *)
(* protocol (Async_proofs) and for the same constants, Overlap FALSE among *)
(* them: the completion routine is called at most once, a provider is      *)
(* cleaned up once, and a player picker that has settled hands its         *)
(* selection out.  With that, the operations behind async blocks are those *)
(* of the abstract specification Operation.                                *)
(***************************************************************************)
EXTENDS Async_proofs

-----------------------------------------------------------------------------
(* How an operation was begun, and its provider's cleanup                   *)

\* A thread that has yet to fill the slot, or to call the begin of the provider.
Starting(t) == pc[t] \in {"setup", "fill"} \/ (pc[t] = "held" /\ call[t] = "provide")

\* What a slot holds is what the operation was begun with; before its slot is filled an
\* operation has not begun.
OriginInv ==
    /\ \A k \in Tokens : k >= next => origin[k] = "none"
    /\ \A t \in Threads : Starting(t) =>
          origin[seen[t]] = IF pc[t] = "held" THEN "provider" ELSE "none"
    /\ \A r \in Slots : token[r] # None =>
          /\ local[r] => origin[token[r]] = "local"
          /\ provider[r] => origin[token[r]] \in {"provider", "failed"}

\* The operations that have a provider, and the cleanups called at a begin that failed.
Provided == {"provider", "failed"}
Early(k) == IF origin[k] = "failed" THEN 1 ELSE 0

\* The cleanup of a provider at the end is ahead while the slot has it and while the thread
\* that took it out has not called it, and past when the slot is freed.
CleanInv ==
    /\ \A k \in Tokens : origin[k] \in {"none", "local"} => cleanups[k] = 0
    /\ \A k \in Tokens : origin[k] \in Provided /\ (\A r \in Slots : token[r] # k)
          => cleanups[k] = Early(k) + 1
    /\ \A r \in Slots : token[r] # None /\ origin[token[r]] \in Provided =>
          IF provider[r] THEN cleanups[token[r]] = Early(token[r])
          ELSE \E t \in Threads : slot[t] = r /\ pc[t] \in {"cleanup", "free"}
    /\ \A t \in Threads : pc[t] \in {"cleanup", "free"} =>
          /\ ~provider[slot[t]]
          /\ pc[t] = "cleanup" => origin[seen[t]] \in Provided
          /\ origin[seen[t]] \in Provided
                => cleanups[seen[t]] = Early(seen[t]) + IF pc[t] = "free" THEN 1 ELSE 0

-----------------------------------------------------------------------------
(* How threads move                                                         *)

\* Nothing of a thread changes.
Same(u) ==
    /\ pc'[u] = pc[u] /\ call'[u] = call[u] /\ arg'[u] = arg[u] /\ slot'[u] = slot[u]
    /\ seen'[u] = seen[u] /\ outcome'[u] = outcome[u] /\ read'[u] = read[u]

LEMMA GotoSame ==
  ASSUME TypeOK, NEW t \in Threads, NEW l, Goto(t, l)
  PROVE  /\ \A u \in Threads \ {t} : Same(u)
         /\ pc'[t] = l /\ UNCHANGED <<call, arg, slot, seen, outcome, read>>
BY DEF TypeOK, Goto, Same

LEMMA ReturnSame ==
  ASSUME TypeOK, NEW t \in Threads, Return(t)
  PROVE  /\ \A u \in Threads \ {t} : Same(u)
         /\ pc'[t] = "idle" /\ call'[t] = "none" /\ read'[t] = Unread
BY DEF TypeOK, Return, Same

LEMMA ReleaseSame ==
  ASSUME TypeOK, NEW t \in Threads, NEW l, Release(t, l)
  PROVE  /\ \A u \in Threads \ {t} : Same(u)
         /\ \/ pc'[t] \in {l, "strip"} /\ UNCHANGED <<call, arg, slot, seen, outcome, read>>
            \/ pc'[t] = "idle" /\ call'[t] = "none" /\ read'[t] = Unread
BY GotoSame, ReturnSame DEF Release

\* All but Signal moves one thread.
LEMMA OneMoves ==
  ASSUME TypeOK, NEW t \in Threads, Step(t), ~Signal(t)
  PROVE  \A u \in Threads \ {t} : Same(u)
<1>1. CASE \/ SetUp(t) \/ FillLocal(t) \/ FillProvider(t) \/ ProviderBegins(t) \/ Find(t)
           \/ GetStatus(t) \/ WaitStatus(t) \/ TakeResult(t) \/ Schedule(t)
  <2>1. Return(t) \/ \E l : Goto(t, l)
    BY <1>1 DEF SetUp, FillLocal, FillProvider, ProviderBegins, Find, GetStatus, WaitStatus,
         TakeResult, Schedule
  <2>2. QED
    BY <2>1, GotoSame, ReturnSame
<1>2. CASE Cancel(t) \/ Complete(t) \/ PendingOperation(t) \/ Peek(t)
  BY <1>2 DEF Cancel, Complete, PendingOperation, Peek, Goto, Same, TypeOK
<1>3. CASE Collect(t) \/ Finish(t) \/ Perform(t) \/ DoWork(t)
  BY <1>3 DEF Collect, Finish, Perform, DoWork, Goto, Return, Same, TypeOK
<1>4. CASE \/ HoldForTask(t) \/ Enqueue(t) \/ Refuse(t) \/ Retire(t)
           \/ Strip(t) \/ Cleanup(t) \/ Free(t) \/ Announce(t) \/ CallRoutine(t)
  <2>1. Return(t) \/ \E l : Goto(t, l)
    BY <1>4 DEF HoldForTask, Enqueue, Refuse, Retire, Strip, Cleanup, Free, Announce, CallRoutine
  <2>2. QED
    BY <2>1, GotoSame, ReturnSame
<1>5. CASE Withdraw(t) \/ Unhold(t) \/ Drop(t)
  <2>1. \E l : Release(t, l)
    BY <1>5 DEF Withdraw, Unhold, Drop
  <2>2. QED
    BY <2>1, ReleaseSame
<1>6. QED
  BY <1>1, <1>2, <1>3, <1>4, <1>5 DEF Step

\* The calls that begin something move one thread, which was idle.
LEMMA CallMoves ==
  ASSUME TypeOK, NEW t \in Threads,
         \/ \E a \in Blocks, b \in BeginCalls : Acquire(t, a, b)
         \/ \E a \in Blocks, k \in BlockCalls : LookUp(t, a, k)
         \/ \E r \in Slots, k \in Kinds : RunTask(t, r, k)
  PROVE  /\ \A u \in Threads \ {t} : Same(u)
         /\ pc[t] = "idle" /\ pc'[t] \in {"setup", "find", "held"}
         /\ outcome' = outcome /\ read' = read
<1>1. CASE \E a \in Blocks, b \in BeginCalls : Acquire(t, a, b)
  BY <1>1 DEF Acquire, TypeOK, Same
<1>2. CASE \E a \in Blocks, k \in BlockCalls : LookUp(t, a, k)
  BY <1>2 DEF LookUp, TypeOK, Same
<1>3. CASE \E r \in Slots, k \in Kinds : RunTask(t, r, k)
  BY <1>3 DEF RunTask, TypeOK, Same
<1>4. QED
  BY <1>1, <1>2, <1>3

\* A thread in a call has a slot and a token that was given out.
LEMMA Located ==
  ASSUME IInv, NEW t \in Threads, pc[t] # "idle"
  PROVE  /\ slot[t] \in Slots /\ seen[t] \in Tokens /\ seen[t] # None
         /\ next \in Nat /\ seen[t] < next
<1>1. next \in 1..(MaxTokens + 1)
  BY DEF IInv, TypeOK
<1>2. next \in Nat
  BY <1>1, AsyncConstants
<1>3. QED
  BY <1>2, BusySlot

\* Two threads in the middle of a begin have different operations.
LEMMA StartersApart ==
  ASSUME IInv, NEW t \in Threads, NEW u \in Threads, t # u, Starting(t), Starting(u)
  PROVE  seen[t] # seen[u]
<1>1. call[t] \in Begins /\ call[u] \in Begins
  BY DEF IInv, ThreadInv, Starting, Begins
<1>2. call[u] \notin Provider \cup Kinds
  BY <1>1 DEF Begins, Provider, Kinds
<1>3. QED
  BY <1>1, <1>2 DEF IInv, BeginInv

-----------------------------------------------------------------------------
(* OriginInv is inductive                                                   *)

\* A step that leaves slots, tokens and origins alone, and brings no thread to set up or
\* fill a slot.
LEMMA OriginQuiet ==
  ASSUME OriginInv, UNCHANGED <<token, local, provider, origin, next>>,
         \A u \in Threads : Starting(u)' => Same(u)
  PROVE  OriginInv'
BY DEF OriginInv, Starting, Same

LEMMA OriginAcquire ==
  ASSUME IInv, OriginInv, NEW c \in Clients, NEW a \in Blocks, NEW b \in BeginCalls, Acquire(c, a, b)
  PROVE  OriginInv'
<1>1. c \in Threads /\ next \in Tokens /\ next' = next + 1 /\ next \in Nat
  BY DEF Acquire, Threads, IInv, TypeOK, Tokens
<1>2. UNCHANGED <<token, local, provider, origin>> /\ pc'[c] = "setup" /\ seen'[c] = next
  BY <1>1 DEF Acquire, slotVars, historyVars, IInv, TypeOK
<1>3. \A u \in Threads \ {c} : Same(u)
  BY <1>1, CallMoves DEF IInv
<1>4. \A k \in Tokens : k >= next' => origin'[k] = "none"
  BY <1>1, <1>2 DEF OriginInv, Tokens
<1>5. \A t \in Threads : Starting(t)' => origin'[seen'[t]] = IF pc'[t] = "held" THEN "provider" ELSE "none"
  BY <1>1, <1>2, <1>3 DEF OriginInv, Same, Starting
<1>6. QED
  BY <1>2, <1>4, <1>5 DEF OriginInv

LEMMA OriginSetUp ==
  ASSUME IInv, OriginInv, NEW c \in Threads, SetUp(c)
  PROVE  OriginInv'
<1>1. slot[c] \in Slots /\ seen[c] \in Tokens /\ token[slot[c]] = None /\ ~local[slot[c]]
  <2>1. pc[c] = "setup"
    BY DEF SetUp
  <2>2. QED
    BY <2>1, Located DEF IInv, SetUpInv, TokenInv
<1>2. /\ UNCHANGED <<local, origin, next, seen>>
      /\ token'[slot[c]] = seen[c] /\ ~provider'[slot[c]]
      /\ \A r \in Slots : r # slot[c] => token'[r] = token[r] /\ provider'[r] = provider[r]
  BY <1>1 DEF SetUp, poolVars, historyVars, Goto, IInv, TypeOK
<1>3. pc[c] = "setup" /\ pc'[c] = "fill" /\ \A u \in Threads \ {c} : Same(u)
  BY GotoSame DEF SetUp, IInv
<1>4. \A t \in Threads : Starting(t)' => origin'[seen'[t]] = IF pc'[t] = "held" THEN "provider" ELSE "none"
  BY <1>2, <1>3 DEF OriginInv, Same, Starting
<1>5. QED
  BY <1>1, <1>2, <1>4 DEF OriginInv

\* A step that changes the origin of the operation its thread begins, and what is in the
\* slot of it.
LEMMA OriginStarts ==
  ASSUME IInv, OriginInv, NEW c \in Threads, Starting(c), token[slot[c]] = seen[c],
         UNCHANGED <<token, next>>,
         \A u \in Threads \ {c} : Same(u),
         Starting(c)' => pc'[c] = "held" /\ seen'[c] = seen[c] /\ origin'[seen[c]] = "provider",
         \A k \in Tokens : k # seen[c] => origin'[k] = origin[k],
         \A r \in Slots : r # slot[c] => local'[r] = local[r] /\ provider'[r] = provider[r],
         local'[slot[c]] => origin'[seen[c]] = "local",
         provider'[slot[c]] => origin'[seen[c]] \in {"provider", "failed"}
  PROVE  OriginInv'
<1>1. /\ slot[c] \in Slots /\ seen[c] \in Tokens /\ seen[c] # None /\ next \in Nat /\ seen[c] < next
  BY Located DEF Starting
<1>2. \A k \in Tokens : k >= next' => origin'[k] = "none"
  BY <1>1 DEF OriginInv, Tokens
<1>3. ASSUME NEW t \in Threads, Starting(t)'
      PROVE  origin'[seen'[t]] = IF pc'[t] = "held" THEN "provider" ELSE "none"
  <2>1. CASE t = c
    BY <1>3, <2>1
  <2>2. CASE t # c
    <3>1. Same(t)
      BY <2>2
    <3>2. Starting(t) /\ pc'[t] = pc[t] /\ seen'[t] = seen[t]
      BY <1>3, <3>1 DEF Starting, Same
    <3>3. seen[t] # seen[c] /\ seen[t] \in Tokens
      BY <2>2, <3>2, StartersApart, Located DEF Starting
    <3>4. QED
      BY <3>2, <3>3 DEF OriginInv
  <2>3. QED
    BY <2>1, <2>2
<1>4. ASSUME NEW r \in Slots, token'[r] # None
      PROVE  /\ local'[r] => origin'[token'[r]] = "local"
             /\ provider'[r] => origin'[token'[r]] \in {"provider", "failed"}
  <2>1. CASE r = slot[c]
    BY <1>1, <2>1
  <2>2. CASE r # slot[c]
    <3>1. token[r] # seen[c] /\ token[r] \in Tokens
      BY <1>1, <1>4, <2>2 DEF IInv, TokenInv, TypeOK, Tokens, None
    <3>2. QED
      BY <1>4, <2>2, <3>1 DEF OriginInv
  <2>3. QED
    BY <2>1, <2>2
<1>5. QED
  BY <1>2, <1>3, <1>4 DEF OriginInv

LEMMA OriginFill ==
  ASSUME IInv, OriginInv, NEW c \in Threads, FillLocal(c) \/ FillProvider(c)
  PROVE  OriginInv'
<1>1. /\ slot[c] \in Slots /\ seen[c] \in Tokens /\ token[slot[c]] = seen[c]
      /\ pc[c] = "fill" /\ seen[c] # None
  <2>1. pc[c] = "fill"
    BY DEF FillLocal, FillProvider
  <2>2. QED
    BY <2>1, Located DEF IInv, BusyInv, Busy
<1>2. /\ UNCHANGED <<token, next, seen, call>>
      /\ pc'[c] = IF FillLocal(c) THEN "submit" ELSE "held"
      /\ \A u \in Threads \ {c} : Same(u)
  BY GotoSame DEF FillLocal, FillProvider, IInv, poolVars
<1>3. ~local[slot[c]] /\ ~provider[slot[c]]
  BY <1>1 DEF OriginInv, Starting
<1>4. /\ \A k \in Tokens : k # seen[c] => origin'[k] = origin[k]
      /\ \A r \in Slots : r # slot[c] => local'[r] = local[r] /\ provider'[r] = provider[r]
  BY <1>1 DEF FillLocal, FillProvider, IInv, TypeOK
<1>5. CASE FillLocal(c)
  <2>1. origin'[seen[c]] = "local" /\ ~provider'[slot[c]]
    BY <1>1, <1>3, <1>5 DEF FillLocal, IInv, TypeOK
  <2>2. QED
    BY <1>1, <1>2, <1>4, <1>5, <2>1, OriginStarts DEF Starting
<1>6. CASE FillProvider(c) /\ ~FillLocal(c)
  <2>1. origin'[seen[c]] = "provider" /\ ~local'[slot[c]]
    BY <1>1, <1>3, <1>6 DEF FillProvider, IInv, TypeOK
  <2>2. QED
    BY <1>1, <1>2, <1>4, <1>6, <2>1, OriginStarts DEF Starting
<1>7. QED
  BY <1>5, <1>6

LEMMA OriginProviderBegins ==
  ASSUME IInv, OriginInv, NEW c \in Threads, ProviderBegins(c)
  PROVE  OriginInv'
<1>1. pc[c] = "held" /\ call[c] = "provide" /\ UNCHANGED <<token, local, provider, next>>
  BY DEF ProviderBegins, slotVars, poolVars
<1>2. slot[c] \in Slots /\ seen[c] \in Tokens /\ seen[c] # None /\ token[slot[c]] = seen[c]
  BY <1>1, Located DEF IInv, BusyInv, Busy, Holding
<1>3. pc'[c] \in {"idle", "retire"} /\ \A u \in Threads \ {c} : Same(u)
  BY GotoSame, ReturnSame DEF ProviderBegins, IInv
<1>4. CASE origin' = origin
  BY <1>1, <1>3, <1>4, OriginQuiet DEF Starting
<1>5. CASE origin' # origin
  <2>1. origin' = [origin EXCEPT ![seen[c]] = "failed"]
    BY <1>5 DEF ProviderBegins
  <2>2. origin'[seen[c]] = "failed" /\ \A k \in Tokens : k # seen[c] => origin'[k] = origin[k]
    BY <1>2, <2>1 DEF IInv, TypeOK
  <2>3. ~local[slot[c]]
    BY <1>1, <1>2 DEF OriginInv, Starting
  <2>4. Starting(c) /\ ~Starting(c)'
    BY <1>1, <1>3 DEF Starting
  <2>5. QED
    BY <1>1, <1>2, <1>3, <2>2, <2>3, <2>4, OriginStarts
<1>6. QED
  BY <1>4, <1>5

\* A stripped slot holds nothing and a freed one has no token.
LEMMA OriginStripFree ==
  ASSUME IInv, OriginInv, NEW t \in Threads, Strip(t) \/ Free(t)
  PROVE  OriginInv'
<1>1. pc[t] \in {"strip", "free"} /\ slot[t] \in Slots
  <2>1. pc[t] \in {"strip", "free"}
    BY DEF Strip, Free
  <2>2. QED
    BY <2>1, Located
<1>2. UNCHANGED <<origin, next>>
  BY DEF Strip, Free, historyVars, poolVars
<1>3. pc'[t] \in {"cleanup", "free", "peek", "idle"} /\ \A u \in Threads \ {t} : Same(u)
  BY GotoSame, ReturnSame DEF Strip, Free, IInv
<1>4. \A r \in Slots : token'[r] # None =>
         token'[r] = token[r] /\ (local'[r] => local[r]) /\ (provider'[r] => provider[r])
  <2>1. CASE Strip(t)
    BY <1>1, <2>1 DEF Strip, IInv, TypeOK
  <2>2. CASE Free(t)
    BY <1>1, <2>2 DEF Free, IInv, TypeOK
  <2>3. QED
    BY <2>1, <2>2
<1>5. QED
  BY <1>2, <1>3, <1>4 DEF OriginInv, Starting, Same

\* The steps that leave the contents of slots, tokens and origins alone.
Plain(t) ==
    \/ Find(t) \/ GetStatus(t) \/ WaitStatus(t) \/ TakeResult(t) \/ Cancel(t)
    \/ Complete(t) \/ Schedule(t) \/ PendingOperation(t) \/ Peek(t) \/ Collect(t)
    \/ Finish(t) \/ HoldForTask(t) \/ Enqueue(t) \/ Refuse(t)
    \/ Withdraw(t) \/ Unhold(t) \/ Drop(t) \/ Retire(t)
    \/ Perform(t) \/ DoWork(t) \/ Announce(t) \/ CallRoutine(t)

LEMMA PlainKeeps ==
  ASSUME NEW t \in Threads, Plain(t) \/ Signal(t)
  PROVE  UNCHANGED <<token, local, provider, origin, cleanups, next>>
<1>1. CASE \/ Find(t) \/ GetStatus(t) \/ WaitStatus(t) \/ TakeResult(t) \/ Cancel(t) \/ Complete(t)
           \/ Schedule(t) \/ PendingOperation(t) \/ Peek(t) \/ Collect(t)
  BY <1>1 DEF Find, GetStatus, WaitStatus, TakeResult, Cancel, Complete, Schedule, PendingOperation,
              Peek, Collect, slotVars, historyVars, poolVars
<1>2. CASE \/ Finish(t) \/ Signal(t) \/ HoldForTask(t) \/ Enqueue(t) \/ Refuse(t) \/ Perform(t)
           \/ DoWork(t) \/ Announce(t) \/ CallRoutine(t)
  BY <1>2 DEF Finish, Signal, HoldForTask, Enqueue, Refuse, Perform, DoWork, Announce, CallRoutine, slotVars,
              historyVars, poolVars
<1>3. CASE Withdraw(t) \/ Unhold(t) \/ Drop(t) \/ Retire(t)
  BY <1>3 DEF Withdraw, Unhold, Drop, Release, Retire, slotVars, historyVars, poolVars
<1>4. QED
  BY <1>1, <1>2, <1>3 DEF Plain

\* Where a plain step leads: not into a begin, nor to the cleanup or the end of a slot.
LEMMA PlainMoves ==
  ASSUME IInv, NEW t \in Threads, Plain(t)
  PROVE  /\ \A u \in Threads \ {t} : Same(u)
         /\ pc[t] \notin {"setup", "fill", "strip", "cleanup", "free"}
         /\ pc'[t] \notin {"setup", "fill", "cleanup", "free"}
         /\ ~Starting(t)'
         /\ pc'[t] = "routine" => Announce(t)
<1>1. \A u \in Threads \ {t} : Same(u)
  BY OneMoves DEF IInv, Plain, Step, Signal, Find, GetStatus, WaitStatus, TakeResult, Cancel,
       Complete, Schedule, PendingOperation, Peek, Collect, Finish, HoldForTask, Enqueue, Refuse,
       Withdraw, Unhold, Drop, Retire, Perform, DoWork, Announce, CallRoutine
<1>2. pc[t] \notin {"setup", "fill", "strip", "cleanup", "free"}
  BY DEF Plain, Find, GetStatus, WaitStatus, TakeResult, Cancel,
       Complete, Schedule, PendingOperation, Peek, Collect, Finish, HoldForTask, Enqueue, Refuse,
       Withdraw, Unhold, Drop, Retire, Perform, DoWork, Announce, CallRoutine
<1>3. CASE Find(t)
  <2>1. call[t] # "provide"
    BY <1>3 DEF Find, IInv, ThreadInv, Polls, Provider
  <2>2. pc'[t] = "idle" \/ (pc'[t] = "held" /\ call'[t] = call[t])
    <3>1. Goto(t, "held") \/ Return(t)
      BY <1>3 DEF Find
    <3>2. QED
      BY <3>1, GotoSame, ReturnSame DEF IInv
  <2>3. QED
    BY <1>1, <1>2, <2>1, <2>2 DEF Starting
<1>4. CASE \/ GetStatus(t) \/ WaitStatus(t) \/ TakeResult(t) \/ Cancel(t) \/ Complete(t)
           \/ Schedule(t)
  <2>1. pc'[t] \in {"drop", "asleep", "retire", "finish", "submit"}
    BY <1>4, GotoSame DEF GetStatus, WaitStatus, TakeResult, Cancel, Complete, Schedule, IInv, TypeOK
  <2>2. QED
    BY <1>1, <1>2, <2>1 DEF Starting
<1>5. CASE \/ PendingOperation(t) \/ Peek(t) \/ Collect(t) \/ Finish(t) \/ HoldForTask(t) \/ Enqueue(t)
           \/ Refuse(t)
  <2>1. pc'[t] \in {"drop", "again", "find", "idle", "signal", "retire", "enqueue", "withdraw"}
    BY <1>5, GotoSame, ReturnSame DEF PendingOperation, Peek, Collect, Finish, HoldForTask, Enqueue,
         Refuse, AfterFinish, AfterSubmit, IInv, TypeOK
  <2>2. QED
    BY <1>1, <1>2, <2>1 DEF Starting
<1>6. CASE Withdraw(t) \/ Unhold(t) \/ Drop(t) \/ Retire(t)
  <2>1. pc'[t] \in {"drop", "idle", "retire", "unhold", "peek", "strip"}
    BY <1>6, GotoSame, ReturnSame DEF Withdraw, Unhold, Drop, Release, Retire, AfterFinish,
         AfterSubmit, IInv
  <2>2. QED
    BY <1>1, <1>2, <2>1 DEF Starting
<1>7. CASE Perform(t) \/ DoWork(t) \/ CallRoutine(t)
  <2>1. pc'[t] \in {"drop", "finish"}
    BY <1>7, GotoSame DEF Perform, DoWork, CallRoutine, IInv, TypeOK
  <2>2. QED
    BY <1>1, <1>2, <2>1 DEF Starting
<1>8. CASE Announce(t)
  <2>1. pc'[t] \in {"drop", "routine"}
    BY <1>8, GotoSame DEF Announce, IInv
  <2>2. QED
    BY <1>1, <1>2, <1>8, <2>1 DEF Starting
<1>9. QED
  BY <1>3, <1>4, <1>5, <1>6, <1>7, <1>8 DEF Plain

\* Signal sends its thread on and wakes the waiters of the slot.
LEMMA SignalMoves ==
  ASSUME IInv, NEW t \in Threads, Signal(t)
  PROVE  /\ pc[t] = "signal" /\ pc'[t] \in {"submit", "retire", "drop"}
         /\ pc'[t] = "submit" => arg[t] \in Notified
         /\ UNCHANGED <<call, arg, slot, seen, outcome, read>>
         /\ \A u \in Threads \ {t} :
               Same(u) \/ (pc[u] = "asleep" /\ pc'[u] = "held" /\ call[u] = "wait")
<1>1. \A u \in Threads \ {t} : pc'[u] = pc[u] \/ (pc[u] = "asleep" /\ pc'[u] = "held")
  BY DEF Signal
<1>2. \A u \in Threads : pc[u] = "asleep" => call[u] = "wait"
  BY DEF IInv, ThreadInv
<1>3. QED
  BY <1>1, <1>2 DEF Signal, AfterFinish, Same

LEMMA NextOrigin ==
  ASSUME IInv, OriginInv, [Next]_vars
  PROVE  OriginInv'
<1>1. CASE \E c \in Clients, a \in Blocks, b \in BeginCalls : Acquire(c, a, b)
  BY <1>1, OriginAcquire
<1>2. ASSUME NEW c \in Threads,
             \/ \E a \in Blocks, k \in BlockCalls : LookUp(c, a, k)
             \/ \E r \in Slots, k \in Kinds : RunTask(c, r, k)
      PROVE  OriginInv'
  <2>1. \A u \in Threads \ {c} : Same(u)
    BY <1>2, CallMoves DEF IInv
  <2>2. UNCHANGED <<token, local, provider, origin, next>>
    BY <1>2 DEF LookUp, RunTask, slotVars, historyVars, poolVars
  <2>3. ~Starting(c)'
    BY <1>2 DEF LookUp, RunTask, Starting, Kinds, IInv, TypeOK
  <2>4. QED
    BY <2>1, <2>2, <2>3, OriginQuiet
<1>3. ASSUME NEW t \in Threads, Step(t) PROVE OriginInv'
  <2>1. CASE SetUp(t)
    BY <2>1, OriginSetUp
  <2>2. CASE FillLocal(t) \/ FillProvider(t)
    BY <2>2, OriginFill
  <2>3. CASE ProviderBegins(t)
    BY <2>3, OriginProviderBegins
  <2>4. CASE Strip(t) \/ Free(t)
    BY <2>4, OriginStripFree
  <2>5. CASE Cleanup(t)
    <3>1. UNCHANGED <<token, local, provider, origin, next>>
      BY <2>5 DEF Cleanup, slotVars, poolVars
    <3>2. pc'[t] = "free" /\ \A u \in Threads \ {t} : Same(u)
      BY <2>5, GotoSame DEF Cleanup, IInv
    <3>3. QED
      BY <3>1, <3>2, OriginQuiet DEF Starting
  <2>6. CASE Plain(t)
    BY <2>6, PlainKeeps, PlainMoves, OriginQuiet
  <2>7. CASE Signal(t)
    <3>1. \A u \in Threads : Starting(u)' => Same(u)
      BY <2>7, SignalMoves DEF Starting
    <3>2. QED
      BY <2>7, <3>1, PlainKeeps, OriginQuiet
  <2>8. QED
    BY <1>3, <2>1, <2>2, <2>3, <2>4, <2>5, <2>6, <2>7 DEF Step, Plain
<1>4. CASE Close \/ UNCHANGED vars
  BY <1>4, OriginQuiet DEF Close, vars, slotVars, threadVars, historyVars, poolVars, Same
<1>5. QED
  BY <1>1, <1>2, <1>3, <1>4 DEF Next, Threads

-----------------------------------------------------------------------------
(* CleanInv is inductive                                                    *)

\* A thread that takes an operation apart.
Cleaning(t) == pc[t] \in {"cleanup", "free"}

\* A step that leaves providers, tokens, origins and cleanups alone, and brings no thread
\* to take an operation apart or away from it.
LEMMA CleanQuiet ==
  ASSUME CleanInv, UNCHANGED <<token, provider, origin, cleanups>>,
         \A u \in Threads : Cleaning(u) \/ Cleaning(u)' => Same(u)
  PROVE  CleanInv'
<1>1. \A u \in Threads : Cleaning(u) \/ Cleaning(u)' =>
         pc'[u] = pc[u] /\ slot'[u] = slot[u] /\ seen'[u] = seen[u]
  BY DEF Same
<1>2. \A r \in Slots : token[r] # None /\ origin[token[r]] \in Provided =>
         IF provider[r] THEN cleanups[token[r]] = Early(token[r])
         ELSE \E t \in Threads : slot'[t] = r /\ pc'[t] \in {"cleanup", "free"}
  BY <1>1 DEF CleanInv, Cleaning
<1>3. QED
  BY <1>1, <1>2 DEF CleanInv, Cleaning, Early

\* What a thread that takes an operation apart finds.
LEMMA CleaningFinds ==
  ASSUME IInv, NEW t \in Threads, pc[t] \in Disposing
  PROVE  /\ slot[t] \in Slots /\ seen[t] \in Tokens /\ token[slot[t]] = seen[t]
         /\ \A r \in Slots : token[r] = seen[t] => r = slot[t]
         /\ \A u \in Threads : pc[u] \in Disposing /\ (slot[u] = slot[t] \/ seen[u] = seen[t]) => u = t
<1>1. ASSUME NEW u \in Threads, pc[u] \in Disposing
      PROVE  slot[u] \in Slots /\ seen[u] \in Tokens /\ token[slot[u]] = seen[u] /\ seen[u] # None
  BY <1>1, BusySlot DEF Disposing, Busy
<1>2. \A r \in Slots : token[r] = seen[t] => r = slot[t]
  BY <1>1 DEF IInv, TokenInv
<1>3. QED
  BY <1>1, <1>2 DEF IInv, DisposeInv

LEMMA CleanSetUp ==
  ASSUME IInv, OriginInv, CleanInv, NEW c \in Threads, SetUp(c)
  PROVE  CleanInv'
<1>1. pc[c] = "setup" /\ UNCHANGED <<origin, cleanups>> /\ pc'[c] = "fill" /\ \A u \in Threads \ {c} : Same(u)
  BY GotoSame DEF SetUp, IInv, historyVars
<1>2. /\ slot[c] \in Slots /\ seen[c] \in Tokens /\ origin[seen[c]] = "none"
      /\ token[slot[c]] = None
  BY <1>1, Located DEF IInv, SetUpInv, OriginInv, Starting
<1>3. /\ token'[slot[c]] = seen[c]
      /\ \A r \in Slots : r # slot[c] => token'[r] = token[r] /\ provider'[r] = provider[r]
  BY <1>2 DEF SetUp, IInv, TypeOK
<1>4. \A k \in Tokens : origin[k] \in Provided /\ (\A r \in Slots : token'[r] # k)
         => \A r \in Slots : token[r] # k
  BY <1>2, <1>3 DEF None, Tokens
<1>5. ASSUME NEW r \in Slots, token'[r] # None, origin[token'[r]] \in Provided
      PROVE  IF provider'[r] THEN cleanups[token'[r]] = Early(token'[r])
             ELSE \E t \in Threads : slot'[t] = r /\ pc'[t] \in {"cleanup", "free"}
  <2>1. r # slot[c] /\ token'[r] = token[r] /\ provider'[r] = provider[r]
    BY <1>2, <1>3, <1>5 DEF Provided
  <2>2. CASE provider[r]
    BY <1>5, <2>1, <2>2 DEF CleanInv
  <2>3. CASE ~provider[r]
    <3>1. PICK t \in Threads : slot[t] = r /\ pc[t] \in {"cleanup", "free"}
      BY <1>5, <2>1, <2>3 DEF CleanInv
    <3>2. Same(t)
      BY <1>1, <3>1
    <3>3. QED
      BY <2>1, <2>3, <3>1, <3>2 DEF Same
  <2>4. QED
    BY <2>2, <2>3
<1>6. ASSUME NEW t \in Threads, pc'[t] \in {"cleanup", "free"}
      PROVE  /\ Same(t) /\ ~provider'[slot[t]]
  <2>1. Same(t) /\ pc[t] \in Disposing
    BY <1>1, <1>6 DEF Same, Disposing
  <2>2. slot[t] \in Slots /\ slot[t] # slot[c]
    BY <1>2, <2>1, Alone
  <2>3. ~provider[slot[t]]
    BY <1>6, <2>1 DEF CleanInv, Same
  <2>4. QED
    BY <1>3, <2>1, <2>2, <2>3
<1>7. QED
  BY <1>1, <1>4, <1>5, <1>6 DEF CleanInv, Same, Early

\* A begin gives its operation an origin, and if it has a provider, nobody cleaned it up.
LEMMA CleanStarts ==
  ASSUME IInv, OriginInv, CleanInv, NEW c \in Threads, pc[c] \in {"fill", "held"},
         token[slot[c]] = seen[c], token' = token,
         \A u \in Threads \ {c} : Same(u), ~Cleaning(c)',
         \A k \in Tokens : k # seen[c] => origin'[k] = origin[k] /\ cleanups'[k] = cleanups[k],
         \A r \in Slots : r # slot[c] => provider'[r] = provider[r],
         \/ origin'[seen[c]] = "local" /\ cleanups'[seen[c]] = 0
         \/ /\ origin'[seen[c]] \in Provided /\ provider'[slot[c]]
            /\ cleanups'[seen[c]] = IF origin'[seen[c]] = "failed" THEN 1 ELSE 0
  PROVE  CleanInv'
<1>1. /\ slot[c] \in Slots /\ seen[c] \in Tokens /\ seen[c] # None
  BY Located
<1>2. \A k \in Tokens : origin'[k] \in {"none", "local"} => cleanups'[k] = 0
  BY <1>1 DEF CleanInv, Provided
<1>3. \A k \in Tokens : origin'[k] \in Provided /\ (\A r \in Slots : token'[r] # k)
         => cleanups'[k] = Early(k)' + 1
  BY <1>1 DEF CleanInv, Early
<1>4. ASSUME NEW r \in Slots, token[r] # None, origin'[token[r]] \in Provided
      PROVE  IF provider'[r] THEN cleanups'[token[r]] = IF origin'[token[r]] = "failed" THEN 1 ELSE 0
             ELSE \E t \in Threads : slot'[t] = r /\ pc'[t] \in {"cleanup", "free"}
  <2>1. CASE r = slot[c]
    BY <1>4, <2>1 DEF Provided
  <2>2. CASE r # slot[c]
    <3>1. token[r] \in Tokens /\ token[r] # seen[c] /\ provider'[r] = provider[r]
      BY <1>1, <1>4, <2>2 DEF IInv, TokenInv, TypeOK, Tokens, None
    <3>2. origin'[token[r]] = origin[token[r]] /\ cleanups'[token[r]] = cleanups[token[r]]
      BY <3>1
    <3>3. CASE provider[r]
      BY <1>4, <3>1, <3>2, <3>3 DEF CleanInv, Early
    <3>4. CASE ~provider[r]
      <4>1. PICK t \in Threads : slot[t] = r /\ pc[t] \in {"cleanup", "free"}
        BY <1>4, <3>2, <3>4 DEF CleanInv
      <4>2. Same(t)
        BY <4>1
      <4>3. QED
        BY <3>1, <3>4, <4>1, <4>2 DEF Same
    <3>5. QED
      BY <3>3, <3>4
  <2>3. QED
    BY <2>1, <2>2
<1>5. ASSUME NEW t \in Threads, pc'[t] \in {"cleanup", "free"}
      PROVE  /\ pc'[t] = pc[t] /\ slot'[t] = slot[t] /\ seen'[t] = seen[t]
             /\ origin'[seen[t]] = origin[seen[t]] /\ cleanups'[seen[t]] = cleanups[seen[t]]
             /\ provider'[slot[t]] = provider[slot[t]]
  <2>1. t # c /\ Same(t) /\ pc[t] \in Disposing
    BY <1>5 DEF Same, Disposing, Cleaning
  <2>2. slot[t] # slot[c] /\ slot[t] \in Slots
    BY <2>1, Shared, BusySlot DEF Busy, Holding, Disposing
  <2>3. seen[t] # seen[c] /\ seen[t] \in Tokens
    BY <1>1, <2>1, <2>2, CleaningFinds
  <2>4. QED
    BY <2>1, <2>2, <2>3 DEF Same
<1>6. QED
  BY <1>2, <1>3, <1>4, <1>5 DEF CleanInv, Early

LEMMA CleanFill ==
  ASSUME IInv, OriginInv, CleanInv, NEW c \in Threads, FillLocal(c) \/ FillProvider(c)
  PROVE  CleanInv'
<1>1. /\ pc[c] = "fill" /\ token' = token /\ cleanups' = cleanups
      /\ pc'[c] \in {"submit", "held"} /\ \A u \in Threads \ {c} : Same(u)
  BY GotoSame DEF FillLocal, FillProvider, IInv
<1>2. /\ slot[c] \in Slots /\ seen[c] \in Tokens /\ token[slot[c]] = seen[c]
      /\ origin[seen[c]] = "none" /\ cleanups[seen[c]] = 0
  BY <1>1, Located DEF IInv, BusyInv, Busy, OriginInv, CleanInv, Starting
<1>3. /\ \A k \in Tokens : k # seen[c] => origin'[k] = origin[k]
      /\ \A r \in Slots : r # slot[c] => provider'[r] = provider[r]
  BY <1>2 DEF FillLocal, FillProvider, IInv, TypeOK
<1>4. \/ origin'[seen[c]] = "local"
      \/ origin'[seen[c]] = "provider" /\ provider'[slot[c]]
  BY <1>2 DEF FillLocal, FillProvider, IInv, TypeOK
<1>5. QED
  BY <1>1, <1>2, <1>3, <1>4, CleanStarts DEF Cleaning, Provided

LEMMA CleanProviderBegins ==
  ASSUME IInv, OriginInv, CleanInv, NEW c \in Threads, ProviderBegins(c)
  PROVE  CleanInv'
<1>1. /\ pc[c] = "held" /\ call[c] = "provide" /\ UNCHANGED <<token, provider>>
      /\ pc'[c] \in {"idle", "retire"} /\ \A u \in Threads \ {c} : Same(u)
  BY GotoSame, ReturnSame DEF ProviderBegins, IInv, slotVars
<1>2. CASE UNCHANGED <<origin, cleanups>>
  BY <1>1, <1>2, CleanQuiet DEF Cleaning
<1>3. CASE ~UNCHANGED <<origin, cleanups>>
  <2>1. slot[c] \in Slots /\ seen[c] \in Tokens /\ seen[c] # None /\ token[slot[c]] = seen[c]
    BY <1>1, Located DEF IInv, BusyInv, Busy, Holding
  <2>2. /\ origin' = [origin EXCEPT ![seen[c]] = "failed"]
        /\ cleanups' = [cleanups EXCEPT ![seen[c]] = @ + 1]
    BY <1>3 DEF ProviderBegins
  <2>3. /\ origin'[seen[c]] = "failed" /\ cleanups'[seen[c]] = cleanups[seen[c]] + 1
        /\ \A k \in Tokens : k # seen[c] => origin'[k] = origin[k] /\ cleanups'[k] = cleanups[k]
    BY <2>1, <2>2 DEF IInv, TypeOK
  <2>4. origin[seen[c]] = "provider"
    BY <1>1 DEF OriginInv, Starting
  <2>5. ~\E u \in Threads : slot[u] = slot[c] /\ pc[u] \in {"cleanup", "free"}
    BY <1>1, Shared DEF Busy, Holding, Disposing
  <2>6. provider[slot[c]] /\ cleanups[seen[c]] = 0
    BY <2>1, <2>4, <2>5 DEF CleanInv, Early, Provided
  <2>7. provider'[slot[c]] /\ cleanups'[seen[c]] = 1
    BY <1>1, <2>3, <2>6
  <2>8. QED
    BY <1>1, <2>1, <2>3, <2>7, CleanStarts DEF Cleaning, Provided
<1>4. QED
  BY <1>2, <1>3

\* The provider leaves the slot with the thread that is to clean it up.
LEMMA CleanStrip ==
  ASSUME IInv, OriginInv, CleanInv, NEW t \in Threads, Strip(t)
  PROVE  CleanInv'
<1>1. /\ pc[t] = "strip" /\ UNCHANGED <<token, origin, cleanups, slot, seen>>
      /\ pc'[t] = IF provider[slot[t]] THEN "cleanup" ELSE "free"
      /\ \A u \in Threads \ {t} : Same(u)
  BY GotoSame DEF Strip, IInv, historyVars
<1>2. /\ slot[t] \in Slots /\ seen[t] \in Tokens /\ token[slot[t]] = seen[t] /\ seen[t] # None
      /\ \A r \in Slots : token[r] = seen[t] => r = slot[t]
      /\ \A u \in Threads : pc[u] \in Disposing /\ slot[u] = slot[t] => u = t
  BY <1>1, CleaningFinds, BusySlot DEF Disposing
<1>3. ~provider'[slot[t]] /\ \A r \in Slots : r # slot[t] => provider'[r] = provider[r]
  BY <1>2 DEF Strip, IInv, TypeOK
<1>4. origin[seen[t]] \in Provided => provider[slot[t]] /\ cleanups[seen[t]] = Early(seen[t])
  <2>1. ~\E u \in Threads : slot[u] = slot[t] /\ pc[u] \in {"cleanup", "free"}
    BY <1>1, <1>2 DEF Disposing
  <2>2. QED
    BY <1>2, <2>1 DEF CleanInv
<1>5. provider[slot[t]] => origin[seen[t]] \in Provided
  BY <1>2 DEF OriginInv, Provided
<1>6. ASSUME NEW r \in Slots, token[r] # None, origin[token[r]] \in Provided
      PROVE  IF provider'[r] THEN cleanups[token[r]] = Early(token[r])
             ELSE \E u \in Threads : slot'[u] = r /\ pc'[u] \in {"cleanup", "free"}
  <2>1. CASE r = slot[t]
    BY <1>1, <1>3, <2>1
  <2>2. CASE r # slot[t] /\ provider[r]
    BY <1>3, <1>6, <2>2 DEF CleanInv
  <2>3. CASE r # slot[t] /\ ~provider[r]
    <3>1. PICK u \in Threads : slot[u] = r /\ pc[u] \in {"cleanup", "free"}
      BY <1>6, <2>3 DEF CleanInv
    <3>2. Same(u)
      BY <1>1, <3>1
    <3>3. QED
      BY <1>3, <2>3, <3>1, <3>2 DEF Same
  <2>4. QED
    BY <2>1, <2>2, <2>3
<1>7. ASSUME NEW u \in Threads, pc'[u] \in {"cleanup", "free"}
      PROVE  /\ ~provider'[slot[u]]
             /\ pc'[u] = "cleanup" => origin[seen[u]] \in Provided
             /\ origin[seen[u]] \in Provided
                  => cleanups[seen[u]] = Early(seen[u]) + IF pc'[u] = "free" THEN 1 ELSE 0
  <2>1. CASE u = t
    BY <1>1, <1>3, <1>4, <1>5, <2>1 DEF Early
  <2>2. CASE u # t
    <3>1. Same(u) /\ pc'[u] = pc[u]
      BY <1>1, <2>2 DEF Same
    <3>2. slot[u] # slot[t] /\ slot[u] \in Slots
      BY <1>2, <1>7, <2>2, <3>1, BusySlot DEF Disposing
    <3>3. QED
      BY <1>3, <1>7, <3>1, <3>2 DEF CleanInv
  <2>3. QED
    BY <2>1, <2>2
<1>8. QED
  BY <1>1, <1>6, <1>7 DEF CleanInv, Early

\* The provider's cleanup is called.
LEMMA CleanCleanup ==
  ASSUME IInv, OriginInv, CleanInv, NEW t \in Threads, Cleanup(t)
  PROVE  CleanInv'
<1>1. /\ pc[t] = "cleanup" /\ UNCHANGED <<token, provider, origin, slot, seen>>
      /\ pc'[t] = "free" /\ \A u \in Threads \ {t} : Same(u)
  BY GotoSame DEF Cleanup, IInv, slotVars
<1>2. /\ slot[t] \in Slots /\ seen[t] \in Tokens /\ token[slot[t]] = seen[t]
      /\ \A r \in Slots : token[r] = seen[t] => r = slot[t]
      /\ \A u \in Threads : pc[u] \in Disposing /\ seen[u] = seen[t] => u = t
  BY <1>1, CleaningFinds DEF Disposing
<1>3. /\ cleanups'[seen[t]] = cleanups[seen[t]] + 1
      /\ \A k \in Tokens : k # seen[t] => cleanups'[k] = cleanups[k]
  BY <1>2 DEF Cleanup
<1>4. ~provider[slot[t]] /\ origin[seen[t]] \in Provided /\ cleanups[seen[t]] = Early(seen[t])
  BY <1>1 DEF CleanInv, Early
<1>5. ASSUME NEW r \in Slots, token[r] # None, origin[token[r]] \in Provided
      PROVE  IF provider[r] THEN cleanups'[token[r]] = Early(token[r])
             ELSE \E u \in Threads : slot'[u] = r /\ pc'[u] \in {"cleanup", "free"}
  <2>1. CASE provider[r]
    <3>1. token[r] # seen[t] /\ token[r] \in Tokens
      BY <1>2, <1>4, <1>5, <2>1 DEF IInv, TypeOK, Tokens, None
    <3>2. QED
      BY <1>3, <1>5, <2>1, <3>1 DEF CleanInv
  <2>2. CASE ~provider[r]
    <3>1. PICK u \in Threads : slot[u] = r /\ pc[u] \in {"cleanup", "free"}
      BY <1>5, <2>2 DEF CleanInv
    <3>2. slot'[u] = r /\ pc'[u] \in {"cleanup", "free"}
      BY <1>1, <3>1 DEF Same
    <3>3. QED
      BY <2>2, <3>2
  <2>3. QED
    BY <2>1, <2>2
<1>6. ASSUME NEW u \in Threads, pc'[u] \in {"cleanup", "free"}
      PROVE  /\ ~provider[slot[u]]
             /\ pc'[u] = "cleanup" => origin[seen[u]] \in Provided
             /\ origin[seen[u]] \in Provided
                  => cleanups'[seen[u]] = Early(seen[u]) + IF pc'[u] = "free" THEN 1 ELSE 0
  <2>1. CASE u = t
    BY <1>1, <1>3, <1>4, <2>1
  <2>2. CASE u # t
    <3>1. pc'[u] = pc[u]
      BY <1>1, <2>2 DEF Same
    <3>2. seen[u] # seen[t] /\ seen[u] \in Tokens
      BY <1>2, <1>6, <2>2, <3>1, BusySlot DEF Disposing
    <3>3. QED
      BY <1>3, <1>6, <3>1, <3>2 DEF CleanInv
  <2>3. QED
    BY <2>1, <2>2
<1>7. \A k \in Tokens : /\ origin[k] \in {"none", "local"} => cleanups'[k] = 0
                        /\ origin[k] \in Provided /\ (\A r \in Slots : token[r] # k)
                             => cleanups'[k] = Early(k) + 1
  BY <1>2, <1>3, <1>4 DEF CleanInv, Provided
<1>8. QED
  BY <1>1, <1>5, <1>6, <1>7 DEF CleanInv, Early

\* The slot is freed once the cleanup has been called.
LEMMA CleanFree ==
  ASSUME IInv, OriginInv, CleanInv, NEW t \in Threads, Free(t)
  PROVE  CleanInv'
<1>1. /\ pc[t] = "free" /\ UNCHANGED <<provider, origin, cleanups>>
      /\ pc'[t] \in {"peek", "idle"} /\ \A u \in Threads \ {t} : Same(u)
  BY GotoSame, ReturnSame DEF Free, IInv, historyVars
<1>2. /\ slot[t] \in Slots /\ seen[t] \in Tokens /\ token[slot[t]] = seen[t] /\ seen[t] # None
      /\ \A u \in Threads : pc[u] \in Disposing /\ slot[u] = slot[t] => u = t
  BY <1>1, CleaningFinds, BusySlot DEF Disposing
<1>3. token'[slot[t]] = None /\ \A r \in Slots : r # slot[t] => token'[r] = token[r]
  BY <1>2 DEF Free, IInv, TypeOK
<1>4. origin[seen[t]] \in Provided => cleanups[seen[t]] = Early(seen[t]) + 1
  BY <1>1 DEF CleanInv
<1>5. ASSUME NEW k \in Tokens, origin[k] \in Provided, \A r \in Slots : token'[r] # k
      PROVE  cleanups[k] = Early(k) + 1
  <2>1. CASE k = seen[t]
    BY <1>4, <1>5, <2>1
  <2>2. CASE k # seen[t]
    BY <1>2, <1>3, <1>5, <2>2 DEF CleanInv
  <2>3. QED
    BY <2>1, <2>2
<1>6. ASSUME NEW r \in Slots, token'[r] # None, origin[token'[r]] \in Provided
      PROVE  IF provider[r] THEN cleanups[token'[r]] = Early(token'[r])
             ELSE \E u \in Threads : slot'[u] = r /\ pc'[u] \in {"cleanup", "free"}
  <2>1. r # slot[t] /\ token'[r] = token[r]
    BY <1>3, <1>6
  <2>2. CASE provider[r]
    BY <1>6, <2>1, <2>2 DEF CleanInv
  <2>3. CASE ~provider[r]
    <3>1. PICK u \in Threads : slot[u] = r /\ pc[u] \in {"cleanup", "free"}
      BY <1>6, <2>1, <2>3 DEF CleanInv
    <3>2. slot'[u] = r /\ pc'[u] \in {"cleanup", "free"}
      BY <1>1, <2>1, <3>1 DEF Same
    <3>3. QED
      BY <2>3, <3>2
  <2>4. QED
    BY <2>2, <2>3
<1>7. \A u \in Threads : pc'[u] \in {"cleanup", "free"} => Same(u)
  BY <1>1
<1>8. QED
  BY <1>1, <1>5, <1>6, <1>7 DEF CleanInv, Same, Early

LEMMA NextClean ==
  ASSUME IInv, OriginInv, CleanInv, [Next]_vars
  PROVE  CleanInv'
<1>1. ASSUME NEW c \in Threads,
             \/ \E a \in Blocks, b \in BeginCalls : Acquire(c, a, b)
             \/ \E a \in Blocks, k \in BlockCalls : LookUp(c, a, k)
             \/ \E r \in Slots, k \in Kinds : RunTask(c, r, k)
      PROVE  CleanInv'
  <2>1. UNCHANGED <<token, provider, origin, cleanups>>
    BY <1>1 DEF Acquire, LookUp, RunTask, slotVars, historyVars
  <2>2. pc[c] = "idle" /\ pc'[c] \in {"setup", "find", "held"} /\ \A u \in Threads \ {c} : Same(u)
    BY <1>1, CallMoves DEF IInv
  <2>3. QED
    BY <2>1, <2>2, CleanQuiet DEF Cleaning
<1>2. ASSUME NEW t \in Threads, Step(t) PROVE CleanInv'
  <2>1. CASE SetUp(t) \/ FillLocal(t) \/ FillProvider(t) \/ ProviderBegins(t)
    BY <2>1, CleanSetUp, CleanFill, CleanProviderBegins
  <2>2. CASE Strip(t) \/ Cleanup(t) \/ Free(t)
    BY <2>2, CleanStrip, CleanCleanup, CleanFree
  <2>3. CASE Plain(t)
    <3>1. \A u \in Threads : Cleaning(u) \/ Cleaning(u)' => Same(u)
      BY <2>3, PlainMoves DEF Cleaning
    <3>2. QED
      BY <2>3, <3>1, PlainKeeps, CleanQuiet
  <2>4. CASE Signal(t)
    <3>1. \A u \in Threads : Cleaning(u) \/ Cleaning(u)' => Same(u)
      BY <2>4, SignalMoves DEF Cleaning
    <3>2. QED
      BY <2>4, <3>1, PlainKeeps, CleanQuiet
  <2>5. QED
    BY <1>2, <2>1, <2>2, <2>3, <2>4 DEF Step, Plain
<1>3. CASE Close \/ UNCHANGED vars
  BY <1>3, CleanQuiet DEF Close, vars, slotVars, threadVars, historyVars, Same
<1>4. QED
  BY <1>1, <1>2, <1>3 DEF Next, Threads

-----------------------------------------------------------------------------
(* The completion routine                                                   *)

\* A thread on its way to submit the task that announces, or that runs it
\* and has not called the routine.
Announcer(t) ==
    \/ pc[t] = "signal"
    \/ pc[t] \in {"submit", "enqueue"} /\ call[t] \in Settling
    \/ pc[t] = "held" /\ call[t] = "announce"
    \/ pc[t] = "routine"

\* An announcement is with one announcer, in one task, or made, and nowhere before the
\* operation has settled.
AnnounceInv ==
    /\ \A k \in Tokens : announcements[k] <= 1 /\ (k >= next => announcements[k] = 0)
    /\ \A t \in Threads : pc[t] = "setup" => announcements[seen[t]] = 0
    /\ \A r \in Slots : token[r] # None =>
          /\ ~completed[r] => announcements[token[r]] = 0 /\ tasks[r]["announce"] = 0
          /\ tasks[r]["announce"] <= 1
          /\ tasks[r]["announce"] = 1 => announcements[token[r]] = 0
    /\ \A t \in Threads : Announcer(t) =>
          /\ completed[slot[t]] /\ tasks[slot[t]]["announce"] = 0
          /\ announcements[seen[t]] = 0
          /\ \A u \in Threads : Announcer(u) /\ slot[u] = slot[t] => u = t

\* Whom an announcer works for.
LEMMA AnnouncerFinds ==
  ASSUME IInv, NEW t \in Threads, Announcer(t)
  PROVE  slot[t] \in Slots /\ seen[t] \in Tokens /\ token[slot[t]] = seen[t] /\ seen[t] # None
BY BusySlot DEF Announcer, Busy, Holding

\* A step that leaves announcements and announce tasks where they are.
LEMMA AnnounceQuiet ==
  ASSUME IInv, AnnounceInv, UNCHANGED <<announcements, completed>>,
         \A k \in Tokens : k >= next' => k >= next,
         \A r \in Slots : /\ token'[r] # None => token'[r] = token[r]
                          /\ tasks'[r]["announce"] = tasks[r]["announce"],
         \A u \in Threads : pc'[u] = "setup" => announcements[seen'[u]] = 0,
         \A u \in Threads : Announcer(u)' => Announcer(u) /\ slot'[u] = slot[u] /\ seen'[u] = seen[u]
  PROVE  AnnounceInv'
<1>1. \A t \in Threads : Announcer(t) => slot[t] \in Slots
  BY AnnouncerFinds
<1>2. ASSUME NEW t \in Threads, Announcer(t)'
      PROVE  /\ completed'[slot'[t]] /\ tasks'[slot'[t]]["announce"] = 0
             /\ announcements'[seen'[t]] = 0
             /\ \A u \in Threads : Announcer(u)' /\ slot'[u] = slot'[t] => u = t
  <2>1. Announcer(t) /\ slot'[t] = slot[t] /\ seen'[t] = seen[t] /\ slot[t] \in Slots
    BY <1>1, <1>2
  <2>2. /\ completed[slot[t]] /\ tasks[slot[t]]["announce"] = 0 /\ announcements[seen[t]] = 0
        /\ \A u \in Threads : Announcer(u) /\ slot[u] = slot[t] => u = t
    BY <2>1 DEF AnnounceInv
  <2>3. QED
    BY <2>1, <2>2
<1>3. \A r \in Slots : token'[r] # None =>
          /\ ~completed'[r] => announcements'[token'[r]] = 0 /\ tasks'[r]["announce"] = 0
          /\ tasks'[r]["announce"] <= 1
          /\ tasks'[r]["announce"] = 1 => announcements'[token'[r]] = 0
  BY DEF AnnounceInv
<1>4. QED
  BY <1>2, <1>3 DEF AnnounceInv

\* Nobody comes to set up a slot, and the threads keep their announcements.
LEMMA AnnounceStill ==
  ASSUME IInv, AnnounceInv, UNCHANGED <<announcements, completed, next>>,
         \A r \in Slots : /\ token'[r] # None => token'[r] = token[r]
                          /\ tasks'[r]["announce"] = tasks[r]["announce"],
         NEW t \in Threads, \A u \in Threads \ {t} : Same(u),
         pc'[t] # "setup",
         Announcer(t)' => Announcer(t) /\ slot'[t] = slot[t] /\ seen'[t] = seen[t]
  PROVE  AnnounceInv'
<1>1. \A u \in Threads : pc'[u] = "setup" => announcements[seen'[u]] = 0
  BY DEF AnnounceInv, Same
<1>2. \A u \in Threads : Announcer(u)' => Announcer(u) /\ slot'[u] = slot[u] /\ seen'[u] = seen[u]
  BY DEF Same, Announcer
<1>3. QED
  BY <1>1, <1>2, AnnounceQuiet

LEMMA AnnounceAcquire ==
  ASSUME IInv, AnnounceInv, NEW c \in Clients, NEW a \in Blocks, NEW b \in BeginCalls, Acquire(c, a, b)
  PROVE  AnnounceInv'
<1>1. c \in Threads /\ next \in Tokens /\ next' = next + 1 /\ next \in Nat
  BY DEF Acquire, Threads, IInv, TypeOK, Tokens
<1>2. /\ UNCHANGED <<token, completed, announcements, tasks>>
      /\ pc'[c] = "setup" /\ seen'[c] = next
  BY <1>1 DEF Acquire, slotVars, historyVars, IInv, TypeOK
<1>3. \A u \in Threads \ {c} : Same(u)
  BY <1>1, CallMoves DEF IInv
<1>4. announcements[next] = 0
  BY <1>1 DEF AnnounceInv
<1>5. \A u \in Threads : pc'[u] = "setup" => announcements[seen'[u]] = 0
  BY <1>2, <1>3, <1>4 DEF AnnounceInv, Same
<1>6. \A u \in Threads : Announcer(u)' => Announcer(u) /\ slot'[u] = slot[u] /\ seen'[u] = seen[u]
  BY <1>2, <1>3 DEF Same, Announcer
<1>7. \A k \in Tokens : k >= next' => k >= next
  BY <1>1 DEF Tokens
<1>8. QED
  BY <1>2, <1>5, <1>6, <1>7, AnnounceQuiet

LEMMA AnnounceSetUp ==
  ASSUME IInv, AnnounceInv, NEW c \in Threads, SetUp(c)
  PROVE  AnnounceInv'
<1>1. /\ pc[c] = "setup" /\ UNCHANGED <<announcements, tasks, next>> /\ pc'[c] = "fill"
      /\ \A u \in Threads \ {c} : Same(u)
  BY GotoSame DEF SetUp, IInv, historyVars, poolVars
<1>2. /\ slot[c] \in Slots /\ seen[c] \in Tokens /\ token[slot[c]] = None
      /\ QueuedTasks(slot[c]) = 0 /\ announcements[seen[c]] = 0
  BY <1>1, Located DEF IInv, SetUpInv, TokenInv, AnnounceInv
<1>3. tasks[slot[c]]["announce"] = 0
  <2>1. \A k \in Kinds : tasks[slot[c]][k] \in Nat
    BY <1>2 DEF IInv, TypeOK
  <2>2. QED
    BY <1>2, <2>1 DEF QueuedTasks, Kinds
<1>4. /\ token'[slot[c]] = seen[c] /\ ~completed'[slot[c]]
      /\ \A r \in Slots : r # slot[c] => token'[r] = token[r] /\ completed'[r] = completed[r]
  BY <1>2 DEF SetUp, IInv, TypeOK
<1>5. ASSUME NEW t \in Threads, Announcer(t)'
      PROVE  /\ Announcer(t) /\ slot'[t] = slot[t] /\ seen'[t] = seen[t]
             /\ slot[t] \in Slots /\ slot[t] # slot[c]
  <2>1. t # c
    BY <1>1, <1>5 DEF Announcer
  <2>2. Announcer(t) /\ slot'[t] = slot[t] /\ seen'[t] = seen[t]
    BY <1>1, <1>5, <2>1 DEF Announcer, Same
  <2>3. QED
    BY <1>2, <2>2, AnnouncerFinds
<1>6. ASSUME NEW t \in Threads, Announcer(t)'
      PROVE  /\ completed'[slot'[t]] /\ tasks'[slot'[t]]["announce"] = 0
             /\ announcements'[seen'[t]] = 0
             /\ \A u \in Threads : Announcer(u)' /\ slot'[u] = slot'[t] => u = t
  <2>1. /\ Announcer(t) /\ slot'[t] = slot[t] /\ seen'[t] = seen[t]
        /\ slot[t] \in Slots /\ slot[t] # slot[c]
    BY <1>5, <1>6
  <2>2. QED
    BY <1>1, <1>4, <1>5, <2>1 DEF AnnounceInv
<1>7. \A t \in Threads : pc'[t] = "setup" => announcements'[seen'[t]] = 0
  BY <1>1 DEF AnnounceInv, Same
<1>8. \A r \in Slots : token'[r] # None =>
          /\ ~completed'[r] => announcements'[token'[r]] = 0 /\ tasks'[r]["announce"] = 0
          /\ tasks'[r]["announce"] <= 1
          /\ tasks'[r]["announce"] = 1 => announcements'[token'[r]] = 0
  BY <1>1, <1>2, <1>3, <1>4 DEF AnnounceInv
<1>9. QED
  BY <1>1, <1>6, <1>7, <1>8 DEF AnnounceInv

\* The one that settles an operation is to announce it.
LEMMA AnnounceFinish ==
  ASSUME IInv, AnnounceInv, NEW t \in Threads, Finish(t)
  PROVE  AnnounceInv'
<1>1. /\ pc[t] = "finish" /\ UNCHANGED <<token, announcements, tasks, next, slot, seen>>
      /\ \A u \in Threads \ {t} : Same(u)
  BY OneMoves DEF Finish, IInv, Step, Signal, Goto, historyVars, poolVars
<1>2. slot[t] \in Slots /\ token[slot[t]] = seen[t] /\ seen[t] # None
  BY <1>1, BusySlot DEF Busy, Holding
<1>3. CASE completed[slot[t]]
  <2>1. pc'[t] \in {"retire", "drop"} /\ completed' = completed
    BY <1>3, GotoSame DEF Finish, AfterFinish, IInv
  <2>2. QED
    BY <1>1, <2>1, AnnounceStill DEF Announcer
<1>4. CASE ~completed[slot[t]]
  <2>1. /\ pc'[t] = "signal" /\ completed'[slot[t]]
        /\ \A r \in Slots : r # slot[t] => completed'[r] = completed[r]
    BY <1>2, <1>4 DEF Finish, IInv, TypeOK
  <2>2. announcements[seen[t]] = 0 /\ tasks[slot[t]]["announce"] = 0
    BY <1>2, <1>4 DEF AnnounceInv
  <2>3. \A u \in Threads : Announcer(u)' => u = t \/ (Announcer(u) /\ slot[u] # slot[t] /\ slot[u] \in Slots)
    <3>1. \A u \in Threads : Announcer(u)' => u = t \/ Announcer(u)
      BY <1>1 DEF Announcer, Same
    <3>2. QED
      BY <1>4, <3>1, AnnouncerFinds DEF AnnounceInv
  <2>4. ASSUME NEW u \in Threads, Announcer(u)'
        PROVE  /\ completed'[slot[u]] /\ tasks[slot[u]]["announce"] = 0
               /\ announcements[seen[u]] = 0
               /\ \A v \in Threads : Announcer(v)' /\ slot[v] = slot[u] => v = u
    <3>1. CASE u = t
      BY <2>1, <2>2, <2>3, <3>1
    <3>2. CASE u # t
      BY <2>1, <2>3, <2>4, <3>2 DEF AnnounceInv
    <3>3. QED
      BY <3>1, <3>2
  <2>5. \A u \in Threads : pc'[u] = "setup" => announcements[seen[u]] = 0
    BY <1>1, <2>1 DEF AnnounceInv, Same
  <2>6. \A r \in Slots : token[r] # None =>
          /\ ~completed'[r] => announcements[token[r]] = 0 /\ tasks[r]["announce"] = 0
          /\ tasks[r]["announce"] <= 1
          /\ tasks[r]["announce"] = 1 => announcements[token[r]] = 0
    BY <1>2, <2>1, <2>2 DEF AnnounceInv
  <2>7. QED
    BY <1>1, <2>4, <2>5, <2>6 DEF AnnounceInv
<1>5. QED
  BY <1>3, <1>4

\* The announcement goes from its thread into a task,
LEMMA AnnounceEnqueue ==
  ASSUME IInv, AnnounceInv, NEW t \in Threads, Enqueue(t)
  PROVE  AnnounceInv'
<1>1. /\ pc[t] = "enqueue" /\ UNCHANGED <<token, announcements, completed, next>>
      /\ pc'[t] \in {"idle", "drop", "retire"} /\ \A u \in Threads \ {t} : Same(u)
  BY GotoSame, ReturnSame DEF Enqueue, IInv, AfterSubmit, AfterFinish, slotVars, historyVars, poolVars
<1>2. slot[t] \in Slots /\ token[slot[t]] = seen[t] /\ seen[t] # None
  BY <1>1, BusySlot DEF Busy, Holding
<1>3. call[t] \in Settling \cup {"begin", "schedule"}
  BY <1>1 DEF IInv, ThreadInv
<1>4. CASE call[t] \in {"begin", "schedule"}
  <2>1. TaskOf(t) \in Kinds /\ TaskOf(t) # "announce"
    BY <1>4 DEF TaskOf, Kinds
  <2>2. \A r \in Slots : tasks'[r]["announce"] = tasks[r]["announce"]
    BY <1>2, <2>1 DEF Enqueue, IInv, TypeOK, Kinds
  <2>3. QED
    BY <1>1, <2>2, AnnounceStill DEF Announcer
<1>5. CASE call[t] \in Settling
  <2>1. TaskOf(t) = "announce" /\ Announcer(t)
    BY <1>1, <1>5 DEF TaskOf, Announcer, Settling
  <2>2. /\ completed[slot[t]] /\ tasks[slot[t]]["announce"] = 0 /\ announcements[seen[t]] = 0
        /\ \A u \in Threads : Announcer(u) /\ slot[u] = slot[t] => u = t
    BY <2>1 DEF AnnounceInv
  <2>3. /\ tasks'[slot[t]]["announce"] = 1
        /\ \A r \in Slots : r # slot[t] => tasks'[r]["announce"] = tasks[r]["announce"]
    BY <1>2, <2>1, <2>2 DEF Enqueue, IInv, TypeOK, Kinds
  <2>4. ASSUME NEW u \in Threads, Announcer(u)'
        PROVE  /\ Announcer(u) /\ slot'[u] = slot[u] /\ seen'[u] = seen[u]
               /\ slot[u] \in Slots /\ slot[u] # slot[t]
    <3>1. u # t
      BY <1>1, <2>4 DEF Announcer
    <3>2. Announcer(u) /\ slot'[u] = slot[u] /\ seen'[u] = seen[u]
      BY <1>1, <2>4, <3>1 DEF Announcer, Same
    <3>3. QED
      BY <2>2, <3>1, <3>2, AnnouncerFinds
  <2>5. ASSUME NEW u \in Threads, Announcer(u)'
        PROVE  /\ completed[slot'[u]] /\ tasks'[slot'[u]]["announce"] = 0
               /\ announcements[seen'[u]] = 0
               /\ \A v \in Threads : Announcer(v)' /\ slot'[v] = slot'[u] => v = u
    <3>1. /\ Announcer(u) /\ slot'[u] = slot[u] /\ seen'[u] = seen[u]
          /\ slot[u] \in Slots /\ slot[u] # slot[t]
      BY <2>4, <2>5
    <3>2. QED
      BY <2>3, <2>4, <3>1 DEF AnnounceInv
  <2>6. \A u \in Threads : pc'[u] = "setup" => announcements[seen'[u]] = 0
    BY <1>1 DEF AnnounceInv, Same
  <2>7. \A r \in Slots : token[r] # None =>
          /\ ~completed[r] => announcements[token[r]] = 0 /\ tasks'[r]["announce"] = 0
          /\ tasks'[r]["announce"] <= 1
          /\ tasks'[r]["announce"] = 1 => announcements[token[r]] = 0
    BY <1>2, <2>2, <2>3 DEF AnnounceInv
  <2>8. QED
    BY <1>1, <2>5, <2>6, <2>7 DEF AnnounceInv
<1>6. QED
  BY <1>3, <1>4, <1>5

\* from the task to the worker that runs it,
LEMMA AnnounceRunTask ==
  ASSUME IInv, AnnounceInv, NEW w \in Threads, NEW r \in Slots, NEW k \in Kinds, RunTask(w, r, k)
  PROVE  AnnounceInv'
<1>1. /\ pc[w] = "idle" /\ UNCHANGED <<token, announcements, completed, next>>
      /\ pc'[w] = "held" /\ call'[w] = k /\ slot'[w] = r /\ seen'[w] = token[r]
      /\ \A u \in Threads \ {w} : Same(u)
  <2>1. \A u \in Threads \ {w} : Same(u)
    BY CallMoves DEF IInv
  <2>2. QED
    BY <2>1 DEF RunTask, IInv, TypeOK, slotVars, historyVars, poolVars
<1>2. CASE k # "announce"
  <2>1. \A s \in Slots : tasks'[s]["announce"] = tasks[s]["announce"]
    BY <1>2 DEF RunTask, IInv, TypeOK, Kinds
  <2>2. QED
    BY <1>1, <1>2, <2>1, AnnounceStill DEF Announcer
<1>3. CASE k = "announce"
  <2>1. tasks[r]["announce"] \in Nat /\ tasks[r]["announce"] > 0
    BY <1>3 DEF RunTask, IInv, TypeOK
  <2>2. token[r] # None
    <3>1. \A j \in Kinds : tasks[r][j] \in Nat
      BY DEF IInv, TypeOK
    <3>2. QueuedTasks(r) # 0
      BY <2>1, <3>1 DEF QueuedTasks, Kinds
    <3>3. QED
      BY <3>2 DEF IInv, TokenInv
  <2>3. completed[r] /\ tasks[r]["announce"] = 1 /\ announcements[token[r]] = 0
    BY <2>1, <2>2 DEF AnnounceInv
  <2>4. /\ tasks'[r]["announce"] = 0
        /\ \A s \in Slots : s # r => tasks'[s]["announce"] = tasks[s]["announce"]
    BY <1>3, <2>3 DEF RunTask, IInv, TypeOK, Kinds
  <2>5. ASSUME NEW u \in Threads, u # w, Announcer(u)'
        PROVE  /\ Announcer(u) /\ slot'[u] = slot[u] /\ seen'[u] = seen[u]
               /\ slot[u] \in Slots /\ slot[u] # r
    <3>1. Announcer(u) /\ slot'[u] = slot[u] /\ seen'[u] = seen[u]
      BY <1>1, <2>5 DEF Announcer, Same
    <3>2. slot[u] # r
      BY <2>3, <3>1 DEF AnnounceInv
    <3>3. QED
      BY <3>1, <3>2, AnnouncerFinds
  <2>6. ASSUME NEW u \in Threads, Announcer(u)'
        PROVE  /\ completed[slot'[u]] /\ tasks'[slot'[u]]["announce"] = 0
               /\ announcements[seen'[u]] = 0
               /\ \A v \in Threads : Announcer(v)' /\ slot'[v] = slot'[u] => v = u
    <3>1. CASE u = w
      BY <1>1, <2>3, <2>4, <2>5, <3>1
    <3>2. CASE u # w
      <4>1. /\ Announcer(u) /\ slot'[u] = slot[u] /\ seen'[u] = seen[u]
            /\ slot[u] \in Slots /\ slot[u] # r
        BY <2>5, <2>6, <3>2
      <4>2. /\ completed[slot[u]] /\ tasks[slot[u]]["announce"] = 0 /\ announcements[seen[u]] = 0
            /\ \A v \in Threads : Announcer(v) /\ slot[v] = slot[u] => v = u
        BY <4>1 DEF AnnounceInv
      <4>3. QED
        BY <1>1, <2>4, <2>5, <4>1, <4>2
    <3>3. QED
      BY <3>1, <3>2
  <2>7. \A u \in Threads : pc'[u] = "setup" => announcements[seen'[u]] = 0
    BY <1>1 DEF AnnounceInv, Same
  <2>8. \A s \in Slots : token[s] # None =>
          /\ ~completed[s] => announcements[token[s]] = 0 /\ tasks'[s]["announce"] = 0
          /\ tasks'[s]["announce"] <= 1
          /\ tasks'[s]["announce"] = 1 => announcements[token[s]] = 0
    BY <2>3, <2>4 DEF AnnounceInv
  <2>9. QED
    BY <1>1, <2>6, <2>7, <2>8 DEF AnnounceInv
<1>4. QED
  BY <1>2, <1>3

\* which calls the routine.
LEMMA AnnounceAnnounce ==
  ASSUME IInv, AnnounceInv, NEW w \in Threads, Announce(w)
  PROVE  AnnounceInv'
<1>1. /\ pc[w] = "held" /\ call[w] = "announce"
      /\ UNCHANGED <<announcements, completed, token, next, tasks, slot, seen>>
      /\ pc'[w] \in {"routine", "drop"} /\ \A u \in Threads \ {w} : Same(u)
  BY GotoSame DEF Announce, IInv, slotVars, poolVars, historyVars
<1>2. QED
  BY <1>1, AnnounceStill DEF Announcer

LEMMA AnnounceRoutine ==
  ASSUME IInv, AnnounceInv, NEW w \in Threads, CallRoutine(w)
  PROVE  AnnounceInv'
<1>1. /\ pc[w] = "routine" /\ UNCHANGED <<token, completed, tasks, next, slot, seen>>
      /\ pc'[w] = "drop" /\ \A u \in Threads \ {w} : Same(u)
  BY GotoSame DEF CallRoutine, IInv, slotVars, poolVars
<1>2. /\ slot[w] \in Slots /\ seen[w] \in Tokens /\ token[slot[w]] = seen[w] /\ seen[w] # None
      /\ seen[w] < next /\ next \in Nat
  BY <1>1, Located, BusySlot DEF Busy, Holding
<1>3. /\ completed[slot[w]] /\ tasks[slot[w]]["announce"] = 0 /\ announcements[seen[w]] = 0
      /\ \A u \in Threads : Announcer(u) /\ slot[u] = slot[w] => u = w
  BY <1>1 DEF AnnounceInv, Announcer
<1>4. /\ announcements'[seen[w]] \in {0, 1}
      /\ \A k \in Tokens : k # seen[w] => announcements'[k] = announcements[k]
  BY <1>2, <1>3 DEF CallRoutine
<1>5. \A k \in Tokens : announcements'[k] <= 1 /\ (k >= next => announcements'[k] = 0)
  BY <1>2, <1>4 DEF AnnounceInv, Tokens
<1>6. ASSUME NEW t \in Threads, pc'[t] = "setup" PROVE announcements'[seen[t]] = 0
  <2>1. t # w /\ pc[t] = "setup"
    BY <1>1, <1>6 DEF Same
  <2>2. seen[t] # seen[w] /\ seen[t] \in Tokens
    BY <2>1, Located DEF IInv, SetUpInv
  <2>3. QED
    BY <1>4, <2>1, <2>2 DEF AnnounceInv
<1>7. ASSUME NEW r \in Slots, token[r] # None
      PROVE  /\ ~completed[r] => announcements'[token[r]] = 0 /\ tasks[r]["announce"] = 0
             /\ tasks[r]["announce"] <= 1
             /\ tasks[r]["announce"] = 1 => announcements'[token[r]] = 0
  <2>1. CASE r = slot[w]
    BY <1>3, <2>1
  <2>2. CASE r # slot[w]
    <3>1. token[r] # seen[w] /\ token[r] \in Tokens
      BY <1>2, <1>7, <2>2 DEF IInv, TokenInv, TypeOK, Tokens, None
    <3>2. QED
      BY <1>4, <1>7, <3>1 DEF AnnounceInv
  <2>3. QED
    BY <2>1, <2>2
<1>8. ASSUME NEW t \in Threads, Announcer(t)'
      PROVE  Announcer(t) /\ slot[t] # slot[w] /\ announcements'[seen[t]] = 0
  <2>1. t # w
    BY <1>1, <1>8 DEF Announcer
  <2>2. Announcer(t)
    BY <1>1, <1>8, <2>1 DEF Announcer, Same
  <2>3. slot[t] # slot[w]
    BY <1>3, <2>1, <2>2
  <2>4. seen[t] # seen[w] /\ seen[t] \in Tokens
    BY <1>2, <2>2, <2>3, AnnouncerFinds DEF IInv, TokenInv
  <2>5. QED
    BY <1>4, <2>2, <2>3, <2>4 DEF AnnounceInv
<1>9. QED
  BY <1>1, <1>5, <1>6, <1>7, <1>8 DEF AnnounceInv

LEMMA NextAnnounce ==
  ASSUME IInv, AnnounceInv, [Next]_vars
  PROVE  AnnounceInv'
<1>1. CASE \E c \in Clients, a \in Blocks, b \in BeginCalls : Acquire(c, a, b)
  BY <1>1, AnnounceAcquire
<1>2. CASE \E w \in Workers, r \in Slots, k \in Kinds : RunTask(w, r, k)
  BY <1>2, AnnounceRunTask DEF Threads
<1>3. ASSUME NEW c \in Threads, NEW a \in Blocks, NEW k \in BlockCalls, LookUp(c, a, k)
      PROVE  AnnounceInv'
  <2>1. UNCHANGED <<announcements, completed, next, token, tasks>>
    BY <1>3 DEF LookUp, slotVars, historyVars, poolVars
  <2>2. pc'[c] = "find" /\ \A u \in Threads \ {c} : Same(u)
    BY <1>3, CallMoves DEF LookUp, IInv, TypeOK
  <2>3. QED
    BY <2>1, <2>2, AnnounceStill DEF Announcer
<1>4. ASSUME NEW t \in Threads, Step(t) PROVE AnnounceInv'
  <2>1. CASE SetUp(t) \/ Finish(t) \/ Enqueue(t) \/ Announce(t) \/ CallRoutine(t)
    BY <2>1, AnnounceSetUp, AnnounceFinish, AnnounceEnqueue, AnnounceAnnounce,
       AnnounceRoutine
  <2>2. CASE \/ FillLocal(t) \/ FillProvider(t) \/ ProviderBegins(t) \/ Strip(t) \/ Cleanup(t)
    <3>1. UNCHANGED <<announcements, completed, next, token, tasks>>
      BY <2>2 DEF FillLocal, FillProvider, ProviderBegins, Strip, Cleanup, slotVars, historyVars, poolVars
    <3>2. /\ \A u \in Threads \ {t} : Same(u)
          /\ \/ pc'[t] \in {"idle", "retire", "cleanup", "free"}
             \/ pc'[t] = "submit" /\ call'[t] = "begin"
             \/ pc'[t] = "held" /\ call'[t] = "provide"
      BY <2>2, GotoSame, ReturnSame DEF FillLocal, FillProvider, ProviderBegins, Strip, Cleanup, IInv
    <3>3. QED
      BY <3>1, <3>2, AnnounceStill DEF Announcer, Settling
  <2>3. CASE Free(t)
    <3>1. UNCHANGED <<announcements, completed, next, tasks>>
      BY <2>3 DEF Free, historyVars
    <3>2. slot[t] \in Slots
      BY <2>3, Located DEF Free
    <3>3. \A r \in Slots : token'[r] # None => token'[r] = token[r]
      BY <2>3, <3>2 DEF Free, IInv, TypeOK
    <3>4. pc'[t] \in {"peek", "idle"} /\ \A u \in Threads \ {t} : Same(u)
      BY <2>3, GotoSame, ReturnSame DEF Free, IInv
    <3>5. QED
      BY <3>1, <3>3, <3>4, AnnounceStill DEF Announcer
  <2>4. CASE Signal(t)
    <3>1. UNCHANGED <<announcements, completed, next, token, tasks>>
      BY <2>4 DEF Signal, slotVars, historyVars, poolVars
    <3>2. \A u \in Threads : pc'[u] = "setup" => announcements[seen'[u]] = 0
      BY <2>4, SignalMoves DEF AnnounceInv, Same
    <3>3. ASSUME NEW u \in Threads, Announcer(u)'
          PROVE  Announcer(u) /\ slot'[u] = slot[u] /\ seen'[u] = seen[u]
      <4>1. CASE u = t
        BY <2>4, <4>1, SignalMoves DEF Announcer
      <4>2. CASE u # t
        BY <2>4, <3>3, <4>2, SignalMoves DEF Announcer, Same, Settling
      <4>3. QED
        BY <4>1, <4>2
    <3>4. QED
      BY <3>1, <3>2, <3>3, AnnounceQuiet
  <2>5. CASE Plain(t) /\ ~Finish(t) /\ ~Enqueue(t) /\ ~Announce(t) /\ ~CallRoutine(t)
    <3>1. UNCHANGED <<announcements, completed, tasks>>
      <4>1. CASE \/ Find(t) \/ GetStatus(t) \/ WaitStatus(t) \/ TakeResult(t) \/ Cancel(t) \/ Complete(t)
                 \/ Schedule(t) \/ PendingOperation(t) \/ Peek(t) \/ Collect(t)
        BY <4>1 DEF Find, GetStatus, WaitStatus, TakeResult, Cancel, Complete, Schedule, PendingOperation,
                    Peek, Collect, slotVars, historyVars
      <4>2. CASE \/ HoldForTask(t) \/ Refuse(t) \/ Perform(t) \/ DoWork(t) \/ Withdraw(t) \/ Unhold(t)
                 \/ Drop(t) \/ Retire(t)
        BY <4>2 DEF HoldForTask, Refuse, Perform, DoWork, Withdraw, Unhold, Drop, Release, Retire,
                    slotVars, historyVars
      <4>3. QED
        BY <2>5, <4>1, <4>2 DEF Plain
    <3>2. UNCHANGED <<token, next>>
      BY <2>5, PlainKeeps
    <3>3. pc'[t] # "setup" /\ \A u \in Threads \ {t} : Same(u)
      BY <2>5, PlainMoves
    <3>4. ASSUME Announcer(t)' PROVE Announcer(t) /\ slot'[t] = slot[t] /\ seen'[t] = seen[t]
      <4>1. CASE Find(t)
        <5>1. call[t] # "announce"
          BY <4>1 DEF Find, IInv, ThreadInv, Polls, Provider
        <5>2. Goto(t, "held") \/ Return(t)
          BY <4>1 DEF Find
        <5>3. pc'[t] = "idle" \/ (pc'[t] = "held" /\ call'[t] = call[t])
          BY <5>2, GotoSame, ReturnSame DEF IInv
        <5>4. QED
          BY <3>4, <5>1, <5>3 DEF Announcer
      <4>2. CASE \/ GetStatus(t) \/ WaitStatus(t) \/ TakeResult(t) \/ Cancel(t) \/ Complete(t)
                 \/ PendingOperation(t) \/ Peek(t) \/ Collect(t) \/ Refuse(t) \/ Perform(t) \/ DoWork(t)
        <5>1. CASE \/ GetStatus(t) \/ WaitStatus(t) \/ TakeResult(t) \/ Cancel(t) \/ Complete(t)
          <6>1. pc'[t] \in {"drop", "asleep", "retire", "finish"}
            BY <5>1, GotoSame DEF GetStatus, WaitStatus, TakeResult, Cancel, Complete, IInv, TypeOK
          <6>2. QED
            BY <3>4, <6>1 DEF Announcer
        <5>2. CASE PendingOperation(t) \/ Peek(t) \/ Collect(t)
          <6>1. pc'[t] \in {"drop", "again", "find", "idle"}
            BY <5>2, ReturnSame DEF PendingOperation, Peek, Collect, IInv, TypeOK
          <6>2. QED
            BY <3>4, <6>1 DEF Announcer
        <5>3. CASE Refuse(t) \/ Perform(t) \/ DoWork(t)
          <6>1. pc'[t] \in {"drop", "finish", "withdraw"}
            BY <5>3, GotoSame DEF Refuse, Perform, DoWork, IInv, TypeOK
          <6>2. QED
            BY <3>4, <6>1 DEF Announcer
        <5>4. QED
          BY <4>2, <5>1, <5>2, <5>3
      <4>3. CASE Schedule(t)
        <5>1. call'[t] = "schedule" /\ pc'[t] \in {"submit", "drop"}
          BY <4>3, GotoSame DEF Schedule, IInv
        <5>2. QED
          BY <3>4, <5>1 DEF Announcer, Settling
      <4>4. CASE HoldForTask(t)
        <5>1. pc[t] = "submit" /\ pc'[t] = "enqueue" /\ UNCHANGED <<call, slot, seen>>
          BY <4>4, GotoSame DEF HoldForTask, IInv
        <5>2. QED
          BY <3>4, <5>1 DEF Announcer
      <4>5. CASE Withdraw(t) \/ Unhold(t) \/ Drop(t) \/ Retire(t)
        <5>1. pc'[t] \in {"drop", "idle", "retire", "unhold", "peek", "strip"}
          BY <4>5, GotoSame, ReturnSame DEF Withdraw, Unhold, Drop, Release, Retire, AfterFinish,
               AfterSubmit, IInv
        <5>2. QED
          BY <3>4, <5>1 DEF Announcer
      <4>6. QED
        BY <2>5, <4>1, <4>2, <4>3, <4>4, <4>5 DEF Plain
    <3>5. QED
      BY <3>1, <3>2, <3>3, <3>4, AnnounceStill
  <2>6. QED
    BY <1>4, <2>1, <2>2, <2>3, <2>4, <2>5 DEF Step, Plain
<1>5. CASE Close \/ UNCHANGED vars
  <2>1. UNCHANGED <<announcements, completed, next, token, tasks, pc, call, slot, seen>>
    BY <1>5 DEF Close, vars, slotVars, threadVars, historyVars, poolVars
  <2>2. QED
    BY <2>1 DEF AnnounceInv, Announcer
<1>6. QED
  BY <1>1, <1>2, <1>3, <1>4, <1>5 DEF Next, Threads

-----------------------------------------------------------------------------
(* The player picker                                                        *)

\* schedule and complete are called for the provider that is in the slot.
ProviderInv ==
    \A t \in Threads :
        call[t] \in Provider /\ pc[t] \notin Disposing /\ token[slot[t]] = seen[t]
            => provider[slot[t]]

\* An operation of the runtime that settles well has a selection.
ChosenInv ==
    /\ \A t \in Threads :
          /\ pc[t] = "finish" /\ outcome[t] = "ok" /\ local[slot[t]] => chosen[slot[t]] = 1
          /\ pc[t] = "fill" => ~completed[slot[t]]
    /\ \A r \in Slots : local[r] /\ completed[r] /\ status[r] = "ok" => chosen[r] = 1

\* A size that was read of a settled operation is the size of its selection.
ReadInv ==
    /\ \A t \in Threads : read[t].of # None => origin[read[t].of] = "local"
    /\ \A t \in Threads, r \in Slots :
          token[r] # None /\ read[t].of = token[r] /\ local[r] =>
              completed[r] /\ (status[r] = "ok" => read[t].size = 1)

\* A plain step brings no thread into a provider's call.
LEMMA PlainCall ==
  ASSUME IInv, NEW t \in Threads, Plain(t), call'[t] \in Provider
  PROVE  call'[t] = call[t] /\ slot'[t] = slot[t] /\ seen'[t] = seen[t]
<1>1. call'[t] \notin {"none", "peek", "pick", "collect"}
  BY DEF Provider
<1>2. ASSUME NEW l, Goto(t, l) \/ Return(t)
      PROVE  call'[t] = call[t] /\ slot'[t] = slot[t] /\ seen'[t] = seen[t]
  BY <1>1, <1>2, GotoSame, ReturnSame DEF IInv
<1>3. CASE \/ Find(t) \/ GetStatus(t) \/ WaitStatus(t) \/ TakeResult(t) \/ Schedule(t)
  BY <1>2, <1>3 DEF Find, GetStatus, WaitStatus, TakeResult, Schedule
<1>4. CASE Cancel(t) \/ Complete(t) \/ Peek(t) \/ Perform(t) \/ DoWork(t)
  BY <1>4 DEF Cancel, Complete, Peek, Perform, DoWork, Goto
<1>5. CASE PendingOperation(t)
  <2>1. call'[t] \in {"peek", "pick"}
    BY <1>5 DEF PendingOperation, IInv, TypeOK
  <2>2. QED
    BY <1>1, <2>1
<1>6. CASE Collect(t)
  <2>1. call'[t] \in {"none", "collect"}
    BY <1>6, ReturnSame DEF Collect, IInv, TypeOK
  <2>2. QED
    BY <1>1, <2>1
<1>7. CASE Finish(t)
  BY <1>7 DEF Finish, Goto
<1>8. CASE HoldForTask(t) \/ Enqueue(t) \/ Refuse(t) \/ Announce(t) \/ CallRoutine(t) \/ Retire(t)
  BY <1>2, <1>8 DEF HoldForTask, Enqueue, Refuse, Announce, CallRoutine, Retire
<1>9. CASE Withdraw(t) \/ Unhold(t) \/ Drop(t)
  BY <1>2, <1>9 DEF Withdraw, Unhold, Drop, Release
<1>10. QED
  BY <1>3, <1>4, <1>5, <1>6, <1>7, <1>8, <1>9 DEF Plain

\* A step that leaves providers and tokens alone.
LEMMA ProviderQuiet ==
  ASSUME ProviderInv, UNCHANGED <<token, provider>>,
         \A u \in Threads : call'[u] \in Provider /\ pc'[u] \notin Disposing =>
             /\ call[u] = call'[u] /\ pc[u] \notin Disposing
             /\ slot'[u] = slot[u] /\ seen'[u] = seen[u]
  PROVE  ProviderInv'
BY DEF ProviderInv

LEMMA NextProvider ==
  ASSUME IInv, ProviderInv, [Next]_vars
  PROVE  ProviderInv'
<1>1. ASSUME NEW c \in Threads, NEW a \in Blocks, NEW b \in BeginCalls, Acquire(c, a, b)
      PROVE  ProviderInv'
  <2>1. UNCHANGED <<token, provider>> /\ call'[c] \notin Provider
    BY <1>1, AsyncConstants DEF Acquire, slotVars, IInv, TypeOK, Begins, Provider
  <2>2. \A u \in Threads \ {c} : Same(u)
    BY <1>1, CallMoves DEF IInv
  <2>3. QED
    BY <2>1, <2>2, ProviderQuiet DEF Same
<1>2. ASSUME NEW c \in Threads, NEW a \in Blocks, NEW k \in BlockCalls, LookUp(c, a, k)
      PROVE  ProviderInv'
  <2>1. /\ UNCHANGED <<token, provider>>
        /\ call'[c] = k /\ slot'[c] = internal[a].slot /\ (k \in Provider => provider[internal[a].slot])
    BY <1>2 DEF LookUp, slotVars, IInv, TypeOK
  <2>2. \A u \in Threads \ {c} : Same(u)
    BY <1>2, CallMoves DEF IInv
  <2>3. QED
    BY <2>1, <2>2 DEF ProviderInv, Same
<1>3. ASSUME NEW c \in Threads, NEW r \in Slots, NEW k \in Kinds, RunTask(c, r, k)
      PROVE  ProviderInv'
  <2>1. UNCHANGED <<token, provider>> /\ call'[c] \notin Provider
    BY <1>3 DEF RunTask, slotVars, IInv, TypeOK, Kinds, Provider
  <2>2. \A u \in Threads \ {c} : Same(u)
    BY <1>3, CallMoves DEF IInv
  <2>3. QED
    BY <2>1, <2>2, ProviderQuiet DEF Same
<1>4. ASSUME NEW t \in Threads, Step(t) PROVE ProviderInv'
  <2>1. CASE SetUp(t)
    <3>1. /\ pc[t] = "setup" /\ UNCHANGED <<call, slot, seen>> /\ \A u \in Threads \ {t} : Same(u)
      BY <2>1, GotoSame DEF SetUp, IInv
    <3>2. slot[t] \in Slots /\ call[t] \notin Provider /\ \A u \in Threads \ {t} : seen[u] # seen[t]
      BY <3>1, Located DEF IInv, SetUpInv, ThreadInv, Begins, Provider
    <3>3. /\ token'[slot[t]] = seen[t]
          /\ \A r \in Slots : r # slot[t] => token'[r] = token[r] /\ provider'[r] = provider[r]
      BY <2>1, <3>2 DEF SetUp, IInv, TypeOK
    <3>4. ASSUME NEW u \in Threads, call[u] \in Provider, pc[u] \notin Disposing, token'[slot[u]] = seen[u], u # t
          PROVE  provider'[slot[u]]
      <4>1. slot[u] \in Slots /\ slot[u] # slot[t]
        BY <3>2, <3>3, <3>4, Located DEF IInv, ThreadInv, Provider
      <4>2. QED
        BY <3>3, <3>4, <4>1 DEF ProviderInv
    <3>5. QED
      BY <3>1, <3>2, <3>4 DEF ProviderInv, Same
  <2>2. CASE FillLocal(t) \/ FillProvider(t)
    <3>1. pc[t] = "fill" /\ UNCHANGED <<token, call, slot, seen>> /\ \A u \in Threads \ {t} : Same(u)
      BY <2>2, GotoSame DEF FillLocal, FillProvider, IInv
    <3>2. call[t] \notin Provider
      BY <3>1 DEF IInv, ThreadInv, Begins, Provider
    <3>3. \A r \in Slots : provider[r] => provider'[r]
      BY <2>2, <3>1 DEF FillLocal, FillProvider, IInv, TypeOK
    <3>4. \A u \in Threads : call[u] \in Provider => slot[u] \in Slots
      BY Located DEF IInv, ThreadInv, Provider
    <3>5. QED
      BY <3>1, <3>2, <3>3, <3>4 DEF ProviderInv, Same
  <2>3. CASE ProviderBegins(t)
    <3>1. UNCHANGED <<token, provider>> /\ call[t] = "provide"
      BY <2>3 DEF ProviderBegins, slotVars
    <3>2. call'[t] \in {"none", "provide"} /\ \A u \in Threads \ {t} : Same(u)
      BY <2>3, <3>1, GotoSame, ReturnSame DEF ProviderBegins, IInv
    <3>3. QED
      BY <3>1, <3>2, ProviderQuiet DEF Same, Provider
  <2>4. CASE Strip(t)
    <3>1. /\ pc[t] = "strip" /\ UNCHANGED <<token, call, slot, seen>> /\ pc'[t] \in Disposing
          /\ \A u \in Threads \ {t} : Same(u)
      BY <2>4, GotoSame DEF Strip, IInv, Disposing
    <3>2. slot[t] \in Slots /\ \A r \in Slots : r # slot[t] => provider'[r] = provider[r]
      BY <2>4, <3>1, Located DEF Strip, IInv, TypeOK
    <3>3. /\ retired[slot[t]] /\ token[slot[t]] # None
          /\ \A u \in Threads : pc[u] \in Busy \ Disposing => slot[u] # slot[t]
      <4>1. token[slot[t]] # None /\ holds[slot[t]] = 0
        BY <3>1, Alone DEF Disposing, IInv, DisposeInv
      <4>2. retired[slot[t]]
        BY <3>2, <4>1, NoHolds
      <4>3. QED
        BY <3>1, <4>1, <4>2, Shared DEF Disposing
    <3>4. ASSUME NEW u \in Threads, u # t, call[u] \in Provider, pc[u] \notin Disposing,
                 token[slot[u]] = seen[u]
          PROVE  provider'[slot[u]]
      <4>1. slot[u] \in Slots /\ pc[u] # "idle"
        BY <3>4, Located DEF IInv, ThreadInv, Provider
      <4>2. pc[u] \notin {"setup", "peek", "again"}
        BY <3>4 DEF IInv, ThreadInv, Begins, Provider
      <4>3. pc[u] \in {"find"} \cup (Busy \ Disposing)
        BY <3>4, <4>1, <4>2 DEF IInv, TypeOK, States, Busy, Holding, Disposing
      <4>4. slot[u] # slot[t]
        BY <3>3, <3>4, <4>3 DEF IInv, BusyInv
      <4>5. QED
        BY <3>2, <3>4, <4>1, <4>4 DEF ProviderInv
    <3>5. QED
      BY <3>1, <3>4 DEF ProviderInv, Same
  <2>5. CASE Cleanup(t)
    <3>1. UNCHANGED <<token, provider>> /\ pc'[t] = "free" /\ \A u \in Threads \ {t} : Same(u)
      BY <2>5, GotoSame DEF Cleanup, slotVars, IInv
    <3>2. QED
      BY <3>1, ProviderQuiet DEF Same, Disposing
  <2>6. CASE Free(t)
    <3>1. /\ pc[t] = "free" /\ provider' = provider /\ call'[t] \notin Provider
          /\ \A u \in Threads \ {t} : Same(u)
      BY <2>6, GotoSame, ReturnSame DEF Free, IInv, Provider
    <3>2. /\ slot[t] \in Slots /\ token'[slot[t]] = None
          /\ \A r \in Slots : r # slot[t] => token'[r] = token[r]
      BY <2>6, <3>1, Located DEF Free, IInv, TypeOK
    <3>3. \A u \in Threads : call[u] \in Provider => slot[u] \in Slots /\ seen[u] # None
      BY Located DEF IInv, ThreadInv, Provider
    <3>4. QED
      BY <3>1, <3>2, <3>3 DEF ProviderInv, Same
  <2>7. CASE Plain(t)
    <3>1. /\ \A u \in Threads \ {t} : Same(u)
          /\ pc[t] \notin Disposing /\ UNCHANGED <<token, provider>>
      BY <2>7, PlainMoves, PlainKeeps DEF Disposing
    <3>2. call'[t] \in Provider => call'[t] = call[t] /\ slot'[t] = slot[t] /\ seen'[t] = seen[t]
      BY <2>7, PlainCall
    <3>3. QED
      BY <3>1, <3>2, ProviderQuiet DEF Same
  <2>8. CASE Signal(t)
    <3>1. UNCHANGED <<token, provider, call, slot, seen>>
      BY <2>8, SignalMoves, PlainKeeps
    <3>2. \A u \in Threads : pc[u] \in Disposing => pc'[u] \in Disposing
      BY <2>8, SignalMoves DEF Same, Disposing
    <3>3. QED
      BY <3>1, <3>2, ProviderQuiet
  <2>9. QED
    BY <1>4, <2>1, <2>2, <2>3, <2>4, <2>5, <2>6, <2>7, <2>8 DEF Step, Plain
<1>5. CASE Close \/ UNCHANGED vars
  BY <1>5 DEF ProviderInv, Close, vars, slotVars, threadVars
<1>6. QED
  BY <1>1, <1>2, <1>3, <1>4, <1>5 DEF Next, Threads

\* Nobody settles an operation before its slot is filled.
LEMMA NoneFinishes ==
  ASSUME IInv, OriginInv, ProviderInv, NEW t \in Threads, pc[t] = "fill",
         NEW u \in Threads, pc[u] = "finish"
  PROVE  slot[u] # slot[t]
<1> SUFFICES ASSUME slot[u] = slot[t] PROVE FALSE
  OBVIOUS
<1>1. /\ slot[t] \in Slots /\ token[slot[t]] = seen[t] /\ seen[t] # None /\ token[slot[u]] = seen[u]
      /\ call[t] \in Begins /\ call[u] \in Settling
  BY BusySlot DEF Busy, Holding, IInv, ThreadInv
<1>2. ~local[slot[t]] /\ ~provider[slot[t]]
  BY <1>1 DEF OriginInv, Starting
<1>3. call[u] \in Provider \cup Kinds
  BY <1>1 DEF IInv, BeginInv
<1>4. call[u] \in {"complete", "perform", "do_work"}
  BY <1>1, <1>3 DEF Settling, Provider, Kinds
<1>5. call[u] = "complete" => provider[slot[u]]
  BY <1>1 DEF ProviderInv, Provider, Disposing
<1>6. /\ call[u] = "perform" => local[slot[u]]
      /\ call[u] = "do_work" => provider[slot[u]]
  BY DEF IInv, ContentInv, Holding
<1>7. QED
  BY <1>2, <1>4, <1>5, <1>6

\* A step that leaves operations and their outcome alone.
LEMMA ChosenQuiet ==
  ASSUME ChosenInv, UNCHANGED <<local, chosen, completed, status>>,
         \A u \in Threads : pc'[u] \in {"finish", "fill"} => Same(u)
  PROVE  ChosenInv'
BY DEF ChosenInv, Same

\* A thread comes to finish an operation.
LEMMA ChosenOutcome ==
  ASSUME IInv, OriginInv, ProviderInv, ChosenInv, NEW t \in Threads,
         Perform(t) \/ DoWork(t) \/ Complete(t) \/ Cancel(t)
  PROVE  ChosenInv'
<1>1. pc[t] = "held" /\ UNCHANGED <<local, completed, status, slot>> /\ slot[t] \in Slots
  <2>1. pc[t] = "held" /\ UNCHANGED <<local, completed, status, slot>>
    BY DEF Perform, DoWork, Complete, Cancel, slotVars, Goto
  <2>2. QED
    BY <2>1, Located
<1>2. \A u \in Threads \ {t} : Same(u)
  BY OneMoves DEF IInv, Step, Signal, Perform, DoWork, Complete, Cancel
<1>3. pc'[t] # "fill"
  BY <1>1 DEF Perform, DoWork, Complete, Cancel, Goto, IInv, TypeOK
<1>4. \A r \in Slots : chosen'[r] = chosen[r] \/ chosen'[r] = 1
  BY <1>1 DEF Perform, DoWork, Complete, Cancel, pickVars, IInv, TypeOK
<1>5. pc'[t] = "finish" /\ outcome'[t] = "ok" /\ local[slot[t]] => chosen'[slot[t]] = 1
  <2>1. CASE Perform(t)
    BY <1>1, <2>1 DEF Perform, IInv, TypeOK
  <2>2. CASE DoWork(t)
    BY <1>1, <2>2 DEF DoWork, Goto, IInv, TypeOK
  <2>3. CASE Cancel(t)
    BY <1>1, <2>3 DEF Cancel, Goto, IInv, TypeOK
  <2>4. CASE Complete(t)
    <3>1. token[slot[t]] = seen[t] /\ seen[t] # None
      BY <1>1, BusySlot DEF Busy, Holding
    <3>2. provider[slot[t]]
      BY <1>1, <2>4, <3>1 DEF Complete, ProviderInv, Provider, Disposing
    <3>3. ~local[slot[t]]
      BY <1>1, <3>1, <3>2 DEF OriginInv
    <3>4. QED
      BY <3>3
  <2>5. QED
    BY <2>1, <2>2, <2>3, <2>4
<1>6. ASSUME NEW u \in Threads
      PROVE  /\ pc'[u] = "finish" /\ outcome'[u] = "ok" /\ local[slot[u]] => chosen'[slot[u]] = 1
             /\ pc'[u] = "fill" => ~completed[slot[u]]
  <2>1. CASE u = t
    BY <1>3, <1>5, <2>1
  <2>2. CASE u # t
    <3>1. Same(u)
      BY <1>2, <2>2
    <3>2. pc'[u] = "finish" => slot[u] \in Slots
      BY <3>1, Located DEF Same
    <3>3. QED
      BY <1>4, <3>1, <3>2 DEF ChosenInv, Same
  <2>3. QED
    BY <2>1, <2>2
<1>7. QED
  BY <1>1, <1>4, <1>6 DEF ChosenInv

LEMMA ChosenFinish ==
  ASSUME IInv, OriginInv, ProviderInv, ChosenInv, NEW t \in Threads, Finish(t)
  PROVE  ChosenInv'
<1>1. /\ pc[t] = "finish" /\ UNCHANGED <<local, chosen>> /\ \A u \in Threads \ {t} : Same(u)
  BY OneMoves DEF Finish, IInv, Step, Signal, pickVars
<1>2. slot[t] \in Slots /\ pc'[t] \in {"retire", "drop", "signal"}
  BY <1>1, Located DEF Finish, Goto, AfterFinish, IInv, TypeOK
<1>3. CASE completed[slot[t]]
  <2>1. UNCHANGED <<completed, status>>
    BY <1>3 DEF Finish
  <2>2. QED
    BY <1>1, <1>2, <2>1, ChosenQuiet
<1>4. CASE ~completed[slot[t]]
  <2>1. /\ status'[slot[t]] = outcome[t]
        /\ \A r \in Slots : r # slot[t] => completed'[r] = completed[r] /\ status'[r] = status[r]
    BY <1>2, <1>4 DEF Finish, IInv, TypeOK
  <2>2. ASSUME NEW u \in Threads, pc'[u] \in {"finish", "fill"}
        PROVE  Same(u) /\ slot[u] \in Slots /\ (pc[u] = "fill" => slot[u] # slot[t])
    <3>1. Same(u) /\ pc[u] \in {"finish", "fill"}
      BY <1>1, <1>2, <2>2 DEF Same
    <3>2. QED
      BY <1>1, <3>1, Located, NoneFinishes
  <2>3. QED
    BY <1>1, <1>2, <2>1, <2>2 DEF ChosenInv, Same
<1>5. QED
  BY <1>3, <1>4

LEMMA NextChosen ==
  ASSUME IInv, OriginInv, ProviderInv, ChosenInv, [Next]_vars
  PROVE  ChosenInv'
<1>1. ASSUME NEW c \in Threads,
             \/ \E a \in Blocks, b \in BeginCalls : Acquire(c, a, b)
             \/ \E a \in Blocks, k \in BlockCalls : LookUp(c, a, k)
             \/ \E r \in Slots, k \in Kinds : RunTask(c, r, k)
      PROVE  ChosenInv'
  <2>1. UNCHANGED <<local, chosen, completed, status>>
    BY <1>1 DEF Acquire, LookUp, RunTask, slotVars, pickVars
  <2>2. pc'[c] \in {"setup", "find", "held"} /\ \A u \in Threads \ {c} : Same(u)
    BY <1>1, CallMoves DEF IInv
  <2>3. QED
    BY <2>1, <2>2, ChosenQuiet
<1>2. ASSUME NEW t \in Threads, Step(t) PROVE ChosenInv'
  <2>1. CASE Perform(t) \/ DoWork(t) \/ Complete(t) \/ Cancel(t)
    BY <2>1, ChosenOutcome
  <2>2. CASE Finish(t)
    BY <2>2, ChosenFinish
  <2>3. CASE SetUp(t)
    <3>1. /\ pc[t] = "setup" /\ UNCHANGED <<local, chosen, slot>> /\ pc'[t] = "fill"
          /\ \A u \in Threads \ {t} : Same(u)
      BY <2>3, GotoSame DEF SetUp, IInv, pickVars
    <3>2. slot[t] \in Slots /\ ~local[slot[t]]
      BY <3>1, Located DEF IInv, SetUpInv, TokenInv
    <3>3. /\ ~completed'[slot[t]]
          /\ \A r \in Slots : r # slot[t] => completed'[r] = completed[r] /\ status'[r] = status[r]
      BY <2>3, <3>2 DEF SetUp, IInv, TypeOK
    <3>4. \A u \in Threads : pc[u] = "fill" => slot[u] \in Slots
      BY Located
    <3>5. QED
      BY <3>1, <3>2, <3>3, <3>4 DEF ChosenInv, Same
  <2>4. CASE FillLocal(t)
    <3>1. /\ pc[t] = "fill" /\ UNCHANGED <<completed, status, slot>> /\ pc'[t] = "submit"
          /\ \A u \in Threads \ {t} : Same(u)
      BY <2>4, GotoSame DEF FillLocal, IInv
    <3>2. slot[t] \in Slots /\ ~completed[slot[t]]
      BY <3>1, Located DEF ChosenInv
    <3>3. \A r \in Slots : r # slot[t] => local'[r] = local[r] /\ chosen'[r] = chosen[r]
      BY <2>4, <3>2 DEF FillLocal, IInv, TypeOK
    <3>4. \A u \in Threads : pc[u] = "finish" => slot[u] \in Slots /\ slot[u] # slot[t]
      BY <3>1, Located, NoneFinishes
    <3>5. QED
      BY <3>1, <3>2, <3>3, <3>4 DEF ChosenInv, Same
  <2>5. CASE FillProvider(t) \/ ProviderBegins(t) \/ Cleanup(t) \/ Free(t)
    <3>1. UNCHANGED <<local, chosen, completed, status>>
      BY <2>5 DEF FillProvider, ProviderBegins, Cleanup, Free, slotVars, pickVars
    <3>2. pc'[t] \in {"held", "idle", "retire", "free", "peek"} /\ \A u \in Threads \ {t} : Same(u)
      BY <2>5, GotoSame, ReturnSame DEF FillProvider, ProviderBegins, Cleanup, Free, IInv
    <3>3. QED
      BY <3>1, <3>2, ChosenQuiet
  <2>6. CASE Strip(t)
    <3>1. /\ pc[t] = "strip" /\ UNCHANGED <<completed, status, slot>> /\ pc'[t] \in {"cleanup", "free"}
          /\ \A u \in Threads \ {t} : Same(u)
      BY <2>6, GotoSame DEF Strip, IInv
    <3>2. /\ slot[t] \in Slots /\ ~local'[slot[t]]
          /\ \A r \in Slots : r # slot[t] => local'[r] = local[r] /\ chosen'[r] = chosen[r]
      BY <2>6, <3>1, Located DEF Strip, IInv, TypeOK
    <3>3. \A u \in Threads : pc[u] = "finish" => slot[u] \in Slots
      BY Located
    <3>4. QED
      BY <3>1, <3>2, <3>3 DEF ChosenInv, Same
  <2>7. CASE Signal(t)
    <3>1. UNCHANGED <<local, chosen, completed, status>>
      BY <2>7 DEF Signal, slotVars, pickVars
    <3>2. \A u \in Threads : pc'[u] \in {"finish", "fill"} => Same(u)
      BY <2>7, SignalMoves
    <3>3. QED
      BY <3>1, <3>2, ChosenQuiet
  <2>8. CASE Plain(t) /\ ~(Perform(t) \/ DoWork(t) \/ Complete(t) \/ Cancel(t) \/ Finish(t))
    <3>1. UNCHANGED <<chosen, completed, status>> /\ pc'[t] # "finish"
      <4>1. CASE \/ Find(t) \/ GetStatus(t) \/ WaitStatus(t) \/ TakeResult(t) \/ Schedule(t)
        <5>1. UNCHANGED <<chosen, completed, status>>
          BY <4>1 DEF Find, GetStatus, WaitStatus, TakeResult, Schedule, slotVars, pickVars
        <5>2. (\E l \in {"held", "drop", "asleep", "retire", "submit"} : Goto(t, l)) \/ Return(t)
          BY <4>1 DEF Find, GetStatus, WaitStatus, TakeResult, Schedule
        <5>3. QED
          BY <5>1, <5>2, GotoSame, ReturnSame DEF IInv
      <4>2. CASE PendingOperation(t) \/ Peek(t) \/ Collect(t)
        <5>1. pc'[t] \in {"drop", "again", "find", "idle"}
          BY <4>2, ReturnSame DEF PendingOperation, Peek, Collect, IInv, TypeOK
        <5>2. QED
          BY <4>2, <5>1 DEF PendingOperation, Peek, Collect, slotVars, pickVars
      <4>3. CASE HoldForTask(t) \/ Enqueue(t) \/ Refuse(t) \/ Announce(t) \/ CallRoutine(t)
        <5>1. pc'[t] \in {"enqueue", "idle", "routine", "drop", "retire", "withdraw"}
          BY <4>3, GotoSame, ReturnSame DEF HoldForTask, Enqueue, Refuse, Announce, CallRoutine, AfterSubmit,
               AfterFinish, IInv
        <5>2. QED
          BY <4>3, <5>1 DEF HoldForTask, Enqueue, Refuse, Announce, CallRoutine, slotVars, pickVars
      <4>4. CASE Withdraw(t) \/ Unhold(t) \/ Drop(t) \/ Retire(t)
        <5>1. pc'[t] \in {"drop", "idle", "retire", "unhold", "peek", "strip"}
          BY <4>4, GotoSame, ReturnSame DEF Withdraw, Unhold, Drop, Release, Retire, AfterFinish,
               AfterSubmit, IInv
        <5>2. QED
          BY <4>4, <5>1 DEF Withdraw, Unhold, Drop, Release, Retire, slotVars, pickVars
      <4>5. QED
        BY <2>8, <4>1, <4>2, <4>3, <4>4 DEF Plain
    <3>2. local' = local /\ pc'[t] # "fill" /\ \A u \in Threads \ {t} : Same(u)
      BY <2>8, PlainKeeps, PlainMoves
    <3>3. QED
      BY <3>1, <3>2, ChosenQuiet
  <2>9. QED
    BY <1>2, <2>1, <2>2, <2>3, <2>4, <2>5, <2>6, <2>7, <2>8 DEF Step, Plain
<1>3. CASE Close \/ UNCHANGED vars
  BY <1>3, ChosenQuiet DEF Close, vars, slotVars, threadVars, pickVars, Same
<1>4. QED
  BY <1>1, <1>2, <1>3 DEF Next, Threads

\* Only Peek reads a size; the others keep what they read until they return.
LEMMA ReadKept ==
  ASSUME IInv, NEW t \in Threads, Step(t), ~Peek(t)
  PROVE  \A u \in Threads : read'[u] = read[u] \/ read'[u] = Unread
<1>1. CASE Signal(t)
  BY <1>1, SignalMoves
<1>2. CASE \/ SetUp(t) \/ FillLocal(t) \/ FillProvider(t) \/ ProviderBegins(t) \/ Find(t)
           \/ GetStatus(t) \/ WaitStatus(t) \/ TakeResult(t) \/ Schedule(t)
           \/ HoldForTask(t) \/ Enqueue(t) \/ Refuse(t) \/ Retire(t)
           \/ Strip(t) \/ Cleanup(t) \/ Free(t) \/ Announce(t) \/ CallRoutine(t)
  <2>1. Return(t) \/ \E l : Goto(t, l)
    <3>1. CASE \/ SetUp(t) \/ FillLocal(t) \/ FillProvider(t) \/ ProviderBegins(t) \/ Find(t)
               \/ GetStatus(t) \/ WaitStatus(t) \/ TakeResult(t) \/ Schedule(t)
      BY <3>1 DEF SetUp, FillLocal, FillProvider, ProviderBegins, Find, GetStatus, WaitStatus,
                  TakeResult, Schedule
    <3>2. CASE \/ HoldForTask(t) \/ Enqueue(t) \/ Refuse(t) \/ Retire(t)
               \/ Strip(t) \/ Cleanup(t) \/ Free(t) \/ Announce(t) \/ CallRoutine(t)
      BY <3>2 DEF HoldForTask, Enqueue, Refuse, Retire, Strip, Cleanup, Free, Announce, CallRoutine
    <3>3. QED
      BY <1>2, <3>1, <3>2
  <2>2. QED
    BY <2>1, GotoSame, ReturnSame DEF IInv, Same
<1>3. CASE Cancel(t) \/ Complete(t) \/ PendingOperation(t) \/ Perform(t) \/ DoWork(t) \/ Finish(t)
  BY <1>3 DEF Cancel, Complete, PendingOperation, Perform, DoWork, Finish, Goto
<1>4. CASE Collect(t)
  <2>1. read' = read \/ Return(t)
    BY <1>4 DEF Collect
  <2>2. QED
    BY <2>1, ReturnSame DEF IInv, Same
<1>5. CASE Withdraw(t) \/ Unhold(t) \/ Drop(t)
  <2>1. \E l : Release(t, l)
    BY <1>5 DEF Withdraw, Unhold, Drop
  <2>2. QED
    BY <2>1, ReleaseSame DEF IInv, Same
<1>6. QED
  BY <1>1, <1>2, <1>3, <1>4, <1>5 DEF Step

\* An operation of the runtime stays one.
LocalStays == \A k \in Tokens : origin[k] = "local" => origin'[k] = "local"

\* What is local in a slot was so before and keeps its outcome, or is new.
LocalKept ==
    \A r \in Slots : token'[r] # None /\ local'[r] =>
        \/ token'[r] \in Tokens /\ origin[token'[r]] # "local"
        \/ /\ token'[r] = token[r] /\ local[r]
           /\ completed[r] => completed'[r] /\ status'[r] = status[r]

LEMMA ReadQuiet ==
  ASSUME IInv, ReadInv, LocalStays, LocalKept,
         \A u \in Threads : read'[u] = read[u] \/ read'[u] = Unread
  PROVE  ReadInv'
<1>1. \A u \in Threads : read[u].of \in Tokens \cup {None}
  BY DEF IInv, TypeOK, Tokens, None
<1>2. \A u \in Threads : read'[u].of # None => read'[u] = read[u]
  BY DEF Unread
<1>3. \A u \in Threads : read'[u].of # None => origin'[read'[u].of] = "local"
  BY <1>1, <1>2 DEF ReadInv, LocalStays
<1>4. ASSUME NEW u \in Threads, NEW r \in Slots, token'[r] # None, read'[u].of = token'[r], local'[r]
      PROVE  completed'[r] /\ (status'[r] = "ok" => read'[u].size = 1)
  <2>1. read'[u] = read[u] /\ origin[read[u].of] = "local"
    BY <1>2, <1>4 DEF ReadInv
  <2>2. /\ token'[r] = token[r] /\ local[r]
        /\ completed[r] => completed'[r] /\ status'[r] = status[r]
    BY <1>4, <2>1 DEF LocalKept
  <2>3. QED
    BY <1>4, <2>1, <2>2 DEF ReadInv
<1>5. QED
  BY <1>3, <1>4 DEF ReadInv

LEMMA NextRead ==
  ASSUME IInv, OriginInv, ChosenInv, ReadInv, [Next]_vars
  PROVE  ReadInv'
<1>1. ASSUME NEW c \in Threads,
             \/ \E a \in Blocks, b \in BeginCalls : Acquire(c, a, b)
             \/ \E a \in Blocks, k \in BlockCalls : LookUp(c, a, k)
             \/ \E r \in Slots, k \in Kinds : RunTask(c, r, k)
      PROVE  ReadInv'
  <2>1. UNCHANGED <<token, local, completed, status, origin>>
    BY <1>1 DEF Acquire, LookUp, RunTask, slotVars, historyVars
  <2>2. read' = read
    BY <1>1, CallMoves DEF IInv
  <2>3. QED
    BY <2>1, <2>2, ReadQuiet DEF LocalStays, LocalKept
<1>2. ASSUME NEW t \in Threads, Step(t) PROVE ReadInv'
  <2>1. CASE Peek(t)
    <3>1. pc[t] = "peek" /\ UNCHANGED <<token, local, completed, status, origin>>
      BY <2>1 DEF Peek, slotVars, historyVars
    <3>2. slot[t] \in Slots /\ seen[t] \in Tokens
      BY <3>1, Located
    <3>3. \A u \in Threads \ {t} : read'[u] = read[u]
      BY <2>1, OneMoves DEF IInv, Same, Step, Signal, Peek
    <3>4. PICK n \in {0, 1} :
             /\ (token[slot[t]] = seen[t] /\ local[slot[t]]) => n = chosen[slot[t]]
             /\ read'[t] = [size |-> n,
                            of |-> IF token[slot[t]] = seen[t] /\ local[slot[t]] /\ completed[slot[t]]
                                   THEN seen[t] ELSE None]
      <4>1. chosen[slot[t]] \in {0, 1}
        BY <3>2 DEF IInv, TypeOK
      <4>2. QED
        BY <2>1, <4>1 DEF Peek, IInv, TypeOK
    <3>5. ASSUME read'[t].of # None
          PROVE  /\ read'[t].of = seen[t] /\ token[slot[t]] = seen[t] /\ local[slot[t]]
                 /\ completed[slot[t]] /\ read'[t].size = chosen[slot[t]]
      BY <3>4, <3>5
    <3>6. ASSUME NEW u \in Threads, read'[u].of # None PROVE origin[read'[u].of] = "local"
      <4>1. CASE u = t
        BY <3>2, <3>5, <3>6, <4>1 DEF OriginInv, Tokens, None
      <4>2. CASE u # t
        BY <3>3, <3>6, <4>2 DEF ReadInv
      <4>3. QED
        BY <4>1, <4>2
    <3>7. ASSUME NEW u \in Threads, NEW r \in Slots, token[r] # None, read'[u].of = token[r], local[r]
          PROVE  completed[r] /\ (status[r] = "ok" => read'[u].size = 1)
      <4>1. CASE u = t
        <5>1. r = slot[t]
          BY <3>2, <3>5, <3>7, <4>1 DEF IInv, TokenInv
        <5>2. QED
          BY <3>5, <3>7, <4>1, <5>1 DEF ChosenInv
      <4>2. CASE u # t
        BY <3>3, <3>7, <4>2 DEF ReadInv
      <4>3. QED
        BY <4>1, <4>2
    <3>8. QED
      BY <3>1, <3>6, <3>7 DEF ReadInv
  <2>2. CASE SetUp(t)
    <3>1. pc[t] = "setup" /\ UNCHANGED <<local, origin>>
      BY <2>2 DEF SetUp, historyVars
    <3>2. slot[t] \in Slots /\ seen[t] \in Tokens /\ origin[seen[t]] = "none"
      BY <3>1, Located DEF OriginInv, Starting
    <3>3. /\ token'[slot[t]] = seen[t]
          /\ \A r \in Slots : r # slot[t] =>
                token'[r] = token[r] /\ completed'[r] = completed[r] /\ status'[r] = status[r]
      BY <2>2, <3>2 DEF SetUp, IInv, TypeOK
    <3>4. LocalStays /\ LocalKept
      BY <3>1, <3>2, <3>3 DEF LocalStays, LocalKept
    <3>5. QED
      BY <1>2, <2>2, <3>1, <3>4, ReadKept, ReadQuiet DEF Peek
  <2>3. CASE FillLocal(t) \/ FillProvider(t)
    <3>1. pc[t] = "fill" /\ UNCHANGED <<token, completed, status>>
      BY <2>3 DEF FillLocal, FillProvider
    <3>2. slot[t] \in Slots /\ seen[t] \in Tokens /\ origin[seen[t]] = "none" /\ token[slot[t]] = seen[t]
      BY <3>1, BusySlot DEF OriginInv, Starting, Busy
    <3>3. /\ \A k \in Tokens : k # seen[t] => origin'[k] = origin[k]
          /\ \A r \in Slots : r # slot[t] => local'[r] = local[r]
      BY <2>3, <3>2 DEF FillLocal, FillProvider, IInv, TypeOK
    <3>4. LocalStays /\ LocalKept
      BY <3>1, <3>2, <3>3 DEF LocalStays, LocalKept
    <3>5. QED
      BY <1>2, <3>1, <3>4, ReadKept, ReadQuiet DEF Peek
  <2>4. CASE ProviderBegins(t)
    <3>1. pc[t] = "held" /\ call[t] = "provide" /\ UNCHANGED <<token, local, completed, status>>
      BY <2>4 DEF ProviderBegins, slotVars
    <3>2. seen[t] \in Tokens /\ origin[seen[t]] = "provider"
      BY <3>1, Located DEF OriginInv, Starting
    <3>3. \A k \in Tokens : k # seen[t] => origin'[k] = origin[k]
      BY <2>4, <3>2 DEF ProviderBegins, IInv, TypeOK
    <3>4. LocalStays /\ LocalKept
      BY <3>1, <3>2, <3>3 DEF LocalStays, LocalKept
    <3>5. QED
      BY <1>2, <3>1, <3>4, ReadKept, ReadQuiet DEF Peek
  <2>5. CASE Strip(t) \/ Free(t)
    <3>1. pc[t] \in {"strip", "free"} /\ UNCHANGED <<completed, status, origin>>
      BY <2>5 DEF Strip, Free, historyVars
    <3>2. slot[t] \in Slots
      BY <3>1, Located
    <3>3. \A r \in Slots : token'[r] # None /\ local'[r] => token'[r] = token[r] /\ local[r]
      <4>1. CASE Strip(t)
        BY <3>2, <4>1 DEF Strip, IInv, TypeOK
      <4>2. CASE Free(t)
        BY <3>2, <4>2 DEF Free, IInv, TypeOK
      <4>3. QED
        BY <2>5, <4>1, <4>2
    <3>4. QED
      BY <1>2, <3>1, <3>3, ReadKept, ReadQuiet DEF Peek, LocalStays, LocalKept
  <2>6. CASE Cleanup(t)
    <3>1. pc[t] = "cleanup" /\ UNCHANGED <<token, local, completed, status, origin>>
      BY <2>6 DEF Cleanup, slotVars
    <3>2. QED
      BY <1>2, <3>1, ReadKept, ReadQuiet DEF Peek, LocalStays, LocalKept
  <2>7. CASE Finish(t)
    <3>1. pc[t] = "finish" /\ slot[t] \in Slots /\ UNCHANGED <<token, local, origin>>
      BY <2>7, Located DEF Finish, historyVars
    <3>2. \A r \in Slots : completed[r] => completed'[r] /\ status'[r] = status[r]
      BY <2>7, <3>1 DEF Finish, IInv, TypeOK
    <3>3. QED
      BY <1>2, <3>1, <3>2, ReadKept, ReadQuiet DEF Peek, LocalStays, LocalKept
  <2>8. CASE (Plain(t) /\ ~Finish(t) /\ ~Peek(t)) \/ Signal(t)
    <3>1. UNCHANGED <<token, local, origin>>
      BY <2>8, PlainKeeps
    <3>2. UNCHANGED <<completed, status>>
      <4>1. CASE \/ Find(t) \/ GetStatus(t) \/ WaitStatus(t) \/ TakeResult(t) \/ Cancel(t) \/ Complete(t)
                 \/ Schedule(t) \/ PendingOperation(t) \/ Collect(t) \/ Signal(t)
        BY <4>1 DEF Find, GetStatus, WaitStatus, TakeResult, Cancel, Complete, Schedule, PendingOperation,
                    Collect, Signal, slotVars
      <4>2. CASE \/ HoldForTask(t) \/ Enqueue(t) \/ Refuse(t) \/ Perform(t) \/ DoWork(t)
                 \/ Announce(t) \/ CallRoutine(t)
                 \/ Withdraw(t) \/ Unhold(t) \/ Drop(t) \/ Retire(t)
        BY <4>2 DEF HoldForTask, Enqueue, Refuse, Perform, DoWork, Announce, CallRoutine, Withdraw,
             Unhold, Drop,
                    Release, Retire, slotVars
      <4>3. QED
        BY <2>8, <4>1, <4>2 DEF Plain
    <3>3. ~Peek(t)
      BY <2>8 DEF Signal, Peek
    <3>4. QED
      BY <1>2, <3>1, <3>2, <3>3, ReadKept, ReadQuiet DEF LocalStays, LocalKept
  <2>9. QED
    BY <1>2, <2>1, <2>2, <2>3, <2>4, <2>5, <2>6, <2>7, <2>8 DEF Step, Plain
<1>3. CASE Close \/ UNCHANGED vars
  BY <1>3, ReadQuiet DEF Close, vars, slotVars, threadVars, historyVars, LocalStays, LocalKept
<1>4. QED
  BY <1>1, <1>2, <1>3 DEF Next, Threads

\* A selection is lost only by a size that was not read of the settled operation.
LEMMA NextPicks ==
  ASSUME IInv, ReadInv, PicksDelivered, [Next]_vars
  PROVE  PicksDelivered'
<1>1. CASE lost' = lost
  BY <1>1 DEF PicksDelivered
<1>2. ASSUME NEW t \in Threads, TakeResult(t), lost' # lost PROVE PicksDelivered'
  <2>1. /\ pc[t] = "held" /\ status[slot[t]] = "ok" /\ local[slot[t]] /\ read[t].size < chosen[slot[t]]
        /\ lost' = lost \cup {<<seen[t], read[t].of>>}
    BY <1>2 DEF TakeResult
  <2>2. slot[t] \in Slots /\ token[slot[t]] = seen[t] /\ seen[t] # None
    BY <2>1, BusySlot DEF Busy, Holding
  <2>3. read[t].size \in 0..1 /\ chosen[slot[t]] \in 0..1
    BY <2>2 DEF IInv, TypeOK
  <2>4. read[t].size # 1
    BY <2>1, <2>3
  <2>5. seen[t] # read[t].of
    BY <2>1, <2>2, <2>4 DEF ReadInv
  <2>6. QED
    BY <2>1, <2>5 DEF PicksDelivered
<1>3. ASSUME NEW t \in Threads, Step(t), ~TakeResult(t) PROVE lost' = lost
  <2>1. CASE \/ SetUp(t) \/ FillLocal(t) \/ FillProvider(t) \/ ProviderBegins(t) \/ Find(t) \/ GetStatus(t)
             \/ WaitStatus(t) \/ Cancel(t) \/ Complete(t) \/ Schedule(t)
    BY <2>1 DEF SetUp, FillLocal, FillProvider, ProviderBegins, Find, GetStatus, WaitStatus, Cancel,
                Complete, Schedule, pickVars
  <2>2. CASE \/ PendingOperation(t) \/ Peek(t) \/ Collect(t) \/ Finish(t) \/ Signal(t) \/ HoldForTask(t)
             \/ Enqueue(t) \/ Refuse(t) \/ Perform(t) \/ DoWork(t) \/ Announce(t) \/ CallRoutine(t)
    BY <2>2 DEF PendingOperation, Peek, Collect, Finish, Signal, HoldForTask, Enqueue, Refuse, Perform,
                DoWork, Announce, CallRoutine, pickVars
  <2>3. CASE Withdraw(t) \/ Unhold(t) \/ Drop(t) \/ Retire(t) \/ Strip(t) \/ Cleanup(t) \/ Free(t)
    BY <2>3 DEF Withdraw, Unhold, Drop, Release, Retire, Strip, Cleanup, Free, pickVars
  <2>4. QED
    BY <1>3, <2>1, <2>2, <2>3 DEF Step
<1>4. CASE \/ \E c \in Clients, a \in Blocks, b \in BeginCalls : Acquire(c, a, b)
           \/ \E c \in Clients, a \in Blocks, k \in BlockCalls : LookUp(c, a, k)
           \/ \E w \in Workers, r \in Slots, k \in Kinds : RunTask(w, r, k)
           \/ Close \/ UNCHANGED vars
  <2>1. lost' = lost
    BY <1>4 DEF Acquire, LookUp, RunTask, Close, vars, pickVars
  <2>2. QED
    BY <1>1, <2>1
<1>5. QED
  BY <1>1, <1>2, <1>3, <1>4 DEF Next

-----------------------------------------------------------------------------
(* The theorems                                                             *)

CallsInv == /\ OriginInv /\ CleanInv /\ AnnounceInv
            /\ ProviderInv /\ ChosenInv /\ ReadInv /\ PicksDelivered

LEMMA InitCalls == Init => CallsInv
<1> SUFFICES ASSUME Init PROVE CallsInv
  OBVIOUS
<1>1. OriginInv /\ CleanInv
  BY DEF Init, OriginInv, CleanInv, Starting, Provided
<1>2. AnnounceInv
  BY DEF Init, AnnounceInv, Announcer
<1>3. ProviderInv /\ ChosenInv
  BY DEF Init, ProviderInv, ChosenInv, Provider
<1>4. ReadInv /\ PicksDelivered
  BY DEF Init, ReadInv, PicksDelivered, Unread
<1>5. QED
  BY <1>1, <1>2, <1>3, <1>4 DEF CallsInv

LEMMA CallsInvariant ==
  ASSUME ~Overlap
  PROVE  Spec => [](IInv /\ CallsInv)
<1>1. IInv /\ CallsInv /\ [Next]_vars => CallsInv'
  BY NextOrigin, NextClean, NextAnnounce, NextProvider, NextChosen, NextRead, NextPicks DEF CallsInv
<1>2. QED
  BY <1>1, InitCalls, Invariant, PTL DEF Spec

\* For any number of threads, slots and operations: the completion routine is called at
\* most once (finish and announce, async.cxx), a provider whose begin succeeded is cleaned
\* up once, before its slot is free (dispose), and an operation of the runtime never is.
THEOREM RoutinesCalledOnce ==
  ASSUME ~Overlap
  PROVE  Spec => []CalledOnce
<1>1. ASSUME IInv, CallsInv, NEW k \in Tokens
      PROVE  LET gone == origin[k] # "none" /\ \A r \in Slots : token[r] # k IN
             /\ announcements[k] <= 1
             /\ origin[k] = "provider" => cleanups[k] <= 1 /\ (gone => cleanups[k] = 1)
             /\ origin[k] = "local" => cleanups[k] = 0
  <2>1. announcements[k] <= 1 /\ (origin[k] = "local" => cleanups[k] = 0)
    BY <1>1 DEF CallsInv, AnnounceInv, CleanInv
  <2>2. origin[k] = "provider" /\ (\A r \in Slots : token[r] # k) => cleanups[k] = 1
    BY <1>1 DEF CallsInv, CleanInv, Early, Provided
  <2>3. ASSUME NEW r \in Slots, token[r] = k, origin[k] = "provider" PROVE cleanups[k] <= 1
    <3>1. token[r] # None
      BY <2>3 DEF Tokens, None
    <3>2. CASE provider[r]
      BY <1>1, <2>3, <3>1, <3>2 DEF CallsInv, CleanInv, Early, Provided
    <3>3. CASE ~provider[r]
      <4>1. PICK t \in Threads : slot[t] = r /\ pc[t] \in {"cleanup", "free"}
        BY <1>1, <2>3, <3>1, <3>3 DEF CallsInv, CleanInv, Provided
      <4>2. seen[t] = k
        BY <1>1, <2>3, <4>1 DEF IInv, BusyInv, Busy, Disposing
      <4>3. cleanups[k] \in {0, 1}
        BY <1>1, <2>3, <4>1, <4>2 DEF CallsInv, CleanInv, Early, Provided
      <4>4. QED
        BY <4>3
    <3>4. QED
      BY <3>2, <3>3
  <2>4. QED
    BY <2>1, <2>2, <2>3
<1>2. IInv /\ CallsInv => CalledOnce
  BY <1>1 DEF CalledOnce
<1>3. QED
  BY <1>2, CallsInvariant, PTL

\* For the same constants: a player picker that has settled when its result is asked for
\* hands the selection out (show_player_picker_result, ui.cxx).
THEOREM SettledPicksDelivered ==
  ASSUME ~Overlap
  PROVE  Spec => []PicksDelivered
<1>1. IInv /\ CallsInv => PicksDelivered
  BY DEF CallsInv
<1>2. QED
  BY <1>1, CallsInvariant, PTL

-----------------------------------------------------------------------------
(* The life of an operation                                                 *)

\* A thread on its way to retire an operation that has settled.
Collecting(t) ==
    \/ pc[t] = "retire" /\ call[t] \notin Begins
    \/ pc[t] = "withdraw" /\ call[t] = "cancel"

\* An operation settles with an outcome, and only settled operations are collected.
SettledInv ==
    /\ \A t \in Threads : pc[t] = "finish" => outcome[t] # "pending"
    /\ \A r \in Slots : completed[r] => status[r] # "pending"
    /\ \A t \in Threads : Collecting(t) => completed[slot[t]]

\* An operation that has not been given its contents is with the thread that begins it.
FilledInv ==
    \A r \in Slots : token[r] # None /\ origin[token[r]] = "none" =>
        \E t \in Threads : pc[t] = "fill" /\ slot[t] = r

\* A retired operation has no block.
UnlinkedInv == \A r \in Slots : retired[r] => block[r] = None

LifeInv == SettledInv /\ FilledInv /\ UnlinkedInv

\* A step that settles nothing.
LEMMA SettledStill ==
  ASSUME SettledInv, UNCHANGED <<completed, status>>, NEW t \in Threads,
         \A u \in Threads \ {t} : Same(u),
         pc'[t] = "finish" => outcome'[t] # "pending",
         Collecting(t)' => completed[slot'[t]]
  PROVE  SettledInv'
<1>1. \A u \in Threads : pc'[u] = "finish" => outcome'[u] # "pending"
  BY DEF SettledInv, Same
<1>2. \A u \in Threads : Collecting(u)' => completed[slot'[u]]
  BY DEF SettledInv, Same, Collecting
<1>3. QED
  BY <1>1, <1>2 DEF SettledInv

LEMMA SettledSetUp ==
  ASSUME IInv, SettledInv, NEW c \in Threads, SetUp(c)
  PROVE  SettledInv'
<1>1. pc[c] = "setup" /\ pc'[c] = "fill" /\ \A u \in Threads \ {c} : Same(u)
  BY GotoSame DEF SetUp, IInv
<1>2. slot[c] \in Slots /\ token[slot[c]] = None
  BY <1>1, Located DEF IInv, SetUpInv
<1>3. /\ ~completed'[slot[c]]
      /\ \A r \in Slots : r # slot[c] => completed'[r] = completed[r] /\ status'[r] = status[r]
  BY <1>2 DEF SetUp, IInv, TypeOK
<1>4. ASSUME NEW u \in Threads, Collecting(u)'
      PROVE  completed'[slot'[u]]
  <2>1. u # c
    BY <1>1, <1>4 DEF Collecting
  <2>2. Collecting(u) /\ slot'[u] = slot[u]
    BY <1>1, <1>4, <2>1 DEF Collecting, Same
  <2>3. slot[u] \in Slots /\ token[slot[u]] # None
    BY <2>2, BusySlot DEF Collecting, Busy, Holding
  <2>4. QED
    BY <1>2, <1>3, <2>2, <2>3 DEF SettledInv
<1>5. \A u \in Threads : pc'[u] = "finish" => outcome'[u] # "pending"
  BY <1>1 DEF SettledInv, Same
<1>6. QED
  BY <1>3, <1>4, <1>5 DEF SettledInv

LEMMA SettledFinish ==
  ASSUME IInv, SettledInv, NEW t \in Threads, Finish(t)
  PROVE  SettledInv'
<1>1. pc[t] = "finish" /\ slot' = slot /\ \A u \in Threads \ {t} : Same(u)
  BY OneMoves DEF Finish, IInv, Step, Signal, Goto
<1>2. slot[t] \in Slots
  BY <1>1, BusySlot
<1>3. CASE completed[slot[t]]
  <2>1. UNCHANGED <<completed, status>> /\ pc'[t] \in {"retire", "drop"}
    BY <1>3, GotoSame DEF Finish, AfterFinish, IInv
  <2>2. QED
    BY <1>1, <1>3, <2>1, SettledStill
<1>4. CASE ~completed[slot[t]]
  <2>1. /\ pc'[t] = "signal" /\ completed'[slot[t]] /\ status'[slot[t]] = outcome[t]
        /\ \A r \in Slots : r # slot[t] => completed'[r] = completed[r] /\ status'[r] = status[r]
    BY <1>2, <1>4 DEF Finish, IInv, TypeOK
  <2>2. \A u \in Threads : pc'[u] = "finish" => outcome'[u] # "pending"
    BY <1>1, <2>1 DEF SettledInv, Same
  <2>3. ASSUME NEW u \in Threads, Collecting(u)'
        PROVE  completed'[slot'[u]]
    <3>1. u # t
      BY <2>1, <2>3 DEF Collecting
    <3>2. Collecting(u)
      BY <1>1, <2>3, <3>1 DEF Collecting, Same
    <3>3. slot[u] \in Slots /\ completed[slot[u]]
      BY <3>2, BusySlot DEF Collecting, SettledInv
    <3>4. QED
      BY <1>1, <2>1, <3>3
  <2>4. \A r \in Slots : completed'[r] => status'[r] # "pending"
    BY <1>1, <2>1 DEF SettledInv
  <2>5. QED
    BY <2>2, <2>3, <2>4 DEF SettledInv
<1>5. QED
  BY <1>3, <1>4

\* The thread that settled an operation, and the one whose task was refused.
LEMMA SettledSubmit ==
  ASSUME IInv, AnnounceInv, SettledInv, NEW t \in Threads,
         Signal(t) \/ Enqueue(t) \/ Refuse(t) \/ Withdraw(t)
  PROVE  SettledInv'
<1>1. UNCHANGED <<completed, status>>
  BY DEF Signal, Enqueue, Refuse, Withdraw, Release, slotVars
<1>2. CASE Signal(t)
  <2>1. completed[slot[t]]
    BY <1>2 DEF Signal, AnnounceInv, Announcer
  <2>2. /\ pc'[t] # "finish" /\ pc'[t] # "withdraw" /\ slot' = slot /\ outcome' = outcome
        /\ \A u \in Threads \ {t} : Same(u) \/ pc'[u] = "held"
    BY <1>2, SignalMoves
  <2>3. \A u \in Threads : pc'[u] = "finish" => outcome'[u] # "pending"
    BY <2>2 DEF SettledInv, Same
  <2>4. \A u \in Threads : Collecting(u)' => completed[slot'[u]]
    BY <2>1, <2>2 DEF SettledInv, Same, Collecting
  <2>5. QED
    BY <1>1, <2>3, <2>4 DEF SettledInv
<1>3. CASE Enqueue(t) \/ Refuse(t)
  <2>1. call[t] = "cancel" => completed[slot[t]]
    BY <1>3 DEF Enqueue, Refuse, AnnounceInv, Announcer, Settling
  <2>2. CASE Enqueue(t)
    <3>1. \/ pc'[t] = "idle"
          \/ pc'[t] = "drop"
          \/ pc'[t] = "retire" /\ call[t] = "cancel" /\ slot'[t] = slot[t]
      BY <2>2, GotoSame, ReturnSame DEF Enqueue, AfterSubmit, AfterFinish, IInv
    <3>2. QED
      BY <1>1, <2>1, <2>2, <3>1, OneMoves, SettledStill DEF Step, Enqueue, Signal, IInv, Collecting
  <2>3. CASE Refuse(t)
    <3>1. pc'[t] = "withdraw" /\ call' = call /\ slot' = slot
      BY <2>3, GotoSame DEF Refuse, IInv
    <3>2. QED
      BY <1>1, <2>1, <2>3, <3>1, OneMoves, SettledStill DEF Step, Refuse, Signal, IInv, Collecting
  <2>4. QED
    BY <1>3, <2>2, <2>3
<1>4. CASE Withdraw(t)
  <2>1. pc[t] = "withdraw" /\ Release(t, IF call[t] = "begin" THEN "retire" ELSE AfterSubmit(t))
    BY <1>4 DEF Withdraw
  <2>2. call[t] = "cancel" => completed[slot[t]]
    BY <2>1 DEF SettledInv, Collecting
  <2>3. \/ pc'[t] \in {"idle", "drop", "strip"}
        \/ pc'[t] = "retire" /\ call[t] \in {"begin", "cancel"} /\ slot'[t] = slot[t] /\ call'[t] = call[t]
    BY <2>1, GotoSame, ReturnSame DEF Release, AfterSubmit, AfterFinish, IInv
  <2>4. \A u \in Threads \ {t} : Same(u)
    BY <2>1, ReleaseSame DEF IInv
  <2>5. QED
    BY <1>1, <2>2, <2>3, <2>4, SettledStill DEF Collecting, Begins
<1>5. QED
  BY <1>2, <1>3, <1>4

\* The calls that come to finish or to retire an operation.
LEMMA SettledCall ==
  ASSUME IInv, SettledInv, NEW t \in Threads,
         \/ TakeResult(t) \/ Cancel(t) \/ Complete(t) \/ Perform(t) \/ DoWork(t)
         \/ ProviderBegins(t)
  PROVE  SettledInv'
<1>1. UNCHANGED <<completed, status>>
  BY DEF TakeResult, Cancel, Complete, Perform, DoWork, ProviderBegins, slotVars
<1>2. \A u \in Threads \ {t} : Same(u)
  BY OneMoves DEF IInv, Step, Signal, TakeResult, Cancel, Complete, Perform, DoWork, ProviderBegins
<1>3. CASE TakeResult(t)
  <2>1. pc'[t] = "drop" \/ (pc'[t] = "retire" /\ completed[slot[t]] /\ slot'[t] = slot[t])
    BY <1>3, GotoSame DEF TakeResult, IInv
  <2>2. QED
    BY <1>1, <1>2, <2>1, SettledStill DEF Collecting
<1>4. CASE Cancel(t)
  <2>1. \/ pc'[t] = "finish" /\ outcome'[t] = "abort"
        \/ pc'[t] = "retire" /\ completed[slot[t]] /\ slot'[t] = slot[t]
    BY <1>4, GotoSame DEF Cancel, IInv, TypeOK
  <2>2. QED
    BY <1>1, <1>2, <2>1, SettledStill DEF Collecting
<1>5. CASE Complete(t) \/ Perform(t) \/ DoWork(t)
  <2>1. pc'[t] = "drop" \/ (pc'[t] = "finish" /\ outcome'[t] # "pending")
    <3>1. CASE Complete(t)
      BY <3>1 DEF Complete, IInv, TypeOK
    <3>2. CASE Perform(t)
      BY <3>2 DEF Perform, IInv, TypeOK
    <3>3. CASE DoWork(t)
      BY <3>3 DEF DoWork, Goto, IInv, TypeOK
    <3>4. QED
      BY <1>5, <3>1, <3>2, <3>3
  <2>2. QED
    BY <1>1, <1>2, <2>1, SettledStill DEF Collecting
<1>6. CASE ProviderBegins(t)
  <2>1. pc'[t] = "idle" \/ (pc'[t] = "retire" /\ call'[t] = "provide")
    BY <1>6, GotoSame, ReturnSame DEF ProviderBegins, IInv
  <2>2. QED
    BY <1>1, <1>2, <2>1, SettledStill DEF Collecting, Begins
<1>7. QED
  BY <1>3, <1>4, <1>5, <1>6

LEMMA NextSettled ==
  ASSUME IInv, AnnounceInv, SettledInv, [Next]_vars
  PROVE  SettledInv'
<1>1. ASSUME NEW c \in Threads,
             \/ \E a \in Blocks, b \in BeginCalls : Acquire(c, a, b)
             \/ \E a \in Blocks, k \in BlockCalls : LookUp(c, a, k)
             \/ \E r \in Slots, k \in Kinds : RunTask(c, r, k)
      PROVE  SettledInv'
  <2>1. UNCHANGED <<completed, status>>
    BY <1>1 DEF Acquire, LookUp, RunTask, slotVars
  <2>2. pc'[c] \in {"setup", "find", "held"} /\ \A u \in Threads \ {c} : Same(u)
    BY <1>1, CallMoves DEF IInv
  <2>3. QED
    BY <2>1, <2>2, SettledStill DEF Collecting
<1>2. ASSUME NEW t \in Threads, Step(t) PROVE SettledInv'
  <2>1. CASE SetUp(t) \/ Finish(t)
    BY <2>1, SettledSetUp, SettledFinish
  <2>2. CASE Signal(t) \/ Enqueue(t) \/ Refuse(t) \/ Withdraw(t)
    BY <2>2, SettledSubmit
  <2>3. CASE \/ TakeResult(t) \/ Cancel(t) \/ Complete(t) \/ Perform(t) \/ DoWork(t)
             \/ ProviderBegins(t)
    BY <2>3, SettledCall
  <2>4. CASE \/ FillLocal(t) \/ FillProvider(t) \/ Find(t) \/ GetStatus(t) \/ WaitStatus(t)
             \/ Schedule(t) \/ PendingOperation(t) \/ Peek(t) \/ Collect(t) \/ HoldForTask(t)
    <3>1. UNCHANGED <<completed, status>>
      BY <2>4 DEF FillLocal, FillProvider, Find, GetStatus, WaitStatus, Schedule, PendingOperation, Peek,
                  Collect, HoldForTask, slotVars
    <3>2. pc'[t] \in {"submit", "held", "idle", "drop", "asleep", "again", "find", "enqueue"}
      <4>1. CASE FillLocal(t) \/ FillProvider(t) \/ Find(t) \/ GetStatus(t) \/ WaitStatus(t)
        BY <4>1, GotoSame, ReturnSame DEF FillLocal, FillProvider, Find, GetStatus, WaitStatus, IInv
      <4>2. CASE Schedule(t) \/ HoldForTask(t)
        BY <4>2, GotoSame DEF Schedule, HoldForTask, IInv
      <4>3. CASE PendingOperation(t) \/ Peek(t) \/ Collect(t)
        BY <4>3, ReturnSame DEF PendingOperation, Peek, Collect, IInv, TypeOK
      <4>4. QED
        BY <2>4, <4>1, <4>2, <4>3
    <3>3. ~Signal(t)
      BY <2>4 DEF Signal, FillLocal, FillProvider, Find, GetStatus, WaitStatus, Schedule,
            PendingOperation, Peek, Collect, HoldForTask
    <3>4. QED
      BY <1>2, <3>1, <3>2, <3>3, OneMoves, SettledStill DEF Collecting, IInv
  <2>5. CASE Unhold(t) \/ Drop(t) \/ Retire(t) \/ Strip(t) \/ Cleanup(t) \/ Free(t)
                       \/ Announce(t) \/ CallRoutine(t)
    <3>1. UNCHANGED <<completed, status>>
      BY <2>5 DEF Unhold, Drop, Release, Retire, Strip, Cleanup, Free, Announce, CallRoutine, slotVars
    <3>2. pc'[t] \in {"idle", "routine", "drop", "strip", "peek", "unhold", "cleanup", "free"}
      BY <2>5, GotoSame, ReturnSame DEF Unhold, Drop, Release, Retire, Strip, Cleanup, Free,
           Announce, CallRoutine, IInv
    <3>3. ~Signal(t)
      BY <2>5 DEF Signal, Unhold, Drop, Retire, Strip, Cleanup, Free, Announce, CallRoutine
    <3>4. QED
      BY <1>2, <3>1, <3>2, <3>3, OneMoves, SettledStill DEF Collecting, IInv
  <2>6. QED
    BY <1>2, <2>1, <2>2, <2>3, <2>4, <2>5 DEF Step
<1>3. CASE Close \/ UNCHANGED vars
  BY <1>3 DEF Close, vars, slotVars, threadVars, SettledInv, Collecting
<1>4. QED
  BY <1>1, <1>2, <1>3 DEF Next, Threads

\* A step of one thread, which does not leave an operation unfilled.
LEMMA FilledStep ==
  ASSUME FilledInv, NEW c \in Threads, \A u \in Threads \ {c} : Same(u),
         \A r \in Slots : token'[r] # None /\ origin'[token'[r]] = "none" =>
            \/ pc'[c] = "fill" /\ slot'[c] = r
            \/ /\ token'[r] = token[r] /\ origin[token[r]] = "none"
               /\ pc[c] # "fill" \/ slot[c] # r
  PROVE  FilledInv'
<1>1. ASSUME NEW r \in Slots, token'[r] # None, origin'[token'[r]] = "none",
             ~(pc'[c] = "fill" /\ slot'[c] = r)
      PROVE  \E t \in Threads : pc'[t] = "fill" /\ slot'[t] = r
  <2>1. token[r] # None /\ origin[token[r]] = "none" /\ (pc[c] # "fill" \/ slot[c] # r)
    BY <1>1
  <2>2. PICK t \in Threads : pc[t] = "fill" /\ slot[t] = r
    BY <2>1 DEF FilledInv
  <2>3. Same(t)
    BY <2>1, <2>2
  <2>4. QED
    BY <2>2, <2>3 DEF Same
<1>2. QED
  BY <1>1 DEF FilledInv

LEMMA NextFilled ==
  ASSUME IInv, FilledInv, [Next]_vars
  PROVE  FilledInv'
<1>1. ASSUME NEW c \in Threads,
             \/ \E a \in Blocks, b \in BeginCalls : Acquire(c, a, b)
             \/ \E a \in Blocks, k \in BlockCalls : LookUp(c, a, k)
             \/ \E r \in Slots, k \in Kinds : RunTask(c, r, k)
      PROVE  FilledInv'
  <2>1. UNCHANGED <<token, origin>>
    BY <1>1 DEF Acquire, LookUp, RunTask, slotVars, historyVars
  <2>2. pc[c] = "idle" /\ \A u \in Threads \ {c} : Same(u)
    BY <1>1, CallMoves DEF IInv
  <2>3. QED
    BY <2>1, <2>2, FilledStep
<1>2. ASSUME NEW t \in Threads, Step(t) PROVE FilledInv'
  <2>1. CASE SetUp(t)
    <3>1. /\ pc[t] = "setup" /\ pc'[t] = "fill" /\ slot'[t] = slot[t] /\ origin' = origin
          /\ \A u \in Threads \ {t} : Same(u)
      BY <2>1, GotoSame DEF SetUp, IInv, historyVars
    <3>2. \A r \in Slots : r # slot[t] => token'[r] = token[r]
      BY <2>1 DEF SetUp, IInv, TypeOK
    <3>3. QED
      BY <3>1, <3>2, FilledStep
  <2>2. CASE FillLocal(t) \/ FillProvider(t) \/ ProviderBegins(t)
    <3>1. token' = token /\ \A u \in Threads \ {t} : Same(u)
      BY <1>2, <2>2, OneMoves DEF FillLocal, FillProvider, ProviderBegins, IInv, slotVars, Signal
    <3>2. pc[t] \in {"fill", "held"}
      BY <2>2 DEF FillLocal, FillProvider, ProviderBegins
    <3>3. slot[t] \in Slots /\ token[slot[t]] = seen[t] /\ seen[t] # None /\ seen[t] \in Tokens
      BY <3>2, BusySlot DEF Busy, Holding
    <3>4. \A k \in Tokens : origin'[k] = "none" => origin[k] = "none" /\ (pc[t] = "fill" => k # seen[t])
      BY <2>2, <3>3 DEF FillLocal, FillProvider, ProviderBegins, IInv, TypeOK
    <3>5. \A r \in Slots : token[r] # None => token[r] \in Tokens
      BY DEF IInv, TypeOK, Tokens, None
    <3>6. QED
      BY <3>1, <3>3, <3>4, <3>5, FilledStep
  <2>3. CASE Strip(t) \/ Cleanup(t) \/ Free(t)
    <3>1. origin' = origin /\ pc[t] # "fill" /\ \A u \in Threads \ {t} : Same(u)
      BY <1>2, <2>3, OneMoves DEF Strip, Cleanup, Free, IInv, historyVars, Signal
    <3>2. \A r \in Slots : token'[r] # None => token'[r] = token[r]
      BY <2>3 DEF Strip, Cleanup, Free, slotVars, IInv, TypeOK
    <3>3. QED
      BY <3>1, <3>2, FilledStep
  <2>4. CASE Plain(t)
    <3>1. UNCHANGED <<token, origin>> /\ pc[t] # "fill" /\ \A u \in Threads \ {t} : Same(u)
      BY <2>4, PlainKeeps, PlainMoves
    <3>2. QED
      BY <3>1, FilledStep
  <2>5. CASE Signal(t)
    <3>1. UNCHANGED <<token, origin>>
      BY <2>5, PlainKeeps
    <3>2. slot' = slot /\ \A u \in Threads : pc[u] = "fill" => pc'[u] = "fill"
      BY <2>5, SignalMoves DEF Same
    <3>3. QED
      BY <3>1, <3>2 DEF FilledInv
  <2>6. QED
    BY <1>2, <2>1, <2>2, <2>3, <2>4, <2>5 DEF Step, Plain
<1>3. CASE Close \/ UNCHANGED vars
  BY <1>3 DEF Close, vars, slotVars, threadVars, historyVars, FilledInv
<1>4. QED
  BY <1>1, <1>2, <1>3 DEF Next, Threads

LEMMA NextUnlinked ==
  ASSUME IInv, UnlinkedInv, [Next]_vars
  PROVE  UnlinkedInv'
<1>1. ASSUME NEW t \in Threads, SetUp(t) \/ Retire(t) PROVE UnlinkedInv'
  <2>1. slot[t] \in Slots
    BY <1>1, Located DEF SetUp, Retire
  <2>2. CASE SetUp(t)
    <3>1. ~retired'[slot[t]] /\ \A r \in Slots : r # slot[t] => retired'[r] = retired[r] /\ block'[r] = block[r]
      BY <2>1, <2>2 DEF SetUp, IInv, TypeOK
    <3>2. QED
      BY <3>1 DEF UnlinkedInv
  <2>3. CASE Retire(t) /\ ~UNCHANGED <<retired, block>>
    <3>1. /\ block'[slot[t]] = None
          /\ \A r \in Slots : r # slot[t] => retired'[r] = retired[r] /\ block'[r] = block[r]
      BY <2>1, <2>3 DEF Retire, IInv, TypeOK
    <3>2. QED
      BY <3>1 DEF UnlinkedInv
  <2>4. CASE UNCHANGED <<retired, block>>
    BY <2>4 DEF UnlinkedInv
  <2>5. QED
    BY <1>1, <2>2, <2>3, <2>4
<1>2. CASE UNCHANGED <<retired, block>>
  BY <1>2 DEF UnlinkedInv
<1>3. ASSUME NEW t \in Threads, Step(t), ~SetUp(t), ~Retire(t) PROVE UNCHANGED <<retired, block>>
  BY <1>3 DEF Step, FillLocal, FillProvider, ProviderBegins, Find, GetStatus, WaitStatus, TakeResult,
       Cancel, Complete, Schedule, PendingOperation, Peek, Collect, Finish, Signal, HoldForTask,
       Enqueue, Refuse, Withdraw, Unhold, Drop, Release, Strip, Cleanup, Free, Perform, DoWork,
       Announce, CallRoutine, slotVars
<1>4. CASE \/ \E c \in Clients, a \in Blocks, b \in BeginCalls : Acquire(c, a, b)
           \/ \E c \in Clients, a \in Blocks, k \in BlockCalls : LookUp(c, a, k)
           \/ \E w \in Workers, r \in Slots, k \in Kinds : RunTask(w, r, k)
           \/ Close \/ UNCHANGED vars
  BY <1>2, <1>4 DEF Acquire, LookUp, RunTask, Close, vars, slotVars
<1>5. QED
  BY <1>1, <1>2, <1>3, <1>4 DEF Next

-----------------------------------------------------------------------------
(* The operation of a token, as Operation sees it                           *)

\* A call that begins the operation of token k has not returned.
Begun(k) == \E t \in Threads : call[t] \in Begins /\ seen[t] = k

\* The operations of the other tokens stay as they are.
Apart(k) ==
    \A j \in Tokens \ {k} :
        Stage(j)' = Stage(j) /\ Owner(j)' = Owner(j) /\ Verdict(j)' = Verdict(j)

\* A token is in one slot, which is then the one chosen.
LEMMA OneSlot ==
  ASSUME NEW k, NEW tok, NEW r \in Slots, tok[r] = k, \A s \in Slots : tok[s] = k => s = r
  PROVE  (CHOOSE s \in Slots : tok[s] = k) = r
OBVIOUS

\* What becomes of the functions that the operations are seen through.
LEMMA Views ==
  ASSUME NEW k \in Tokens, Apart(k)
  PROVE  /\ [j \in Tokens |-> Stage(j)]' = [[j \in Tokens |-> Stage(j)] EXCEPT ![k] = Stage(k)']
         /\ [j \in Tokens |-> Owner(j)]' = [[j \in Tokens |-> Owner(j)] EXCEPT ![k] = Owner(k)']
         /\ [j \in Tokens |-> Verdict(j)]' = [[j \in Tokens |-> Verdict(j)] EXCEPT ![k] = Verdict(k)']
BY DEF Apart

\* An operation whose stage, owner and verdict stay.
LEMMA Unseen ==
  ASSUME NEW k \in Tokens, Apart(k), Stage(k)' = Stage(k), Owner(k)' = Owner(k),
         Verdict(k)' = Verdict(k), Due' = Due, UNCHANGED historyVars
  PROVE  UNCHANGED Abstract!vars
BY DEF Apart, Abstract!vars, historyVars

LEMMA AsStart ==
  ASSUME NEW k \in Tokens, Apart(k), Due' = Due, NEW a \in Blocks, UNCHANGED historyVars,
         Stage(k) = "unborn", \A j \in Tokens : Owner(j) # a,
         Stage(k)' = "starting", Owner(k)' = a, Verdict(k)' = Verdict(k)
  PROVE  Abstract!Start(k, a)
BY Views DEF Abstract!Start, historyVars

LEMMA AsBegan ==
  ASSUME NEW k \in Tokens, Apart(k), Due' = Due, UNCHANGED historyVars,
         Stage(k) = "starting", origin[k] \in {"local", "provider"},
         Stage(k)' = "open", Owner(k)' = Owner(k), Verdict(k)' = Verdict(k)
  PROVE  Abstract!Began(k)
BY Views DEF Abstract!Began, historyVars

LEMMA AsFill ==
  ASSUME NEW k \in Tokens, Apart(k), Due' = Due, NEW m \in {"local", "provider"},
         Stage(k) = "starting", origin[k] = "none", origin' = [origin EXCEPT ![k] = m],
         Stage(k)' = Stage(k), Owner(k)' = Owner(k), Verdict(k)' = Verdict(k),
         UNCHANGED <<announcements, cleanups>>
  PROVE  Abstract!Fill(k, m)
BY Views DEF Abstract!Fill

LEMMA AsBeginFails ==
  ASSUME NEW k \in Tokens, Apart(k), Due' = Due, Stage(k) = "starting", origin[k] = "provider",
         origin' = [origin EXCEPT ![k] = "failed"], cleanups' = [cleanups EXCEPT ![k] = @ + 1],
         Stage(k)' = Stage(k), Owner(k)' = Owner(k), Verdict(k)' = Verdict(k),
         announcements' = announcements
  PROVE  Abstract!BeginFails(k)
BY Views DEF Abstract!BeginFails

LEMMA AsSettle ==
  ASSUME NEW k \in Tokens, Apart(k), Due' = Due, NEW s, UNCHANGED historyVars,
         Stage(k) \in {"starting", "open", "closed"}, Verdict(k) = "pending", Verdict(k)' = s,
         Stage(k)' = Stage(k), Owner(k)' = Owner(k)
  PROVE  Abstract!Settle(k, s)
BY Views DEF Abstract!Settle, historyVars

LEMMA AsTake ==
  ASSUME NEW k \in Tokens, Apart(k), Stage(k) \in {"starting", "open"}, Owner(k) \in Notified,
         Verdict(k) # "pending", announcements[k] = 0, k \notin Due, Due' = Due \cup {k},
         UNCHANGED historyVars,
         Stage(k)' = Stage(k), Owner(k)' = Owner(k), Verdict(k)' = Verdict(k)
  PROVE  Abstract!Take(k)
BY Views DEF Abstract!Take, historyVars

LEMMA AsTell ==
  ASSUME NEW k \in Tokens, Apart(k), Stage(k) \in {"starting", "open", "closed"}, k \in Due,
         Due' = Due \ {k},
         announcements' = [announcements EXCEPT ![k] = 1], UNCHANGED <<origin, cleanups>>,
         Stage(k)' = Stage(k), Owner(k)' = Owner(k), Verdict(k)' = Verdict(k)
  PROVE  Abstract!Tell(k)
BY Views DEF Abstract!Tell

LEMMA AsClose ==
  ASSUME NEW k \in Tokens, Apart(k), Due' = Due, UNCHANGED historyVars,
         \/ Stage(k) = "starting" /\ origin[k] # "none"
         \/ Stage(k) = "open" /\ Verdict(k) # "pending",
         Stage(k)' = "closed", Owner(k)' = None, Verdict(k)' = Verdict(k)
  PROVE  Abstract!Close(k)
BY Views DEF Abstract!Close, historyVars

LEMMA AsLetGo ==
  ASSUME NEW k \in Tokens, Apart(k), Due' = Due, UNCHANGED historyVars,
         Stage(k) = "closed", k \notin Due, Stage(k)' = "ending", Owner(k)' = Owner(k), Verdict(k)' = Verdict(k)
  PROVE  Abstract!LetGo(k)
BY Views DEF Abstract!LetGo, historyVars

LEMMA AsCleanUp ==
  ASSUME NEW k \in Tokens, Apart(k), Due' = Due, Stage(k) = "ending",
         \/ origin[k] = "provider" /\ cleanups[k] = 0
         \/ origin[k] = "failed" /\ cleanups[k] = 1,
         cleanups' = [cleanups EXCEPT ![k] = @ + 1], UNCHANGED <<announcements, origin>>,
         Stage(k)' = Stage(k), Owner(k)' = Owner(k), Verdict(k)' = Verdict(k)
  PROVE  Abstract!CleanUp(k)
BY Views DEF Abstract!CleanUp

LEMMA AsEnd ==
  ASSUME NEW k \in Tokens, Apart(k), Due' = Due, Stage(k) = "ending",
         \/ origin[k] = "local" /\ cleanups[k] = 0
         \/ origin[k] = "provider" /\ cleanups[k] = 1
         \/ origin[k] = "failed" /\ cleanups[k] = 2,
         UNCHANGED historyVars,
         Stage(k)' = "over", Owner(k)' = Owner(k), Verdict(k)' = "pending"
  PROVE  Abstract!End(k)
BY Views DEF Abstract!End, historyVars

-----------------------------------------------------------------------------
(* What is seen of the operation in a slot                                  *)

LEMMA Live ==
  ASSUME IInv, NEW k \in Tokens, NEW r \in Slots, token[r] = k
  PROVE  /\ Stage(k) = IF holds[r] = 0 THEN "ending" ELSE IF retired[r] THEN "closed"
                       ELSE IF Begun(k) THEN "starting" ELSE "open"
         /\ Owner(k) = IF retired[r] THEN None ELSE block[r]
         /\ Verdict(k) = IF completed[r] THEN status[r] ELSE "pending"
<1>1. k # None /\ \A s \in Slots : token[s] = k => s = r
  BY DEF Tokens, None, IInv, TokenInv
<1>2. Alive(k) /\ SlotOf(k) = r
  BY <1>1, OneSlot DEF Alive, SlotOf
<1>3. QED
  BY <1>2 DEF Stage, Owner, Verdict, Begun

LEMMA LiveNext ==
  ASSUME IInv', NEW k \in Tokens, NEW r \in Slots, token'[r] = k
  PROVE  /\ Stage(k)' = IF holds'[r] = 0 THEN "ending" ELSE IF retired'[r] THEN "closed"
                        ELSE IF Begun(k)' THEN "starting" ELSE "open"
         /\ Owner(k)' = IF retired'[r] THEN None ELSE block'[r]
         /\ Verdict(k)' = IF completed'[r] THEN status'[r] ELSE "pending"
<1>1. k # None /\ \A s \in Slots : token'[s] = k => s = r
  BY DEF Tokens, None, IInv, TokenInv
<1>2. Alive(k)' /\ SlotOf(k)' = r
  BY <1>1, OneSlot DEF Alive, SlotOf
<1>3. QED
  BY <1>2 DEF Stage, Owner, Verdict, Begun

LEMMA Dead ==
  ASSUME NEW k \in Tokens, \A r \in Slots : token[r] # k
  PROVE  /\ Stage(k) = IF origin[k] = "none" THEN "unborn" ELSE "over"
         /\ Owner(k) = None /\ Verdict(k) = "pending"
<1>1. ~Alive(k)
  BY DEF Alive
<1>2. QED
  BY <1>1 DEF Stage, Owner, Verdict

LEMMA DeadNext ==
  ASSUME NEW k \in Tokens, \A r \in Slots : token'[r] # k
  PROVE  /\ Stage(k)' = IF origin'[k] = "none" THEN "unborn" ELSE "over"
         /\ Owner(k)' = None /\ Verdict(k)' = "pending"
<1>1. ~Alive(k)'
  BY DEF Alive
<1>2. QED
  BY <1>1 DEF Stage, Owner, Verdict

\* A step that changes one slot, and there the operation of token k.
LEMMA OneSlotSeen ==
  ASSUME IInv, IInv', NEW s \in Slots, NEW k \in Tokens,
         token[s] \in {k, None}, token'[s] \in {k, None},
         \A r \in Slots : r # s => /\ token'[r] = token[r] /\ holds'[r] = holds[r]
                                   /\ retired'[r] = retired[r] /\ block'[r] = block[r]
                                   /\ completed'[r] = completed[r] /\ status'[r] = status[r],
         \A j \in Tokens : j # k => origin'[j] = origin[j] /\ (Begun(j)' <=> Begun(j))
  PROVE  Apart(k)
<1>1. ASSUME NEW j \in Tokens, j # k, NEW r \in Slots, token[r] = j
      PROVE  Stage(j)' = Stage(j) /\ Owner(j)' = Owner(j) /\ Verdict(j)' = Verdict(j)
  <2>1. j # None /\ r # s
    BY <1>1 DEF Tokens, None
  <2>2. token'[r] = j
    BY <1>1, <2>1
  <2>3. Begun(j)' <=> Begun(j)
    BY <1>1
  <2>4. /\ Stage(j) = IF holds[r] = 0 THEN "ending" ELSE IF retired[r] THEN "closed"
                      ELSE IF Begun(j) THEN "starting" ELSE "open"
        /\ Owner(j) = IF retired[r] THEN None ELSE block[r]
        /\ Verdict(j) = IF completed[r] THEN status[r] ELSE "pending"
    BY <1>1, Live
  <2>5. /\ Stage(j)' = IF holds'[r] = 0 THEN "ending" ELSE IF retired'[r] THEN "closed"
                       ELSE IF Begun(j)' THEN "starting" ELSE "open"
        /\ Owner(j)' = IF retired'[r] THEN None ELSE block'[r]
        /\ Verdict(j)' = IF completed'[r] THEN status'[r] ELSE "pending"
    BY <2>2, LiveNext
  <2>6. QED
    BY <2>1, <2>3, <2>4, <2>5
<1>2. ASSUME NEW j \in Tokens, j # k, \A r \in Slots : token[r] # j
      PROVE  Stage(j)' = Stage(j) /\ Owner(j)' = Owner(j) /\ Verdict(j)' = Verdict(j)
  <2>1. \A r \in Slots : token'[r] # j
    BY <1>2 DEF Tokens, None
  <2>2. QED
    BY <1>2, <2>1, Dead, DeadNext
<1>3. QED
  BY <1>1, <1>2 DEF Apart

\* A step that nobody sees: no operation is settled, retired, let go of or freed, and no
\* call that begins one comes or goes while that matters.
LEMMA QuietSeen ==
  ASSUME IInv, Due' = Due, UNCHANGED <<token, completed, status, retired, block, historyVars>>,
         \A r \in Slots : token[r] # None => (holds'[r] = 0 <=> holds[r] = 0),
         \A j \in Tokens : (Begun(j)' <=> Begun(j)) \/ \A r \in Slots : token[r] = j => retired[r]
  PROVE  UNCHANGED Abstract!vars
<1>1. ASSUME NEW j \in Tokens
      PROVE  Stage(j)' = Stage(j) /\ Owner(j)' = Owner(j) /\ Verdict(j)' = Verdict(j)
  <2>1. (Alive(j)' <=> Alive(j)) /\ SlotOf(j)' = SlotOf(j) /\ origin' = origin
    BY DEF Alive, SlotOf, historyVars
  <2>2. CASE ~Alive(j)
    BY <2>1, <2>2 DEF Stage, Owner, Verdict
  <2>3. CASE Alive(j)
    <3> DEFINE r == SlotOf(j)
    <3>1. r \in Slots /\ token[r] = j
      BY <2>3 DEF Alive, SlotOf
    <3>2. j # None /\ (holds'[r] = 0 <=> holds[r] = 0) /\ ((Begun(j)' <=> Begun(j)) \/ retired[r])
      BY <3>1 DEF Tokens, None
    <3> HIDE DEF r
    <3>3. Stage(j)' = Stage(j)
      BY <2>1, <2>3, <3>1, <3>2 DEF Stage, Begun, r
    <3>4. QED
      BY <2>1, <2>3, <3>3 DEF Owner, Verdict
  <2>4. QED
    BY <2>2, <2>3
<1>2. QED
  BY <1>1 DEF Abstract!vars, historyVars

\* The calls that begin operations, when one thread moves.
LEMMA BegunSame ==
  ASSUME NEW t \in Threads, \A u \in Threads \ {t} : Same(u),
         \/ call'[t] = call[t] /\ seen'[t] = seen[t]
         \/ call[t] \notin Begins /\ call'[t] \notin Begins
  PROVE  \A j \in Tokens : Begun(j)' <=> Begun(j)
<1>1. \A u \in Threads : call'[u] \in Begins <=> call[u] \in Begins
  BY DEF Same
<1>2. \A u \in Threads : call[u] \in Begins => seen'[u] = seen[u]
  BY DEF Same
<1>3. QED
  BY <1>1, <1>2 DEF Begun

LEMMA BegunApart ==
  ASSUME NEW t \in Threads, NEW k, \A u \in Threads \ {t} : Same(u),
         call[t] \in Begins => seen[t] = k, call'[t] \in Begins => seen'[t] = k
  PROVE  \A j \in Tokens : j # k => (Begun(j)' <=> Begun(j))
BY DEF Begun, Same

\* The operation of a call that begins it is starting, and stays so until that call returns.
LEMMA BeginnerSees ==
  ASSUME IInv, NEW c \in Threads, call[c] \in Begins,
         pc[c] \in {"fill", "held", "submit", "enqueue", "withdraw", "retire"}
  PROVE  /\ slot[c] \in Slots /\ seen[c] \in Tokens /\ token[slot[c]] = seen[c] /\ seen[c] # None
         /\ holds[slot[c]] # 0 /\ ~retired[slot[c]]
         /\ \A u \in Threads \ {c} : call[u] \in Begins => seen[u] # seen[c]
<1>1. pc[c] \in Busy \ Disposing /\ pc[c] # "idle"
  BY DEF Busy, Holding, Disposing
<1>2. slot[c] \in Slots /\ seen[c] \in Tokens /\ token[slot[c]] = seen[c] /\ seen[c] # None
  BY <1>1, BusySlot
<1>3. holds[slot[c]] # 0 /\ ~retired[slot[c]]
  BY <1>1, Shared DEF IInv, BeginInv
<1>4. \A u \in Threads \ {c} : call[u] \in Begins => seen[u] # seen[c]
  BY DEF IInv, BeginInv, Begins, Provider, Kinds
<1>5. QED
  BY <1>2, <1>3, <1>4

-----------------------------------------------------------------------------
(* Every step is a step of an operation, or unseen                          *)

LEMMA SeenSetUp ==
  ASSUME IInv, Due' = Due, IInv', CallsInv, NEW c \in Threads, SetUp(c)
  PROVE  \E k \in Tokens, a \in Blocks : Abstract!Start(k, a)
<1>1. /\ pc[c] = "setup" /\ call[c] \in Begins /\ UNCHANGED <<historyVars, call, seen, slot>>
      /\ \A u \in Threads \ {c} : Same(u)
  BY GotoSame DEF SetUp, IInv, ThreadInv
<1>2. slot[c] \in Slots /\ seen[c] \in Tokens /\ arg[c] \in Blocks
  BY <1>1, Located DEF IInv, ThreadInv
<1>3. PICK k \in Tokens : k = seen[c]
  BY <1>2
<1>4. PICK s \in Slots : s = slot[c]
  BY <1>2
<1>5. PICK a \in Blocks : a = arg[c]
  BY <1>2
<1>6. /\ token[s] = None /\ internal[a] = Unnamed /\ (\A r \in Slots : token[r] # k)
      /\ origin[k] = "none"
  BY <1>1, <1>3, <1>4, <1>5 DEF IInv, SetUpInv, CallsInv, OriginInv, Starting
<1>7. /\ token'[s] = k /\ holds'[s] = 1 /\ ~retired'[s] /\ block'[s] = a /\ ~completed'[s]
      /\ \A r \in Slots : r # s => /\ token'[r] = token[r] /\ holds'[r] = holds[r]
                                   /\ retired'[r] = retired[r] /\ block'[r] = block[r]
                                   /\ completed'[r] = completed[r] /\ status'[r] = status[r]
  BY <1>3, <1>4, <1>5 DEF SetUp, IInv, TypeOK
<1>8. Begun(k)' /\ \A j \in Tokens : j # k => (Begun(j)' <=> Begun(j))
  <2>1. Begun(k)'
    BY <1>1, <1>3 DEF Begun
  <2>2. \A j \in Tokens : Begun(j)' <=> Begun(j)
    BY <1>1, BegunSame
  <2>3. QED
    BY <2>1, <2>2
<1>9. origin' = origin
  BY <1>1 DEF historyVars
<1>10. Apart(k)
  BY <1>6, <1>7, <1>8, <1>9, OneSlotSeen
<1>11. Stage(k) = "unborn" /\ Verdict(k) = "pending"
  BY <1>6, Dead
<1>12. Stage(k)' = "starting" /\ Owner(k)' = a /\ Verdict(k)' = "pending"
  BY <1>7, <1>8, LiveNext
<1>13. ASSUME NEW j \in Tokens PROVE Owner(j) # a
  <2>1. a # None
    BY AsyncConstants
  <2>2. CASE \A r \in Slots : token[r] # j
    BY <2>1, <2>2, Dead
  <2>3. ASSUME NEW r \in Slots, token[r] = j PROVE Owner(j) # a
    <3>1. Owner(j) = IF retired[r] THEN None ELSE block[r]
      BY <2>3, Live
    <3>2. ~retired[r] => internal[block[r]] = [slot |-> r, token |-> token[r]]
      BY <2>3 DEF IInv, BlockInv, Tokens, None
    <3>3. [slot |-> r, token |-> token[r]] # Unnamed
      BY DEF Unnamed, Slots, None
    <3>4. QED
      BY <1>6, <2>1, <3>1, <3>2, <3>3
  <2>4. QED
    BY <2>2, <2>3
<1>14. Abstract!Start(k, a)
  BY <1>1, <1>10, <1>11, <1>12, <1>13, AsStart
<1>15. QED
  BY <1>14

\* A step of the call that begins an operation, on its slot: the others are as they were.
LEMMA BeginnerApart ==
  ASSUME IInv, IInv', NEW c \in Threads, call[c] \in Begins,
         pc[c] \in {"fill", "held", "submit", "enqueue", "withdraw", "retire"},
         NEW k \in Tokens, k = seen[c], NEW s \in Slots, s = slot[c],
         UNCHANGED <<token, holds, retired, block, completed, status>>,
         \A j \in Tokens : j # k => origin'[j] = origin[j],
         \A u \in Threads \ {c} : Same(u),
         call'[c] \in Begins => seen'[c] = k
  PROVE  /\ Apart(k) /\ Stage(k) = "starting"
         /\ Stage(k)' = (IF call'[c] \in Begins THEN "starting" ELSE "open")
         /\ Owner(k)' = Owner(k) /\ Verdict(k)' = Verdict(k)
<1>1. /\ token[s] = k /\ k # None /\ holds[s] # 0 /\ ~retired[s]
      /\ \A u \in Threads \ {c} : call[u] \in Begins => seen[u] # k
  BY BeginnerSees
<1>2. \A j \in Tokens : j # k => (Begun(j)' <=> Begun(j))
  BY BegunApart
<1>3. Apart(k)
  BY <1>1, <1>2, OneSlotSeen
<1>4. Begun(k)
  BY DEF Begun
<1>5. Begun(k)' <=> call'[c] \in Begins
  <2>1. \A u \in Threads \ {c} : ~(call'[u] \in Begins /\ seen'[u] = k)
    BY <1>1 DEF Same
  <2>2. QED
    BY <2>1 DEF Begun
<1>6. Stage(k) = "starting"
  BY <1>1, <1>4, Live
<1>7. Stage(k)' = IF call'[c] \in Begins THEN "starting" ELSE "open"
  BY <1>1, <1>5, LiveNext
<1>8. Owner(k)' = Owner(k) /\ Verdict(k)' = Verdict(k)
  <2>1. /\ Owner(k) = IF retired[s] THEN None ELSE block[s]
        /\ Verdict(k) = IF completed[s] THEN status[s] ELSE "pending"
    BY <1>1, Live
  <2>2. /\ Owner(k)' = IF retired'[s] THEN None ELSE block'[s]
        /\ Verdict(k)' = IF completed'[s] THEN status'[s] ELSE "pending"
    BY <1>1, LiveNext
  <2>3. QED
    BY <2>1, <2>2
<1>9. QED
  BY <1>3, <1>6, <1>7, <1>8

LEMMA SeenFill ==
  ASSUME IInv, Due' = Due, IInv', CallsInv, NEW c \in Threads, FillLocal(c) \/ FillProvider(c)
  PROVE  \E k \in Tokens, m \in {"local", "provider"} : Abstract!Fill(k, m)
<1>1. /\ pc[c] = "fill" /\ call[c] \in Begins
      /\ UNCHANGED <<token, holds, retired, block, completed, status, announcements, cleanups, call, seen>>
      /\ \A u \in Threads \ {c} : Same(u)
  BY GotoSame DEF FillLocal, FillProvider, IInv, Begins
<1>2. slot[c] \in Slots /\ seen[c] \in Tokens
  BY <1>1, Located
<1>3. PICK k \in Tokens : k = seen[c]
  BY <1>2
<1>4. PICK s \in Slots : s = slot[c]
  BY <1>2
<1>5. PICK m \in {"local", "provider"} : origin' = [origin EXCEPT ![k] = m]
  BY <1>3 DEF FillLocal, FillProvider
<1>6. \A j \in Tokens : j # k => origin'[j] = origin[j]
  BY <1>5 DEF IInv, TypeOK
<1>7. origin[k] = "none"
  BY <1>1, <1>3 DEF CallsInv, OriginInv, Starting
<1>8. /\ Apart(k) /\ Stage(k) = "starting"
      /\ Stage(k)' = (IF call'[c] \in Begins THEN "starting" ELSE "open")
      /\ Owner(k)' = Owner(k) /\ Verdict(k)' = Verdict(k)
  BY <1>1, <1>3, <1>4, <1>6, BeginnerApart
<1>9. Abstract!Fill(k, m)
  BY <1>1, <1>5, <1>7, <1>8, AsFill
<1>10. QED
  BY <1>9

LEMMA SeenProviderBegins ==
  ASSUME IInv, Due' = Due, IInv', CallsInv, NEW c \in Threads, ProviderBegins(c)
  PROVE  \E k \in Tokens : Abstract!Began(k) \/ Abstract!BeginFails(k)
<1>1. /\ pc[c] = "held" /\ call[c] = "provide" /\ call[c] \in Begins
      /\ UNCHANGED <<token, holds, retired, block, completed, status, announcements>>
  BY DEF ProviderBegins, slotVars, Begins
<1>2. slot[c] \in Slots /\ seen[c] \in Tokens
  BY <1>1, Located
<1>3. PICK k \in Tokens : k = seen[c]
  BY <1>2
<1>4. PICK s \in Slots : s = slot[c]
  BY <1>2
<1>5. origin[k] = "provider"
  BY <1>1, <1>3 DEF CallsInv, OriginInv, Starting
<1>6. CASE Return(c) /\ UNCHANGED <<origin, cleanups>>
  <2>1. call'[c] \notin Begins /\ \A u \in Threads \ {c} : Same(u)
    BY <1>6, ReturnSame DEF IInv, Begins
  <2>2. /\ Apart(k) /\ Stage(k) = "starting"
        /\ Stage(k)' = (IF call'[c] \in Begins THEN "starting" ELSE "open")
        /\ Owner(k)' = Owner(k) /\ Verdict(k)' = Verdict(k)
    BY <1>1, <1>3, <1>4, <1>6, <2>1, BeginnerApart
  <2>3. Abstract!Began(k)
    BY <1>1, <1>5, <1>6, <2>1, <2>2, AsBegan DEF historyVars
  <2>4. QED
    BY <2>3
<1>7. CASE /\ origin' = [origin EXCEPT ![seen[c]] = "failed"]
           /\ cleanups' = [cleanups EXCEPT ![seen[c]] = @ + 1]
           /\ Goto(c, "retire")
  <2>1. UNCHANGED <<call, seen>> /\ \A u \in Threads \ {c} : Same(u)
    BY <1>7, GotoSame DEF IInv
  <2>2. \A j \in Tokens : j # k => origin'[j] = origin[j]
    BY <1>3, <1>7 DEF IInv, TypeOK
  <2>3. /\ Apart(k) /\ Stage(k) = "starting"
        /\ Stage(k)' = (IF call'[c] \in Begins THEN "starting" ELSE "open")
        /\ Owner(k)' = Owner(k) /\ Verdict(k)' = Verdict(k)
    BY <1>1, <1>3, <1>4, <2>1, <2>2, BeginnerApart
  <2>4. Abstract!BeginFails(k)
    BY <1>1, <1>3, <1>5, <1>7, <2>1, <2>3, AsBeginFails
  <2>5. QED
    BY <2>4
<1>8. QED
  BY <1>6, <1>7 DEF ProviderBegins

\* begin returns when the port has taken its work; other submitters are not seen.
LEMMA SeenEnqueue ==
  ASSUME IInv, Due' = Due, IInv', CallsInv, NEW t \in Threads, Enqueue(t)
  PROVE  UNCHANGED Abstract!vars \/ \E k \in Tokens : Abstract!Began(k)
<1>1. /\ pc[t] = "enqueue" /\ UNCHANGED <<token, holds, retired, block, completed, status, historyVars>>
  BY DEF Enqueue, slotVars
<1>2. slot[t] \in Slots /\ seen[t] \in Tokens
  BY <1>1, Located
<1>3. CASE call[t] = "begin"
  <2>1. call[t] \in Begins /\ call'[t] \notin Begins /\ \A u \in Threads \ {t} : Same(u)
    BY <1>3, ReturnSame DEF Enqueue, IInv, Begins
  <2>2. PICK k \in Tokens : k = seen[t]
    BY <1>2
  <2>3. PICK s \in Slots : s = slot[t]
    BY <1>2
  <2>4. origin' = origin
    BY <1>1 DEF historyVars
  <2>5. /\ Apart(k) /\ Stage(k) = "starting"
        /\ Stage(k)' = (IF call'[t] \in Begins THEN "starting" ELSE "open")
        /\ Owner(k)' = Owner(k) /\ Verdict(k)' = Verdict(k)
    BY <1>1, <2>1, <2>2, <2>3, <2>4, BeginnerApart
  <2>6. origin[k] = "local"
    <3>1. local[s] /\ token[s] = k /\ k # None
      BY <1>1, <1>3, <2>1, <2>2, <2>3, BeginnerSees DEF IInv, ContentInv
    <3>2. QED
      BY <3>1 DEF CallsInv, OriginInv
  <2>7. Abstract!Began(k)
    BY <1>1, <2>1, <2>5, <2>6, AsBegan
  <2>8. QED
    BY <2>7
<1>4. CASE call[t] # "begin"
  <2>1. UNCHANGED <<call, seen>> /\ \A u \in Threads \ {t} : Same(u)
    BY <1>4, GotoSame DEF Enqueue, IInv
  <2>2. \A j \in Tokens : Begun(j)' <=> Begun(j)
    BY <2>1, BegunSame
  <2>3. QED
    BY <1>1, <2>2, QuietSeen
<1>5. QED
  BY <1>3, <1>4

LEMMA SeenFinish ==
  ASSUME IInv, Due' = Due, IInv', SettledInv, NEW t \in Threads, Finish(t)
  PROVE  UNCHANGED Abstract!vars \/ \E k \in Tokens, v \in {"ok", "fail", "abort"} : Abstract!Settle(k, v)
<1>1. /\ pc[t] = "finish" /\ UNCHANGED <<token, holds, retired, block, historyVars, call, seen>>
      /\ \A u \in Threads \ {t} : Same(u)
  BY OneMoves DEF Finish, IInv, Step, Signal, Goto
<1>2. /\ slot[t] \in Slots /\ seen[t] \in Tokens /\ token[slot[t]] = seen[t] /\ seen[t] # None
      /\ holds[slot[t]] # 0
  BY <1>1, BusySlot, Shared DEF Busy, Holding, Disposing
<1>3. \A j \in Tokens : Begun(j)' <=> Begun(j)
  BY <1>1, BegunSame
<1>4. CASE completed[slot[t]]
  <2>1. UNCHANGED <<completed, status>>
    BY <1>4 DEF Finish
  <2>2. QED
    BY <1>1, <1>3, <2>1, QuietSeen
<1>5. CASE ~completed[slot[t]]
  <2>1. PICK k \in Tokens : k = seen[t]
    BY <1>2
  <2>2. PICK s \in Slots : s = slot[t]
    BY <1>2
  <2>3. PICK v \in {"ok", "fail", "abort"} : v = outcome[t]
    BY <1>1 DEF SettledInv, IInv, TypeOK, Statuses
  <2>4. /\ completed'[s] /\ status'[s] = v
        /\ \A r \in Slots : r # s => completed'[r] = completed[r] /\ status'[r] = status[r]
    BY <1>5, <2>2, <2>3 DEF Finish, IInv, TypeOK
  <2>5. token[s] = k /\ token' = token /\ holds' = holds /\ holds[s] # 0 /\ origin' = origin /\ ~completed[s]
    BY <1>1, <1>2, <1>5, <2>1, <2>2 DEF historyVars
  <2>6. Apart(k)
    BY <1>1, <1>3, <2>4, <2>5, OneSlotSeen
  <2>7. /\ Stage(k) = IF holds[s] = 0 THEN "ending" ELSE IF retired[s] THEN "closed"
                      ELSE IF Begun(k) THEN "starting" ELSE "open"
        /\ Owner(k) = IF retired[s] THEN None ELSE block[s]
        /\ Verdict(k) = IF completed[s] THEN status[s] ELSE "pending"
    BY <2>5, Live
  <2>8. /\ Stage(k)' = IF holds'[s] = 0 THEN "ending" ELSE IF retired'[s] THEN "closed"
                       ELSE IF Begun(k)' THEN "starting" ELSE "open"
        /\ Owner(k)' = IF retired'[s] THEN None ELSE block'[s]
        /\ Verdict(k)' = IF completed'[s] THEN status'[s] ELSE "pending"
    BY <2>5, LiveNext
  <2>9. Stage(k) \in {"starting", "open", "closed"} /\ Stage(k)' = Stage(k) /\ Owner(k)' = Owner(k)
    BY <1>1, <1>3, <2>5, <2>7, <2>8
  <2>10. Verdict(k) = "pending" /\ Verdict(k)' = v
    BY <2>4, <2>5, <2>7, <2>8
  <2>11. Abstract!Settle(k, v)
    BY <1>1, <2>6, <2>9, <2>10, AsSettle
  <2>12. QED
    BY <2>11
<1>6. QED
  BY <1>4, <1>5

\* A thread that calls a completion routine is the announcer of its operation.
LEMMA CallerKnown ==
  ASSUME IInv, CallsInv, NEW w \in Threads, Announcer(w), NEW u \in Threads, pc[u] = "routine",
         seen[u] = seen[w]
  PROVE  u = w
<1>1. Announcer(u)
  BY DEF Announcer
<1>2. /\ slot[w] \in Slots /\ token[slot[w]] = seen[w] /\ seen[w] # None
      /\ slot[u] \in Slots /\ token[slot[u]] = seen[u]
  BY <1>1, AnnouncerFinds
<1>3. slot[u] = slot[w]
  BY <1>2 DEF IInv, TokenInv
<1>4. QED
  BY <1>1, <1>3 DEF CallsInv, AnnounceInv

\* A step of an announcer that leaves the slots alone: stage, owner and verdict stay.
LEMMA AnnouncerSees ==
  ASSUME IInv, IInv', NEW w \in Threads, Announcer(w), NEW k \in Tokens, k = seen[w],
         NEW s \in Slots, s = slot[w],
         UNCHANGED <<token, holds, retired, block, completed, status, origin, call, seen>>,
         \A u \in Threads \ {w} : Same(u)
  PROVE  /\ Apart(k) /\ token[s] = k
         /\ Stage(k)' = Stage(k) /\ Owner(k)' = Owner(k) /\ Verdict(k)' = Verdict(k)
         /\ Stage(k) = IF retired[s] THEN "closed" ELSE IF Begun(k) THEN "starting" ELSE "open"
         /\ Owner(k) = IF retired[s] THEN None ELSE block[s]
         /\ Verdict(k) = IF completed[s] THEN status[s] ELSE "pending"
<1>1. token[s] = k /\ token' = token
  BY AnnouncerFinds
<1>2. holds[s] # 0
  BY Shared DEF Announcer, Busy, Holding, Disposing
<1>3. \A j \in Tokens : Begun(j)' <=> Begun(j)
  BY BegunSame
<1>4. Apart(k)
  BY <1>1, <1>3, OneSlotSeen
<1>5. /\ Stage(k) = IF holds[s] = 0 THEN "ending" ELSE IF retired[s] THEN "closed"
                    ELSE IF Begun(k) THEN "starting" ELSE "open"
      /\ Owner(k) = IF retired[s] THEN None ELSE block[s]
      /\ Verdict(k) = IF completed[s] THEN status[s] ELSE "pending"
  BY <1>1, Live
<1>6. /\ Stage(k)' = IF holds'[s] = 0 THEN "ending" ELSE IF retired'[s] THEN "closed"
                     ELSE IF Begun(k)' THEN "starting" ELSE "open"
      /\ Owner(k)' = IF retired'[s] THEN None ELSE block'[s]
      /\ Verdict(k)' = IF completed'[s] THEN status'[s] ELSE "pending"
  BY <1>1, LiveNext
<1>7. Stage(k)' = Stage(k) /\ Owner(k)' = Owner(k) /\ Verdict(k)' = Verdict(k)
  BY <1>3, <1>5, <1>6
<1>8. QED
  BY <1>1, <1>2, <1>4, <1>5, <1>7

LEMMA SeenAnnounce ==
  ASSUME IInv, IInv', CallsInv, SettledInv, UnlinkedInv, NEW w \in Threads, Announce(w)
  PROVE  UNCHANGED Abstract!vars \/ \E k \in Tokens : Abstract!Take(k)
<1>1. /\ pc[w] = "held" /\ call[w] = "announce" /\ Announcer(w)
      /\ UNCHANGED <<token, holds, retired, block, completed, status, historyVars, call, seen>>
      /\ origin' = origin /\ \A u \in Threads \ {w} : Same(u)
  BY GotoSame DEF Announce, IInv, slotVars, historyVars, Announcer
<1>2. PICK k \in Tokens : k = seen[w]
  BY <1>1, AnnouncerFinds
<1>3. PICK s \in Slots : s = slot[w]
  BY <1>1, AnnouncerFinds
<1>4. \A u \in Threads \ {w} : pc'[u] = pc[u] /\ seen'[u] = seen[u]
  BY <1>1 DEF Same
<1>5. CASE block[s] \notin Notified
  <2>1. pc'[w] = "drop"
    BY <1>3, <1>5, GotoSame DEF Announce, IInv
  <2>2. Due' = Due
    BY <1>1, <1>4, <2>1 DEF Due
  <2>3. \A j \in Tokens : Begun(j)' <=> Begun(j)
    BY <1>1, BegunSame
  <2>4. QED
    BY <1>1, <2>2, <2>3, QuietSeen
<1>6. CASE block[s] \in Notified
  <2>1. completed[s] /\ announcements[k] = 0 /\ status[s] # "pending"
    BY <1>1, <1>2, <1>3 DEF CallsInv, AnnounceInv, SettledInv
  <2>2. ~retired[s]
    BY <1>6, AsyncConstants DEF UnlinkedInv
  <2>3. k \notin Due
    BY <1>1, <1>2, CallerKnown DEF Due
  <2>4. pc'[w] = "routine"
    BY <1>3, <1>6, GotoSame DEF Announce, IInv
  <2>5. Due' = Due \cup {k}
    BY <1>1, <1>2, <1>4, <2>4 DEF Due
  <2>6. /\ Apart(k)
        /\ Stage(k)' = Stage(k) /\ Owner(k)' = Owner(k) /\ Verdict(k)' = Verdict(k)
        /\ Stage(k) \in {"starting", "open"} /\ Owner(k) = block[s] /\ Verdict(k) = status[s]
    BY <1>1, <1>2, <1>3, <2>1, <2>2, AnnouncerSees
  <2>7. Abstract!Take(k)
    BY <1>1, <1>6, <2>1, <2>3, <2>5, <2>6, AsTake
  <2>8. QED
    BY <2>7
<1>7. QED
  BY <1>5, <1>6

LEMMA SeenCallRoutine ==
  ASSUME IInv, IInv', CallsInv, NEW w \in Threads, CallRoutine(w)
  PROVE  \E k \in Tokens : Abstract!Tell(k)
<1>1. /\ pc[w] = "routine" /\ Announcer(w) /\ pc'[w] = "drop"
      /\ UNCHANGED <<token, holds, retired, block, completed, status, origin, cleanups, call, seen>>
      /\ \A u \in Threads \ {w} : Same(u)
  BY GotoSame DEF CallRoutine, IInv, slotVars, Announcer
<1>2. PICK k \in Tokens : k = seen[w]
  BY <1>1, AnnouncerFinds
<1>3. PICK s \in Slots : s = slot[w]
  BY <1>1, AnnouncerFinds
<1>4. /\ Apart(k) /\ token[s] = k
      /\ Stage(k)' = Stage(k) /\ Owner(k)' = Owner(k) /\ Verdict(k)' = Verdict(k)
      /\ Stage(k) \in {"starting", "open", "closed"}
  BY <1>1, <1>2, <1>3, AnnouncerSees
<1>5. announcements' = [announcements EXCEPT ![k] = 1]
  <2>1. announcements[k] = 0 /\ announcements \in [Tokens -> Nat]
    BY <1>1, <1>2 DEF CallsInv, AnnounceInv, IInv, TypeOK
  <2>2. announcements' = [j \in Tokens |-> IF j = k THEN 1 ELSE announcements[j]]
    BY <1>3, <1>4, <2>1 DEF CallRoutine
  <2>3. QED
    BY <2>1, <2>2
<1>6. k \in Due /\ Due' = Due \ {k}
  <2>1. \A u \in Threads \ {w} : pc'[u] = pc[u] /\ seen'[u] = seen[u]
    BY <1>1 DEF Same
  <2>2. \A u \in Threads \ {w} : pc[u] = "routine" => seen[u] # k
    BY <1>1, <1>2, CallerKnown
  <2>3. \A u \in Threads : pc'[u] = "routine" <=> pc[u] = "routine" /\ u # w
    BY <1>1, <2>1
  <2>4. QED
    BY <1>1, <1>2, <2>2, <2>3 DEF Due
<1>7. Abstract!Tell(k)
  BY <1>1, <1>4, <1>5, <1>6, AsTell
<1>8. QED
  BY <1>7

LEMMA SeenRetire ==
  ASSUME IInv, Due' = Due, IInv', SettledInv, FilledInv, NEW t \in Threads, Retire(t)
  PROVE  UNCHANGED Abstract!vars \/ \E k \in Tokens : Abstract!Close(k)
<1>1. pc[t] = "retire" /\ UNCHANGED <<token, holds, completed, status, historyVars>>
  BY DEF Retire
<1>2. /\ slot[t] \in Slots /\ seen[t] \in Tokens /\ token[slot[t]] = seen[t] /\ seen[t] # None
      /\ holds[slot[t]] # 0
  BY <1>1, BusySlot, Shared DEF Busy, Holding, Disposing
<1>3. CASE retired[slot[t]]
  <2>1. call[t] \notin Begins
    BY <1>1, <1>3 DEF IInv, BeginInv
  <2>2. UNCHANGED <<retired, block, call, seen>> /\ \A u \in Threads \ {t} : Same(u)
    BY <1>3, <2>1, GotoSame DEF Retire, IInv
  <2>3. \A j \in Tokens : Begun(j)' <=> Begun(j)
    BY <2>2, BegunSame
  <2>4. QED
    BY <1>1, <2>2, <2>3, QuietSeen
<1>4. CASE ~retired[slot[t]]
  <2>1. PICK k \in Tokens : k = seen[t]
    BY <1>2
  <2>2. PICK s \in Slots : s = slot[t]
    BY <1>2
  <2>3. UNCHANGED <<call, seen>> /\ \A u \in Threads \ {t} : Same(u)
    BY <1>4, GotoSame DEF Retire, IInv
  <2>4. /\ retired'[s]
        /\ \A r \in Slots : r # s => retired'[r] = retired[r] /\ block'[r] = block[r]
    BY <1>4, <2>2 DEF Retire, IInv, TypeOK
  <2>5. \A j \in Tokens : Begun(j)' <=> Begun(j)
    BY <2>3, BegunSame
  <2>6. /\ token[s] = k /\ token' = token /\ holds' = holds /\ holds[s] # 0 /\ ~retired[s]
        /\ origin' = origin
    BY <1>1, <1>2, <1>4, <2>1, <2>2 DEF historyVars
  <2>7. Apart(k)
    BY <1>1, <2>4, <2>5, <2>6, OneSlotSeen
  <2>8. /\ Stage(k) = IF Begun(k) THEN "starting" ELSE "open"
        /\ Verdict(k) = IF completed[s] THEN status[s] ELSE "pending"
    BY <2>6, Live
  <2>9. /\ Stage(k)' = "closed" /\ Owner(k)' = None
        /\ Verdict(k)' = IF completed'[s] THEN status'[s] ELSE "pending"
    BY <2>4, <2>6, LiveNext
  <2>10. Verdict(k)' = Verdict(k)
    BY <1>1, <2>8, <2>9
  <2>11. \/ Stage(k) = "starting" /\ origin[k] # "none"
         \/ Stage(k) = "open" /\ Verdict(k) # "pending"
    <3>1. CASE call[t] \in Begins
      <4>1. Begun(k)
        BY <2>1, <3>1 DEF Begun
      <4>2. ASSUME origin[k] = "none" PROVE FALSE
        <5>1. PICK u \in Threads : pc[u] = "fill" /\ slot[u] = s
          BY <1>2, <2>1, <2>2, <4>2 DEF FilledInv
        <5>2. call[u] \in Begins /\ seen[u] = seen[t] /\ u # t
          BY <1>1, <1>2, <2>2, <5>1 DEF IInv, ThreadInv, BusyInv, Busy
        <5>3. QED
          BY <1>1, <3>1, <5>2, BeginnerSees
      <4>3. QED
        BY <2>8, <4>1, <4>2
    <3>2. CASE call[t] \notin Begins
      <4>1. completed[s] /\ status[s] # "pending"
        BY <1>1, <2>2, <3>2 DEF SettledInv, Collecting
      <4>2. call[t] \notin Provider \cup Kinds
        BY <1>1, <3>2 DEF IInv, ThreadInv, Provider, Kinds
      <4>3. ~Begun(k)
        BY <2>1, <3>2, <4>2 DEF Begun, IInv, BeginInv
      <4>4. QED
        BY <2>8, <4>1, <4>3
    <3>3. QED
      BY <3>1, <3>2
  <2>12. Abstract!Close(k)
    BY <1>1, <2>7, <2>9, <2>10, <2>11, AsClose
  <2>13. QED
    BY <2>12
<1>5. QED
  BY <1>3, <1>4

\* Who drops the last hold finds the operation retired.
LEMMA LastHold ==
  ASSUME IInv, NEW t \in Threads, pc[t] \in {"withdraw", "unhold", "drop"}, holds[slot[t]] = 1
  PROVE  retired[slot[t]]
<1>1. slot[t] \in Slots /\ token[slot[t]] # None
  BY BusySlot DEF Busy, Holding
<1>2. PICK s \in Slots : s = slot[t]
  BY <1>1
<1>3. CASE pc[t] = "unhold"
  BY <1>3 DEF IInv, BusyInv
<1>4. CASE pc[t] \in {"withdraw", "drop"}
  <2>1. t \in Submitters(s) \/ t \in Holders(s)
    BY <1>2, <1>4 DEF Submitters, Holders, IInv, ThreadInv
  <2>2. Share(t, s) >= 1
    BY <2>1 DEF Share
  <2>3. Held(s) \in Nat /\ Held(s) >= Share(t, s) /\ Share(t, s) \in Nat
    BY ShareCounted
  <2>4. QueuedTasks(s) \in Nat /\ OwnHold(s) \in {0, 1}
    BY QueuedType DEF OwnHold, IInv
  <2>5. 1 = OwnHold(s) + Held(s) + QueuedTasks(s)
    BY <1>1, <1>2 DEF IInv, CountInv
  <2>6. OwnHold(s) = 0
    BY <2>2, <2>3, <2>4, <2>5
  <2>7. QED
    BY <1>1, <1>2, <2>6 DEF OwnHold
<1>5. QED
  BY <1>3, <1>4

\* Nobody calls a completion routine then.
LEMMA LastAlone ==
  ASSUME IInv, NEW t \in Threads, pc[t] \in {"withdraw", "unhold", "drop"}, holds[slot[t]] = 1,
         NEW u \in Threads, pc[u] = "routine"
  PROVE  slot[u] # slot[t]
<1> SUFFICES ASSUME slot[u] = slot[t] PROVE FALSE
  OBVIOUS
<1>1. PICK s \in Slots : s = slot[t]
  BY BusySlot
<1>2. token[s] # None
  BY <1>1, BusySlot DEF Busy, Holding
<1>3. u # t /\ u \in Holders(s)
  BY <1>1 DEF Holders, IInv, ThreadInv, Begins
<1>4. /\ Cardinality(Retirers(s)) \in Nat /\ (t \in Retirers(s) => Cardinality(Retirers(s)) >= 1)
      /\ Cardinality(Holders(s)) \in Nat /\ Cardinality(Holders(s)) >= 1
      /\ Cardinality(Submitters(s)) \in Nat /\ (t \in Submitters(s) => Cardinality(Submitters(s)) >= 1)
  BY <1>3, FiniteThreads, CardMember
<1>5. t \in Holders(s) => Cardinality(Holders(s)) >= 2
  <2>1. /\ IsFiniteSet(Holders(s) \ {t})
        /\ t \in Holders(s) => Cardinality(Holders(s) \ {t}) = Cardinality(Holders(s)) - 1
    BY FiniteThreads, FS_RemoveElement
  <2>2. Cardinality(Holders(s) \ {t}) \in Nat /\ Cardinality(Holders(s) \ {t}) >= 1
    BY <1>3, <2>1, CardMember
  <2>3. QED
    BY <1>4, <2>1, <2>2
<1>6. t \in Retirers(s) \/ t \in Holders(s) \/ t \in Submitters(s)
  BY <1>1 DEF Retirers, Holders, Submitters, IInv, ThreadInv
<1>7. QueuedTasks(s) \in Nat /\ OwnHold(s) \in {0, 1}
  BY QueuedType DEF OwnHold, IInv
<1>8. 1 = OwnHold(s) + Held(s) + QueuedTasks(s)
  BY <1>1, <1>2 DEF IInv, CountInv
<1>9. QED
  BY <1>4, <1>5, <1>6, <1>7, <1>8 DEF Held

LEMMA SeenRelease ==
  ASSUME IInv, Due' = Due, IInv', NEW t \in Threads, NEW l, Release(t, l),
         pc[t] \in {"withdraw", "unhold", "drop"},
         l = "idle" => pc[t] = "unhold" \/ call[t] \notin Begins
  PROVE  UNCHANGED Abstract!vars \/ \E k \in Tokens : Abstract!LetGo(k)
<1>1. /\ UNCHANGED <<token, retired, block, completed, status, historyVars>>
      /\ \A u \in Threads \ {t} : Same(u)
  BY ReleaseSame DEF Release, IInv
<1>2. /\ slot[t] \in Slots /\ seen[t] \in Tokens /\ token[slot[t]] = seen[t] /\ seen[t] # None
      /\ holds[slot[t]] \in Nat /\ holds[slot[t]] > 0
  BY BusySlot, Shared DEF Busy, Holding, Disposing
<1>3. PICK k \in Tokens : k = seen[t]
  BY <1>2
<1>4. PICK s \in Slots : s = slot[t]
  BY <1>2
<1>5. holds'[s] = holds[s] - 1 /\ \A r \in Slots : r # s => holds'[r] = holds[r]
  BY <1>4 DEF Release, IInv, TypeOK
<1>6. CASE holds[s] # 1
  <2>1. \A r \in Slots : holds'[r] = 0 <=> holds[r] = 0
    BY <1>2, <1>4, <1>5, <1>6
  <2>2. CASE l # "idle" \/ call[t] \notin Begins
    <3>1. \/ call'[t] = call[t] /\ seen'[t] = seen[t]
          \/ call[t] \notin Begins /\ call'[t] \notin Begins
      BY <1>4, <1>6, <2>2, GotoSame, ReturnSame DEF Release, IInv, Begins
    <3>2. \A j \in Tokens : Begun(j)' <=> Begun(j)
      BY <1>1, <3>1, BegunSame
    <3>3. QED
      BY <1>1, <2>1, <3>2, QuietSeen
  <2>3. CASE pc[t] = "unhold"
    <3>1. retired[s]
      BY <1>4, <2>3 DEF IInv, BusyInv
    <3>2. \A j \in Tokens : j # k => (Begun(j)' <=> Begun(j))
      <4>1. call'[t] \in Begins => seen'[t] = seen[t]
        BY ReleaseSame DEF IInv, Begins
      <4>2. QED
        BY <1>1, <1>3, <4>1, BegunApart
    <3>3. \A r \in Slots : token[r] = k => retired[r]
      BY <1>2, <1>3, <1>4, <3>1 DEF IInv, TokenInv
    <3>4. QED
      BY <1>1, <2>1, <3>2, <3>3, QuietSeen
  <2>4. QED
    BY <2>2, <2>3
<1>7. CASE holds[s] = 1
  <2>1. retired[s]
    BY <1>4, <1>7, LastHold
  <2>2. UNCHANGED <<call, seen>>
    BY <1>4, <1>7 DEF Release, Goto
  <2>3. \A j \in Tokens : Begun(j)' <=> Begun(j)
    BY <1>1, <2>2, BegunSame
  <2>4. token[s] = k /\ token' = token /\ holds'[s] = 0 /\ origin' = origin
    BY <1>1, <1>2, <1>3, <1>4, <1>5, <1>7 DEF historyVars
  <2>5. Apart(k)
    BY <1>1, <1>5, <2>3, <2>4, OneSlotSeen
  <2>6. /\ Stage(k) = "closed" /\ Owner(k) = None
        /\ Verdict(k) = IF completed[s] THEN status[s] ELSE "pending"
    BY <1>7, <2>1, <2>4, Live
  <2>7. /\ Stage(k)' = "ending" /\ Owner(k)' = IF retired'[s] THEN None ELSE block'[s]
        /\ Verdict(k)' = IF completed'[s] THEN status'[s] ELSE "pending"
    BY <2>4, LiveNext
  <2>8. Owner(k)' = Owner(k) /\ Verdict(k)' = Verdict(k)
    BY <1>1, <2>1, <2>6, <2>7
  <2>9. k \notin Due
    <3>1. ASSUME NEW u \in Threads, pc[u] = "routine", seen[u] = k PROVE FALSE
      <4>1. slot[u] \in Slots /\ token[slot[u]] = k
        BY <3>1, BusySlot DEF Busy, Holding
      <4>2. slot[u] = s
        BY <1>2, <1>3, <2>4, <4>1 DEF IInv, TokenInv
      <4>3. QED
        BY <1>4, <1>7, <3>1, <4>2, LastAlone
    <3>2. QED
      BY <3>1 DEF Due
  <2>10. Abstract!LetGo(k)
    BY <1>1, <2>5, <2>6, <2>7, <2>8, <2>9, AsLetGo
  <2>11. QED
    BY <2>10
<1>8. QED
  BY <1>6, <1>7

LEMMA SeenCleanup ==
  ASSUME IInv, Due' = Due, IInv', CallsInv, NEW t \in Threads, Cleanup(t)
  PROVE  \E k \in Tokens : Abstract!CleanUp(k)
<1>1. /\ pc[t] = "cleanup"
      /\ UNCHANGED <<token, holds, retired, block, completed, status, origin, announcements, call, seen>>
      /\ \A u \in Threads \ {t} : Same(u)
  BY GotoSame DEF Cleanup, IInv, slotVars
<1>2. /\ slot[t] \in Slots /\ seen[t] \in Tokens /\ token[slot[t]] = seen[t] /\ holds[slot[t]] = 0
  BY <1>1, Alone, Located DEF Disposing
<1>3. PICK k \in Tokens : k = seen[t]
  BY <1>2
<1>4. PICK s \in Slots : s = slot[t]
  BY <1>2
<1>5. \A j \in Tokens : Begun(j)' <=> Begun(j)
  BY <1>1, BegunSame
<1>6. token[s] = k /\ token' = token /\ holds[s] = 0
  BY <1>1, <1>2, <1>3, <1>4
<1>7. Apart(k)
  BY <1>1, <1>5, <1>6, OneSlotSeen
<1>8. cleanups' = [cleanups EXCEPT ![k] = @ + 1]
  BY <1>4, <1>6 DEF Cleanup, IInv, TypeOK
<1>9. \/ origin[k] = "provider" /\ cleanups[k] = 0
      \/ origin[k] = "failed" /\ cleanups[k] = 1
  BY <1>1, <1>3 DEF CallsInv, CleanInv, Early, Provided
<1>10. /\ Stage(k) = "ending" /\ Owner(k) = IF retired[s] THEN None ELSE block[s]
       /\ Verdict(k) = IF completed[s] THEN status[s] ELSE "pending"
  BY <1>6, Live
<1>11. /\ Stage(k)' = "ending" /\ Owner(k)' = IF retired'[s] THEN None ELSE block'[s]
       /\ Verdict(k)' = IF completed'[s] THEN status'[s] ELSE "pending"
  BY <1>1, <1>6, LiveNext
<1>12. Stage(k)' = Stage(k) /\ Owner(k)' = Owner(k) /\ Verdict(k)' = Verdict(k)
  BY <1>1, <1>10, <1>11
<1>13. Abstract!CleanUp(k)
  BY <1>1, <1>7, <1>8, <1>9, <1>10, <1>12, AsCleanUp
<1>14. QED
  BY <1>13

LEMMA SeenFree ==
  ASSUME IInv, Due' = Due, IInv', CallsInv, FilledInv, NEW t \in Threads, Free(t)
  PROVE  \E k \in Tokens : Abstract!End(k)
<1>1. pc[t] = "free" /\ UNCHANGED <<retired, block, completed, status, historyVars>>
  BY DEF Free
<1>2. /\ slot[t] \in Slots /\ seen[t] \in Tokens /\ token[slot[t]] = seen[t] /\ holds[slot[t]] = 0
      /\ retired[slot[t]] /\ seen[t] # None
      /\ \A u \in Threads \ {t} : pc[u] \in Busy => slot[u] # slot[t]
  BY <1>1, Alone, Located DEF Disposing
<1>3. PICK k \in Tokens : k = seen[t]
  BY <1>2
<1>4. PICK s \in Slots : s = slot[t]
  BY <1>2
<1>5. /\ token'[s] = None
      /\ \A r \in Slots : r # s => token'[r] = token[r] /\ holds'[r] = holds[r]
  BY <1>4 DEF Free, IInv, TypeOK
<1>6. \A u \in Threads \ {t} : Same(u)
  BY GotoSame, ReturnSame DEF Free, IInv
<1>7. \A j \in Tokens : j # k => (Begun(j)' <=> Begun(j))
  <2>1. call'[t] \in Begins => seen'[t] = seen[t]
    BY GotoSame, ReturnSame DEF Free, IInv, Begins
  <2>2. QED
    BY <1>3, <1>6, <2>1, BegunApart
<1>8. token[s] = k /\ k # None /\ holds[s] = 0 /\ retired[s] /\ origin' = origin
  BY <1>1, <1>2, <1>3, <1>4 DEF historyVars
<1>9. Apart(k)
  BY <1>1, <1>5, <1>7, <1>8, OneSlotSeen
<1>10. origin[k] # "none"
  <2>1. ASSUME NEW u \in Threads, pc[u] = "fill", slot[u] = s PROVE FALSE
    BY <1>1, <1>2, <1>4, <2>1 DEF Busy
  <2>2. QED
    BY <1>8, <2>1 DEF FilledInv
<1>11. Stage(k) = "ending" /\ Owner(k) = None
  BY <1>8, Live
<1>12. Stage(k)' = "over" /\ Owner(k)' = None /\ Verdict(k)' = "pending"
  <2>1. \A r \in Slots : token'[r] # k
    BY <1>5, <1>8 DEF IInv, TokenInv
  <2>2. QED
    BY <1>8, <1>10, <2>1, DeadNext
<1>13. \/ origin[k] = "local" /\ cleanups[k] = 0
       \/ origin[k] = "provider" /\ cleanups[k] = 1
       \/ origin[k] = "failed" /\ cleanups[k] = 2
  <2>1. origin[k] \in {"local", "provider", "failed"}
    BY <1>10 DEF IInv, TypeOK
  <2>2. origin[k] \in Provided => cleanups[k] = Early(k) + 1
    BY <1>1, <1>3 DEF CallsInv, CleanInv
  <2>3. origin[k] = "local" => cleanups[k] = 0
    BY DEF CallsInv, CleanInv
  <2>4. QED
    BY <2>1, <2>2, <2>3 DEF Early, Provided
<1>14. Abstract!End(k)
  BY <1>1, <1>9, <1>11, <1>12, <1>13, AsEnd
<1>15. QED
  BY <1>14

\* A hold taken on an operation that has one, and the steps that change no slot.
LEMMA SeenQuiet ==
  ASSUME IInv, Due' = Due, NEW t \in Threads,
         \/ Find(t) \/ GetStatus(t) \/ WaitStatus(t) \/ TakeResult(t) \/ Cancel(t) \/ Complete(t)
         \/ Schedule(t) \/ PendingOperation(t) \/ Peek(t) \/ Collect(t) \/ Signal(t)
         \/ HoldForTask(t) \/ Refuse(t) \/ Strip(t) \/ Perform(t) \/ DoWork(t)
  PROVE  UNCHANGED Abstract!vars
<1>1. UNCHANGED <<token, completed, status, retired, block, historyVars>>
  BY DEF Find, GetStatus, WaitStatus, TakeResult, Cancel, Complete, Schedule, PendingOperation, Peek,
         Collect, Signal, HoldForTask, Refuse, Strip, Perform, DoWork, slotVars
<1>2. \A r \in Slots : token[r] # None => (holds'[r] = 0 <=> holds[r] = 0)
  <2>1. CASE holds' = holds
    BY <2>1
  <2>2. CASE holds' # holds
    <3>1. /\ holds' = [holds EXCEPT ![slot[t]] = @ + 1]
          /\ pc[t] = "submit" \/ (pc[t] = "find" /\ token[slot[t]] = seen[t])
      BY <2>2 DEF Find, GetStatus, WaitStatus, TakeResult, Cancel, Complete, Schedule,
           PendingOperation, Peek, Collect, Signal, HoldForTask, Refuse, Strip, Perform, DoWork, slotVars
    <3>2. slot[t] \in Slots /\ seen[t] # None
      BY <3>1, Located
    <3>3. holds[slot[t]] # 0
      <4>1. CASE pc[t] = "submit"
        BY <4>1, Shared DEF Busy, Holding, Disposing
      <4>2. CASE pc[t] = "find" /\ token[slot[t]] = seen[t]
        <5>1. ~retired[slot[t]]
          BY <4>2 DEF IInv, BusyInv
        <5>2. QED
          BY <3>2, <4>2, <5>1, NoHolds
      <4>3. QED
        BY <3>1, <4>1, <4>2
    <3>4. holds \in [Slots -> Nat]
      BY DEF IInv, TypeOK
    <3>5. QED
      BY <3>1, <3>2, <3>3, <3>4
  <2>3. QED
    BY <2>1, <2>2
<1>3. CASE Signal(t)
  <2>1. UNCHANGED <<call, seen>>
    BY <1>3 DEF Signal
  <2>2. QED
    BY <1>1, <1>2, <2>1, QuietSeen DEF Begun
<1>4. CASE ~Signal(t)
  <2>1. \A u \in Threads \ {t} : Same(u)
    BY <1>4, OneMoves DEF Step, IInv
  <2>2. \/ call'[t] = call[t] /\ seen'[t] = seen[t]
        \/ call[t] \notin Begins /\ call'[t] \notin Begins
    <3>1. CASE Find(t)
      <4>1. call[t] \notin Begins
        BY <3>1 DEF Find, IInv, ThreadInv, Polls, Provider, Begins
      <4>2. QED
        BY <3>1, <4>1, GotoSame, ReturnSame DEF Find, IInv, Begins
    <3>2. CASE GetStatus(t) \/ WaitStatus(t) \/ TakeResult(t) \/ Schedule(t) \/ HoldForTask(t)
               \/ Refuse(t) \/ Strip(t)
      BY <3>2 DEF GetStatus, WaitStatus, TakeResult, Schedule, HoldForTask, Refuse, Strip, Goto
    <3>3. CASE Cancel(t) \/ Complete(t) \/ Peek(t) \/ Perform(t) \/ DoWork(t)
      BY <3>3 DEF Cancel, Complete, Peek, Perform, DoWork, Goto
    <3>4. CASE PendingOperation(t)
      BY <3>4 DEF PendingOperation, IInv, TypeOK, Begins
    <3>5. CASE Collect(t)
      <4>1. call[t] = "peek"
        BY <3>5 DEF Collect, IInv, ThreadInv
      <4>2. call'[t] \in {"none", "collect"}
        BY <3>5, ReturnSame DEF Collect, IInv, TypeOK
      <4>3. QED
        BY <4>1, <4>2 DEF Begins
    <3>6. QED
      BY <1>4, <3>1, <3>2, <3>3, <3>4, <3>5
  <2>3. \A j \in Tokens : Begun(j)' <=> Begun(j)
    BY <2>1, <2>2, BegunSame
  <2>4. QED
    BY <1>1, <1>2, <2>3, QuietSeen
<1>5. QED
  BY <1>3, <1>4

\* Calls begin, tasks start and the queue is terminated without being seen.
LEMMA SeenCalls ==
  ASSUME IInv, Due' = Due, NEW t \in Threads,
         \/ \E a \in Blocks, b \in BeginCalls : Acquire(t, a, b)
         \/ \E a \in Blocks, k \in BlockCalls : LookUp(t, a, k)
         \/ \E r \in Slots, k \in Kinds : RunTask(t, r, k)
  PROVE  UNCHANGED Abstract!vars
<1>1. UNCHANGED <<token, holds, completed, status, retired, block, historyVars>>
  BY DEF Acquire, LookUp, RunTask, slotVars
<1>2. call[t] \notin Begins /\ \A u \in Threads \ {t} : Same(u)
  BY CallMoves DEF IInv, ThreadInv, Begins
<1>3. CASE \E a \in Blocks, b \in BeginCalls : Acquire(t, a, b)
  <2>1. next \in Nat /\ seen'[t] = next /\ \A r \in Slots : token[r] # next
    <3>1. next \in Nat /\ \A r \in Slots : token[r] \in Int /\ token[r] < next
      BY AsyncConstants DEF IInv, TokenInv, TypeOK
    <3>2. QED
      BY <1>3, <3>1 DEF Acquire, IInv, TypeOK
  <2>2. \A j \in Tokens : j # next => (Begun(j)' <=> Begun(j))
    BY <1>2, <2>1, BegunApart
  <2>3. QED
    BY <1>1, <2>1, <2>2, QuietSeen
<1>4. CASE ~\E a \in Blocks, b \in BeginCalls : Acquire(t, a, b)
  <2>1. call'[t] \notin Begins
    <3>1. call \in [Threads -> Polls \cup Provider \cup Begins \cup Kinds \cup {"peek", "collect", "none"}]
      BY DEF IInv, TypeOK
    <3>2. ASSUME NEW a \in Blocks, NEW k \in BlockCalls, LookUp(t, a, k) PROVE call'[t] \notin Begins
      <4>1. call'[t] = k
        BY <3>1, <3>2 DEF LookUp
      <4>2. QED
        BY <4>1, AsyncConstants DEF Begins, Polls, Provider
    <3>3. ASSUME NEW r \in Slots, NEW k \in Kinds, RunTask(t, r, k) PROVE call'[t] \notin Begins
      <4>1. call'[t] = k
        BY <3>1, <3>3 DEF RunTask
      <4>2. QED
        BY <4>1 DEF Begins, Kinds
    <3>4. QED
      BY <1>4, <3>2, <3>3
  <2>2. \A j \in Tokens : Begun(j)' <=> Begun(j)
    BY <1>2, <2>1, BegunSame
  <2>3. QED
    BY <1>1, <2>2, QuietSeen
<1>5. QED
  BY <1>3, <1>4

LEMMA SeenNothing ==
  ASSUME IInv, Due' = Due, Close \/ UNCHANGED vars
  PROVE  UNCHANGED Abstract!vars
<1>1. UNCHANGED <<token, holds, completed, status, retired, block, historyVars, call, seen>>
  BY DEF Close, vars, slotVars, threadVars
<1>2. \A j \in Tokens : Begun(j)' <=> Begun(j)
  BY <1>1 DEF Begun
<1>3. QED
  BY <1>1, <1>2, QuietSeen

\* Nobody else takes or calls a completion routine.
LEMMA DueKept ==
  ASSUME IInv, [Next]_vars, \A w \in Threads : ~Announce(w) /\ ~CallRoutine(w)
  PROVE  Due' = Due
<1>1. ASSUME NEW t \in Threads, pc[t] # "routine", pc'[t] # "routine",
             \A u \in Threads \ {t} : Same(u)
      PROVE  Due' = Due
  <2>1. /\ \A u \in Threads : pc'[u] = "routine" <=> pc[u] = "routine"
        /\ \A u \in Threads : pc[u] = "routine" => seen'[u] = seen[u]
    BY <1>1 DEF Same
  <2>2. QED
    BY <2>1 DEF Due
<1>2. ASSUME NEW t \in Threads,
             \/ \E a \in Blocks, b \in BeginCalls : Acquire(t, a, b)
             \/ \E a \in Blocks, k \in BlockCalls : LookUp(t, a, k)
             \/ \E r \in Slots, k \in Kinds : RunTask(t, r, k)
      PROVE  Due' = Due
  <2>1. /\ pc[t] = "idle" /\ pc'[t] \in {"setup", "find", "held"}
        /\ \A u \in Threads \ {t} : Same(u)
    BY <1>2, CallMoves DEF IInv
  <2>2. QED
    BY <1>1, <2>1
<1>3. ASSUME NEW t \in Threads, Step(t) PROVE Due' = Due
  <2>1. CASE Signal(t)
    <3>1. seen' = seen /\ \A u \in Threads : pc'[u] = "routine" <=> pc[u] = "routine"
      BY <2>1, SignalMoves DEF Same
    <3>2. QED
      BY <3>1 DEF Due
  <2>2. CASE Plain(t)
    <3>1. pc[t] # "routine"
      BY <2>2 DEF Plain, Find, GetStatus, WaitStatus, TakeResult, Cancel, Complete, Schedule,
           PendingOperation, Peek, Collect, Finish, HoldForTask, Enqueue, Refuse, Withdraw, Unhold,
           Drop, Retire, Perform, DoWork
    <3>2. pc'[t] # "routine" /\ \A u \in Threads \ {t} : Same(u)
      BY <2>2, PlainMoves
    <3>3. QED
      BY <1>1, <3>1, <3>2
  <2>3. CASE \/ SetUp(t) \/ FillLocal(t) \/ FillProvider(t) \/ ProviderBegins(t)
             \/ Strip(t) \/ Cleanup(t) \/ Free(t)
    <3>1. pc[t] # "routine"
      BY <2>3 DEF SetUp, FillLocal, FillProvider, ProviderBegins, Strip, Cleanup, Free
    <3>2. pc'[t] # "routine" /\ \A u \in Threads \ {t} : Same(u)
      BY <2>3, GotoSame, ReturnSame DEF SetUp, FillLocal, FillProvider, ProviderBegins, Strip, Cleanup,
           Free, IInv
    <3>3. QED
      BY <1>1, <3>1, <3>2
  <2>4. QED
    BY <1>3, <2>1, <2>2, <2>3 DEF Step, Plain
<1>4. CASE Close \/ UNCHANGED vars
  BY <1>4 DEF Close, vars, threadVars, Due
<1>5. QED
  BY <1>2, <1>3, <1>4 DEF Next, Threads

LEMMA StepSeen ==
  ASSUME IInv, CallsInv, LifeInv, [Next]_vars, IInv'
  PROVE  [Abstract!Next]_(Abstract!vars)
<1> USE DEF LifeInv
<1>1. ASSUME NEW t \in Threads, Announce(t) \/ CallRoutine(t) PROVE [Abstract!Next]_(Abstract!vars)
  BY <1>1, SeenAnnounce, SeenCallRoutine DEF Abstract!Next
<1>2. ASSUME NEW t \in Threads, Step(t), Due' = Due, ~(Announce(t) \/ CallRoutine(t))
      PROVE [Abstract!Next]_(Abstract!vars)
  <2>1. CASE SetUp(t)
    BY <1>2, <2>1, SeenSetUp DEF Abstract!Next
  <2>2. CASE FillLocal(t) \/ FillProvider(t)
    BY <1>2, <2>2, SeenFill DEF Abstract!Next
  <2>3. CASE ProviderBegins(t)
    BY <1>2, <2>3, SeenProviderBegins DEF Abstract!Next
  <2>4. CASE Enqueue(t)
    BY <1>2, <2>4, SeenEnqueue DEF Abstract!Next
  <2>5. CASE Finish(t)
    BY <1>2, <2>5, SeenFinish DEF Abstract!Next
  <2>6. CASE Retire(t)
    BY <1>2, <2>6, SeenRetire DEF Abstract!Next
  <2>7. CASE Withdraw(t) \/ Unhold(t) \/ Drop(t)
    <3>1. UNCHANGED Abstract!vars \/ \E k \in Tokens : Abstract!LetGo(k)
      <4>1. CASE Withdraw(t)
        <5>1. PICK l : l = IF call[t] = "begin" THEN "retire" ELSE AfterSubmit(t)
          OBVIOUS
        <5>2. l # "idle" /\ pc[t] = "withdraw" /\ Release(t, l)
          BY <4>1, <5>1 DEF Withdraw, AfterSubmit, AfterFinish
        <5>3. QED
          BY <1>2, <5>2, SeenRelease
      <4>2. CASE Unhold(t)
        <5>1. pc[t] = "unhold" /\ \E l : Release(t, l)
          BY <4>2 DEF Unhold
        <5>2. QED
          BY <1>2, <5>1, SeenRelease
      <4>3. CASE Drop(t)
        <5>1. pc[t] = "drop" /\ \E l : Release(t, l)
          BY <4>3 DEF Drop
        <5>2. call[t] \notin Begins
          BY <5>1 DEF IInv, ThreadInv
        <5>3. QED
          BY <1>2, <5>1, <5>2, SeenRelease
      <4>4. QED
        BY <2>7, <4>1, <4>2, <4>3
    <3>2. QED
      BY <3>1 DEF Abstract!Next
  <2>8. CASE Cleanup(t)
    BY <1>2, <2>8, SeenCleanup DEF Abstract!Next
  <2>9. CASE Free(t)
    BY <1>2, <2>9, SeenFree DEF Abstract!Next
  <2>10. CASE \/ Find(t) \/ GetStatus(t) \/ WaitStatus(t) \/ TakeResult(t) \/ Cancel(t) \/ Complete(t)
              \/ Schedule(t) \/ PendingOperation(t) \/ Peek(t) \/ Collect(t) \/ Signal(t)
              \/ HoldForTask(t) \/ Refuse(t) \/ Strip(t) \/ Perform(t) \/ DoWork(t)
    BY <1>2, <2>10, SeenQuiet
  <2>11. QED
    BY <1>2, <2>1, <2>2, <2>3, <2>4, <2>5, <2>6, <2>7, <2>8, <2>9, <2>10 DEF Step
<1>3. CASE \E t \in Threads : Announce(t) \/ CallRoutine(t)
  BY <1>1, <1>3
<1>4. CASE ~\E t \in Threads : Announce(t) \/ CallRoutine(t)
  <2>1. Due' = Due
    BY <1>4, DueKept
  <2>2. QED
    BY <1>2, <1>4, <2>1, SeenCalls, SeenNothing DEF Next, Threads
<1>5. QED
  BY <1>3, <1>4

LEMMA InitSeen == Init => Abstract!Init /\ LifeInv
<1> SUFFICES ASSUME Init PROVE Abstract!Init /\ LifeInv
  OBVIOUS
<1>1. \A k \in Tokens, r \in Slots : token[r] # k
  BY DEF Init, Tokens, None
<1>2. ASSUME NEW k \in Tokens
      PROVE  Stage(k) = "unborn" /\ Owner(k) = None /\ Verdict(k) = "pending"
  BY <1>1, Dead DEF Init
<1>3. Abstract!Init
  BY <1>2 DEF Init, Abstract!Init, Due
<1>4. LifeInv
  BY DEF Init, LifeInv, SettledInv, FilledInv, UnlinkedInv, Collecting
<1>5. QED
  BY <1>3, <1>4

\* For any number of threads, slots, blocks and operations: begin, finish, retire, release
\* and dispose (async.cxx) implement the operation an async block promises.
THEOREM OperationRefines ==
  ASSUME ~Overlap
  PROVE  Spec => ImplementsOperation
<1>1. IInv /\ CallsInv /\ LifeInv /\ [Next]_vars => LifeInv'
  BY NextSettled, NextFilled, NextUnlinked DEF LifeInv, CallsInv
<1>2. IInv /\ CallsInv /\ LifeInv /\ [Next]_vars /\ IInv' => [Abstract!Next]_(Abstract!vars)
  BY StepSeen
<1>3. QED
  BY <1>1, <1>2, InitSeen, CallsInvariant, PTL DEF Spec, ImplementsOperation, Abstract!Spec

=============================================================================
