---------------------------- MODULE Async_proofs ----------------------------
(***************************************************************************)
(* The hold protocol of Async for any number of threads, slots, blocks and *)
(* operations, when no block is looked up while another call collects it:  *)
(* the word of a slot counts its holds, no slot is used after it was       *)
(* freed, and the first outcome of an operation stays.                     *)
(***************************************************************************)
EXTENDS Async, FiniteSetTheorems, TLAPS

-----------------------------------------------------------------------------
(* The inductive invariant                                                  *)

\* Places in the code by what a thread has there: a hold of its call or task, the slot to
\* itself because the last hold is gone, or in any way the operation it found or began.
Holding   == {"held", "asleep", "finish", "signal", "submit", "enqueue", "withdraw",
              "retire", "unhold", "routine", "drop"}
Disposing == {"strip", "cleanup", "free"}
Busy      == {"fill"} \cup Holding \cup Disposing

\* Which calls come where.
Settling == {"cancel", "complete", "perform", "do_work"}
ThreadInv ==
    \A t \in Threads :
        /\ pc[t] = "idle" => call[t] = "none" /\ slot[t] = None /\ seen[t] = None
        /\ pc[t] # "idle" => call[t] # "none" /\ slot[t] \in 1..used /\ seen[t] \in 1..(next - 1)
        /\ call[t] \in Begins \cup {"pick", "peek"} => arg[t] \in Blocks
        /\ pc[t] \in {"setup", "fill"} => call[t] \in Begins
        /\ pc[t] = "find" => call[t] \in Polls \cup Provider \cup {"collect"}
        /\ pc[t] = "held" => call[t] \notin {"begin", "peek"}
        /\ pc[t] = "asleep" => call[t] = "wait"
        /\ pc[t] \in {"finish", "signal"} => call[t] \in Settling
        /\ pc[t] \in {"submit", "enqueue", "withdraw"} => call[t] \in Settling \cup {"begin", "schedule"}
        /\ pc[t] \in {"retire", "unhold"} => call[t] \in Begins \cup {"take", "collect", "cancel"}
        /\ pc[t] = "routine" => call[t] = "announce"
        /\ pc[t] = "drop" => call[t] \notin Begins
        /\ pc[t] \in {"peek", "again"} => call[t] = "peek"

\* Tokens are given once, and a slot whose word is clear holds nothing.
TokenInv ==
    /\ \A r \in Slots : token[r] < next /\ (token[r] # None => r <= used)
    /\ \A r, s \in Slots : token[r] = token[s] /\ token[r] # None => r = s
    /\ \A r \in Slots : token[r] = None => holds[r] = 0 /\ ~local[r] /\ QueuedTasks(r) = 0

\* Whoever sets a slot up has it, and the token, to itself.
SetUpInv ==
    \A t \in Threads : pc[t] = "setup" =>
        /\ token[slot[t]] = None
        /\ internal[arg[t]] = Unnamed
        /\ \A r \in Slots : token[r] # seen[t]
        /\ \A u \in Threads \ {t} :
              seen[u] # seen[t] /\ (pc[u] = "setup" => slot[u] # slot[t])

\* A thread that has the operation finds its token in the slot; one that looks it up
\* and will find it, finds it alive; one that drops the operation's own hold retired it.
BusyInv ==
    \A t \in Threads :
        /\ pc[t] \in Busy => token[slot[t]] = seen[t]
        /\ pc[t] = "find" /\ token[slot[t]] = seen[t] => ~retired[slot[t]]
        /\ pc[t] = "unhold" => retired[slot[t]]

\* Blocks and operations name each other until the operation is retired.
BlockInv ==
    /\ \A a \in Blocks : internal[a] # Unnamed =>
          LET r == internal[a].slot IN
          r \in Slots /\ internal[a].token # None /\ token[r] = internal[a].token
              /\ ~retired[r] /\ block[r] = a
    /\ \A r \in Slots : token[r] # None /\ ~retired[r] =>
          block[r] \in Blocks /\ internal[block[r]] = [slot |-> r, token |-> token[r]]

\* Until begin returns the operation is the beginner's: nobody else retires it.
BeginInv ==
    /\ \A t, u \in Threads :
          call[t] \in Begins /\ call[u] \in Begins /\ arg[t] = arg[u] => t = u
    /\ \A t \in Threads :
          /\ call[t] \in Begins
          /\ pc[t] \in {"fill", "held", "submit", "enqueue", "withdraw", "retire"}
          => ~retired[slot[t]] /\ block[slot[t]] = arg[t]
    /\ \A t, u \in Threads :
          call[t] \in Begins /\ t # u /\ seen[u] = seen[t] => call[u] \in Provider \cup Kinds

\* Tasks find what they are to run.
ContentInv ==
    /\ \A r \in Slots : /\ tasks[r]["perform"] > 0 => local[r]
                        /\ tasks[r]["do_work"] > 0 => provider[r]
    /\ \A t \in Threads :
          /\ pc[t] \in Holding /\ call[t] = "perform" => local[slot[t]]
          /\ pc[t] \in Holding /\ call[t] = "do_work" => provider[slot[t]]
          /\ pc[t] \in {"submit", "enqueue"} /\ call[t] = "begin" => local[slot[t]]
          /\ pc[t] \in {"submit", "enqueue"} /\ call[t] = "schedule" => provider[slot[t]]

\* The holds on a slot, counted where they are.
Held(r) == Cardinality(Retirers(r)) + Cardinality(Holders(r)) + Cardinality(Submitters(r))
CountInv ==
    \A r \in Slots : token[r] # None => holds[r] = OwnHold(r) + Held(r) + QueuedTasks(r)

\* Who drops the last hold is alone with the slot.
DisposeInv ==
    /\ \A t \in Threads : pc[t] \in Disposing => holds[slot[t]] = 0
    /\ \A t \in Threads : pc[t] \in {"cleanup", "free"} => ~local[slot[t]]
    /\ \A t, u \in Threads :
          pc[t] \in Disposing /\ pc[u] \in Disposing /\ slot[t] = slot[u] => t = u

FreeInv ==
    /\ \A i, j \in DOMAIN free : free[i] = free[j] => i = j
    /\ \A i \in DOMAIN free :
          /\ token[free[i]] = None /\ free[i] <= used
          /\ \A t \in Threads : pc[t] = "setup" => slot[t] # free[i]

IInv == /\ TypeOK /\ ThreadInv /\ TokenInv /\ SetUpInv /\ BusyInv /\ BlockInv
        /\ BeginInv /\ ContentInv /\ CountInv /\ DisposeInv /\ FreeInv

-----------------------------------------------------------------------------
(* How the threads of a step move                                           *)

\* The other threads stay where they are, and t comes to p, in call c, for block a,
\* with slot r and token k.
Others(t) ==
    \A u \in Threads \ {t} :
        /\ pc'[u] = pc[u] /\ call'[u] = call[u] /\ arg'[u] = arg[u]
        /\ slot'[u] = slot[u] /\ seen'[u] = seen[u]
At(t, p, c, a, r, k) ==
    pc'[t] = p /\ call'[t] = c /\ arg'[t] = a /\ slot'[t] = r /\ seen'[t] = k

\* The types of what a thread has.
ThreadTypes ==
    /\ pc \in [Threads -> States]
    /\ call \in [Threads -> Polls \cup Provider \cup Begins \cup Kinds
                           \cup {"peek", "collect", "none"}]
    /\ arg \in [Threads -> Blocks \cup {None}]
    /\ slot \in [Threads -> 0..MaxSlots] /\ seen \in [Threads -> 0..MaxTokens]
    /\ outcome \in [Threads -> Statuses]
    /\ read \in [Threads -> [size : 0..1, of : 0..MaxTokens]]

\* Goto moves only its thread.
LEMMA GotoMoves ==
  ASSUME TypeOK, NEW t \in Threads, NEW l \in States, Goto(t, l)
  PROVE  Others(t) /\ At(t, l, call[t], arg[t], slot[t], seen[t]) /\ ThreadTypes'
<1>1. Others(t) /\ At(t, l, call[t], arg[t], slot[t], seen[t])
  BY DEF TypeOK, Goto, Others, At
<1>2. ThreadTypes'
  BY DEF TypeOK, Goto, ThreadTypes
<1>3. QED
  BY <1>1, <1>2

\* Return makes its thread idle.
LEMMA ReturnMoves ==
  ASSUME TypeOK, NEW t \in Threads, Return(t)
  PROVE  Others(t) /\ At(t, "idle", "none", None, None, None) /\ ThreadTypes'
<1>1. Others(t) /\ At(t, "idle", "none", None, None, None)
  BY DEF TypeOK, Return, Others, At
<1>2. Unread \in [size : 0..1, of : 0..MaxTokens] /\ None \in 0..MaxSlots /\ None \in 0..MaxTokens
  BY AsyncConstants DEF Unread, None
<1>3. ThreadTypes'
  BY <1>2 DEF TypeOK, Return, ThreadTypes, States, Statuses
<1>4. QED
  BY <1>1, <1>3

-----------------------------------------------------------------------------
(* Counting holds                                                           *)

\* What thread t adds to the holds on slot r.
Share(t, r) ==
    (IF t \in Retirers(r) THEN 1 ELSE 0) + (IF t \in Holders(r) THEN 1 ELSE 0)
        + (IF t \in Submitters(r) THEN 1 ELSE 0)

\* The number of threads that hold something counts each of them.
LEMMA CardMember ==
  ASSUME NEW S, IsFiniteSet(S), NEW t
  PROVE  Cardinality(S) \in Nat /\ Cardinality(S) >= IF t \in S THEN 1 ELSE 0
<1>1. Cardinality(S) \in Nat
  BY FS_CardinalityType
<1>2. CASE t \in S
  <2>1. S # {}
    BY <1>2
  <2>2. Cardinality(S) # 0
    BY <2>1, FS_EmptySet
  <2>3. QED
    BY <1>1, <1>2, <2>2
<1>3. QED
  BY <1>1, <1>2

\* A set changes by at most the element t.
LEMMA CardStep ==
  ASSUME NEW S, NEW T, NEW t, IsFiniteSet(S), T \ {t} = S \ {t}
  PROVE  /\ Cardinality(S) \in Nat
         /\ Cardinality(T) = Cardinality(S) + (IF t \in T THEN 1 ELSE 0)
                                            - (IF t \in S THEN 1 ELSE 0)
<1> DEFINE R == S \ {t}
<1>1. /\ IsFiniteSet(R) /\ Cardinality(S) \in Nat
      /\ Cardinality(R) = IF t \in S THEN Cardinality(S) - 1 ELSE Cardinality(S)
  BY FS_RemoveElement, FS_CardinalityType
<1>2. t \notin R /\ Cardinality(R \cup {t}) = Cardinality(R) + 1 /\ Cardinality(R) \in Nat
  BY <1>1, FS_AddElement, FS_CardinalityType
<1>3. T = IF t \in T THEN R \cup {t} ELSE R
  OBVIOUS
<1>4. QED
  BY <1>1, <1>2, <1>3

\* The sets of threads on a slot are finite.
LEMMA FiniteThreads ==
  /\ IsFiniteSet(Threads)
  /\ \A r : IsFiniteSet(Retirers(r)) /\ IsFiniteSet(Holders(r)) /\ IsFiniteSet(Submitters(r))
<1>1. IsFiniteSet(Threads)
  BY AsyncConstants, FS_Union DEF Threads
<1>2. \A r : /\ Retirers(r) \in SUBSET Threads /\ Holders(r) \in SUBSET Threads
             /\ Submitters(r) \in SUBSET Threads
  BY DEF Retirers, Holders, Submitters
<1>3. QED
  BY <1>1, <1>2, FS_Subset

\* Every thread's share is among the holds counted.
LEMMA ShareCounted ==
  ASSUME NEW r, NEW t
  PROVE  Held(r) \in Nat /\ Held(r) >= Share(t, r) /\ Share(t, r) \in Nat
<1>1. /\ Cardinality(Retirers(r)) \in Nat
      /\ Cardinality(Retirers(r)) >= IF t \in Retirers(r) THEN 1 ELSE 0
  BY FiniteThreads, CardMember
<1>2. /\ Cardinality(Holders(r)) \in Nat
      /\ Cardinality(Holders(r)) >= IF t \in Holders(r) THEN 1 ELSE 0
  BY FiniteThreads, CardMember
<1>3. /\ Cardinality(Submitters(r)) \in Nat
      /\ Cardinality(Submitters(r)) >= IF t \in Submitters(r) THEN 1 ELSE 0
  BY FiniteThreads, CardMember
<1>4. QED
  BY <1>1, <1>2, <1>3 DEF Held, Share

\* When one thread moves the holds change by its share.
LEMMA HeldStep ==
  ASSUME NEW r, NEW t \in Threads, Others(t)
  PROVE  /\ Held(r) \in Nat /\ Share(t, r) \in Nat /\ Share(t, r)' \in Nat
         /\ Held(r)' = Held(r) + Share(t, r)' - Share(t, r)
<1>1. /\ Retirers(r)' \ {t} = Retirers(r) \ {t}
      /\ Holders(r)' \ {t} = Holders(r) \ {t}
      /\ Submitters(r)' \ {t} = Submitters(r) \ {t}
  BY DEF Retirers, Holders, Submitters, Others
<1>2. /\ Cardinality(Retirers(r)) \in Nat
      /\ Cardinality(Retirers(r)') = Cardinality(Retirers(r))
           + (IF t \in Retirers(r)' THEN 1 ELSE 0) - (IF t \in Retirers(r) THEN 1 ELSE 0)
  BY <1>1, FiniteThreads, CardStep
<1>3. /\ Cardinality(Holders(r)) \in Nat
      /\ Cardinality(Holders(r)') = Cardinality(Holders(r))
           + (IF t \in Holders(r)' THEN 1 ELSE 0) - (IF t \in Holders(r) THEN 1 ELSE 0)
  BY <1>1, FiniteThreads, CardStep
<1>4. /\ Cardinality(Submitters(r)) \in Nat
      /\ Cardinality(Submitters(r)') = Cardinality(Submitters(r))
           + (IF t \in Submitters(r)' THEN 1 ELSE 0) - (IF t \in Submitters(r) THEN 1 ELSE 0)
  BY <1>1, FiniteThreads, CardStep
<1>5. QED
  BY <1>2, <1>3, <1>4 DEF Held, Share

\* The queued tasks of a slot, counted.
LEMMA QueuedType ==
  ASSUME TypeOK, NEW r \in Slots
  PROVE  /\ QueuedTasks(r) \in Nat
         /\ \A k \in Kinds : tasks[r][k] \in Nat /\ QueuedTasks(r) >= tasks[r][k]
<1>1. tasks[r] \in [Kinds -> Nat]
  BY DEF TypeOK
<1>2. tasks[r]["perform"] \in Nat /\ tasks[r]["do_work"] \in Nat /\ tasks[r]["announce"] \in Nat
  BY <1>1 DEF Kinds
<1>3. QED
  BY <1>2 DEF QueuedTasks, Kinds

-----------------------------------------------------------------------------
(* What the invariant says of a thread                                      *)

\* A thread at work on an operation has a slot, whose word is not clear.
LEMMA BusySlot ==
  ASSUME IInv, NEW t \in Threads, pc[t] # "idle"
  PROVE  /\ slot[t] \in Slots /\ slot[t] <= used /\ seen[t] \in Tokens /\ seen[t] # None
         /\ seen[t] < next
         /\ pc[t] \in Busy => token[slot[t]] = seen[t] /\ token[slot[t]] # None
<1>1. slot[t] \in 1..used /\ seen[t] \in 1..(next - 1) /\ used \in 0..MaxSlots /\ next \in 1..(MaxTokens + 1)
  BY DEF IInv, ThreadInv, TypeOK
<1>2. slot[t] \in Slots /\ slot[t] <= used /\ seen[t] \in Tokens /\ seen[t] # None /\ seen[t] < next
  BY <1>1, AsyncConstants DEF Slots, Tokens, None
<1>3. QED
  BY <1>2 DEF IInv, BusyInv

\* A slot whose hold count is zero has been retired, and no task is queued for it; no
\* thread has a hold on it.
LEMMA NoHolds ==
  ASSUME IInv, NEW r \in Slots, token[r] # None, holds[r] = 0
  PROVE  /\ retired[r] /\ QueuedTasks(r) = 0
         /\ \A u : u \notin Retirers(r) /\ u \notin Holders(r) /\ u \notin Submitters(r)
<1>1. holds[r] = OwnHold(r) + Held(r) + QueuedTasks(r)
  BY DEF IInv, CountInv
<1>2. OwnHold(r) \in {0, 1} /\ QueuedTasks(r) \in Nat
  BY QueuedType DEF OwnHold, IInv
<1>3. ASSUME NEW u PROVE Share(u, r) = 0 /\ Held(r) = 0 /\ OwnHold(r) = 0 /\ QueuedTasks(r) = 0
  BY <1>1, <1>2, ShareCounted
<1>4. ASSUME NEW u PROVE u \notin Retirers(r) /\ u \notin Holders(r) /\ u \notin Submitters(r)
  BY <1>3 DEF Share
<1>5. retired[r]
  BY <1>3 DEF OwnHold
<1>6. QED
  BY <1>3, <1>4, <1>5

\* Who disposes of an operation is alone with its slot.
LEMMA Alone ==
  ASSUME IInv, NEW t \in Threads, pc[t] \in Disposing
  PROVE  /\ slot[t] \in Slots /\ token[slot[t]] = seen[t] /\ seen[t] # None /\ seen[t] < next
         /\ holds[slot[t]] = 0 /\ retired[slot[t]] /\ QueuedTasks(slot[t]) = 0
         /\ \A u \in Threads \ {t} : pc[u] \in Busy => slot[u] # slot[t]
         /\ \A a \in Blocks : internal[a].slot # slot[t]
<1> DEFINE r == slot[t]
<1>1. r \in Slots /\ token[r] = seen[t] /\ seen[t] # None /\ seen[t] < next /\ holds[r] = 0
  BY BusySlot DEF IInv, DisposeInv, Disposing, Busy
<1>2. /\ retired[r] /\ QueuedTasks(r) = 0
      /\ \A u : u \notin Retirers(r) /\ u \notin Holders(r) /\ u \notin Submitters(r)
  BY <1>1, NoHolds
<1>3. ASSUME NEW u \in Threads \ {t}, pc[u] \in Busy, slot[u] = r PROVE FALSE
  <2>1. pc[u] \notin Disposing
    BY <1>3 DEF IInv, DisposeInv
  <2>2. pc[u] \in {"fill"} \cup Holding
    BY <1>3, <2>1 DEF Busy
  <2>3. pc[u] # "unhold"
    BY <1>2, <1>3 DEF Retirers
  <2>4. CASE call[u] \in Begins
    <3>1. pc[u] \in {"fill", "held", "submit", "enqueue", "withdraw", "retire"}
      BY <2>2, <2>3, <2>4 DEF IInv, ThreadInv, Holding, Settling, Begins
    <3>2. QED
      BY <1>2, <1>3, <2>4, <3>1 DEF IInv, BeginInv
  <2>5. CASE call[u] \notin Begins
    <3>1. pc[u] \in Holding
      BY <2>2, <2>5 DEF IInv, ThreadInv
    <3>2. u \in Holders(r)
      BY <1>3, <2>5, <3>1 DEF Holders, Holding
    <3>3. QED
      BY <1>2, <3>2
  <2>6. QED
    BY <2>4, <2>5
<1>4. ASSUME NEW a \in Blocks PROVE internal[a].slot # r
  <2>1. CASE internal[a] = Unnamed
    BY <1>1, <2>1, AsyncConstants DEF Unnamed, None, Slots
  <2>2. CASE internal[a] # Unnamed
    BY <1>2, <2>2 DEF IInv, BlockInv
  <2>3. QED
    BY <2>1, <2>2
<1>5. QED
  BY <1>1, <1>2, <1>3, <1>4

\* Who has a share of the holds, or begins an operation, finds the count positive, and
\* nobody disposes of the slot.
LEMMA Shared ==
  ASSUME IInv, NEW t \in Threads, pc[t] \in Busy \ Disposing
  PROVE  /\ slot[t] \in Slots /\ holds[slot[t]] \in Nat /\ holds[slot[t]] > 0
         /\ \A u \in Threads : pc[u] \in Disposing => slot[u] # slot[t]
<1> DEFINE r == slot[t]
<1>1. pc[t] # "idle"
  BY DEF Busy, Holding, Disposing
<1>2. r \in Slots /\ token[r] # None
  BY <1>1, BusySlot
<1>3. holds[r] \in Nat
  BY <1>2 DEF IInv, TypeOK
<1>4. ASSUME NEW u \in Threads, pc[u] \in Disposing, slot[u] = r PROVE FALSE
  <2>1. u # t
    BY <1>4 
  <2>2. QED
    BY <1>4, <2>1, Alone
<1>5. ASSUME holds[r] = 0 PROVE FALSE
  <2>1. /\ retired[r]
        /\ \A u : u \notin Retirers(r) /\ u \notin Holders(r) /\ u \notin Submitters(r)
    BY <1>2, <1>5, NoHolds
  <2>2. pc[t] # "unhold"
    BY <2>1 DEF Retirers
  <2>3. CASE call[t] \in Begins
    <3>1. pc[t] \in {"fill", "held", "submit", "enqueue", "withdraw", "retire"}
      BY <2>2, <2>3 DEF IInv, ThreadInv, Busy, Holding, Settling, Begins
    <3>2. QED
      BY <2>1, <2>3, <3>1 DEF IInv, BeginInv
  <2>4. CASE call[t] \notin Begins
    <3>1. pc[t] \in Holding
      BY <2>4 DEF IInv, ThreadInv, Busy
    <3>2. t \in Holders(r)
      BY <2>4, <3>1 DEF Holders, Holding
    <3>3. QED
      BY <2>1, <3>2
  <2>5. QED
    BY <2>3, <2>4
<1>6. QED
  BY <1>2, <1>3, <1>4, <1>5


-----------------------------------------------------------------------------
(* Each step preserves the invariant: moves from hold to hold               *)

\* Thread u stays, or keeps what holds it has and the call it makes, as far as others can
\* tell.
Stays(u) ==
    \/ pc'[u] = pc[u] /\ call'[u] = call[u] /\ arg'[u] = arg[u]
    \/ /\ pc[u] \in Holding \ {"unhold"} /\ pc'[u] \in Holding \ {"unhold"}
       /\ pc'[u] \in {"enqueue", "withdraw"} <=> pc[u] \in {"enqueue", "withdraw"}
       /\ call[u] \in Begins =>
             /\ call'[u] = call[u] /\ arg'[u] = arg[u]
             /\ pc[u] \in {"held", "submit", "enqueue", "withdraw", "retire"}
       /\ call[u] \notin Begins => call'[u] \notin Begins
       /\ call[u] \in Provider \cup Kinds => call'[u] = call[u]

\* The parts of the invariant that such moves cannot disturb.
LEMMA QuietStep ==
  ASSUME IInv, \A u \in Threads : Stays(u),
         UNCHANGED <<token, holds, retired, block, local, poolVars, internal, tasks, slot, seen>>
  PROVE  /\ TokenInv' /\ SetUpInv' /\ BusyInv' /\ BlockInv' /\ BeginInv' /\ CountInv'
         /\ DisposeInv' /\ FreeInv'
<1> USE DEF IInv
<1>1. \A u \in Threads : /\ pc'[u] \in Busy <=> pc[u] \in Busy
                         /\ pc'[u] \in Disposing <=> pc[u] \in Disposing
                         /\ pc'[u] \in {"enqueue", "withdraw"} <=> pc[u] \in {"enqueue", "withdraw"}
                         /\ pc'[u] \in Holding <=> pc[u] \in Holding
                         /\ call'[u] \in Begins <=> call[u] \in Begins
  BY DEF Stays, Busy, Holding, Disposing
<1>2. \A u \in Threads, p \in {"setup", "find", "unhold", "cleanup", "free"} : pc'[u] = p <=> pc[u] = p
  BY DEF Stays, Holding
<1>3. \A u \in Threads : call[u] \in Begins => call'[u] = call[u] /\ arg'[u] = arg[u]
  BY DEF Stays
<1>4. TokenInv'
  BY DEF TokenInv, QueuedTasks, poolVars
<1>5. SetUpInv'
  <2>1. \A u \in Threads : pc[u] = "setup" => arg'[u] = arg[u]
    BY DEF Stays, Holding
  <2>2. QED
    BY <1>2, <2>1 DEF SetUpInv
<1>6. BusyInv'
  BY <1>1, <1>2 DEF BusyInv
<1>7. BlockInv'
  BY DEF BlockInv
<1>8. BeginInv'
  <2>1. \A u \in Threads :
           /\ call'[u] \in Begins
           /\ pc'[u] \in {"fill", "held", "submit", "enqueue", "withdraw", "retire"}
           => pc[u] \in {"fill", "held", "submit", "enqueue", "withdraw", "retire"}
    BY <1>1 DEF Stays
  <2>2. \A u \in Threads : call[u] \in Provider \cup Kinds => call'[u] = call[u]
    BY DEF Stays
  <2>3. QED
    BY <1>1, <1>3, <2>1, <2>2 DEF BeginInv
<1>9. CountInv'
  <2>1. \A r : /\ Retirers(r)' = Retirers(r) /\ Holders(r)' = Holders(r)
               /\ Submitters(r)' = Submitters(r)
    BY <1>1, <1>2 DEF Retirers, Holders, Submitters, Holding
  <2>2. QED
    BY <2>1 DEF CountInv, Held, OwnHold, QueuedTasks
<1>10. DisposeInv'
  BY <1>1, <1>2 DEF DisposeInv
<1>11. FreeInv'
  BY <1>2 DEF FreeInv, poolVars
<1>12. QED
  BY <1>4, <1>5, <1>6, <1>7, <1>8, <1>9, <1>10, <1>11

\* get_status, a look.
LEMMA GetStatusStep ==
  ASSUME IInv, NEW t \in Threads, GetStatus(t)
  PROVE  IInv'
<1> USE DEF IInv
<1>1. UNCHANGED <<token, holds, retired, block, local, provider, poolVars, internal, tasks, slot, seen>>
  BY DEF GetStatus, slotVars, Goto
<1>2. /\ Others(t) /\ ThreadTypes' /\ pc[t] = "held" /\ call[t] = "status"
      /\ At(t, "drop", call[t], arg[t], slot[t], seen[t])
  BY GotoMoves DEF GetStatus, States
<1>3. TypeOK'
  BY <1>2 DEF TypeOK, ThreadTypes, GetStatus, slotVars, poolVars, historyVars, pickVars
<1>4. \A u \in Threads : Stays(u)
  BY <1>2 DEF Stays, Others, At, Holding, Settling, Polls, Provider, Begins, Kinds
<1>5. ThreadInv'
  BY <1>1, <1>2 DEF ThreadInv, Others, At, poolVars, Settling, Polls, Provider, Begins, Kinds
<1>6. ContentInv'
  BY <1>1, <1>2 DEF ContentInv, Others, At, Holding
<1>7. QED
  BY <1>1, <1>3, <1>4, <1>5, <1>6, QuietStep

\* get_status, waiting under the mutex.
LEMMA WaitStatusStep ==
  ASSUME IInv, NEW t \in Threads, WaitStatus(t)
  PROVE  IInv'
<1> USE DEF IInv
<1>1. UNCHANGED <<token, holds, retired, block, local, provider, poolVars, internal, tasks, slot, seen>>
  BY DEF WaitStatus, slotVars, Goto
<1>2. /\ Others(t) /\ ThreadTypes' /\ pc[t] = "held" /\ call[t] = "wait"
      /\ \E l \in {"drop", "asleep"} : At(t, l, call[t], arg[t], slot[t], seen[t])
  BY GotoMoves DEF WaitStatus, States
<1>3. TypeOK'
  BY <1>2 DEF TypeOK, ThreadTypes, WaitStatus, slotVars, poolVars, historyVars, pickVars
<1>4. \A u \in Threads : Stays(u)
  BY <1>2 DEF Stays, Others, At, Holding, Settling, Polls, Provider, Begins, Kinds
<1>5. ThreadInv'
  BY <1>1, <1>2 DEF ThreadInv, Others, At, poolVars, Settling, Polls, Provider, Begins, Kinds
<1>6. ContentInv'
  BY <1>1, <1>2 DEF ContentInv, Others, At, Holding
<1>7. QED
  BY <1>1, <1>3, <1>4, <1>5, <1>6, QuietStep

\* take_result.
LEMMA TakeResultStep ==
  ASSUME IInv, NEW t \in Threads, TakeResult(t)
  PROVE  IInv'
<1> USE DEF IInv
<1>1. UNCHANGED <<token, holds, retired, block, local, provider, poolVars, internal, tasks, slot, seen>>
  BY DEF TakeResult, slotVars, Goto
<1>2. /\ Others(t) /\ ThreadTypes' /\ pc[t] = "held" /\ call[t] \in {"take", "collect"}
      /\ \E l \in {"drop", "retire"} : At(t, l, call[t], arg[t], slot[t], seen[t])
  BY GotoMoves DEF TakeResult, States
<1>3. TypeOK'
  <2>1. lost' \subseteq Tokens \X (0..MaxTokens)
    <3>1. seen[t] \in Tokens /\ read[t].of \in 0..MaxTokens
      BY <1>2, BusySlot DEF TypeOK
    <3>2. QED
      BY <3>1 DEF TakeResult, TypeOK
  <2>2. QED
    BY <1>2, <2>1 DEF TypeOK, ThreadTypes, TakeResult, slotVars, poolVars, historyVars
<1>4. \A u \in Threads : Stays(u)
  BY <1>2 DEF Stays, Others, At, Holding, Settling, Polls, Provider, Begins, Kinds
<1>5. ThreadInv'
  BY <1>1, <1>2 DEF ThreadInv, Others, At, poolVars, Settling, Polls, Provider, Begins, Kinds
<1>6. ContentInv'
  BY <1>1, <1>2 DEF ContentInv, Others, At, Holding
<1>7. QED
  BY <1>1, <1>3, <1>4, <1>5, <1>6, QuietStep

\* pending_operation: the pointer outlives the hold.
LEMMA PendingOperationStep ==
  ASSUME IInv, NEW t \in Threads, PendingOperation(t)
  PROVE  IInv'
<1> USE DEF IInv
<1>1. UNCHANGED <<token, holds, retired, block, local, provider, poolVars, internal, tasks, slot, seen>>
  BY DEF PendingOperation, slotVars, Goto
<1>2. /\ Others(t) /\ ThreadTypes' /\ pc[t] = "held" /\ call[t] = "pick"
      /\ \E c \in {"pick", "peek"} : At(t, "drop", c, arg[t], slot[t], seen[t])
  <2>1. Others(t) /\ pc[t] = "held"
    BY DEF TypeOK, PendingOperation, Others, Goto
  <2>2. QED
    BY <2>1 DEF TypeOK, PendingOperation, At, Goto, ThreadTypes, States, Statuses
<1>3. TypeOK'
  BY <1>2 DEF TypeOK, ThreadTypes, PendingOperation, slotVars, poolVars, historyVars, pickVars
<1>4. \A u \in Threads : Stays(u)
  BY <1>2 DEF Stays, Others, At, Holding, Settling, Polls, Provider, Begins, Kinds
<1>5. ThreadInv'
  BY <1>1, <1>2 DEF ThreadInv, Others, At, poolVars, Settling, Polls, Provider, Begins, Kinds
<1>6. ContentInv'
  BY <1>1, <1>2 DEF ContentInv, Others, At, Holding
<1>7. QED
  BY <1>1, <1>3, <1>4, <1>5, <1>6, QuietStep

\* cancel: an operation still pending is finished first.
LEMMA CancelStep ==
  ASSUME IInv, NEW t \in Threads, Cancel(t)
  PROVE  IInv'
<1> USE DEF IInv
<1>1. UNCHANGED <<token, holds, retired, block, local, provider, poolVars, internal, tasks, slot, seen>>
  BY DEF Cancel, slotVars, Goto
<1>2. /\ Others(t) /\ ThreadTypes' /\ pc[t] = "held" /\ call[t] = "cancel"
      /\ \E l \in {"retire", "finish"} : At(t, l, call[t], arg[t], slot[t], seen[t])
  <2>1. Others(t) /\ pc[t] = "held"
    BY DEF TypeOK, Cancel, Others, Goto
  <2>2. QED
    BY <2>1 DEF TypeOK, Cancel, At, Goto, ThreadTypes, States, Statuses
<1>3. TypeOK'
  BY <1>2 DEF TypeOK, ThreadTypes, Cancel, slotVars, poolVars, historyVars, pickVars
<1>4. \A u \in Threads : Stays(u)
  BY <1>2 DEF Stays, Others, At, Holding, Settling, Polls, Provider, Begins, Kinds
<1>5. ThreadInv'
  BY <1>1, <1>2 DEF ThreadInv, Others, At, poolVars, Settling, Polls, Provider, Begins, Kinds
<1>6. ContentInv'
  BY <1>1, <1>2 DEF ContentInv, Others, At, Holding
<1>7. QED
  BY <1>1, <1>3, <1>4, <1>5, <1>6, QuietStep

\* XAsyncComplete.
LEMMA CompleteStep ==
  ASSUME IInv, NEW t \in Threads, Complete(t)
  PROVE  IInv'
<1> USE DEF IInv
<1>1. UNCHANGED <<token, holds, retired, block, local, provider, poolVars, internal, tasks, slot, seen>>
  BY DEF Complete, slotVars, Goto
<1>2. /\ Others(t) /\ ThreadTypes' /\ pc[t] = "held" /\ call[t] = "complete"
      /\ At(t, "finish", call[t], arg[t], slot[t], seen[t])
  <2>1. Others(t) /\ pc[t] = "held"
    BY DEF TypeOK, Complete, Others, Goto
  <2>2. QED
    BY <2>1 DEF TypeOK, Complete, At, Goto, ThreadTypes, States, Statuses
<1>3. TypeOK'
  BY <1>2 DEF TypeOK, ThreadTypes, Complete, slotVars, poolVars, historyVars, pickVars
<1>4. \A u \in Threads : Stays(u)
  BY <1>2 DEF Stays, Others, At, Holding, Settling, Polls, Provider, Begins, Kinds
<1>5. ThreadInv'
  BY <1>1, <1>2 DEF ThreadInv, Others, At, poolVars, Settling, Polls, Provider, Begins, Kinds
<1>6. ContentInv'
  BY <1>1, <1>2 DEF ContentInv, Others, At, Holding
<1>7. QED
  BY <1>1, <1>3, <1>4, <1>5, <1>6, QuietStep

\* XAsyncSchedule.
LEMMA ScheduleStep ==
  ASSUME IInv, NEW t \in Threads, Schedule(t)
  PROVE  IInv'
<1> USE DEF IInv
<1>1. UNCHANGED <<token, holds, retired, block, local, provider, poolVars, internal, tasks, slot, seen>>
  BY DEF Schedule, slotVars, Goto
<1>2. /\ Others(t) /\ ThreadTypes' /\ pc[t] = "held" /\ call[t] = "schedule"
      /\ \/ At(t, "submit", call[t], arg[t], slot[t], seen[t]) /\ provider[slot[t]]
         \/ At(t, "drop", call[t], arg[t], slot[t], seen[t])
  BY GotoMoves DEF Schedule, States
<1>3. TypeOK'
  BY <1>2 DEF TypeOK, ThreadTypes, Schedule, slotVars, poolVars, historyVars, pickVars
<1>4. \A u \in Threads : Stays(u)
  BY <1>2 DEF Stays, Others, At, Holding, Settling, Polls, Provider, Begins, Kinds
<1>5. ThreadInv'
  BY <1>1, <1>2 DEF ThreadInv, Others, At, poolVars, Settling, Polls, Provider, Begins, Kinds
<1>6. ContentInv'
  BY <1>1, <1>2 DEF ContentInv, Others, At, Holding
<1>7. QED
  BY <1>1, <1>3, <1>4, <1>5, <1>6, QuietStep

\* finish: the first outcome is written under the mutex.
LEMMA FinishStep ==
  ASSUME IInv, NEW t \in Threads, Finish(t)
  PROVE  IInv'
<1> USE DEF IInv
<1>1. UNCHANGED <<token, holds, retired, block, local, provider, poolVars, internal, tasks, slot, seen>>
  BY DEF Finish, slotVars, Goto
<1>2. /\ Others(t) /\ ThreadTypes' /\ pc[t] = "finish"
      /\ \E l \in {"drop", "retire", "signal"}, a \in Blocks \cup {None} :
            At(t, l, call[t], a, slot[t], seen[t]) /\ (l = "retire" => call[t] = "cancel")
  <2>1. slot[t] \in Slots
    BY BusySlot DEF Finish
  <2>2. AfterFinish(t) \in {"drop", "retire"} /\ (AfterFinish(t) = "retire" => call[t] = "cancel")
    BY DEF AfterFinish
  <2>3. CASE completed[slot[t]]
    <3>1. Goto(t, AfterFinish(t)) /\ pc[t] = "finish" /\ arg[t] \in Blocks \cup {None}
      BY <2>3 DEF Finish, TypeOK
    <3>2. AfterFinish(t) \in States
      BY <2>2 DEF States
    <3>3. QED
      BY <2>2, <3>1, <3>2, GotoMoves
  <2>4. CASE ~completed[slot[t]]
    <3>1. block[slot[t]] \in Blocks \cup {None}
      BY <2>1 DEF TypeOK
    <3>2. QED
      BY <2>4, <3>1 DEF TypeOK, Finish, Others, At, ThreadTypes, States
  <2>5. QED
    BY <2>3, <2>4
<1>3. TypeOK'
  <2>1. completed' \in [Slots -> BOOLEAN] /\ status' \in [Slots -> Statuses]
    BY DEF TypeOK, Finish
  <2>2. QED
    BY <1>1, <1>2, <2>1 DEF TypeOK, ThreadTypes, Finish, poolVars, historyVars, pickVars
<1>4. \A u \in Threads : Stays(u)
  BY <1>2 DEF Stays, ThreadInv, Others, At, Holding, Settling, Polls, Provider, Begins, Kinds
<1>5. ThreadInv'
  BY <1>1, <1>2 DEF ThreadInv, Others, At, poolVars, Settling, Polls, Provider, Begins, Kinds
<1>6. ContentInv'
  BY <1>1, <1>2 DEF ContentInv, Others, At, Holding
<1>7. QED
  BY <1>1, <1>3, <1>4, <1>5, <1>6, QuietStep

\* The port would not take the task.
LEMMA RefuseStep ==
  ASSUME IInv, NEW t \in Threads, Refuse(t)
  PROVE  IInv'
<1> USE DEF IInv
<1>1. UNCHANGED <<token, holds, retired, block, local, provider, poolVars, internal, tasks, slot, seen>>
  BY DEF Refuse, slotVars, Goto
<1>2. /\ Others(t) /\ ThreadTypes' /\ pc[t] = "enqueue"
      /\ At(t, "withdraw", call[t], arg[t], slot[t], seen[t])
  BY GotoMoves DEF Refuse, States
<1>3. TypeOK'
  BY <1>2 DEF TypeOK, ThreadTypes, Refuse, slotVars, poolVars, historyVars, pickVars
<1>4. \A u \in Threads : Stays(u)
  BY <1>2 DEF Stays, Others, At, Holding, Settling, Polls, Provider, Begins, Kinds
<1>5. ThreadInv'
  BY <1>1, <1>2 DEF ThreadInv, Others, At, poolVars, Settling, Polls, Provider, Begins, Kinds
<1>6. ContentInv'
  BY <1>1, <1>2 DEF ContentInv, Others, At, Holding
<1>7. QED
  BY <1>1, <1>3, <1>4, <1>5, <1>6, QuietStep

\* perform: the work of the runtime's own operation.
LEMMA PerformStep ==
  ASSUME IInv, NEW t \in Threads, Perform(t)
  PROVE  IInv'
<1> USE DEF IInv
<1>1. UNCHANGED <<token, holds, retired, block, local, provider, poolVars, internal, tasks, slot, seen>>
  BY DEF Perform, slotVars, Goto
<1>2. /\ Others(t) /\ ThreadTypes' /\ pc[t] = "held" /\ call[t] = "perform"
      /\ At(t, "finish", call[t], arg[t], slot[t], seen[t])
  <2>1. Others(t) /\ pc[t] = "held"
    BY DEF TypeOK, Perform, Others, Goto
  <2>2. QED
    BY <2>1 DEF TypeOK, Perform, At, Goto, ThreadTypes, States, Statuses
<1>3. TypeOK'
  <2>1. chosen' \in [Slots -> 0..1]
    BY DEF TypeOK, Perform
  <2>2. QED
    BY <1>2, <2>1 DEF TypeOK, ThreadTypes, Perform, slotVars, poolVars, historyVars
<1>4. \A u \in Threads : Stays(u)
  BY <1>2 DEF Stays, Others, At, Holding, Settling, Polls, Provider, Begins, Kinds
<1>5. ThreadInv'
  BY <1>1, <1>2 DEF ThreadInv, Others, At, poolVars, Settling, Polls, Provider, Begins, Kinds
<1>6. ContentInv'
  BY <1>1, <1>2 DEF ContentInv, Others, At, Holding
<1>7. QED
  BY <1>1, <1>3, <1>4, <1>5, <1>6, QuietStep

\* do_work: the provider's work.
LEMMA DoWorkStep ==
  ASSUME IInv, NEW t \in Threads, DoWork(t)
  PROVE  IInv'
<1> USE DEF IInv
<1>1. UNCHANGED <<token, holds, retired, block, local, provider, poolVars, internal, tasks, slot, seen>>
  BY DEF DoWork, slotVars, Goto
<1>2. /\ Others(t) /\ ThreadTypes' /\ pc[t] = "held" /\ call[t] = "do_work"
      /\ \E l \in {"drop", "finish"} : At(t, l, call[t], arg[t], slot[t], seen[t])
  <2>1. Others(t) /\ pc[t] = "held"
    BY DEF TypeOK, DoWork, Others, Goto
  <2>2. QED
    BY <2>1 DEF TypeOK, DoWork, At, Goto, ThreadTypes, States, Statuses
<1>3. TypeOK'
  BY <1>2 DEF TypeOK, ThreadTypes, DoWork, slotVars, poolVars, historyVars, pickVars
<1>4. \A u \in Threads : Stays(u)
  BY <1>2 DEF Stays, Others, At, Holding, Settling, Polls, Provider, Begins, Kinds
<1>5. ThreadInv'
  BY <1>1, <1>2 DEF ThreadInv, Others, At, poolVars, Settling, Polls, Provider, Begins, Kinds
<1>6. ContentInv'
  BY <1>1, <1>2 DEF ContentInv, Others, At, Holding
<1>7. QED
  BY <1>1, <1>3, <1>4, <1>5, <1>6, QuietStep

\* announce: the completion routine is taken from the block, or there is none.
LEMMA AnnounceStep ==
  ASSUME IInv, NEW t \in Threads, Announce(t)
  PROVE  IInv'
<1> USE DEF IInv
<1>1. UNCHANGED <<token, holds, retired, block, local, provider, poolVars, internal, tasks, slot, seen>>
  BY DEF Announce, slotVars, Goto
<1>2. /\ Others(t) /\ ThreadTypes' /\ pc[t] = "held" /\ call[t] = "announce"
      /\ \E l \in {"routine", "drop"} : At(t, l, call[t], arg[t], slot[t], seen[t])
  BY GotoMoves DEF Announce, States
<1>3. TypeOK'
  BY <1>2 DEF TypeOK, ThreadTypes, Announce, slotVars, poolVars, historyVars, pickVars
<1>4. \A u \in Threads : Stays(u)
  BY <1>2 DEF Stays, Others, At, Holding, Settling, Polls, Provider, Begins, Kinds
<1>5. ThreadInv'
  BY <1>1, <1>2 DEF ThreadInv, Others, At, poolVars, Settling, Polls, Provider, Begins, Kinds
<1>6. ContentInv'
  BY <1>1, <1>2 DEF ContentInv, Others, At, Holding
<1>7. QED
  BY <1>1, <1>3, <1>4, <1>5, <1>6, QuietStep

\* announce: the completion routine is called.
LEMMA CallRoutineStep ==
  ASSUME IInv, NEW t \in Threads, CallRoutine(t)
  PROVE  IInv'
<1> USE DEF IInv
<1>1. UNCHANGED <<token, holds, retired, block, local, provider, poolVars, internal, tasks, slot, seen>>
  BY DEF CallRoutine, slotVars, Goto
<1>2. /\ Others(t) /\ ThreadTypes' /\ pc[t] = "routine" /\ call[t] \notin Begins
      /\ At(t, "drop", call[t], arg[t], slot[t], seen[t])
  BY GotoMoves DEF CallRoutine, States, ThreadInv, Begins
<1>3. TypeOK'
  <2>1. announcements' \in [Tokens -> Nat]
    BY DEF TypeOK, CallRoutine
  <2>2. QED
    BY <1>2, <2>1 DEF TypeOK, ThreadTypes, CallRoutine, slotVars, poolVars, pickVars
<1>4. \A u \in Threads : Stays(u)
  BY <1>2 DEF Stays, Others, At, Holding, Settling, Polls, Provider, Begins, Kinds
<1>5. ThreadInv'
  BY <1>1, <1>2 DEF ThreadInv, Others, At, poolVars, Settling, Polls, Provider, Begins, Kinds
<1>6. ContentInv'
  BY <1>1, <1>2 DEF ContentInv, Others, At, Holding
<1>7. QED
  BY <1>1, <1>3, <1>4, <1>5, <1>6, QuietStep


\* wake_all: the waiters look again, with the hold they have.
LEMMA SignalStep ==
  ASSUME IInv, NEW t \in Threads, Signal(t)
  PROVE  IInv'
<1> USE DEF IInv
<1>1. UNCHANGED <<token, holds, retired, block, local, provider, poolVars, internal, tasks,
                  call, arg, slot, seen>>
  BY DEF Signal, slotVars
<1>2. pc[t] = "signal" /\ call[t] \in Settling
  BY DEF Signal, ThreadInv
<1>3. pc'[t] \in {"submit", "drop", "retire"} /\ (pc'[t] = "retire" => call[t] = "cancel")
  BY DEF Signal, AfterFinish
<1>4. \A u \in Threads \ {t} : pc'[u] = pc[u] \/ (pc[u] = "asleep" /\ pc'[u] = "held")
  BY DEF Signal
<1>5. TypeOK'
  <2>1. pc' \in [Threads -> States]
    BY DEF TypeOK, Signal, States, AfterFinish
  <2>2. QED
    BY <2>1 DEF TypeOK, Signal, slotVars, poolVars, historyVars, pickVars
<1>6. \A u \in Threads : Stays(u)
  BY <1>1, <1>2, <1>3, <1>4 DEF Stays, ThreadInv, Holding, Settling, Begins
<1>7. ThreadInv'
  BY <1>1, <1>2, <1>3, <1>4 DEF ThreadInv, poolVars, Settling, Begins
<1>8. ContentInv'
  BY <1>1, <1>2, <1>3, <1>4 DEF ContentInv, ThreadInv, Holding, Settling
<1>9. QED
  BY <1>1, <1>5, <1>6, <1>7, <1>8, QuietStep

-----------------------------------------------------------------------------
(* Each step preserves the invariant: calls that end or look a block up     *)

\* The holds are still counted when nobody's share changes.
LEMMA CountQuiet ==
  ASSUME IInv, NEW t \in Threads, Others(t),
         UNCHANGED <<token, holds, retired, tasks>>,
         \A r \in Slots : Share(t, r)' = Share(t, r)
  PROVE  CountInv'
<1>1. ASSUME NEW r \in Slots PROVE Held(r)' = Held(r)
  BY HeldStep
<1>2. QED
  BY <1>1 DEF IInv, CountInv, OwnHold, QueuedTasks

\* A thread with no share of any slot.
LEMMA NoShare ==
  ASSUME NEW t, \/ pc[t] \notin Holding
                \/ call[t] \in Begins /\ pc[t] \notin {"enqueue", "withdraw", "unhold"}
  PROVE  \A r : Share(t, r) = 0
BY DEF Share, Retirers, Holders, Submitters, Holding

\* The same, after a step.
LEMMA NoShareNext ==
  ASSUME NEW t, \/ pc'[t] \notin Holding
                \/ call'[t] \in Begins /\ pc'[t] \notin {"enqueue", "withdraw", "unhold"}
  PROVE  \A r : Share(t, r)' = 0
BY DEF Share, Retirers, Holders, Submitters, Holding

\* A call that has no hold ends, or reads through a picker's pointer.
LEMMA LeaveStep ==
  ASSUME IInv, TypeOK', NEW t \in Threads, Others(t),
         UNCHANGED <<token, holds, retired, block, local, provider, poolVars, internal, tasks>>,
         \A r : Share(t, r) = 0, pc[t] # "setup",
         \/ At(t, "idle", "none", None, None, None)
         \/ At(t, "again", call[t], arg[t], slot[t], seen[t]) /\ pc[t] = "peek"
  PROVE  IInv'
<1> USE DEF IInv
<1>1. ThreadInv'
  BY DEF ThreadInv, Others, At, poolVars, Begins
<1>2. TokenInv'
  BY DEF TokenInv, QueuedTasks, poolVars
<1>3. SetUpInv'
  <2>1. seen'[t] = None \/ seen'[t] = seen[t]
    BY DEF At
  <2>2. \A u \in Threads : pc[u] = "setup" => seen[u] # None
    BY BusySlot
  <2>3. QED
    BY <2>1, <2>2 DEF SetUpInv, Others, At
<1>4. BusyInv'
  BY DEF BusyInv, Others, At, Busy, Holding, Disposing
<1>5. BlockInv'
  BY DEF BlockInv
<1>6. BeginInv'
  <2>1. seen'[t] = None \/ (seen'[t] = seen[t] /\ call'[t] = call[t])
    BY DEF At
  <2>2. \A u \in Threads : call[u] \in Begins => seen[u] # None
    BY BusySlot DEF ThreadInv, Begins
  <2>3. call'[t] \notin Begins
    BY DEF At, ThreadInv, Begins
  <2>4. QED
    BY <2>1, <2>2, <2>3 DEF BeginInv, Others
<1>7. ContentInv'
  BY DEF ContentInv, Others, At, Holding
<1>8. CountInv'
  <2>1. pc'[t] \notin Holding
    BY DEF At, Holding
  <2>2. \A r : Share(t, r)' = 0
    BY <2>1, NoShareNext
  <2>3. QED
    BY <2>2, CountQuiet
<1>9. DisposeInv'
  BY DEF DisposeInv, Others, At, Disposing
<1>10. FreeInv'
  BY DEF FreeInv, Others, At, poolVars
<1>11. QED
  BY <1>1, <1>2, <1>3, <1>4, <1>5, <1>6, <1>7, <1>8, <1>9, <1>10

\* The operation a block names is alive, and while it is begun only its beginner, its
\* provider and its tasks know its token.
LEMMA NamedAlive ==
  ASSUME IInv, NEW a \in Blocks, internal[a] # Unnamed
  PROVE  /\ internal[a].slot \in Slots /\ internal[a].slot <= used
         /\ internal[a].token = token[internal[a].slot] /\ internal[a].token # None
         /\ internal[a].token < next /\ ~retired[internal[a].slot]
         /\ \A t \in Threads : call[t] \in Begins /\ seen[t] = internal[a].token => arg[t] = a
<1> USE DEF IInv
<1> DEFINE r == internal[a].slot
<1>1. r \in Slots /\ internal[a].token = token[r] /\ token[r] # None /\ ~retired[r] /\ block[r] = a
  BY DEF BlockInv
<1>2. r <= used /\ token[r] < next
  BY <1>1 DEF TokenInv
<1>3. ASSUME NEW t \in Threads, call[t] \in Begins, seen[t] = token[r] PROVE arg[t] = a
  <2>1. pc[t] # "idle"
    BY <1>3 DEF ThreadInv, Begins
  <2>2. pc[t] # "setup"
    BY <1>1, <1>3 DEF SetUpInv
  <2>3. pc[t] \in Busy
    BY <1>3, <2>1, <2>2 DEF ThreadInv, TypeOK, States, Busy, Holding, Disposing, Begins, Polls, Provider
  <2>4. slot[t] \in Slots /\ token[slot[t]] = token[r]
    BY <1>3, <2>1, <2>3, BusySlot
  <2>5. slot[t] = r
    BY <1>1, <2>4 DEF TokenInv
  <2>6. pc[t] \notin Disposing
    BY <1>1, <2>5, Alone
  <2>7. pc[t] # "unhold"
    BY <1>1, <2>5 DEF BusyInv
  <2>8. pc[t] \in {"fill", "held", "submit", "enqueue", "withdraw", "retire"}
    BY <1>3, <2>3, <2>6, <2>7 DEF ThreadInv, Busy, Holding, Settling, Begins
  <2>9. QED
    BY <1>1, <1>3, <2>5, <2>8 DEF BeginInv
<1>4. QED
  BY <1>1, <1>2, <1>3

\* find reads the slot and the token of the block.
LEMMA LookStep ==
  ASSUME IInv, TypeOK', NEW t \in Threads, Others(t),
         UNCHANGED <<token, holds, retired, block, local, provider, poolVars, internal, tasks>>,
         NEW a \in Blocks, internal[a] # Unnamed,
         NEW k \in Polls \cup Provider \cup {"collect"}, k \notin Provider => ~Beginning(a),
         pc[t] \in {"idle", "again"},
         At(t, "find", k, a, internal[a].slot, internal[a].token)
  PROVE  IInv'
<1> USE DEF IInv
<1>1. /\ slot'[t] \in Slots /\ slot'[t] <= used
      /\ seen'[t] = token[slot'[t]] /\ seen'[t] # None /\ seen'[t] < next /\ ~retired[slot'[t]]
      /\ \A u \in Threads : call[u] \in Begins /\ seen[u] = seen'[t] => arg[u] = a
  BY NamedAlive DEF At
<1>2. call'[t] = k /\ k \notin Begins \cup Kinds \cup {"none", "peek"} /\ pc'[t] = "find" /\ arg'[t] = a
  BY DEF At, Polls, Provider, Begins, Kinds
<1>3. ThreadInv'
  <2>1. slot'[t] \in 1..used /\ seen'[t] \in 1..(next - 1)
    BY <1>1 DEF Slots, TypeOK, None
  <2>2. QED
    BY <1>2, <2>1 DEF ThreadInv, Others, poolVars
<1>4. TokenInv'
  BY DEF TokenInv, QueuedTasks, poolVars
<1>5. SetUpInv'
  BY <1>1, <1>2 DEF SetUpInv, Others
<1>6. BusyInv'
  BY <1>1, <1>2 DEF BusyInv, Others, Busy, Holding, Disposing
<1>7. BlockInv'
  BY DEF BlockInv
<1>8. BeginInv'
  <2>1. \A u \in Threads : call[u] \in Begins /\ seen[u] = seen'[t] => k \in Provider
    BY <1>1 DEF Beginning
  <2>2. QED
    BY <1>2, <2>1 DEF BeginInv, Others
<1>9. ContentInv'
  BY <1>2 DEF ContentInv, Others, Holding
<1>10. CountInv'
  <2>1. \A r : Share(t, r)' = 0 /\ Share(t, r) = 0
    BY <1>2, NoShare, NoShareNext DEF Holding
  <2>2. QED
    BY <2>1, CountQuiet
<1>11. DisposeInv'
  BY <1>2 DEF DisposeInv, Others, Disposing
<1>12. FreeInv'
  BY <1>2 DEF FreeInv, Others, poolVars
<1>13. QED
  BY <1>3, <1>4, <1>5, <1>6, <1>7, <1>8, <1>9, <1>10, <1>11, <1>12

\* The first look of a call at its block.
LEMMA LookUpStep ==
  ASSUME IInv, NEW t \in Clients, NEW a \in Blocks, NEW k \in BlockCalls, LookUp(t, a, k)
  PROVE  IInv'
<1> USE DEF IInv
<1>1. t \in Threads /\ k \in Polls \cup Provider
  BY AsyncConstants DEF Threads
<1>2. Others(t) /\ At(t, "find", k, a, internal[a].slot, internal[a].token)
  BY <1>1 DEF LookUp, TypeOK, Others, At
<1>3. /\ internal[a] # Unnamed /\ pc[t] = "idle" /\ (k \in Polls => ~Beginning(a))
      /\ UNCHANGED <<token, holds, retired, block, local, provider, poolVars, internal, tasks>>
  BY DEF LookUp, slotVars
<1>4. TypeOK'
  <2>1. internal[a].slot \in 0..MaxSlots /\ internal[a].token \in 0..MaxTokens
    BY DEF TypeOK
  <2>2. ThreadTypes'
    BY <1>1, <2>1 DEF LookUp, TypeOK, ThreadTypes, States
  <2>3. QED
    BY <2>2 DEF LookUp, TypeOK, ThreadTypes, slotVars, poolVars, historyVars, pickVars
<1>5. QED
  BY <1>1, <1>2, <1>3, <1>4, LookStep

\* show_player_picker_result reads the size of the selection through the pointer,
LEMMA PeekStep ==
  ASSUME IInv, NEW t \in Threads, Peek(t)
  PROVE  IInv'
<1> USE DEF IInv
<1>1. Others(t) /\ At(t, "again", call[t], arg[t], slot[t], seen[t]) /\ pc[t] = "peek"
  BY DEF Peek, TypeOK, Others, At
<1>2. UNCHANGED <<token, holds, retired, block, local, provider, poolVars, internal, tasks>>
  BY DEF Peek, slotVars
<1>3. TypeOK'
  <2> DEFINE there == token[slot[t]] = seen[t] /\ local[slot[t]]
             k == IF there /\ completed[slot[t]] THEN seen[t] ELSE None
  <2>1. slot[t] \in Slots
    BY <1>1, BusySlot
  <2>2. chosen[slot[t]] \in 0..1
    BY <2>1 DEF TypeOK
  <2>3. k \in 0..MaxTokens
    BY AsyncConstants DEF TypeOK, None
  <2>4. PICK n \in IF there THEN {chosen[slot[t]]} ELSE {0, 1} :
           read' = [read EXCEPT ![t] = [size |-> n, of |-> k]]
    BY DEF Peek
  <2>5. n \in 0..1
    BY <2>2
  <2> HIDE DEF k
  <2>6. read' \in [Threads -> [size : 0..1, of : 0..MaxTokens]]
    BY <2>3, <2>4, <2>5 DEF TypeOK
  <2>7. pc' \in [Threads -> States]
    BY DEF TypeOK, Peek, States
  <2>8. QED
    BY <2>6, <2>7 DEF TypeOK, Peek, slotVars, poolVars, historyVars, pickVars
<1>4. \A r : Share(t, r) = 0
  BY <1>1, NoShare DEF Holding
<1>5. QED
  BY <1>1, <1>2, <1>3, <1>4, LeaveStep

\* and looks the block up again.
LEMMA CollectStep ==
  ASSUME IInv, NEW t \in Threads, Collect(t)
  PROVE  IInv'
<1> USE DEF IInv
<1> DEFINE a == arg[t]
<1>1. pc[t] = "again" /\ a \in Blocks
  BY DEF Collect, ThreadInv
<1>2. UNCHANGED <<token, holds, retired, block, local, provider, poolVars, internal, tasks>>
  BY DEF Collect, slotVars
<1>3. CASE internal[a] = Unnamed
  <2>1. Return(t)
    BY <1>3 DEF Collect
  <2>2. Others(t) /\ At(t, "idle", "none", None, None, None) /\ ThreadTypes'
    BY <2>1, ReturnMoves
  <2>3. TypeOK'
    BY <2>2 DEF Collect, TypeOK, ThreadTypes, slotVars, poolVars, historyVars, pickVars
  <2>4. \A r : Share(t, r) = 0
    BY <1>1, NoShare DEF Holding
  <2>5. QED
    BY <1>1, <1>2, <2>2, <2>3, <2>4, LeaveStep
<1>4. CASE internal[a] # Unnamed
  <2>1. Others(t) /\ At(t, "find", "collect", a, internal[a].slot, internal[a].token) /\ ~Beginning(a)
    BY <1>4 DEF Collect, TypeOK, Others, At
  <2>2. TypeOK'
    <3>1. internal[a].slot \in 0..MaxSlots /\ internal[a].token \in 0..MaxTokens
      BY <1>1 DEF TypeOK
    <3>2. ThreadTypes'
      BY <1>4, <3>1 DEF Collect, TypeOK, ThreadTypes, States
    <3>3. QED
      BY <3>2 DEF Collect, TypeOK, ThreadTypes, slotVars, poolVars, historyVars, pickVars
  <2>3. QED
    BY <1>1, <1>2, <1>4, <2>1, <2>2, LookStep
<1>5. QED
  BY <1>3, <1>4


-----------------------------------------------------------------------------
(* Each step preserves the invariant: beginning an operation                *)

\* The provider's begin: the operation stays, or is about to be retired.
LEMMA ProviderBeginsStep ==
  ASSUME IInv, NEW t \in Threads, ProviderBegins(t)
  PROVE  IInv'
<1> USE DEF IInv
<1>1. pc[t] = "held" /\ call[t] = "provide"
  BY DEF ProviderBegins
<1>2. UNCHANGED <<token, holds, retired, block, local, provider, poolVars, internal, tasks>>
  BY DEF ProviderBegins, slotVars
<1>3. CASE Return(t) /\ UNCHANGED <<origin, cleanups>>
  <2>1. Others(t) /\ At(t, "idle", "none", None, None, None) /\ ThreadTypes'
    BY <1>3, ReturnMoves
  <2>2. TypeOK'
    BY <1>3, <2>1 DEF ProviderBegins, TypeOK, ThreadTypes, slotVars, poolVars, pickVars
  <2>3. \A r : Share(t, r) = 0
    BY <1>1, NoShare DEF Begins
  <2>4. QED
    BY <1>1, <1>2, <2>1, <2>2, <2>3, LeaveStep
<1>4. CASE /\ origin' = [origin EXCEPT ![seen[t]] = "failed"]
           /\ cleanups' = [cleanups EXCEPT ![seen[t]] = @ + 1]
           /\ Goto(t, "retire")
  <2>1. Others(t) /\ At(t, "retire", call[t], arg[t], slot[t], seen[t]) /\ ThreadTypes'
    BY <1>4, GotoMoves DEF States
  <2>2. origin' \in [Tokens -> {"none", "local", "provider", "failed"}] /\ cleanups' \in [Tokens -> Nat]
    <3>1. seen[t] \in Tokens
      BY <1>1, BusySlot
    <3>2. QED
      BY <1>4, <3>1 DEF TypeOK
  <2>3. TypeOK'
    BY <2>1, <2>2 DEF ProviderBegins, TypeOK, ThreadTypes, slotVars, poolVars, pickVars
  <2>4. \A u \in Threads : Stays(u)
    BY <1>1, <2>1 DEF Stays, Others, At, Holding, Begins, Provider, Kinds
  <2>5. ThreadInv'
    BY <1>1, <1>2, <2>1 DEF ThreadInv, Others, At, poolVars, Begins
  <2>6. ContentInv'
    BY <1>1, <1>2, <2>1 DEF ContentInv, Others, At
  <2>7. slot' = slot /\ seen' = seen
    BY <1>4 DEF Goto
  <2>8. QED
    BY <1>2, <2>3, <2>4, <2>5, <2>6, <2>7, QuietStep
<1>5. QED
  BY <1>3, <1>4 DEF ProviderBegins

\* The operation is put in the slot by the thread that begins it.
LEMMA FillStep ==
  ASSUME IInv, TypeOK', NEW t \in Threads, Others(t),
         UNCHANGED <<token, holds, retired, block, poolVars, internal, tasks>>,
         pc[t] = "fill",
         NEW l \in {"submit", "held"}, At(t, l, call[t], arg[t], slot[t], seen[t]),
         l = "submit" => call[t] = "begin" /\ local'[slot[t]],
         l = "held" => call[t] = "provide",
         \A r \in Slots : /\ local[r] => local'[r]
                          /\ provider[r] => provider'[r]
                          /\ r # slot[t] => local'[r] = local[r]
  PROVE  IInv'
<1> USE DEF IInv
<1> DEFINE r == slot[t]
<1>1. r \in Slots /\ token[r] = seen[t] /\ token[r] # None
  BY BusySlot DEF Busy
<1>2. call[t] \in Begins /\ pc'[t] = l /\ call'[t] = call[t] /\ arg'[t] = arg[t] /\ slot'[t] = slot[t]
      /\ seen'[t] = seen[t]
  BY DEF At, ThreadInv
<1>3. \A u \in Threads : pc[u] \in Disposing => slot[u] # r
  BY Shared DEF Busy, Disposing
<1>4. ThreadInv'
  BY <1>2 DEF ThreadInv, Others, poolVars, Settling, Begins
<1>5. TokenInv'
  BY <1>1 DEF TokenInv, QueuedTasks, poolVars
<1>6. SetUpInv'
  BY <1>2 DEF SetUpInv, Others
<1>7. BusyInv'
  BY <1>1, <1>2 DEF BusyInv, Others
<1>8. BlockInv'
  BY DEF BlockInv
<1>9. BeginInv'
  BY <1>2 DEF BeginInv, Others
<1>10. ContentInv'
  <2>1. \A u \in Threads : pc[u] # "idle" => slot[u] \in Slots
    BY BusySlot
  <2>2. QED
    BY <1>1, <1>2, <2>1 DEF ContentInv, Others, Holding, Begins, ThreadInv
<1>11. CountInv'
  <2>1. \A q : Share(t, q)' = 0 /\ Share(t, q) = 0
    BY <1>2, NoShare, NoShareNext DEF Holding
  <2>2. QED
    BY <2>1, CountQuiet
<1>12. DisposeInv'
  <2>1. \A u \in Threads : pc[u] # "idle" => slot[u] \in Slots
    BY BusySlot
  <2>2. QED
    BY <1>2, <1>3, <2>1 DEF DisposeInv, Others, Disposing
<1>13. FreeInv'
  BY <1>2 DEF FreeInv, Others, poolVars
<1>14. QED
  BY <1>4, <1>5, <1>6, <1>7, <1>8, <1>9, <1>10, <1>11, <1>12, <1>13

\* An operation of the runtime's own,
LEMMA FillLocalStep ==
  ASSUME IInv, NEW t \in Threads, FillLocal(t)
  PROVE  IInv'
<1> USE DEF IInv
<1>1. pc[t] = "fill" /\ call[t] = "begin" /\ slot[t] \in Slots /\ seen[t] \in Tokens
  BY BusySlot DEF FillLocal
<1>2. Others(t) /\ At(t, "submit", call[t], arg[t], slot[t], seen[t]) /\ ThreadTypes'
  BY GotoMoves DEF FillLocal, States
<1>3. UNCHANGED <<token, holds, retired, block, poolVars, internal, tasks>> /\ provider' = provider
  BY DEF FillLocal
<1>4. \A r \in Slots : local'[r] = IF r = slot[t] THEN TRUE ELSE local[r]
  BY DEF FillLocal, TypeOK
<1>5. TypeOK'
  <2>1. /\ local' \in [Slots -> BOOLEAN] /\ chosen' \in [Slots -> 0..1]
        /\ origin' \in [Tokens -> {"none", "local", "provider", "failed"}]
    BY <1>1 DEF FillLocal, TypeOK
  <2>2. QED
    BY <1>2, <2>1 DEF FillLocal, TypeOK, ThreadTypes, poolVars
<1>6. QED
  BY <1>1, <1>2, <1>3, <1>4, <1>5, FillStep

\* or a provider's.
LEMMA FillProviderStep ==
  ASSUME IInv, NEW t \in Threads, FillProvider(t)
  PROVE  IInv'
<1> USE DEF IInv
<1>1. pc[t] = "fill" /\ call[t] = "provide" /\ slot[t] \in Slots /\ seen[t] \in Tokens
  BY BusySlot DEF FillProvider
<1>2. Others(t) /\ At(t, "held", call[t], arg[t], slot[t], seen[t]) /\ ThreadTypes'
  BY GotoMoves DEF FillProvider, States
<1>3. UNCHANGED <<token, holds, retired, block, poolVars, internal, tasks>> /\ local' = local
  BY DEF FillProvider
<1>4. \A r \in Slots : provider[r] => provider'[r]
  BY DEF FillProvider, TypeOK
<1>5. TypeOK'
  <2>1. /\ provider' \in [Slots -> BOOLEAN]
        /\ origin' \in [Tokens -> {"none", "local", "provider", "failed"}]
    BY <1>1 DEF FillProvider, TypeOK
  <2>2. QED
    BY <1>2, <2>1 DEF FillProvider, TypeOK, ThreadTypes, poolVars, pickVars
<1>6. QED
  BY <1>1, <1>2, <1>3, <1>4, <1>5, FillStep

\* acquire, first critical section: slot and token are nobody else's.
LEMMA AcquireStep ==
  ASSUME IInv, NEW t \in Clients, NEW a \in Blocks, NEW b \in BeginCalls, Acquire(t, a, b)
  PROVE  IInv'
<1> USE DEF IInv
<1> DEFINE r == slot'[t]
<1>1. t \in Threads /\ b \in Begins
  BY AsyncConstants DEF Threads
<1>2. /\ pc[t] = "idle" /\ internal[a] = Unnamed /\ ~Beginning(a) /\ next <= MaxTokens
      /\ next' = next + 1 /\ next \in 1..MaxTokens
      /\ UNCHANGED <<token, holds, retired, block, local, provider, internal, tasks>>
  BY DEF Acquire, slotVars, TypeOK
<1>3. /\ r \in Slots /\ token[r] = None
      /\ \A u \in Threads : pc[u] = "setup" => slot[u] # r
      /\ used <= used' /\ r <= used' /\ used' \in 0..MaxSlots
      /\ free' \in Seq(Slots)
      /\ \A i \in DOMAIN free' : i \in DOMAIN free /\ free'[i] = free[i] /\ free[i] # r
      /\ slot' = [slot EXCEPT ![t] = r]
  <2>1. CASE /\ free # <<>> /\ slot' = [slot EXCEPT ![t] = free[Len(free)]]
             /\ free' = SubSeq(free, 1, Len(free) - 1) /\ used' = used
    <3>1. Len(free) \in DOMAIN free /\ Len(free) \in Nat /\ free \in Seq(Slots)
      BY <2>1 DEF TypeOK
    <3>2. r = free[Len(free)]
      BY <1>1, <2>1 DEF TypeOK
    <3>3. r \in Slots /\ token[r] = None /\ r <= used /\ \A u \in Threads : pc[u] = "setup" => slot[u] # r
      BY <3>1, <3>2 DEF FreeInv
    <3>4. free' \in Seq(Slots) /\ \A i \in DOMAIN free' : i \in 1..(Len(free) - 1) /\ free'[i] = free[i]
      BY <2>1, <3>1
    <3>5. \A i \in 1..(Len(free) - 1) : i \in DOMAIN free /\ free[i] # r
      BY <3>1, <3>2 DEF FreeInv
    <3>6. used \in 0..MaxSlots /\ used <= used
      BY DEF TypeOK
    <3>7. slot' = [slot EXCEPT ![t] = r]
      BY <2>1, <3>2
    <3> HIDE DEF r
    <3>8. QED
      BY <2>1, <3>3, <3>4, <3>5, <3>6, <3>7
  <2>2. CASE /\ free = <<>> /\ used # MaxSlots /\ slot' = [slot EXCEPT ![t] = used + 1]
             /\ used' = used + 1 /\ free' = free
    <3>1. r = used + 1 /\ used \in 0..MaxSlots
      BY <1>1, <2>2 DEF TypeOK
    <3>2. r \in Slots /\ used' \in 0..MaxSlots /\ used <= used' /\ r <= used'
      BY <2>2, <3>1, AsyncConstants DEF Slots
    <3>3. token[r] = None
      BY <3>1, <3>2, AsyncConstants DEF TokenInv
    <3>4. \A u \in Threads : pc[u] = "setup" => slot[u] # r
      BY <3>1 DEF ThreadInv
    <3>5. slot' = [slot EXCEPT ![t] = r] /\ free' \in Seq(Slots) /\ DOMAIN free' = {}
      <4>1. slot' = [slot EXCEPT ![t] = r]
        BY <2>2, <3>1
      <4>2. free' = <<>>
        BY <2>2
      <4>3. QED
        BY <4>1, <4>2
    <3> HIDE DEF r
    <3>6. QED
      BY <3>2, <3>3, <3>4, <3>5
  <2>3. QED
    BY <2>1, <2>2 DEF Acquire
<1>4. Others(t) /\ At(t, "setup", b, a, r, next)
  BY <1>1, <1>3 DEF Acquire, TypeOK, Others, At
<1>5. TypeOK'
  <2>1. slot' \in [Threads -> 0..MaxSlots]
    <3>1. r \in 0..MaxSlots
      BY <1>3 DEF Slots
    <3>2. QED
      BY <1>3, <3>1 DEF TypeOK
  <2>2. seen' \in [Threads -> 0..MaxTokens] /\ next' \in 1..(MaxTokens + 1)
    <3>1. next \in 0..MaxTokens /\ next + 1 \in 1..(MaxTokens + 1)
      BY <1>2, AsyncConstants
    <3>2. QED
      BY <1>2, <3>1 DEF Acquire, TypeOK
  <2>3. /\ pc' \in [Threads -> States] /\ arg' \in [Threads -> Blocks \cup {None}]
        /\ call' \in [Threads -> Polls \cup Provider \cup Begins \cup Kinds
                                \cup {"peek", "collect", "none"}]
    BY <1>1 DEF Acquire, TypeOK, States
  <2>4. QED
    BY <1>3, <2>1, <2>2, <2>3 DEF Acquire, TypeOK, slotVars, historyVars, pickVars
<1>6. pc'[t] = "setup" /\ call'[t] = b /\ arg'[t] = a /\ slot'[t] = r /\ seen'[t] = next
  BY <1>4 DEF At
<1>7. \A u \in Threads : seen[u] # next
  BY <1>2, BusySlot, AsyncConstants DEF ThreadInv, None
<1> HIDE DEF r
<1>8. ThreadInv'
  <2>1. r \in 1..used' /\ next \in 1..(next' - 1)
    BY <1>2, <1>3 DEF Slots, TypeOK
  <2>2. \A u \in Threads : pc[u] # "idle" => slot[u] \in 1..used' /\ seen[u] \in 1..(next' - 1)
    BY <1>2, <1>3 DEF ThreadInv, TypeOK
  <2>3. b \notin {"none"} \cup Polls \cup {"peek"} /\ b \in Begins
    BY <1>1 DEF Begins, Polls
  <2>4. QED
    BY <1>4, <1>6, <2>1, <2>2, <2>3 DEF ThreadInv, Others
<1>9. TokenInv'
  <2>1. \A q \in Slots : token[q] < next' /\ (token[q] # None => q <= used')
    BY <1>2, <1>3 DEF TokenInv, TypeOK, Slots
  <2>2. QED
    BY <1>2, <2>1 DEF TokenInv, QueuedTasks
<1>10. SetUpInv'
  <2>1. \A q \in Slots : token[q] # next
    BY <1>2 DEF TokenInv, TypeOK
  <2>2. QED
    BY <1>2, <1>3, <1>4, <1>6, <1>7, <2>1 DEF SetUpInv, Others
<1>11. BusyInv'
  BY <1>2, <1>4, <1>6 DEF BusyInv, Others, Busy, Holding, Disposing
<1>12. BlockInv'
  BY <1>2 DEF BlockInv
<1>13. BeginInv'
  <2>1. \A u \in Threads : call[u] \in Begins => arg[u] # a
    BY <1>2 DEF Beginning
  <2>2. QED
    BY <1>1, <1>2, <1>4, <1>6, <1>7, <2>1 DEF BeginInv, Others
<1>14. ContentInv'
  BY <1>2, <1>4, <1>6 DEF ContentInv, Others, Holding
<1>15. CountInv'
  <2>1. \A q : Share(t, q)' = 0 /\ Share(t, q) = 0
    BY <1>2, <1>6, NoShare, NoShareNext DEF Holding
  <2>2. QED
    BY <1>1, <1>2, <1>4, <2>1, CountQuiet
<1>16. DisposeInv'
  BY <1>2, <1>4, <1>6 DEF DisposeInv, Others, Disposing
<1>17. FreeInv'
  <2>1. \A i \in DOMAIN free' : token[free'[i]] = None /\ free'[i] <= used'
    <3>1. \A i \in DOMAIN free : free[i] \in Slots /\ token[free[i]] = None /\ free[i] <= used
      BY DEF FreeInv, TypeOK
    <3>2. \A s \in Slots : s <= used => s <= used'
      BY <1>3 DEF Slots, TypeOK
    <3>3. QED
      BY <1>3, <3>1, <3>2
  <2>2. QED
    BY <1>2, <1>3, <1>4, <1>6, <2>1 DEF FreeInv, Others
<1>18. QED
  BY <1>5, <1>8, <1>9, <1>10, <1>11, <1>12, <1>13, <1>14, <1>15, <1>16, <1>17

\* acquire, second critical section: the slot and the block name each other.
LEMMA SetUpStep ==
  ASSUME IInv, NEW t \in Threads, SetUp(t)
  PROVE  IInv'
<1> USE DEF IInv
<1> DEFINE r == slot[t]
           a == arg[t]
           k == seen[t]
<1>1. pc[t] = "setup" /\ r \in Slots /\ r <= used /\ k \in Tokens /\ k # None /\ k < next
  BY BusySlot DEF SetUp
<1>2. call[t] \in Begins /\ a \in Blocks
  BY <1>1 DEF ThreadInv
<1>3. /\ token[r] = None /\ internal[a] = Unnamed
      /\ \A q \in Slots : token[q] # k
      /\ \A u \in Threads \ {t} : seen[u] # k /\ (pc[u] = "setup" => slot[u] # r)
  BY <1>1 DEF SetUpInv
<1>4. \A u \in Threads : pc[u] \in Busy => slot[u] \in Slots /\ slot[u] # r /\ u # t
  BY <1>1, <1>3, BusySlot DEF Busy, Holding, Disposing
<1>5. Others(t) /\ At(t, "fill", call[t], a, r, k) /\ ThreadTypes'
  BY GotoMoves DEF SetUp, States
<1>6. pc'[t] = "fill" /\ call'[t] = call[t] /\ arg'[t] = a /\ slot'[t] = r /\ seen'[t] = k
  BY <1>5 DEF At
<1>7. /\ token'[r] = k /\ holds'[r] = 1 /\ ~retired'[r] /\ block'[r] = a
      /\ \A q \in Slots \ {r} : /\ token'[q] = token[q] /\ holds'[q] = holds[q]
                                /\ retired'[q] = retired[q] /\ block'[q] = block[q]
                                /\ provider'[q] = provider[q]
  BY <1>1 DEF SetUp, TypeOK
<1>8. /\ internal'[a] = [slot |-> r, token |-> k]
      /\ \A c \in Blocks \ {a} : internal'[c] = internal[c]
  BY <1>2 DEF SetUp, TypeOK
<1>9. UNCHANGED <<local, free, used, next, tasks>>
  BY DEF SetUp, poolVars
<1>10. TypeOK'
  <2>1. /\ token' \in [Slots -> 0..MaxTokens] /\ holds' \in [Slots -> Nat]
        /\ completed' \in [Slots -> BOOLEAN] /\ retired' \in [Slots -> BOOLEAN]
        /\ provider' \in [Slots -> BOOLEAN] /\ status' \in [Slots -> Statuses]
        /\ block' \in [Slots -> Blocks \cup {None}]
    BY DEF SetUp, TypeOK, Statuses
  <2>2. internal' \in [Blocks -> [slot : 0..MaxSlots, token : 0..MaxTokens]]
    BY DEF SetUp, TypeOK
  <2>3. QED
    BY <1>5, <2>1, <2>2 DEF SetUp, TypeOK, ThreadTypes, poolVars, historyVars, pickVars
<1> HIDE DEF r, a, k
<1>11. ThreadInv'
  <2>1. r \in 1..used /\ k \in 1..(next - 1)
    BY <1>1 DEF ThreadInv, r, k
  <2>2. call[t] \notin {"none", "pick", "peek"}
    BY <1>2 DEF Begins
  <2>3. QED
    BY <1>2, <1>5, <1>6, <1>9, <2>1, <2>2 DEF ThreadInv, Others
<1>12. TokenInv'
  <2>1. \A q \in Slots : QueuedTasks(q)' = QueuedTasks(q)
    BY <1>9 DEF QueuedTasks
  <2>2. QED
    BY <1>1, <1>3, <1>7, <1>9, <2>1 DEF TokenInv
<1>13. SetUpInv'
  <2>1. ASSUME NEW u \in Threads \ {t}, pc[u] = "setup"
        PROVE  slot[u] \in Slots \ {r} /\ arg[u] \in Blocks \ {a} /\ seen[u] # k
    <3>1. call[u] \in Begins /\ arg[u] \in Blocks /\ slot[u] \in Slots
      BY <2>1, BusySlot DEF ThreadInv
    <3>2. arg[u] # a
      BY <1>2, <3>1 DEF BeginInv, a
    <3>3. QED
      BY <1>3, <2>1, <3>1, <3>2
  <2>2. ASSUME NEW u \in Threads \ {t}, pc[u] = "setup", NEW q \in Slots PROVE token'[q] # seen[u]
    BY <1>7, <2>1, <2>2 DEF SetUpInv
  <2>3. QED
    BY <1>5, <1>6, <1>7, <1>8, <2>1, <2>2 DEF SetUpInv, Others
<1>14. BusyInv'
  <2>1. \A u \in Threads : pc[u] # "idle" => slot[u] \in Slots
    BY BusySlot
  <2>2. QED
    BY <1>3, <1>4, <1>5, <1>6, <1>7, <2>1 DEF BusyInv, Others, Busy, Holding, Disposing
<1>15. BlockInv'
  <2>1. ASSUME NEW c \in Blocks, internal'[c] # Unnamed
        PROVE  /\ internal'[c].slot \in Slots /\ internal'[c].token # None
               /\ token'[internal'[c].slot] = internal'[c].token
               /\ ~retired'[internal'[c].slot] /\ block'[internal'[c].slot] = c
    <3>1. CASE c = a
      BY <1>1, <1>7, <1>8, <3>1
    <3>2. CASE c # a
      <4>1. internal'[c] = internal[c] /\ internal[c].slot \in Slots \ {r}
        BY <1>3, <1>8, <2>1, <3>2 DEF BlockInv
      <4>2. QED
        BY <1>7, <2>1, <4>1 DEF BlockInv
    <3>3. QED
      BY <3>1, <3>2
  <2>2. ASSUME NEW q \in Slots, token'[q] # None, ~retired'[q]
        PROVE  block'[q] \in Blocks /\ internal'[block'[q]] = [slot |-> q, token |-> token'[q]]
    <3>1. CASE q = r
      BY <1>2, <1>7, <1>8, <3>1
    <3>2. CASE q # r
      <4>1. /\ block'[q] = block[q] /\ token'[q] = token[q] /\ block[q] \in Blocks
            /\ internal[block[q]] = [slot |-> q, token |-> token[q]]
        BY <1>7, <2>2, <3>2 DEF BlockInv
      <4>2. [slot |-> q, token |-> token[q]] # Unnamed
        BY AsyncConstants DEF Unnamed, Slots, None
      <4>3. QED
        BY <1>3, <1>8, <4>1, <4>2
    <3>3. QED
      BY <3>1, <3>2
  <2>3. QED
    BY <2>1, <2>2 DEF BlockInv
<1>16. BeginInv'
  <2>1. \A u \in Threads \ {t} :
           pc[u] \in {"fill", "held", "submit", "enqueue", "withdraw", "retire"} => slot[u] \in Slots \ {r}
    BY <1>4 DEF Busy, Holding
  <2>2. QED
    BY <1>2, <1>5, <1>6, <1>7, <2>1 DEF BeginInv, Others, a, k
<1>17. ContentInv'
  <2>1. tasks[r]["do_work"] = 0
    BY <1>1, <1>3, QueuedType DEF TokenInv, Kinds
  <2>2. \A u \in Threads \ {t} : pc[u] \in Holding => slot[u] \in Slots \ {r}
    BY <1>4 DEF Busy
  <2>3. QED
    BY <1>5, <1>6, <1>7, <1>9, <2>1, <2>2 DEF ContentInv, Others, Holding
<1>18. CountInv'
  <2>1. \A q : Share(t, q)' = 0 /\ Share(t, q) = 0
    BY <1>1, <1>6, NoShare, NoShareNext DEF Holding
  <2>2. \A q : Held(q)' = Held(q)
    BY <1>5, <2>1, HeldStep
  <2>3. Retirers(r) = {} /\ Holders(r) = {} /\ Submitters(r) = {}
    BY <1>4 DEF Retirers, Holders, Submitters, Busy, Holding
  <2>4. Held(r) = 0
    BY <2>3, FS_EmptySet DEF Held
  <2>5. QueuedTasks(r) = 0 /\ \A q \in Slots : QueuedTasks(q)' = QueuedTasks(q)
    BY <1>1, <1>3, <1>9 DEF TokenInv, QueuedTasks
  <2>6. QED
    BY <1>1, <1>7, <2>2, <2>4, <2>5 DEF CountInv, OwnHold
<1>19. DisposeInv'
  <2>1. \A u \in Threads \ {t} : pc[u] \in Disposing => slot[u] \in Slots \ {r}
    BY <1>4 DEF Busy
  <2>2. QED
    BY <1>5, <1>6, <1>7, <1>9, <2>1 DEF DisposeInv, Others, Disposing
<1>20. FreeInv'
  <2>1. \A i \in DOMAIN free : free[i] \in Slots \ {r}
    <3>1. \A i \in DOMAIN free : free[i] # r
      BY <1>1 DEF FreeInv, r
    <3>2. QED
      BY <3>1 DEF TypeOK
  <2>2. QED
    BY <1>5, <1>6, <1>7, <1>9, <2>1 DEF FreeInv, Others
<1>21. QED
  BY <1>10, <1>11, <1>12, <1>13, <1>14, <1>15, <1>16, <1>17, <1>18, <1>19, <1>20


-----------------------------------------------------------------------------
(* Each step preserves the invariant: taking and dropping holds             *)

\* Where a beginner still has the operation to itself.
Own == {"fill", "held", "submit", "enqueue", "withdraw", "retire"}

\* A thread takes or drops holds on a slot that has some, and counts them.
LEMMA HoldStep ==
  ASSUME IInv, TypeOK', ThreadInv', ContentInv', NEW t \in Threads, Others(t),
         UNCHANGED <<token, retired, block, local, poolVars, internal, tasks>>,
         slot[t] \in Slots, holds[slot[t]] > 0, token[slot[t]] = seen[t],
         pc[t] # "setup", pc[t] \notin Disposing,
         \A q \in Slots : holds'[q] = holds[q] + Share(t, q)' - Share(t, q),
         \/ At(t, "idle", "none", None, None, None)
         \/ /\ At(t, pc'[t], call[t], arg[t], slot[t], seen[t])
            /\ pc'[t] \in {"held", "enqueue", "drop", "retire", "strip", "peek"}
            /\ pc'[t] = "strip" => holds'[slot[t]] = 0
            /\ call[t] \in Begins /\ pc'[t] \in Own => pc[t] \in Own
  PROVE  IInv'
<1> USE DEF IInv
<1>1. \A q \in Slots : q # slot[t] => holds'[q] = holds[q]
  <2>1. ASSUME NEW q \in Slots, q # slot[t] PROVE Share(t, q) = 0 /\ Share(t, q)' = 0
    <3>1. slot'[t] = None \/ slot'[t] = slot[t]
      BY DEF At
    <3>2. q # None
      BY AsyncConstants DEF Slots, None
    <3>3. QED
      BY <2>1, <3>1, <3>2 DEF Share, Retirers, Holders, Submitters
  <2>2. QED
    BY <2>1 DEF TypeOK
<1>2. TokenInv'
  <2>1. token[slot[t]] # None
    <3>1. pc[t] # "idle"
      BY BusySlot, AsyncConstants DEF At, Holding, ThreadInv, DisposeInv, None, Slots, TokenInv
    <3>2. QED
      BY <3>1, BusySlot
  <2>2. QED
    BY <1>1, <2>1 DEF TokenInv, QueuedTasks, poolVars
<1>3. SetUpInv'
  <2>1. seen'[t] = None \/ seen'[t] = seen[t]
    BY DEF At
  <2>2. \A u \in Threads : pc[u] = "setup" => seen[u] # None
    BY BusySlot
  <2>3. pc'[t] # "setup"
    BY DEF At
  <2>4. QED
    BY <2>1, <2>2, <2>3 DEF SetUpInv, Others
<1>4. BusyInv'
  BY DEF BusyInv, Others, At, Busy, Holding, Disposing
<1>5. BlockInv'
  BY DEF BlockInv
<1>6. BeginInv'
  <2>1. \/ seen'[t] = None /\ call'[t] = "none"
        \/ /\ seen'[t] = seen[t] /\ call'[t] = call[t] /\ arg'[t] = arg[t] /\ slot'[t] = slot[t]
           /\ call[t] \in Begins /\ pc'[t] \in Own => pc[t] \in Own
    BY DEF At
  <2>2. \A u \in Threads : call[u] \in Begins => seen[u] # None
    BY BusySlot DEF ThreadInv, Begins
  <2>3. QED
    BY <2>1, <2>2 DEF BeginInv, Others, Begins, Own
<1>7. CountInv'
  <2>1. ASSUME NEW q \in Slots, token[q] # None
        PROVE  holds'[q] = OwnHold(q)' + Held(q)' + QueuedTasks(q)'
    <3>1. holds[q] = OwnHold(q) + Held(q) + QueuedTasks(q)
      BY <2>1 DEF CountInv
    <3>2. OwnHold(q)' = OwnHold(q) /\ QueuedTasks(q)' = QueuedTasks(q) /\ OwnHold(q) \in {0, 1}
      BY DEF OwnHold, QueuedTasks
    <3>3. /\ Held(q)' = Held(q) + Share(t, q)' - Share(t, q)
          /\ Held(q) \in Nat /\ Share(t, q) \in Nat /\ Share(t, q)' \in Nat
      BY HeldStep
    <3>4. QED
      BY <3>1, <3>2, <3>3, QueuedType
  <2>2. QED
    BY <2>1 DEF CountInv
<1>8. DisposeInv'
  <2>1. \A u \in Threads : pc[u] \in Disposing => slot[u] \in Slots /\ slot[u] # slot[t]
    BY BusySlot DEF DisposeInv, Disposing
  <2>2. \A u \in Threads \ {t} : pc'[u] \in Disposing <=> pc[u] \in Disposing
    BY DEF Others
  <2>3. pc'[t] \in Disposing => pc'[t] = "strip" /\ slot'[t] = slot[t] /\ holds'[slot[t]] = 0
    BY DEF At, Disposing
  <2>4. \A u \in Threads : pc'[u] \in Disposing => holds'[slot'[u]] = 0
    <3>1. ASSUME NEW u \in Threads \ {t}, pc[u] \in Disposing PROVE holds'[slot[u]] = 0
      BY <1>1, <2>1, <3>1 DEF DisposeInv
    <3>2. QED
      BY <2>2, <2>3, <3>1 DEF Others
  <2>5. \A u \in Threads : pc'[u] \in {"cleanup", "free"} => ~local'[slot'[u]]
    BY <2>3 DEF DisposeInv, Others, Disposing
  <2>6. \A u, v \in Threads :
           pc'[u] \in Disposing /\ pc'[v] \in Disposing /\ slot'[u] = slot'[v] => u = v
    BY <2>1, <2>2, <2>3 DEF DisposeInv, Others
  <2>7. QED
    BY <2>4, <2>5, <2>6 DEF DisposeInv
<1>9. FreeInv'
  <2>1. pc'[t] # "setup"
    BY DEF At
  <2>2. QED
    BY <2>1 DEF FreeInv, Others, poolVars
<1>10. QED
  BY <1>2, <1>3, <1>4, <1>5, <1>6, <1>7, <1>8, <1>9

\* held_state: a hold is taken if the token is still there; then the operation is alive.
LEMMA FindStep ==
  ASSUME IInv, NEW t \in Threads, Find(t)
  PROVE  IInv'
<1> USE DEF IInv
<1> DEFINE r == slot[t]
<1>1. /\ pc[t] = "find" /\ r \in Slots /\ seen[t] # None
      /\ UNCHANGED <<token, retired, block, local, provider, poolVars, internal, tasks>>
  BY BusySlot DEF Find
<1>2. call[t] \in Polls \cup Provider \cup {"collect"}
  BY <1>1 DEF ThreadInv
<1>3. \A q : Share(t, q) = 0
  BY <1>1, NoShare DEF Holding
<1>4. CASE token[r] = seen[t]
  <2>1. Goto(t, "held") /\ holds' = [holds EXCEPT ![r] = @ + 1]
    BY <1>4 DEF Find
  <2>2. Others(t) /\ At(t, "held", call[t], arg[t], r, seen[t]) /\ ThreadTypes'
    BY <2>1, GotoMoves DEF States
  <2>3. pc'[t] = "held" /\ call'[t] = call[t] /\ slot'[t] = r /\ arg'[t] = arg[t] /\ seen'[t] = seen[t]
    BY <2>2 DEF At
  <2>4. call[t] \notin Begins \cup Kinds \cup {"begin", "peek", "none"}
    BY <1>2 DEF Begins, Polls, Provider, Kinds
  <2>5. holds[r] \in Nat /\ holds[r] > 0
    <3>1. OwnHold(r) = 1
      BY <1>1, <1>4 DEF OwnHold, BusyInv
    <3>2. holds[r] = 1 + Held(r) + QueuedTasks(r)
      BY <1>1, <1>4, <3>1 DEF CountInv
    <3>3. QED
      BY <1>1, <3>2, ShareCounted, QueuedType
  <2>6. \A q \in Slots : Share(t, q)' = IF q = r THEN 1 ELSE 0
    BY <2>3, <2>4 DEF Share, Retirers, Holders, Submitters
  <2>7. \A q \in Slots : holds'[q] = holds[q] + Share(t, q)' - Share(t, q)
    BY <1>3, <2>1, <2>6 DEF TypeOK
  <2>8. TypeOK'
    <3>1. holds' \in [Slots -> Nat]
      <4>1. holds[r] + 1 \in Nat /\ holds \in [Slots -> Nat]
        BY <2>5 DEF TypeOK
      <4>2. QED
        BY <2>1, <4>1
    <3>2. QED
      BY <2>2, <3>1 DEF Find, TypeOK, ThreadTypes, poolVars, historyVars, pickVars
  <2>9. ThreadInv'
    BY <1>1, <2>2, <2>3, <2>4 DEF ThreadInv, Others, poolVars
  <2>10. ContentInv'
    BY <1>1, <2>2, <2>3, <2>4 DEF ContentInv, Others, Kinds
  <2>11. QED
    BY <1>1, <1>4, <2>2, <2>3, <2>4, <2>5, <2>7, <2>8, <2>9, <2>10, HoldStep DEF Disposing, Own
<1>5. CASE token[r] # seen[t]
  <2>1. Return(t) /\ holds' = holds
    BY <1>5 DEF Find
  <2>2. Others(t) /\ At(t, "idle", "none", None, None, None) /\ ThreadTypes'
    BY <2>1, ReturnMoves
  <2>3. TypeOK'
    BY <2>1, <2>2 DEF Find, TypeOK, ThreadTypes, poolVars, historyVars, pickVars
  <2>4. QED
    BY <1>1, <1>3, <2>1, <2>2, <2>3, LeaveStep
<1>6. QED
  BY <1>4, <1>5

\* submit: the task gets a hold before the port sees it.
LEMMA HoldForTaskStep ==
  ASSUME IInv, NEW t \in Threads, HoldForTask(t)
  PROVE  IInv'
<1> USE DEF IInv
<1> DEFINE r == slot[t]
<1>1. /\ pc[t] = "submit" /\ r \in Slots /\ token[r] = seen[t]
      /\ UNCHANGED <<token, retired, block, local, provider, poolVars, internal, tasks>>
      /\ holds' = [holds EXCEPT ![r] = @ + 1] /\ Goto(t, "enqueue")
  BY BusySlot DEF HoldForTask, Busy, Holding
<1>2. Others(t) /\ At(t, "enqueue", call[t], arg[t], r, seen[t]) /\ ThreadTypes'
  BY <1>1, GotoMoves DEF States
<1>3. pc'[t] = "enqueue" /\ call'[t] = call[t] /\ slot'[t] = r /\ arg'[t] = arg[t] /\ seen'[t] = seen[t]
  BY <1>2 DEF At
<1>4. holds[r] > 0
  BY <1>1, Shared DEF Busy, Holding, Disposing
<1>5. \A q \in Slots : Share(t, q) \in Nat /\ Share(t, q)' = Share(t, q) + (IF q = r THEN 1 ELSE 0)
  BY <1>1, <1>3 DEF Share, Retirers, Holders, Submitters
<1>6. \A q \in Slots : holds'[q] = holds[q] + Share(t, q)' - Share(t, q)
  BY <1>1, <1>5 DEF TypeOK
<1>7. TypeOK'
  <2>1. holds' \in [Slots -> Nat]
    BY <1>1 DEF TypeOK
  <2>2. QED
    BY <1>2, <2>1 DEF HoldForTask, TypeOK, ThreadTypes, poolVars, historyVars, pickVars
<1>8. ThreadInv'
  BY <1>1, <1>2, <1>3 DEF ThreadInv, Others, poolVars
<1>9. ContentInv'
  BY <1>1, <1>2, <1>3 DEF ContentInv, Others, Holding
<1>10. QED
  BY <1>1, <1>2, <1>3, <1>4, <1>6, <1>7, <1>8, <1>9, HoldStep DEF Disposing, Own

\* What release does to the count and to its thread.
LEMMA Releases ==
  ASSUME IInv, NEW t \in Threads, pc[t] \in {"withdraw", "unhold", "drop"},
         NEW then \in {"idle", "retire", "drop", "peek"}, Release(t, then)
  PROVE  /\ slot[t] \in Slots /\ holds[slot[t]] > 0 /\ token[slot[t]] = seen[t]
         /\ UNCHANGED <<token, retired, block, local, provider, poolVars, internal, tasks>>
         /\ \A q \in Slots : holds'[q] = holds[q] - (IF q = slot[t] THEN 1 ELSE 0)
         /\ Others(t) /\ TypeOK'
         /\ \/ holds[slot[t]] = 1 /\ At(t, "strip", call[t], arg[t], slot[t], seen[t])
            \/ /\ holds[slot[t]] # 1 /\ then = "idle"
               /\ At(t, "idle", "none", None, None, None)
            \/ /\ holds[slot[t]] # 1 /\ then # "idle"
               /\ At(t, then, call[t], arg[t], slot[t], seen[t])
<1> USE DEF IInv
<1> DEFINE r == slot[t]
<1>1. r \in Slots /\ token[r] = seen[t] /\ holds[r] \in Nat /\ holds[r] > 0
  BY BusySlot, Shared DEF Busy, Holding, Disposing
<1>2. /\ UNCHANGED <<token, completed, status, retired, block, local, provider, poolVars,
                     historyVars, internal, tasks, closing, pickVars>>
      /\ holds' = [holds EXCEPT ![r] = @ - 1]
  BY DEF Release
<1>3. holds' \in [Slots -> Nat] /\ \A q \in Slots : holds'[q] = holds[q] - (IF q = r THEN 1 ELSE 0)
  BY <1>1, <1>2 DEF TypeOK
<1>4. then \in States /\ "strip" \in States
  BY DEF States
<1>5. /\ Others(t) /\ ThreadTypes'
      /\ \/ holds[r] = 1 /\ At(t, "strip", call[t], arg[t], r, seen[t])
         \/ holds[r] # 1 /\ then = "idle" /\ At(t, "idle", "none", None, None, None)
         \/ holds[r] # 1 /\ then # "idle" /\ At(t, then, call[t], arg[t], r, seen[t])
  BY <1>4, GotoMoves, ReturnMoves DEF Release
<1>6. TypeOK'
  BY <1>2, <1>3, <1>5 DEF TypeOK, ThreadTypes, poolVars, historyVars, pickVars
<1>7. QED
  BY <1>1, <1>2, <1>3, <1>5, <1>6

\* The hold of a task the port would not take is never the last.
LEMMA WithdrawStep ==
  ASSUME IInv, NEW t \in Threads, Withdraw(t)
  PROVE  IInv'
<1> USE DEF IInv
<1> DEFINE r == slot[t]
           then == IF call[t] = "begin" THEN "retire" ELSE AfterSubmit(t)
<1>1. pc[t] = "withdraw" /\ Release(t, then) /\ call[t] \in Settling \cup {"begin", "schedule"}
  BY DEF Withdraw, ThreadInv
<1>2. then \in {"retire", "drop"} /\ (then = "retire" => call[t] \in {"begin", "cancel"})
      /\ (call[t] = "begin" => then = "retire")
  BY DEF AfterSubmit, AfterFinish
<1> HIDE DEF then
<1>3. /\ r \in Slots /\ holds[r] > 0 /\ token[r] = seen[t] /\ Others(t) /\ TypeOK'
      /\ UNCHANGED <<token, retired, block, local, provider, poolVars, internal, tasks>>
      /\ \A q \in Slots : holds'[q] = holds[q] - (IF q = r THEN 1 ELSE 0)
      /\ \/ holds[r] = 1
         \/ At(t, then, call[t], arg[t], r, seen[t])
  BY <1>1, <1>2, Releases
<1>4. holds[r] # 1
  <2>1. token[r] # None
    BY <1>1, BusySlot DEF Busy, Holding
  <2>2. holds[r] = OwnHold(r) + Held(r) + QueuedTasks(r) /\ OwnHold(r) \in {0, 1} /\ QueuedTasks(r) \in Nat
    BY <1>3, <2>1, QueuedType DEF CountInv, OwnHold
  <2>3. Held(r) \in Nat /\ Held(r) >= Share(t, r)
    BY ShareCounted
  <2>4. CASE call[t] \in Begins
    <3>1. ~retired[r]
      BY <1>1, <2>4 DEF BeginInv
    <3>2. OwnHold(r) = 1 /\ Share(t, r) = 1
      BY <1>1, <2>1, <2>4, <3>1 DEF OwnHold, Share, Retirers, Holders, Submitters
    <3>3. QED
      BY <2>2, <2>3, <3>2
  <2>5. CASE call[t] \notin Begins
    <3>1. Share(t, r) = 2
      BY <1>1, <2>5 DEF Share, Retirers, Holders, Submitters
    <3>2. QED
      BY <2>2, <2>3, <3>1
  <2>6. QED
    BY <2>4, <2>5
<1>5. At(t, then, call[t], arg[t], r, seen[t])
  BY <1>3, <1>4
<1>6. pc'[t] = then /\ call'[t] = call[t] /\ slot'[t] = r /\ arg'[t] = arg[t] /\ seen'[t] = seen[t]
  BY <1>5 DEF At
<1>7. \A q \in Slots : Share(t, q) \in Nat /\ Share(t, q)' = Share(t, q) - (IF q = r THEN 1 ELSE 0)
  BY <1>1, <1>2, <1>6 DEF Share, Retirers, Holders, Submitters
<1>8. \A q \in Slots : holds'[q] = holds[q] + Share(t, q)' - Share(t, q)
  <2>1. \A q \in Slots : holds[q] \in Nat
    BY DEF TypeOK
  <2>2. QED
    BY <1>3, <1>7, <2>1
<1>9. ThreadInv'
  BY <1>1, <1>2, <1>3, <1>6 DEF ThreadInv, Others, poolVars, Settling, Begins
<1>10. ContentInv'
  BY <1>1, <1>2, <1>3, <1>6 DEF ContentInv, Others, Holding
<1>11. QED
  BY <1>1, <1>2, <1>3, <1>5, <1>6, <1>8, <1>9, <1>10, HoldStep DEF Disposing, Own

\* The hold of the operation itself, dropped by who retired it.
LEMMA UnholdStep ==
  ASSUME IInv, NEW t \in Threads, Unhold(t)
  PROVE  IInv'
<1> USE DEF IInv
<1> DEFINE r == slot[t]
           then == IF call[t] \in Begins THEN "idle" ELSE "drop"
<1>1. pc[t] = "unhold" /\ Release(t, then) /\ call[t] \in Begins \cup {"take", "collect", "cancel"}
  BY DEF Unhold, ThreadInv
<1>2. then \in {"idle", "drop"}
  OBVIOUS
<1>3. /\ r \in Slots /\ holds[r] > 0 /\ token[r] = seen[t] /\ Others(t) /\ TypeOK'
      /\ UNCHANGED <<token, retired, block, local, provider, poolVars, internal, tasks>>
      /\ \A q \in Slots : holds'[q] = holds[q] - (IF q = r THEN 1 ELSE 0)
      /\ \/ holds[r] = 1 /\ At(t, "strip", call[t], arg[t], r, seen[t])
         \/ holds[r] # 1 /\ then = "idle" /\ At(t, "idle", "none", None, None, None)
         \/ holds[r] # 1 /\ then # "idle" /\ At(t, then, call[t], arg[t], r, seen[t])
  BY <1>1, <1>2, Releases
<1>4. \A q \in Slots : /\ Share(t, q) \in Nat
                       /\ Share(t, q) = IF q # r THEN 0 ELSE IF call[t] \in Begins THEN 1 ELSE 2
  BY <1>1 DEF Share, Retirers, Holders, Submitters
<1>5. CASE call[t] \in Begins
  <2>1. \A q : Share(t, q)' = 0
    <3>1. pc'[t] \notin Holding
      BY <1>3, <1>5 DEF At, Holding
    <3>2. QED
      BY <3>1, NoShareNext
  <2>2. \A q \in Slots : holds'[q] = holds[q] + Share(t, q)' - Share(t, q)
    <3>1. \A q \in Slots : holds[q] \in Nat
      BY DEF TypeOK
    <3>2. QED
      BY <1>3, <1>4, <1>5, <2>1, <3>1
  <2>3. \/ At(t, "idle", "none", None, None, None)
        \/ /\ At(t, pc'[t], call[t], arg[t], slot[t], seen[t])
           /\ pc'[t] = "strip" /\ holds'[slot[t]] = 0
    BY <1>3, <1>5 DEF At
  <2>4. ThreadInv'
    BY <1>1, <1>3, <2>3 DEF ThreadInv, Others, At, poolVars, Begins
  <2>5. ContentInv'
    BY <1>1, <1>3, <2>3 DEF ContentInv, Others, At, Holding
  <2>6. QED
    BY <1>1, <1>3, <2>2, <2>3, <2>4, <2>5, HoldStep DEF Disposing, Own
<1>6. CASE call[t] \notin Begins
  <2>1. holds[r] # 1
    <3>1. token[r] # None
      BY <1>1, BusySlot DEF Busy, Holding
    <3>2. holds[r] = OwnHold(r) + Held(r) + QueuedTasks(r) /\ OwnHold(r) \in {0, 1} /\ QueuedTasks(r) \in Nat
      BY <1>3, <3>1, QueuedType DEF CountInv, OwnHold
    <3>3. Held(r) \in Nat /\ Held(r) >= Share(t, r) /\ Share(t, r) = 2
      BY <1>3, <1>4, <1>6, ShareCounted
    <3>4. QED
      BY <3>2, <3>3
  <2>2. At(t, "drop", call[t], arg[t], r, seen[t])
    BY <1>3, <1>6, <2>1
  <2>3. pc'[t] = "drop" /\ call'[t] = call[t] /\ slot'[t] = r /\ arg'[t] = arg[t] /\ seen'[t] = seen[t]
    BY <2>2 DEF At
  <2>4. \A q \in Slots : Share(t, q)' = IF q # r THEN 0 ELSE 1
    BY <1>6, <2>3 DEF Share, Retirers, Holders, Submitters
  <2>5. \A q \in Slots : holds'[q] = holds[q] + Share(t, q)' - Share(t, q)
    <3>1. \A q \in Slots : holds[q] \in Nat
      BY DEF TypeOK
    <3>2. QED
      BY <1>3, <1>4, <1>6, <2>4, <3>1
  <2>6. ThreadInv'
    BY <1>1, <1>3, <1>6, <2>3 DEF ThreadInv, Others, poolVars
  <2>7. ContentInv'
    BY <1>1, <1>3, <2>3 DEF ContentInv, Others, Holding
  <2>8. QED
    BY <1>1, <1>3, <1>6, <2>2, <2>3, <2>5, <2>6, <2>7, HoldStep DEF Disposing, Own
<1>7. QED
  BY <1>5, <1>6

\* The hold of the call, or of the task that has run.
LEMMA DropStep ==
  ASSUME IInv, NEW t \in Threads, Drop(t)
  PROVE  IInv'
<1> USE DEF IInv
<1> DEFINE r == slot[t]
           then == IF call[t] = "peek" THEN "peek" ELSE "idle"
<1>1. pc[t] = "drop" /\ Release(t, then) /\ call[t] \notin Begins
  BY DEF Drop, ThreadInv
<1>2. then \in {"idle", "peek"}
  OBVIOUS
<1>3. /\ r \in Slots /\ holds[r] > 0 /\ token[r] = seen[t] /\ Others(t) /\ TypeOK'
      /\ UNCHANGED <<token, retired, block, local, provider, poolVars, internal, tasks>>
      /\ \A q \in Slots : holds'[q] = holds[q] - (IF q = r THEN 1 ELSE 0)
      /\ \/ holds[r] = 1 /\ At(t, "strip", call[t], arg[t], r, seen[t])
         \/ holds[r] # 1 /\ then = "idle" /\ At(t, "idle", "none", None, None, None)
         \/ holds[r] # 1 /\ then # "idle" /\ At(t, then, call[t], arg[t], r, seen[t])
  BY <1>1, <1>2, Releases
<1>4. \A q \in Slots : Share(t, q) = IF q # r THEN 0 ELSE 1
  BY <1>1 DEF Share, Retirers, Holders, Submitters
<1>5. \A q : Share(t, q)' = 0
  <2>1. pc'[t] \notin Holding
    BY <1>3 DEF At, Holding
  <2>2. QED
    BY <2>1, NoShareNext
<1>6. \A q \in Slots : holds'[q] = holds[q] + Share(t, q)' - Share(t, q)
  <2>1. \A q \in Slots : holds[q] \in Nat
    BY DEF TypeOK
  <2>2. QED
    BY <1>3, <1>4, <1>5, <2>1
<1>7. \/ At(t, "idle", "none", None, None, None)
      \/ /\ At(t, pc'[t], call[t], arg[t], slot[t], seen[t])
         /\ \/ pc'[t] = "strip" /\ holds'[slot[t]] = 0
            \/ pc'[t] = "peek" /\ call[t] = "peek"
  BY <1>3 DEF At
<1>8. ThreadInv'
  BY <1>1, <1>3, <1>7 DEF ThreadInv, Others, At, poolVars, Begins
<1>9. ContentInv'
  BY <1>1, <1>3, <1>7 DEF ContentInv, Others, At, Holding
<1>10. QED
  BY <1>1, <1>3, <1>6, <1>7, <1>8, <1>9, HoldStep DEF Disposing, Own

-----------------------------------------------------------------------------
(* Each step preserves the invariant: retiring and disposing                *)

\* retire, when no call is looking the block up: block and operation are unlinked, and
\* the operation's own hold becomes the retirer's to drop.
LEMMA RetireStep ==
  ASSUME IInv, ~Overlap, NEW t \in Threads, Retire(t)
  PROVE  IInv'
<1> USE DEF IInv
<1> DEFINE r == slot[t]
<1>1. /\ pc[t] = "retire" /\ r \in Slots /\ token[r] = seen[t] /\ token[r] # None
      /\ call[t] \in Begins \cup {"take", "collect", "cancel"}
  BY BusySlot DEF Retire, Busy, Holding, ThreadInv
<1>2. /\ UNCHANGED <<token, holds, completed, status, local, provider, poolVars, historyVars,
                     tasks, closing, pickVars>>
      /\ \A u \in Threads : pc[u] = "find" => slot[u] # r \/ seen[u] # token[r]
  BY DEF Retire
<1>3. CASE retired[r]
  <2>1. call[t] \notin Begins
    BY <1>1, <1>3 DEF BeginInv
  <2>2. Goto(t, "drop") /\ UNCHANGED <<retired, block, internal>>
    BY <1>3, <2>1 DEF Retire
  <2>3. /\ Others(t) /\ At(t, "drop", call[t], arg[t], r, seen[t]) /\ ThreadTypes'
        /\ UNCHANGED <<slot, seen>>
    BY <2>2, GotoMoves DEF States, Goto
  <2>4. TypeOK'
    BY <1>2, <2>2, <2>3 DEF TypeOK, ThreadTypes, poolVars, historyVars, pickVars
  <2>5. \A u \in Threads : Stays(u)
    BY <1>1, <2>1, <2>3 DEF Stays, Others, At, Holding, Begins, Provider, Kinds
  <2>6. ThreadInv'
    BY <1>1, <1>2, <2>1, <2>3 DEF ThreadInv, Others, At, poolVars
  <2>7. ContentInv'
    BY <1>1, <1>2, <2>3 DEF ContentInv, Others, At, Holding
  <2>8. QED
    BY <1>2, <2>2, <2>3, <2>4, <2>5, <2>6, <2>7, QuietStep
<1>4. CASE ~retired[r]
  <2> DEFINE b == block[r]
  <2>1. /\ retired' = [retired EXCEPT ![r] = TRUE]
        /\ internal' = [a \in Blocks |-> IF a = b THEN Unnamed ELSE internal[a]]
        /\ block' = [block EXCEPT ![r] = None]
        /\ Goto(t, "unhold")
    BY <1>4 DEF Retire
  <2>2. b \in Blocks /\ internal[b] = [slot |-> r, token |-> token[r]]
    BY <1>1, <1>4 DEF BlockInv
  <2>3. Others(t) /\ At(t, "unhold", call[t], arg[t], r, seen[t]) /\ ThreadTypes'
    BY <2>1, GotoMoves DEF States
  <2>4. pc'[t] = "unhold" /\ call'[t] = call[t] /\ arg'[t] = arg[t] /\ slot'[t] = r /\ seen'[t] = seen[t]
    BY <2>3 DEF At
  <2>5. /\ retired'[r] /\ \A q \in Slots \ {r} : retired'[q] = retired[q] /\ block'[q] = block[q]
        /\ internal'[b] = Unnamed /\ \A a \in Blocks \ {b} : internal'[a] = internal[a]
    BY <1>1, <2>1, <2>2 DEF TypeOK
  <2>6. TypeOK'
    <3>1. retired' \in [Slots -> BOOLEAN] /\ block' \in [Slots -> Blocks \cup {None}]
      BY <2>1 DEF TypeOK
    <3>2. internal' \in [Blocks -> [slot : 0..MaxSlots, token : 0..MaxTokens]]
      <4>1. Unnamed \in [slot : 0..MaxSlots, token : 0..MaxTokens]
        BY AsyncConstants DEF Unnamed, None
      <4>2. QED
        BY <2>1, <4>1 DEF TypeOK
    <3>3. QED
      BY <1>2, <2>3, <3>1, <3>2 DEF TypeOK, ThreadTypes, poolVars, historyVars, pickVars
  <2> HIDE DEF b
  <2>7. ThreadInv'
    BY <1>1, <1>2, <2>3, <2>4 DEF ThreadInv, Others, poolVars
  <2>8. TokenInv'
    BY <1>2 DEF TokenInv, QueuedTasks, poolVars
  <2>9. SetUpInv'
    <3>1. \A u \in Threads : pc[u] = "setup" => internal'[arg[u]] = Unnamed
      <4>1. \A u \in Threads : pc[u] = "setup" => arg[u] \in Blocks /\ internal[arg[u]] = Unnamed
        BY DEF SetUpInv, ThreadInv
      <4>2. QED
        BY <2>5, <4>1
    <3>2. QED
      BY <1>2, <2>3, <2>4, <3>1 DEF SetUpInv, Others
  <2>10. BusyInv'
    <3>1. \A u \in Threads : pc[u] \in {"find", "unhold"} => slot[u] \in Slots
      BY BusySlot
    <3>2. QED
      BY <1>1, <1>2, <2>3, <2>4, <2>5, <3>1 DEF BusyInv, Others
  <2>11. BlockInv'
    <3>1. ASSUME NEW a \in Blocks, internal'[a] # Unnamed
          PROVE  LET q == internal'[a].slot IN
                 q \in Slots /\ internal'[a].token # None /\ token[q] = internal'[a].token
                     /\ ~retired'[q] /\ block'[q] = a
      <4>1. a # b /\ internal'[a] = internal[a]
        BY <2>5, <3>1
      <4>2. LET q == internal[a].slot IN
            q \in Slots /\ internal[a].token # None /\ token[q] = internal[a].token
                /\ ~retired[q] /\ block[q] = a
        BY <3>1, <4>1 DEF BlockInv
      <4>3. internal[a].slot # r
        BY <4>1, <4>2 DEF b
      <4>4. QED
        BY <2>5, <4>1, <4>2, <4>3
    <3>2. ASSUME NEW q \in Slots, token[q] # None, ~retired'[q]
          PROVE  block'[q] \in Blocks /\ internal'[block'[q]] = [slot |-> q, token |-> token[q]]
      <4>1. q # r /\ ~retired[q] /\ block'[q] = block[q]
        BY <2>5, <3>2
      <4>2. block[q] \in Blocks /\ internal[block[q]] = [slot |-> q, token |-> token[q]]
        BY <3>2, <4>1 DEF BlockInv
      <4>3. internal[block[q]].slot = q /\ internal[b].slot = r
        BY <2>2, <4>2
      <4>4. block[q] # b
        BY <4>1, <4>3
      <4>5. QED
        BY <2>5, <4>1, <4>2, <4>4
    <3>3. QED
      BY <1>2, <3>1, <3>2 DEF BlockInv
  <2>12. BeginInv'
    <3>1. ASSUME NEW u \in Threads \ {t}, call[u] \in Begins,
                 pc[u] \in {"fill", "held", "submit", "enqueue", "withdraw", "retire"}
          PROVE  slot[u] \in Slots \ {r}
      <4>1. slot[u] \in Slots /\ token[slot[u]] = seen[u]
        BY <3>1, BusySlot DEF Busy, Holding
      <4>2. call[t] \notin Provider \cup Kinds
        BY <1>1 DEF Begins, Provider, Kinds
      <4>3. seen[u] # seen[t]
        BY <3>1, <4>2 DEF BeginInv
      <4>4. QED
        BY <1>1, <4>1, <4>3
    <3>2. QED
      BY <2>3, <2>4, <2>5, <3>1 DEF BeginInv, Others
  <2>13. ContentInv'
    BY <1>1, <1>2, <2>3, <2>4 DEF ContentInv, Others, Holding
  <2>14. CountInv'
    <3>1. ASSUME NEW q \in Slots, token[q] # None
          PROVE  holds[q] = OwnHold(q)' + Held(q)' + QueuedTasks(q)
      <4>1. holds[q] = OwnHold(q) + Held(q) + QueuedTasks(q) /\ QueuedTasks(q) \in Nat
        BY <3>1, QueuedType DEF CountInv
      <4>2. /\ Held(q)' = Held(q) + Share(t, q)' - Share(t, q)
            /\ Held(q) \in Nat /\ Share(t, q) \in Nat /\ Share(t, q)' \in Nat
        BY <2>3, HeldStep
      <4>3. CASE q = r
        <5>1. OwnHold(q) = 1 /\ OwnHold(q)' = 0
          BY <1>1, <1>2, <1>4, <2>5, <4>3 DEF OwnHold
        <5>2. Share(t, q)' = Share(t, q) + 1
          BY <1>1, <2>4, <4>3 DEF Share, Retirers, Holders, Submitters
        <5>3. QED
          BY <4>1, <4>2, <5>1, <5>2
      <4>4. CASE q # r
        <5>1. OwnHold(q)' = OwnHold(q) /\ OwnHold(q) \in {0, 1}
          BY <1>2, <2>5, <4>4 DEF OwnHold
        <5>2. Share(t, q)' = Share(t, q)
          BY <2>4, <4>4 DEF Share, Retirers, Holders, Submitters
        <5>3. QED
          BY <4>1, <4>2, <5>1, <5>2
      <4>5. QED
        BY <4>3, <4>4
    <3>2. \A q \in Slots : QueuedTasks(q)' = QueuedTasks(q)
      BY <1>2 DEF QueuedTasks
    <3>3. QED
      BY <1>2, <3>1, <3>2 DEF CountInv
  <2>15. DisposeInv'
    BY <1>2, <2>3, <2>4 DEF DisposeInv, Others, Disposing
  <2>16. FreeInv'
    BY <1>2, <2>3, <2>4 DEF FreeInv, Others, poolVars
  <2>17. QED
    BY <2>6, <2>7, <2>8, <2>9, <2>10, <2>11, <2>12, <2>13, <2>14, <2>15, <2>16
<1>5. QED
  BY <1>3, <1>4

\* dispose, while the slot is not free yet: only its contents change.
LEMMA DisposeStep ==
  ASSUME IInv, TypeOK', NEW t \in Threads, Others(t), pc[t] \in Disposing,
         NEW l \in {"cleanup", "free"}, At(t, l, call[t], arg[t], slot[t], seen[t]),
         UNCHANGED <<token, holds, retired, block, poolVars, internal, tasks>>,
         ~local'[slot[t]],
         \A q \in Slots : q # slot[t] => local'[q] = local[q] /\ provider'[q] = provider[q]
  PROVE  IInv'
<1> USE DEF IInv
<1> DEFINE r == slot[t]
<1>1. /\ r \in Slots /\ token[r] = seen[t] /\ seen[t] # None
      /\ holds[r] = 0 /\ retired[r] /\ QueuedTasks(r) = 0
      /\ \A u \in Threads \ {t} : pc[u] \in Busy => slot[u] # r
  BY Alone
<1>2. pc'[t] = l /\ call'[t] = call[t] /\ arg'[t] = arg[t] /\ slot'[t] = slot[t] /\ seen'[t] = seen[t]
  BY DEF At
<1>3. \A u \in Threads : pc[u] # "idle" => slot[u] \in Slots
  BY BusySlot
<1>4. ThreadInv'
  BY <1>2 DEF ThreadInv, Others, poolVars, Disposing
<1>5. TokenInv'
  BY <1>1 DEF TokenInv, QueuedTasks, poolVars
<1>6. SetUpInv'
  BY <1>2 DEF SetUpInv, Others
<1>7. BusyInv'
  BY <1>2 DEF BusyInv, Others, Busy, Disposing
<1>8. BlockInv'
  BY DEF BlockInv
<1>9. BeginInv'
  BY <1>2 DEF BeginInv, Others
<1>10. ContentInv'
  <2>1. tasks[r]["perform"] = 0 /\ tasks[r]["do_work"] = 0
    <3>1. \A k \in Kinds : tasks[r][k] \in Nat /\ tasks[r][k] <= 0
      BY <1>1, QueuedType
    <3>2. QED
      BY <3>1 DEF Kinds
  <2>2. \A q \in Slots : /\ tasks[q]["perform"] > 0 => local'[q]
                         /\ tasks[q]["do_work"] > 0 => provider'[q]
    BY <2>1 DEF ContentInv
  <2>3. \A u \in Threads \ {t} : pc[u] \in Holding => slot[u] \in Slots \ {r}
    BY <1>1, <1>3 DEF Busy, Holding
  <2>4. pc'[t] \notin Holding
    BY <1>2 DEF Holding
  <2>5. QED
    BY <2>2, <2>3, <2>4 DEF ContentInv, Others, Holding
<1>11. CountInv'
  <2>1. \A q : Share(t, q)' = 0 /\ Share(t, q) = 0
    BY <1>2, NoShare, NoShareNext DEF Holding, Disposing
  <2>2. QED
    BY <2>1, CountQuiet
<1>12. DisposeInv'
  <2>1. \A u \in Threads : pc'[u] \in Disposing => pc[u] \in Disposing /\ slot'[u] = slot[u]
    BY <1>2 DEF Others
  <2>2. ASSUME NEW u \in Threads \ {t}, pc[u] \in {"cleanup", "free"} PROVE ~local'[slot[u]]
    <3>1. slot[u] \in Slots /\ slot[u] # r
      BY <1>1, <1>3, <2>2 DEF Busy, Disposing
    <3>2. QED
      BY <2>2, <3>1 DEF DisposeInv
  <2>3. QED
    BY <1>2, <2>1, <2>2 DEF DisposeInv, Others
<1>13. FreeInv'
  BY <1>2 DEF FreeInv, Others, poolVars
<1>14. QED
  BY <1>4, <1>5, <1>6, <1>7, <1>8, <1>9, <1>10, <1>11, <1>12, <1>13

\* The contents are moved out,
LEMMA StripStep ==
  ASSUME IInv, NEW t \in Threads, Strip(t)
  PROVE  IInv'
<1> USE DEF IInv
<1>1. pc[t] = "strip" /\ slot[t] \in Slots
  BY BusySlot DEF Strip
<1>2. PICK l \in {"cleanup", "free"} : Goto(t, l)
  BY DEF Strip
<1>3. Others(t) /\ At(t, l, call[t], arg[t], slot[t], seen[t]) /\ ThreadTypes'
  BY <1>2, GotoMoves DEF States
<1>4. UNCHANGED <<token, holds, completed, status, retired, block, poolVars, historyVars, internal,
                  tasks, closing, lost>>
  BY DEF Strip
<1>5. /\ ~local'[slot[t]]
      /\ \A q \in Slots : q # slot[t] => local'[q] = local[q] /\ provider'[q] = provider[q]
      /\ local' \in [Slots -> BOOLEAN] /\ provider' \in [Slots -> BOOLEAN] /\ chosen' \in [Slots -> 0..1]
  BY <1>1 DEF Strip, TypeOK
<1>6. TypeOK'
  BY <1>3, <1>4, <1>5 DEF TypeOK, ThreadTypes, poolVars, historyVars
<1>7. QED
  BY <1>1, <1>3, <1>4, <1>5, <1>6, DisposeStep DEF Disposing

\* the provider cleans up,
LEMMA CleanupStep ==
  ASSUME IInv, NEW t \in Threads, Cleanup(t)
  PROVE  IInv'
<1> USE DEF IInv
<1>1. pc[t] = "cleanup" /\ Goto(t, "free") /\ cleanups' \in [Tokens -> Nat]
  BY DEF Cleanup, TypeOK
<1>2. Others(t) /\ At(t, "free", call[t], arg[t], slot[t], seen[t]) /\ ThreadTypes'
  BY <1>1, GotoMoves DEF States
<1>3. UNCHANGED <<slotVars, poolVars, announcements, origin, internal, tasks, closing, pickVars>>
  BY DEF Cleanup
<1>4. ~local[slot[t]]
  BY <1>1 DEF DisposeInv
<1>5. TypeOK'
  BY <1>1, <1>2, <1>3 DEF TypeOK, ThreadTypes, slotVars, poolVars, pickVars
<1>6. QED
  BY <1>1, <1>2, <1>3, <1>4, <1>5, DisposeStep DEF Disposing, slotVars

\* and the slot goes on the free list.
LEMMA FreeStep ==
  ASSUME IInv, NEW t \in Threads, Free(t)
  PROVE  IInv'
<1> USE DEF IInv
<1> DEFINE r == slot[t]
<1>1. /\ pc[t] = "free" /\ r \in Slots /\ r <= used /\ token[r] = seen[t] /\ seen[t] # None
      /\ QueuedTasks(r) = 0 /\ ~local[r]
      /\ \A u \in Threads \ {t} : pc[u] \in Busy => slot[u] # r
      /\ \A a \in Blocks : internal[a].slot # r
  BY Alone, BusySlot DEF Free, Disposing, DisposeInv
<1>2. /\ token' = [token EXCEPT ![r] = None] /\ holds' = [holds EXCEPT ![r] = 0]
      /\ free' = Append(free, r)
      /\ UNCHANGED <<completed, status, retired, block, local, provider, used, next, historyVars,
                     internal, tasks, closing, pickVars>>
  BY DEF Free
<1>3. /\ token'[r] = None /\ holds'[r] = 0
      /\ \A q \in Slots \ {r} : token'[q] = token[q] /\ holds'[q] = holds[q]
  BY <1>1, <1>2 DEF TypeOK
<1>4. /\ Others(t) /\ ThreadTypes'
      /\ \/ At(t, "idle", "none", None, None, None)
         \/ At(t, "peek", call[t], arg[t], r, seen[t]) /\ call[t] = "peek"
  BY GotoMoves, ReturnMoves DEF Free, States
<1>5. /\ pc'[t] \in {"idle", "peek"} /\ call'[t] \in {"none", "peek"}
      /\ seen'[t] = None \/ (seen'[t] = seen[t] /\ call'[t] = call[t])
  BY <1>4 DEF At
<1>6. TypeOK'
  <2>1. token' \in [Slots -> 0..MaxTokens] /\ holds' \in [Slots -> Nat]
    <3>1. None \in 0..MaxTokens /\ 0 \in Nat
      BY AsyncConstants DEF None
    <3>2. QED
      BY <1>2, <3>1 DEF TypeOK
  <2>2. free' \in Seq(Slots)
    BY <1>1, <1>2 DEF TypeOK
  <2>3. QED
    BY <1>2, <1>4, <2>1, <2>2 DEF TypeOK, ThreadTypes, historyVars, pickVars
<1> HIDE DEF r
<1>7. ThreadInv'
  BY <1>1, <1>2, <1>4 DEF ThreadInv, Others, At, Begins, r
<1>8. TokenInv'
  <2>1. None < next
    BY DEF TypeOK, None
  <2>2. \A q \in Slots : QueuedTasks(q)' = QueuedTasks(q)
    BY <1>2 DEF QueuedTasks
  <2>3. QED
    BY <1>1, <1>2, <1>3, <2>1, <2>2 DEF TokenInv
<1>9. SetUpInv'
  <2>1. \A u \in Threads : pc[u] = "setup" => seen[u] # None /\ slot[u] \in Slots
    BY BusySlot
  <2>2. QED
    BY <1>2, <1>3, <1>4, <1>5, <2>1 DEF SetUpInv, Others
<1>10. BusyInv'
  <2>1. \A u \in Threads : pc[u] # "idle" => seen[u] # None /\ slot[u] \in Slots
    BY BusySlot
  <2>2. pc'[t] \notin Busy \cup {"find", "unhold"}
    BY <1>5 DEF Busy, Holding, Disposing
  <2>3. ASSUME NEW u \in Threads \ {t}
        PROVE  /\ pc[u] \in Busy => token'[slot[u]] = seen[u]
               /\ pc[u] = "find" /\ token'[slot[u]] = seen[u] => ~retired[slot[u]]
    <3>1. pc[u] \in Busy => pc[u] # "idle"
      BY DEF Busy, Holding, Disposing
    <3>2. QED
      BY <1>1, <1>3, <2>1, <3>1 DEF BusyInv
  <2>4. QED
    BY <1>2, <1>4, <2>2, <2>3 DEF BusyInv, Others
<1>11. BlockInv'
  BY <1>1, <1>2, <1>3 DEF BlockInv
<1>12. BeginInv'
  <2>1. \A u \in Threads : call[u] \in Begins => seen[u] # None
    BY BusySlot DEF ThreadInv, Begins
  <2>2. call'[t] \notin Begins
    BY <1>5 DEF Begins
  <2>3. QED
    BY <1>2, <1>4, <1>5, <2>1, <2>2 DEF BeginInv, Others
<1>13. ContentInv'
  BY <1>2, <1>4, <1>5 DEF ContentInv, Others, Holding
<1>14. CountInv'
  <2>1. \A q : Share(t, q)' = 0 /\ Share(t, q) = 0
    BY <1>1, <1>5, NoShare, NoShareNext DEF Holding
  <2>2. ASSUME NEW q \in Slots, token'[q] # None
        PROVE  holds'[q] = OwnHold(q)' + Held(q)' + QueuedTasks(q)'
    <3>1. q # r /\ token[q] # None
      BY <1>3, <2>2
    <3>2. holds[q] = OwnHold(q) + Held(q) + QueuedTasks(q)
      BY <3>1 DEF CountInv
    <3>3. Held(q)' = Held(q)
      BY <1>4, <2>1, HeldStep
    <3>4. OwnHold(q)' = OwnHold(q) /\ QueuedTasks(q)' = QueuedTasks(q) /\ holds'[q] = holds[q]
      BY <1>2, <1>3, <3>1 DEF OwnHold, QueuedTasks
    <3>5. QED
      BY <3>2, <3>3, <3>4
  <2>3. QED
    BY <2>2 DEF CountInv
<1>15. DisposeInv'
  <2>1. pc'[t] \notin Disposing
    BY <1>5 DEF Disposing
  <2>2. \A u \in Threads \ {t} : pc[u] \in Disposing => slot[u] \in Slots \ {r}
    BY <1>1, BusySlot DEF Busy, Disposing
  <2>3. QED
    BY <1>2, <1>3, <1>4, <1>5, <2>1, <2>2 DEF DisposeInv, Others, Disposing
<1>16. FreeInv'
  <2>1. /\ DOMAIN free' = DOMAIN free \cup {Len(free) + 1} /\ Len(free) + 1 \notin DOMAIN free
        /\ free'[Len(free) + 1] = r /\ \A i \in DOMAIN free : free'[i] = free[i] /\ free[i] \in Slots
    <3>1. free \in Seq(Slots) /\ Len(free) \in Nat /\ DOMAIN free = 1..Len(free)
      BY DEF TypeOK
    <3>2. DOMAIN free' = 1..(Len(free) + 1)
      BY <1>1, <1>2, <3>1
    <3>3. free'[Len(free) + 1] = r /\ \A i \in 1..Len(free) : free'[i] = free[i] /\ free[i] \in Slots
      BY <1>1, <1>2, <3>1
    <3>4. 1..(Len(free) + 1) = 1..Len(free) \cup {Len(free) + 1} /\ Len(free) + 1 \notin 1..Len(free)
      BY <3>1
    <3>5. QED
      BY <3>1, <3>2, <3>3, <3>4
  <2>2. \A i \in DOMAIN free : free[i] # r
    BY <1>1 DEF FreeInv
  <2>3. \A i, j \in DOMAIN free' : free'[i] = free'[j] => i = j
    BY <2>1, <2>2 DEF FreeInv
  <2>4. \A i \in DOMAIN free' : token'[free'[i]] = None /\ free'[i] <= used
    BY <1>1, <1>3, <2>1, <2>2 DEF FreeInv
  <2>5. \A u \in Threads : pc[u] = "setup" => slot[u] # r
    BY <1>1 DEF SetUpInv
  <2>6. \A i \in DOMAIN free' : \A u \in Threads : pc'[u] = "setup" => slot'[u] # free'[i]
    BY <1>4, <1>5, <2>1, <2>5 DEF FreeInv, Others
  <2>7. QED
    BY <1>2, <2>3, <2>4, <2>6 DEF FreeInv
<1>17. QED
  BY <1>6, <1>7, <1>8, <1>9, <1>10, <1>11, <1>12, <1>13, <1>14, <1>15, <1>16

-----------------------------------------------------------------------------
(* Each step preserves the invariant: tasks                                 *)

\* A hold passes from a thread to a queued task, or back.
LEMMA TaskCount ==
  ASSUME IInv, NEW t \in Threads, Others(t), UNCHANGED <<token, holds, retired>>,
         \A q \in Slots : /\ QueuedTasks(q)' \in Nat
                          /\ QueuedTasks(q)' + Share(t, q)' = QueuedTasks(q) + Share(t, q)
  PROVE  CountInv'
<1>1. ASSUME NEW q \in Slots, token[q] # None
      PROVE  holds[q] = OwnHold(q)' + Held(q)' + QueuedTasks(q)'
  <2>1. holds[q] = OwnHold(q) + Held(q) + QueuedTasks(q) /\ QueuedTasks(q) \in Nat
    BY <1>1, QueuedType DEF IInv, CountInv
  <2>2. OwnHold(q)' = OwnHold(q) /\ OwnHold(q) \in {0, 1}
    BY DEF OwnHold
  <2>3. /\ Held(q)' = Held(q) + Share(t, q)' - Share(t, q)
        /\ Held(q) \in Nat /\ Share(t, q) \in Nat /\ Share(t, q)' \in Nat
    BY HeldStep
  <2>4. QED
    BY <2>1, <2>2, <2>3
<1>2. QED
  BY <1>1 DEF CountInv

\* How many tasks there are of all kinds, when the number of one kind changes.
LEMMA KindsSum ==
  ASSUME NEW f \in [Kinds -> Nat], NEW k \in Kinds, NEW n \in Nat
  PROVE  LET g == [f EXCEPT ![k] = n] IN
         /\ g \in [Kinds -> Nat] /\ \A j \in Kinds : g[j] = IF j = k THEN n ELSE f[j]
         /\ g["perform"] + g["do_work"] + g["announce"] + f[k]
              = f["perform"] + f["do_work"] + f["announce"] + n
<1> DEFINE g == [f EXCEPT ![k] = n]
<1>1. g \in [Kinds -> Nat] /\ \A j \in Kinds : g[j] = IF j = k THEN n ELSE f[j]
  OBVIOUS
<1>2. \A j \in Kinds : f[j] \in Nat
  OBVIOUS
<1> HIDE DEF g
<1>3. k = "perform" \/ k = "do_work" \/ k = "announce"
  BY DEF Kinds
<1>4. g["perform"] + g["do_work"] + g["announce"] + f[k]
        = f["perform"] + f["do_work"] + f["announce"] + n
  BY <1>1, <1>2, <1>3 DEF Kinds
<1>5. QED
  BY <1>1, <1>4 DEF g

\* The port takes the task, with the hold taken for it.
LEMMA EnqueueStep ==
  ASSUME IInv, NEW t \in Threads, Enqueue(t)
  PROVE  IInv'
<1> USE DEF IInv
<1> DEFINE k == TaskOf(t)
<1>0. PICK r \in Slots : r = slot[t]
  BY BusySlot DEF Enqueue
<1>1. /\ pc[t] = "enqueue" /\ r = slot[t] /\ token[r] = seen[t] /\ token[r] # None
      /\ call[t] \in Settling \cup {"begin", "schedule"}
  BY <1>0, BusySlot DEF Enqueue, Busy, Holding, ThreadInv
<1>2. /\ tasks' = [tasks EXCEPT ![r][k] = @ + 1]
      /\ UNCHANGED <<slotVars, poolVars, historyVars, internal, closing, pickVars>>
  BY <1>0 DEF Enqueue
<1>3. /\ k \in Kinds /\ (k = "perform" => call[t] = "begin") /\ (k = "do_work" => call[t] = "schedule")
  BY DEF TaskOf, Kinds
<1>4. /\ AfterSubmit(t) \in {"drop", "retire"} /\ (AfterSubmit(t) = "retire" => call[t] = "cancel")
  BY DEF AfterSubmit, AfterFinish
<1>5. /\ Others(t) /\ ThreadTypes'
      /\ \/ call[t] = "begin" /\ At(t, "idle", "none", None, None, None)
         \/ /\ call[t] # "begin"
            /\ \E l \in {"drop", "retire"} : At(t, l, call[t], arg[t], r, seen[t]) /\ (l = "retire" => call[t] = "cancel")
  BY <1>0, <1>4, GotoMoves, ReturnMoves DEF Enqueue, States
<1> HIDE DEF k
<1>6. /\ tasks[r] \in [Kinds -> Nat] /\ tasks[r][k] \in Nat
      /\ tasks'[r] = [tasks[r] EXCEPT ![k] = tasks[r][k] + 1]
      /\ \A q \in Slots \ {r} : tasks'[q] = tasks[q]
  BY <1>2, <1>3 DEF TypeOK
<1>7. /\ tasks'[r] \in [Kinds -> Nat]
      /\ \A j \in Kinds : tasks'[r][j] = IF j = k THEN tasks[r][k] + 1 ELSE tasks[r][j]
      /\ QueuedTasks(r)' + tasks[r][k] = QueuedTasks(r) + (tasks[r][k] + 1)
  <2>1. tasks[r][k] + 1 \in Nat
    BY <1>6
  <2>2. QED
    BY <1>3, <1>6, <2>1, KindsSum DEF QueuedTasks
<1>8. TypeOK'
  <2>1. tasks' \in [Slots -> [Kinds -> Nat]]
    <3>1. tasks' = [tasks EXCEPT ![r] = tasks'[r]]
      BY <1>2, <1>6 DEF TypeOK
    <3>2. QED
      BY <1>7, <3>1 DEF TypeOK
  <2>2. QED
    BY <1>2, <1>5, <2>1 DEF TypeOK, ThreadTypes, slotVars, poolVars, historyVars, pickVars
<1>9. \A q \in Slots : QueuedTasks(q)' = QueuedTasks(q) + IF q = r THEN 1 ELSE 0
  <2>1. QueuedTasks(r)' = QueuedTasks(r) + 1
    <3>1. QueuedTasks(r)' \in Nat
      BY <1>7 DEF QueuedTasks, Kinds
    <3>2. QueuedTasks(r) \in Nat
      BY QueuedType
    <3>3. QED
      BY <1>6, <1>7, <3>1, <3>2
  <2>2. \A q \in Slots \ {r} : QueuedTasks(q)' = QueuedTasks(q) /\ QueuedTasks(q) \in Nat
    BY <1>6, QueuedType DEF QueuedTasks
  <2>3. QED
    BY <2>1, <2>2
<1>10. \A q \in Slots : Share(t, q) \in Nat /\ Share(t, q)' = Share(t, q) - IF q = r THEN 1 ELSE 0
  <2>1. None \notin Slots
    BY AsyncConstants DEF Slots, None
  <2>2. CASE call[t] = "begin"
    <3>1. pc'[t] = "idle"
      BY <1>5, <2>2 DEF At
    <3>2. \A q : Share(t, q)' = 0
      BY <3>1, NoShareNext DEF Holding
    <3>3. \A q \in Slots : Share(t, q) = IF q = r THEN 1 ELSE 0
      BY <1>1, <2>2 DEF Share, Retirers, Holders, Submitters, Begins
    <3>4. QED
      BY <3>2, <3>3
  <2>3. CASE call[t] # "begin"
    <3>1. call[t] \notin Begins
      BY <1>1, <2>3 DEF Settling, Begins
    <3>2. \A q \in Slots : Share(t, q) = IF q = r THEN 2 ELSE 0
      BY <1>1, <3>1 DEF Share, Retirers, Holders, Submitters
    <3>3. pc'[t] \in {"drop", "retire"} /\ call'[t] = call[t] /\ slot'[t] = r
      BY <1>5, <2>3 DEF At
    <3>4. \A q \in Slots : Share(t, q)' = IF q = r THEN 1 ELSE 0
      BY <3>1, <3>3 DEF Share, Retirers, Holders, Submitters
    <3>5. QED
      BY <3>2, <3>4
  <2>4. QED
    BY <2>2, <2>3
<1>11. UNCHANGED <<token, holds, retired, block, local, provider, poolVars, internal>>
  BY <1>2 DEF slotVars
<1>12. ThreadInv'
  BY <1>1, <1>5, <1>11 DEF ThreadInv, Others, At, poolVars, Begins, Settling
<1>13. TokenInv'
  BY <1>1, <1>9, <1>11 DEF TokenInv, poolVars
<1>14. SetUpInv'
  <2>1. seen'[t] = None \/ seen'[t] = seen[t]
    BY <1>5 DEF At
  <2>2. \A u \in Threads : pc[u] = "setup" => seen[u] # None
    BY BusySlot
  <2>3. pc'[t] # "setup"
    BY <1>5 DEF At
  <2>4. QED
    BY <1>5, <1>11, <2>1, <2>2, <2>3 DEF SetUpInv, Others
<1>15. BusyInv'
  BY <1>1, <1>5, <1>11 DEF BusyInv, Others, At, Busy, Holding, Disposing
<1>16. BlockInv'
  BY <1>11 DEF BlockInv
<1>17. BeginInv'
  <2>1. \A u \in Threads : call[u] \in Begins => seen[u] # None
    BY BusySlot DEF ThreadInv, Begins
  <2>2. /\ call'[t] \notin Begins
        /\ seen'[t] = None \/ (seen'[t] = seen[t] /\ call'[t] = call[t])
    BY <1>1, <1>5 DEF At, Begins, Settling
  <2>3. QED
    BY <1>5, <1>11, <2>1, <2>2 DEF BeginInv, Others
<1>18. ContentInv'
  <2>1. (k = "perform" => local[r]) /\ (k = "do_work" => provider[r])
    BY <1>1, <1>3 DEF ContentInv
  <2>2. ASSUME NEW q \in Slots
        PROVE  /\ tasks'[q]["perform"] > 0 => local[q]
               /\ tasks'[q]["do_work"] > 0 => provider[q]
    <3>1. CASE q = r
      <4>1. \A j \in Kinds : j # k => tasks'[r][j] = tasks[r][j]
        BY <1>7
      <4>2. QED
        BY <2>1, <3>1, <4>1 DEF ContentInv, Kinds
    <3>2. CASE q # r
      BY <1>6, <3>2 DEF ContentInv
    <3>3. QED
      BY <3>1, <3>2
  <2>3. QED
    BY <1>1, <1>5, <1>11, <2>2 DEF ContentInv, Others, At, Holding
<1>19. CountInv'
  <2>1. \A q \in Slots : /\ QueuedTasks(q)' \in Nat
                         /\ QueuedTasks(q)' + Share(t, q)' = QueuedTasks(q) + Share(t, q)
    BY <1>9, <1>10, QueuedType
  <2>2. QED
    BY <1>5, <1>11, <2>1, TaskCount
<1>20. DisposeInv'
  BY <1>5, <1>11 DEF DisposeInv, Others, At, Disposing
<1>21. FreeInv'
  BY <1>5, <1>11 DEF FreeInv, Others, At, poolVars
<1>22. QED
  BY <1>8, <1>12, <1>13, <1>14, <1>15, <1>16, <1>17, <1>18, <1>19, <1>20, <1>21

\* A worker takes a task, and its hold.
LEMMA RunTaskStep ==
  ASSUME IInv, NEW t \in Workers, NEW r \in Slots, NEW k \in Kinds, RunTask(t, r, k)
  PROVE  IInv'
<1> USE DEF IInv
<1>1. /\ t \in Threads /\ pc[t] = "idle" /\ tasks[r][k] > 0
      /\ tasks' = [tasks EXCEPT ![r][k] = @ - 1]
      /\ UNCHANGED <<token, holds, retired, block, local, provider, poolVars, internal>>
  BY DEF RunTask, Threads, slotVars
<1>2. Others(t) /\ At(t, "held", k, arg[t], r, token[r])
  BY <1>1 DEF RunTask, TypeOK, Others, At
<1>3. pc'[t] = "held" /\ call'[t] = k /\ slot'[t] = r /\ seen'[t] = token[r]
  BY <1>2 DEF At
<1>4. /\ tasks[r] \in [Kinds -> Nat] /\ tasks[r][k] \in Nat
      /\ tasks'[r] = [tasks[r] EXCEPT ![k] = tasks[r][k] - 1]
      /\ \A q \in Slots \ {r} : tasks'[q] = tasks[q]
  BY <1>1 DEF TypeOK
<1>5. /\ tasks'[r] \in [Kinds -> Nat]
      /\ \A j \in Kinds : tasks'[r][j] = IF j = k THEN tasks[r][k] - 1 ELSE tasks[r][j]
      /\ QueuedTasks(r)' + tasks[r][k] = QueuedTasks(r) + (tasks[r][k] - 1)
  <2>1. tasks[r][k] - 1 \in Nat
    BY <1>1, <1>4
  <2>2. QED
    BY <1>4, <2>1, KindsSum DEF QueuedTasks
<1>6. TypeOK'
  <2>1. tasks' \in [Slots -> [Kinds -> Nat]]
    <3>1. tasks' = [tasks EXCEPT ![r] = tasks'[r]]
      BY <1>1, <1>4 DEF TypeOK
    <3>2. QED
      BY <1>5, <3>1 DEF TypeOK
  <2>2. r \in 0..MaxSlots /\ token[r] \in 0..MaxTokens
    <3>1. token[r] \in 0..MaxTokens
      BY DEF TypeOK
    <3>2. r \in 0..MaxSlots
      BY DEF Slots
    <3>3. QED
      BY <3>1, <3>2
  <2>3. ThreadTypes'
    BY <1>1, <2>2 DEF RunTask, TypeOK, ThreadTypes, States
  <2>4. QED
    BY <2>1, <2>3 DEF RunTask, TypeOK, ThreadTypes, slotVars, poolVars, historyVars, pickVars
<1>7. \A q \in Slots : /\ QueuedTasks(q)' \in Nat
                       /\ QueuedTasks(q) = QueuedTasks(q)' + IF q = r THEN 1 ELSE 0
  <2>1. QueuedTasks(r) = QueuedTasks(r)' + 1 /\ QueuedTasks(r)' \in Nat
    <3>1. QueuedTasks(r)' \in Nat
      BY <1>5 DEF QueuedTasks, Kinds
    <3>2. QueuedTasks(r) \in Nat
      BY QueuedType
    <3>3. QED
      BY <1>4, <1>5, <3>1, <3>2
  <2>2. \A q \in Slots \ {r} : QueuedTasks(q)' = QueuedTasks(q) /\ QueuedTasks(q) \in Nat
    BY <1>4, QueuedType DEF QueuedTasks
  <2>3. QED
    BY <2>1, <2>2
<1>8. token[r] # None /\ r <= used /\ token[r] < next
  <2>1. QueuedTasks(r) # 0
    BY <1>7
  <2>2. QED
    BY <2>1 DEF TokenInv
<1>9. k \notin Begins \cup Provider \cup {"none", "peek", "pick"}
  BY DEF Kinds, Begins, Provider
<1>10. ThreadInv'
  <2>1. r \in 1..used /\ token[r] \in 1..(next - 1)
    <3>1. token[r] \in Nat /\ used \in Nat /\ next \in Nat
      BY DEF TypeOK
    <3>2. r \in Nat /\ 1 <= r
      BY DEF Slots
    <3>3. QED
      BY <1>8, <3>1, <3>2 DEF None
  <2>2. k \notin {"begin", "peek"}
    BY <1>9 DEF Begins
  <2>3. QED
    BY <1>1, <1>2, <1>3, <1>9, <2>1, <2>2 DEF ThreadInv, Others, poolVars
<1>11. TokenInv'
  BY <1>1, <1>7, <1>8, QueuedType DEF TokenInv, poolVars
<1>12. SetUpInv'
  BY <1>1, <1>2, <1>3 DEF SetUpInv, Others
<1>13. BusyInv'
  BY <1>1, <1>2, <1>3 DEF BusyInv, Others
<1>14. BlockInv'
  BY <1>1 DEF BlockInv
<1>15. BeginInv'
  BY <1>1, <1>2, <1>3, <1>9 DEF BeginInv, Others
<1>16. ContentInv'
  <2>1. (k = "perform" => local[r]) /\ (k = "do_work" => provider[r])
    BY <1>1 DEF ContentInv
  <2>2. ASSUME NEW q \in Slots
        PROVE  /\ tasks'[q]["perform"] > 0 => local[q]
               /\ tasks'[q]["do_work"] > 0 => provider[q]
    <3>1. CASE q = r
      <4>1. \A j \in Kinds : j # k => tasks'[r][j] = tasks[r][j]
        BY <1>5
      <4>2. QED
        BY <2>1, <3>1, <4>1 DEF ContentInv, Kinds
    <3>2. CASE q # r
      BY <1>4, <3>2 DEF ContentInv
    <3>3. QED
      BY <3>1, <3>2
  <2>3. QED
    BY <1>1, <1>2, <1>3, <1>9, <2>1, <2>2 DEF ContentInv, Others, Begins, Provider
<1>17. CountInv'
  <2>1. \A q : Share(t, q) = 0
    BY <1>1, NoShare DEF Holding
  <2>2. \A q \in Slots : Share(t, q)' = IF q = r THEN 1 ELSE 0
    BY <1>1, <1>3, <1>9 DEF Share, Retirers, Holders, Submitters
  <2>3. QED
    BY <1>1, <1>2, <1>7, <2>1, <2>2, TaskCount
<1>18. DisposeInv'
  BY <1>1, <1>2, <1>3 DEF DisposeInv, Others, Disposing
<1>19. FreeInv'
  BY <1>1, <1>2, <1>3 DEF FreeInv, Others, poolVars
<1>20. QED
  BY <1>6, <1>10, <1>11, <1>12, <1>13, <1>14, <1>15, <1>16, <1>17, <1>18, <1>19

\* Nothing but the history, the settled outcome and the port changes.
LEMMA SameStep ==
  ASSUME IInv, TypeOK', UNCHANGED <<slotVars, poolVars, threadVars, internal, tasks>>
  PROVE  IInv'
<1> USE DEF IInv
<1>1. /\ UNCHANGED <<token, holds, retired, block, local, poolVars, internal, tasks, slot, seen>>
      /\ UNCHANGED <<pc, call, arg, provider>>
  BY DEF slotVars, threadVars
<1>2. \A u \in Threads : Stays(u)
  BY <1>1 DEF Stays
<1>3. ThreadInv' /\ ContentInv'
  BY <1>1 DEF ThreadInv, ContentInv, poolVars
<1>4. QED
  BY <1>1, <1>2, <1>3, QuietStep

-----------------------------------------------------------------------------
(* The invariant holds throughout                                           *)

LEMMA InitIInv == Init => IInv
<1> SUFFICES ASSUME Init PROVE IInv
  OBVIOUS
<1> USE DEF Init
<1>1. TypeOK
  <2>1. Unnamed \in [slot : 0..MaxSlots, token : 0..MaxTokens] /\ Unread \in [size : 0..1, of : 0..MaxTokens]
    BY AsyncConstants DEF Unnamed, Unread, None
  <2>2. None \in 0..MaxSlots /\ None \in 0..MaxTokens /\ 1 \in 1..(MaxTokens + 1) /\ 0 \in 0..MaxSlots
    BY AsyncConstants DEF None
  <2>3. free \in Seq(Slots) /\ tasks \in [Slots -> [Kinds -> Nat]]
    OBVIOUS
  <2>4. /\ token \in [Slots -> 0..MaxTokens] /\ holds \in [Slots -> Nat]
        /\ completed \in [Slots -> BOOLEAN] /\ retired \in [Slots -> BOOLEAN]
        /\ status \in [Slots -> Statuses] /\ block \in [Slots -> Blocks \cup {None}]
        /\ local \in [Slots -> BOOLEAN] /\ provider \in [Slots -> BOOLEAN]
        /\ chosen \in [Slots -> 0..1]
    BY <2>2 DEF Statuses
  <2>5. /\ internal \in [Blocks -> [slot : 0..MaxSlots, token : 0..MaxTokens]]
        /\ used \in 0..MaxSlots /\ next \in 1..(MaxTokens + 1) /\ closing \in BOOLEAN
        /\ lost \subseteq Tokens \X (0..MaxTokens)
        /\ announcements \in [Tokens -> Nat] /\ cleanups \in [Tokens -> Nat]
        /\ origin \in [Tokens -> {"none", "local", "provider", "failed"}]
    BY <2>1, <2>2
  <2>6. ThreadTypes
    BY <2>1, <2>2 DEF ThreadTypes, States, Statuses
  <2>7. QED
    BY <2>3, <2>4, <2>5, <2>6 DEF TypeOK, ThreadTypes
<1>2. ThreadInv
  BY DEF ThreadInv, Begins
<1>3. TokenInv
  BY DEF TokenInv, QueuedTasks, Kinds, None
<1>4. SetUpInv /\ BusyInv /\ BlockInv /\ BeginInv /\ ContentInv
  BY DEF SetUpInv, BusyInv, BlockInv, BeginInv, ContentInv, Busy, Holding, Disposing, Begins, Kinds
<1>5. CountInv /\ DisposeInv /\ FreeInv
  BY DEF CountInv, DisposeInv, FreeInv, Disposing
<1>6. QED
  BY <1>1, <1>2, <1>3, <1>4, <1>5 DEF IInv

LEMMA NextIInv ==
  ASSUME ~Overlap
  PROVE  IInv /\ [Next]_vars => IInv'
<1> SUFFICES ASSUME IInv, [Next]_vars PROVE IInv'
  OBVIOUS
<1>1. CASE \E c \in Clients, a \in Blocks, b \in BeginCalls : Acquire(c, a, b)
  BY <1>1, AcquireStep
<1>2. CASE \E c \in Clients, a \in Blocks, k \in BlockCalls : LookUp(c, a, k)
  BY <1>2, LookUpStep
<1>3. CASE \E w \in Workers, r \in Slots, k \in Kinds : RunTask(w, r, k)
  BY <1>3, RunTaskStep
<1>4. ASSUME NEW t \in Threads, Step(t) PROVE IInv'
  <2>1. CASE SetUp(t) \/ FillLocal(t) \/ FillProvider(t) \/ ProviderBegins(t) \/ Find(t)
    BY <2>1, SetUpStep, FillLocalStep, FillProviderStep, ProviderBeginsStep, FindStep
  <2>2. CASE \/ GetStatus(t) \/ WaitStatus(t) \/ TakeResult(t) \/ Cancel(t)
             \/ Complete(t) \/ Schedule(t) \/ PendingOperation(t) \/ Peek(t) \/ Collect(t)
    BY <2>2, GetStatusStep, WaitStatusStep, TakeResultStep, CancelStep, CompleteStep, ScheduleStep,
       PendingOperationStep, PeekStep, CollectStep
  <2>3. CASE Finish(t) \/ Signal(t) \/ HoldForTask(t) \/ Enqueue(t) \/ Refuse(t)
    BY <2>3, FinishStep, SignalStep, HoldForTaskStep, EnqueueStep, RefuseStep
  <2>4. CASE \/ Withdraw(t) \/ Unhold(t) \/ Drop(t) \/ Retire(t)
             \/ Strip(t) \/ Cleanup(t) \/ Free(t)
    BY <2>4, WithdrawStep, UnholdStep, DropStep, RetireStep, StripStep, CleanupStep, FreeStep
  <2>5. CASE Perform(t) \/ DoWork(t) \/ Announce(t) \/ CallRoutine(t)
    BY <2>5, PerformStep, DoWorkStep, AnnounceStep, CallRoutineStep
  <2>6. QED
    BY <1>4, <2>1, <2>2, <2>3, <2>4, <2>5 DEF Step
<1>5. CASE Close
  <2>1. TypeOK'
    BY <1>5 DEF IInv, TypeOK, Close, slotVars, poolVars, threadVars, historyVars, pickVars
  <2>2. QED
    BY <1>5, <2>1, SameStep DEF Close
<1>6. CASE UNCHANGED vars
  <2>1. TypeOK'
    BY <1>6 DEF IInv, TypeOK, vars, slotVars, poolVars, threadVars, historyVars, pickVars
  <2>2. QED
    BY <1>6, <2>1, SameStep DEF vars
<1>7. QED
  BY <1>1, <1>2, <1>3, <1>4, <1>5, <1>6 DEF Next

LEMMA Invariant ==
  ASSUME ~Overlap
  PROVE  Spec => []IInv
BY InitIInv, NextIInv, PTL DEF Spec

-----------------------------------------------------------------------------
(* The theorems                                                             *)

\* Where clients do not retire a block that another call looks up, the hold count of a
\* live slot (the low half of its state word, async.cxx) is the number of parties that
\* will release it.
THEOREM HoldsAlwaysCounted ==
  ASSUME ~Overlap
  PROVE  Spec => []HoldsCounted
<1>1. IInv => HoldsCounted
  <2> SUFFICES ASSUME IInv, NEW r \in Slots, token[r] # None
               PROVE  holds[r] = OwnHold(r) + Cardinality(Retirers(r)) + Cardinality(Holders(r))
                                   + Cardinality(Submitters(r)) + QueuedTasks(r)
    BY DEF HoldsCounted, IInv
  <2>1. holds[r] = OwnHold(r) + Held(r) + QueuedTasks(r) /\ OwnHold(r) \in {0, 1} /\ QueuedTasks(r) \in Nat
    BY QueuedType DEF IInv, CountInv, OwnHold
  <2>2. /\ Cardinality(Retirers(r)) \in Nat /\ Cardinality(Holders(r)) \in Nat
        /\ Cardinality(Submitters(r)) \in Nat
    BY FiniteThreads, FS_CardinalityType
  <2>3. QED
    BY <2>1, <2>2 DEF Held
<1>2. QED
  BY <1>1, Invariant, PTL

\* Then release always finds a hold to drop, and submit one to add to: the assertions of
\* release and submit (async.cxx) hold.
THEOREM ReleaseAlwaysFindsHold ==
  ASSUME ~Overlap
  PROVE  Spec => []ReleaseFindsHold
<1>1. IInv => ReleaseFindsHold
  BY Shared DEF ReleaseFindsHold, Busy, Holding, Disposing
<1>2. QED
  BY <1>1, Invariant, PTL

\* Whoever has a hold uses the operation it found, and a task finds the operation or the
\* provider it is to run.
THEOREM HeldSlotsStayLive ==
  ASSUME ~Overlap
  PROVE  Spec => []HeldSlotsLive
<1>1. ASSUME IInv, NEW r \in Slots, NEW t \in Holders(r)
      PROVE  /\ token[r] = seen[t]
             /\ Disposers(r) = {}
             /\ r \notin {free[i] : i \in DOMAIN free}
             /\ call[t] = "perform" => local[r]
             /\ call[t] = "do_work" => provider[r]
  <2>1. t \in Threads /\ slot[t] = r /\ pc[t] \in Holding /\ pc[t] # "idle"
    BY DEF Holders, Holding
  <2>2. token[r] = seen[t] /\ seen[t] # None
    BY <1>1, <2>1, BusySlot DEF Busy
  <2>3. Disposers(r) = {}
    BY <1>1, <2>1, Shared DEF Disposers, Disposing, Busy, Holding
  <2>4. \A i \in DOMAIN free : free[i] # r
    BY <1>1, <2>2 DEF IInv, FreeInv
  <2>5. (call[t] = "perform" => local[r]) /\ (call[t] = "do_work" => provider[r])
    BY <1>1, <2>1 DEF IInv, ContentInv
  <2>6. QED
    BY <2>2, <2>3, <2>4, <2>5
<1>2. ASSUME IInv, NEW r \in Slots, QueuedTasks(r) > 0 PROVE token[r] # None /\ Disposers(r) = {}
  <2>1. QueuedTasks(r) # 0
    BY <1>2, QueuedType DEF IInv
  <2>2. token[r] # None
    BY <1>2, <2>1 DEF IInv, TokenInv
  <2>3. \A t \in Threads : pc[t] \in Disposing => slot[t] # r
    BY <1>2, <2>1, Alone
  <2>4. QED
    BY <2>2, <2>3 DEF Disposers, Disposing
<1>3. IInv => HeldSlotsLive
  BY <1>1, <1>2 DEF HeldSlotsLive
<1>4. QED
  BY <1>3, Invariant, PTL

\* A slot is freed once, and on the free list nothing refers to it; at most one thread
\* disposes of an operation.
THEOREM FreeSlotsStayUnused ==
  ASSUME ~Overlap
  PROVE  Spec => []FreeSlotsUnused
<1>1. ASSUME IInv, NEW i \in DOMAIN free
      PROVE  LET r == free[i] IN
             /\ token[r] = None /\ holds[r] = 0 /\ QueuedTasks(r) = 0
             /\ r <= used
             /\ \A a \in Blocks : internal[a].slot # r
             /\ \A t \in Threads : slot[t] = r => pc[t] \in {"find", "peek", "again"}
  <2> DEFINE r == free[i]
  <2>1. r \in Slots /\ token[r] = None /\ r <= used /\ r # None
    <3>1. r \in Slots /\ token[r] = None /\ r <= used
      BY <1>1 DEF IInv, FreeInv, TypeOK
    <3>2. None \notin Slots
      BY AsyncConstants DEF Slots, None
    <3>3. QED
      BY <3>1, <3>2
  <2>2. holds[r] = 0 /\ QueuedTasks(r) = 0
    BY <1>1, <2>1 DEF IInv, TokenInv
  <2>3. ASSUME NEW a \in Blocks PROVE internal[a].slot # r
    <3>1. CASE internal[a] = Unnamed
      BY <2>1, <3>1 DEF Unnamed
    <3>2. CASE internal[a] # Unnamed
      BY <1>1, <2>1, <3>2 DEF IInv, BlockInv
    <3>3. QED
      BY <3>1, <3>2
  <2>4. ASSUME NEW t \in Threads, slot[t] = r PROVE pc[t] \in {"find", "peek", "again"}
    <3>1. pc[t] # "idle"
      BY <1>1, <2>1, <2>4 DEF IInv, ThreadInv
    <3>2. pc[t] # "setup"
      BY <1>1, <2>4 DEF IInv, FreeInv
    <3>3. pc[t] \notin Busy
      BY <1>1, <2>1, <2>4, <3>1, BusySlot
    <3>4. QED
      BY <1>1, <3>1, <3>2, <3>3 DEF IInv, TypeOK, States, Busy, Holding, Disposing
  <2>5. QED
    BY <2>1, <2>2, <2>3, <2>4
<1>2. ASSUME IInv, NEW r \in Slots PROVE Cardinality(Disposers(r)) <= 1
  <2>1. CASE Disposers(r) = {}
    BY <2>1, FS_EmptySet
  <2>2. CASE Disposers(r) # {}
    <3>1. PICK t : t \in Disposers(r)
      BY <2>2
    <3>2. Disposers(r) = {t}
      BY <1>2, <3>1 DEF Disposers, IInv, DisposeInv, Disposing
    <3>3. QED
      BY <3>2, FS_Singleton
  <2>3. QED
    BY <2>1, <2>2
<1>3. IInv => \A i, j \in DOMAIN free : free[i] = free[j] => i = j
  BY DEF IInv, FreeInv
<1>4. IInv => FreeSlotsUnused
  BY <1>1, <1>2, <1>3 DEF FreeSlotsUnused
<1>5. QED
  BY <1>4, Invariant, PTL

\* The first outcome of an operation stays until its slot is used anew: finish looks and
\* writes under the slot's mutex, and only setting a slot up clears the outcome.
THEOREM FirstOutcomeStays ==
  ASSUME ~Overlap
  PROVE  Spec => SettlesOnce
<1> DEFINE Kept == \A r \in Slots :
                      completed[r] /\ token[r] # None /\ token'[r] = token[r]
                          => completed'[r] /\ status'[r] = status[r]
<1>1. ASSUME IInv, [Next]_vars PROVE Kept
  <2>1. ASSUME NEW t \in Threads, SetUp(t) PROVE Kept
    <3>1. token[slot[t]] = None
      BY <1>1, <2>1 DEF SetUp, IInv, SetUpInv
    <3>2. \A r \in Slots : r # slot[t] => completed'[r] = completed[r] /\ status'[r] = status[r]
      BY <1>1, <2>1 DEF SetUp, IInv, TypeOK
    <3>3. QED
      BY <3>1, <3>2
  <2>2. ASSUME NEW t \in Threads, Finish(t) PROVE Kept
    <3>1. CASE completed[slot[t]]
      BY <2>2, <3>1 DEF Finish
    <3>2. CASE ~completed[slot[t]]
      <4>1. \A r \in Slots : r # slot[t] => completed'[r] = completed[r] /\ status'[r] = status[r]
        BY <1>1, <2>2, <3>2 DEF Finish, IInv, TypeOK
      <4>2. QED
        BY <3>2, <4>1
    <3>3. QED
      BY <3>1, <3>2
  <2>3. CASE completed' = completed /\ status' = status
    BY <2>3
  <2>4. ASSUME NEW t \in Threads, Step(t), ~SetUp(t), ~Finish(t)
        PROVE  completed' = completed /\ status' = status
    <3>1. CASE \/ FillLocal(t) \/ FillProvider(t) \/ ProviderBegins(t) \/ Find(t) \/ GetStatus(t)
               \/ WaitStatus(t) \/ TakeResult(t) \/ Cancel(t) \/ Complete(t) \/ Schedule(t)
      BY <3>1 DEF FillLocal, FillProvider, ProviderBegins, Find, GetStatus, WaitStatus, TakeResult,
                  Cancel, Complete, Schedule, slotVars
    <3>2. CASE \/ PendingOperation(t) \/ Peek(t) \/ Collect(t) \/ Signal(t) \/ HoldForTask(t)
               \/ Enqueue(t) \/ Refuse(t) \/ Perform(t) \/ DoWork(t) \/ Announce(t)
               \/ CallRoutine(t)
      BY <3>2 DEF PendingOperation, Peek, Collect, Signal, HoldForTask, Enqueue, Refuse, Perform,
                  DoWork, Announce, CallRoutine, slotVars
    <3>3. CASE Withdraw(t) \/ Unhold(t) \/ Drop(t) \/ Retire(t) \/ Strip(t) \/ Cleanup(t) \/ Free(t)
      BY <3>3 DEF Withdraw, Unhold, Drop, Release, Retire, Strip, Cleanup, Free, slotVars
    <3>4. QED
      BY <2>4, <3>1, <3>2, <3>3 DEF Step
  <2>5. CASE \/ \E c \in Clients, a \in Blocks, b \in BeginCalls : Acquire(c, a, b)
             \/ \E c \in Clients, a \in Blocks, k \in BlockCalls : LookUp(c, a, k)
             \/ \E w \in Workers, r \in Slots, k \in Kinds : RunTask(w, r, k)
             \/ Close \/ UNCHANGED vars
    <3>1. completed' = completed /\ status' = status
      BY <2>5 DEF Acquire, LookUp, RunTask, Close, vars, slotVars
    <3>2. QED
      BY <2>3, <3>1
  <2>6. QED
    BY <1>1, <2>1, <2>2, <2>3, <2>4, <2>5 DEF Next
<1>2. IInv /\ [Next]_vars => [Kept]_vars
  BY <1>1
<1>3. QED
  BY <1>2, Invariant, PTL DEF Spec, SettlesOnce

=============================================================================
