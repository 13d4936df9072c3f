---------------------------- MODULE Events_proofs ----------------------------
(***************************************************************************)
(* The safety properties of Events for any number of threads, handlers,    *)
(* registrations, invitations, shutdowns and any capacity of the ports.    *)
(*   RegistrationsKept: tokens and slots name each other (RegInv).         *)
(*   QuietAfterShutdown: a worker has only callbacks of the fallback       *)
(* queue, and a queue that was stopped is canceled for good (ThreadInv,    *)
(* StopInv).                                                               *)
(*   EachToOneEnd, TerminateWaits: every task there has to be is in one    *)
(* batch, in one queue, called once or dropped once (PlaceInv), an         *)
(* invitation is copied once (CopyInv), and one thread at a time ends a    *)
(* queue (EndInv).                                                         *)
(***************************************************************************)
EXTENDS Events, FiniteSetTheorems, SequenceTheorems, WellFoundedInduction, TLAPS

-----------------------------------------------------------------------------
(* The inductive invariant                                                  *)

\* What the game knows of its registrations is what the tables hold.
RegTypes ==
    /\ used \in [Kinds -> [Slots -> BOOLEAN]] /\ handlers \in [Kinds -> [Slots -> 0..MaxRegs]]
    /\ kind \in [Regs -> Kinds \cup {None}] /\ token \in [Regs -> 0..MaxHandlers]
    /\ gone \subseteq Regs /\ evicted \subseteq Regs /\ regs \in 0..MaxRegs
RegInv ==
    /\ \A r \in Regs : IF r <= regs THEN kind[r] \in Kinds /\ token[r] \in Slots
                       ELSE kind[r] = None /\ token[r] = 0 /\ r \notin gone \cup evicted
    /\ RegistrationsKept
    /\ \A k \in Kinds, s \in Slots : used[k][s] => token[handlers[k][s]] = s

\* Where the threads are.
States == {"idle", "post", "submit", "copy", "running", "announce", "close", "wait", "list",
           "stop", "join", "exited"}
Calls  == [run : Tasks \cup {None}, from : Queues \cup {None}, back : States]
LocalTypes ==
    /\ pc \in [Threads -> States] /\ hand \in [Threads -> Calls]
    /\ dest \in [Threads -> Queues \cup {None}] /\ halting \in [Threads -> Queues \cup {None}]
    /\ list \in [Threads -> SUBSET Queues] /\ batch \in [Threads -> Seq(EventTasks)]
QueueTypes ==
    /\ made \subseteq Queues /\ process \in Queues \cup {None}
    /\ closed \subseteq Queues /\ canceled \subseteq Queues
    /\ items \in [Queues -> Seq(Tasks)]

\* Where a thread goes on when it is back from the callback it is in, if any.
Base(t) == IF InCallback(t) THEN hand[t].back ELSE pc[t]

\* What each thread may do: a listener posts, a worker takes from the fallback queue, and
\* both shut the runtime down from a handler only; a queue that is being stopped is closed.
ThreadOK(t) ==
    /\ ~InCallback(t) => hand[t] = NoCall /\ pc[t] # "running"
    /\ InCallback(t) => pc[t] \in {"running", "list", "stop", "join"}
    /\ hand[t].back = "join" => pc[t] = "running"
    /\ pc[t] = "join" \/ hand[t].back = "join" => halting[t] \in closed \cap canceled
    /\ Base(t) \in {"submit", "announce", "close", "wait"} => dest[t] \in Queues
    /\ batch[t] # <<>> => Base(t) \in {"post", "submit"}
    /\ pc[t] = "submit" => batch[t] # <<>>
    /\ t \in Workers =>
          /\ pc[t] \in {"idle", "running", "list", "stop", "join", "exited"}
          /\ hand[t].back = "idle" /\ (InCallback(t) => hand[t].from = "fallback")
          /\ pc[t] \in {"list", "stop", "join"} => InCallback(t)
    /\ t \in Listeners =>
          /\ pc[t] \in {"idle", "copy", "post", "submit", "running", "list", "stop", "join"}
          /\ hand[t].back \in {"idle", "post"}
          /\ pc[t] \in {"list", "stop", "join"} => InCallback(t)
    /\ t \in Clients =>
          /\ pc[t] \notin {"copy", "exited"}
          /\ hand[t].back \in {"idle", "post", "close", "wait", "join"}
ThreadInv == \A t \in Threads : ThreadOK(t)

\* A stopped queue is closed for good, and its workers have left.
StopInv ==
    /\ silenced \subseteq closed \cap canceled
    /\ "fallback" \in silenced => \A w \in Workers : pc[w] = "exited"

\* An invitation is copied once, by the listener it came to.
CopyInv ==
    /\ invites \in 0..MaxInvites /\ invite \in [Threads -> 0..MaxInvites]
    /\ heard \in [1..MaxInvites -> SUBSET Regs]
    /\ \A i \in 1..MaxInvites : i > invites => heard[i] = {}
    /\ \A t \in Threads : pc[t] = "copy" => invite[t] \in 1..invites /\ heard[invite[t]] = {}
    /\ \A t, u \in Threads : pc[t] = "copy" /\ pc[u] = "copy" /\ invite[t] = invite[u] => t = u

\* One thread at a time ends a queue, and it leaves the port of a queue it waited for closed
\* and empty.
Ending(t) == Base(t) \in {"announce", "close", "wait"}
EndInv ==
    /\ terminated \subseteq Queues /\ waited \subseteq closed \cap terminated
    /\ \A t \in Threads : Ending(t) => dest[t] \in terminated
    /\ \A t \in Threads : Base(t) = "wait" => dest[t] \in closed
    /\ \A t, u \in Threads : Ending(t) /\ Ending(u) /\ dest[t] = dest[u] => t = u
    /\ \A q \in waited : items[q] = <<>>
    /\ \A q \in waited, t \in Threads : ~(pc[t] = "announce" /\ dest[t] = q)

\* Every task there has to be is in one place, and every other in none.
Single(S) == \E p : S = {p}
PlaceTypes ==
    /\ \A t \in Threads : Len(batch[t]) <= MaxHandlers
    /\ \A q \in Queues : Len(items[q]) <= Capacity
    /\ called \in [Tasks -> Nat] /\ dropped \in [Tasks -> Nat]
Nowhere(x)    == Unposted(x) = {} /\ Queued(x) = {} /\ called[x] = 0 /\ dropped[x] = 0
ToPost(x)     == Single(Unposted(x)) /\ Queued(x) = {} /\ called[x] = 0 /\ dropped[x] = 0
InPort(x)     == Unposted(x) = {} /\ Single(Queued(x)) /\ called[x] = 0 /\ dropped[x] = 0
WasCalled(x)  == Unposted(x) = {} /\ Queued(x) = {} /\ called[x] = 1 /\ dropped[x] = 0
WasDropped(x) == /\ Unposted(x) = {} /\ Queued(x) = {} /\ called[x] = 0 /\ dropped[x] = 1
                 /\ x \in EventTasks
Placed(x)     == IF x \in Due THEN ToPost(x) \/ InPort(x) \/ WasCalled(x) \/ WasDropped(x)
                              ELSE Nowhere(x)
OwnPort       == \A q, z \in Queues : \A i \in 1..Len(items[z]) : items[z][i] = Ended(q) => z = q
PlaceInv      == PlaceTypes /\ (\A x \in Tasks : Placed(x)) /\ OwnPort

-----------------------------------------------------------------------------
(* The tables                                                               *)

\* Who changes the tables.
LEMMA TableSteps ==
    ASSUME [Next]_vars
    PROVE  \/ \E c \in Threads, k \in Kinds : Register(c, k)
           \/ \E c \in Threads, r \in Regs : Unregister(c, r)
           \/ UNCHANGED <<used, handlers, regs, kind, token, gone, evicted>>
<1> USE DEF tableVars, regVars, boundVars
<1>1. ASSUME NEW t \in Threads, Step(t)
      PROVE  UNCHANGED <<used, handlers, regs, kind, token, gone, evicted>>
  BY <1>1 DEF Step, Copy, Resolve, AllPosted, Submit, Work, WorkerExits, Return, AnnounceEnd,
              CloseCompletion, WaitTakes, WaitEnds, ListQueues, StopQueue, Drain, Drained,
              Stopped, takeKept
<1>2. ASSUME NEW t \in Threads, Call(t)
      PROVE  \/ \E k \in Kinds : Register(t, k)
             \/ \E r \in Regs : Unregister(t, r)
             \/ UNCHANGED <<used, handlers, regs, kind, token, gone, evicted>>
  BY <1>2 DEF Call, Arrive, InitializeApiImplEx, UninitializeApiImpl, Dispatch, SetProcess,
              Terminate, takeKept
<1>3. CASE UNCHANGED vars
  BY <1>3 DEF vars
<1>4. QED
  BY <1>1, <1>2, <1>3 DEF Next

LEMMA InitReg == Init => RegTypes /\ RegInv
<1> SUFFICES ASSUME Init PROVE RegTypes /\ RegInv
  OBVIOUS
<1>1. MaxRegs \in Nat /\ MaxHandlers \in Nat
  BY EventConstants
<1>2. RegTypes
  BY <1>1 DEF Init, RegTypes
<1>3. /\ \A r \in Regs : kind[r] = None /\ token[r] = 0 /\ ~(r <= regs)
      /\ \A k \in Kinds, s \in Slots : ~used[k][s]
  BY <1>1 DEF Init, Regs
<1>4. RegistrationsKept
  BY <1>3, EventConstants DEF RegistrationsKept, Registered
<1>5. QED
  BY <1>2, <1>3, <1>4 DEF RegInv, Init

LEMMA NextReg == RegTypes /\ RegInv /\ [Next]_vars => RegTypes' /\ RegInv'
<1> SUFFICES ASSUME RegTypes, RegInv, [Next]_vars PROVE RegTypes' /\ RegInv'
  OBVIOUS
<1>0. MaxRegs \in Nat /\ MaxHandlers \in Nat /\ None \notin Kinds
  BY EventConstants
<1>1. ASSUME NEW c \in Threads, NEW k \in Kinds, Register(c, k)
      PROVE  RegTypes' /\ RegInv'
  <2>1. PICK r \in Regs : r = regs + 1 /\ r = regs'
    BY <1>0, <1>1 DEF Register, RegTypes, Regs
  <2>2. PICK s \in Slots :
           /\ ~used[k][s] /\ handlers' = [handlers EXCEPT ![k][s] = r]
           /\ used' = [used EXCEPT ![k][s] = TRUE] /\ token' = [token EXCEPT ![r] = s]
    BY <1>1, <2>1 DEF Register, add, FreeSlots
  <2>3. kind' = [kind EXCEPT ![r] = k] /\ gone' = gone /\ evicted' = evicted
    BY <1>1, <2>1 DEF Register
  <2>4. RegTypes'
    BY <1>0, <2>1, <2>2, <2>3 DEF RegTypes, Slots, Regs
  <2>5. /\ kind[r] = None /\ r \notin gone \cup evicted
        /\ \A q \in Regs : q <= regs' <=> q <= regs \/ q = r
    <3>1. ~(r <= regs) /\ regs \in Nat
      BY <1>0, <2>1 DEF RegTypes
    <3>2. \A q \in Regs : q <= regs' <=> q <= regs \/ q = r
      BY <2>1, <3>1 DEF Regs
    <3>3. QED
      BY <3>1, <3>2 DEF RegInv
  <2>6. \A q \in Regs : IF q <= regs' THEN kind'[q] \in Kinds /\ token'[q] \in Slots
                        ELSE kind'[q] = None /\ token'[q] = 0 /\ q \notin gone' \cup evicted'
    BY <2>2, <2>3, <2>5 DEF RegInv, RegTypes
  <2>7. /\ Registered(k)' = Registered(k) \cup {r}
        /\ \A j \in Kinds \ {k} : Registered(j)' = Registered(j)
    BY <1>0, <2>3, <2>5 DEF Registered, RegTypes
  <2>8. \A j \in Kinds, z \in Slots :
           /\ used'[j][z] <=> used[j][z] \/ (j = k /\ z = s)
           /\ handlers'[j][z] = IF j = k /\ z = s THEN r ELSE handlers[j][z]
    BY <2>2 DEF RegTypes
  <2>9. \A q \in Regs : token'[q] = IF q = r THEN s ELSE token[q]
    BY <2>2 DEF RegTypes
  <2>10. ASSUME NEW j \in Kinds, NEW q \in Regs, q \in Registered(j), q # r
         PROVE  token[q] \in Slots /\ used[j][token[q]] /\ handlers[j][token[q]] = q
    <3>1. kind[q] = j
      BY <2>10 DEF Registered
    <3>2. QED
      BY <1>0, <2>10, <3>1 DEF RegInv, RegistrationsKept
  <2>11. \A j \in Kinds : Registered(j) \subseteq Regs /\ r \notin Registered(j)
    BY <1>0, <2>5 DEF Registered
  <2>12. RegistrationsKept'
    <3>1. ASSUME NEW j \in Kinds, NEW q \in Registered(j)'
          PROVE  used'[j][token'[q]] /\ handlers'[j][token'[q]] = q
      <4>1. CASE q = r
        <5>1. j = k
          BY <2>7, <2>11, <3>1, <4>1
        <5>2. QED
          BY <2>8, <2>9, <4>1, <5>1
      <4>2. CASE q # r
        <5>1. q \in Registered(j) /\ q \in Regs
          BY <2>7, <2>11, <3>1, <4>2
        <5>2. QED
          BY <2>2, <2>8, <2>9, <2>10, <4>2, <5>1
      <4>3. QED
        BY <4>1, <4>2
    <3>2. ASSUME NEW j \in Kinds, NEW z \in Slots, used'[j][z]
          PROVE  handlers'[j][z] \in Registered(j)'
      BY <2>7, <2>8, <3>2 DEF RegInv, RegistrationsKept
    <3>3. QED
      BY <3>1, <3>2 DEF RegistrationsKept
  <2>13. ASSUME NEW j \in Kinds, NEW z \in Slots, used'[j][z]
         PROVE  token'[handlers'[j][z]] = z
    <3>1. CASE j = k /\ z = s
      BY <2>8, <2>9, <3>1
    <3>2. CASE ~(j = k /\ z = s)
      <4>1. used[j][z] /\ handlers'[j][z] = handlers[j][z]
        BY <2>8, <2>13, <3>2
      <4>2. handlers[j][z] \in Registered(j) /\ token[handlers[j][z]] = z
        BY <4>1 DEF RegInv, RegistrationsKept
      <4>3. QED
        BY <2>9, <2>11, <4>1, <4>2
    <3>3. QED
      BY <3>1, <3>2
  <2>14. QED
    BY <2>4, <2>6, <2>12, <2>13 DEF RegInv
<1>2. ASSUME NEW c \in Threads, NEW r \in Regs, Unregister(c, r)
      PROVE  RegTypes' /\ RegInv'
  <2>1. PICK k \in Kinds, s \in Slots : k = kind[r] /\ s = token[r]
    BY <1>2 DEF Unregister, RegInv
  <2>2. PICK h : h = handlers[k][s]
    OBVIOUS
  <2>3. /\ used[k][s] /\ used' = [used EXCEPT ![k][s] = FALSE] /\ gone' = gone \cup {r}
        /\ evicted' = evicted \cup ({h} \ {r})
        /\ UNCHANGED <<handlers, kind, token, regs>>
    BY <1>2, <2>1, <2>2 DEF Unregister, boundVars
  <2>4. h \in Registered(k) /\ h \in Regs /\ kind[h] = k /\ token[h] = s
    BY <2>2, <2>3 DEF RegInv, RegistrationsKept, Registered
  <2>5. RegTypes'
    BY <2>1, <2>3, <2>4 DEF RegTypes
  <2>6. h <= regs /\ r <= regs
    <3>1. kind[h] # None /\ kind[r] # None
      BY <1>0, <2>1, <2>4
    <3>2. QED
      BY <2>4, <3>1 DEF RegInv
  <2>7. \A q \in Regs : IF q <= regs THEN kind[q] \in Kinds /\ token[q] \in Slots
                        ELSE kind[q] = None /\ token[q] = 0 /\ q \notin gone' \cup evicted'
    BY <2>3, <2>6 DEF RegInv
  <2>8. \A j \in Kinds, z \in Slots : used'[j][z] <=> used[j][z] /\ ~(j = k /\ z = s)
    BY <2>3 DEF RegTypes
  <2>9. \A j \in Kinds : Registered(j)' = Registered(j) \ {r, h}
    BY <2>3 DEF Registered
  <2>10. RegistrationsKept'
    <3>1. ASSUME NEW j \in Kinds, NEW q \in Registered(j)'
          PROVE  used'[j][token[q]] /\ handlers[j][token[q]] = q
      <4>1. q \in Registered(j) /\ q # h /\ q \in Regs /\ kind[q] = j
        BY <2>9, <3>1 DEF Registered
      <4>2. used[j][token[q]] /\ handlers[j][token[q]] = q
        BY <4>1 DEF RegInv, RegistrationsKept
      <4>3. token[q] \in Slots
        BY <1>0, <4>1 DEF RegInv
      <4>4. ~(j = k /\ token[q] = s)
        BY <2>2, <4>1, <4>2
      <4>5. QED
        BY <2>8, <4>2, <4>3, <4>4
    <3>2. ASSUME NEW j \in Kinds, NEW z \in Slots, used'[j][z]
          PROVE  handlers[j][z] \in Registered(j)'
      <4>1. used[j][z] /\ ~(j = k /\ z = s)
        BY <2>8, <3>2
      <4>2. handlers[j][z] \in Registered(j) /\ token[handlers[j][z]] = z
        BY <4>1 DEF RegInv, RegistrationsKept
      <4>3. kind[handlers[j][z]] = j
        BY <4>2 DEF Registered
      <4>4. handlers[j][z] # h
        BY <2>4, <4>1, <4>2, <4>3
      <4>5. handlers[j][z] # r
        BY <2>1, <4>1, <4>2, <4>3
      <4>6. QED
        BY <2>9, <4>2, <4>4, <4>5
    <3>3. QED
      BY <2>3, <3>1, <3>2 DEF RegistrationsKept
  <2>11. QED
    BY <2>3, <2>5, <2>7, <2>8, <2>10 DEF RegInv
<1>3. CASE UNCHANGED <<used, handlers, regs, kind, token, gone, evicted>>
  BY <1>3 DEF RegTypes, RegInv, RegistrationsKept, Registered
<1>4. QED
  BY <1>1, <1>2, <1>3, TableSteps

\* For every capacity of the tables and every use of tokens, what the game believes of its
\* registrations is what the tables have.
THEOREM RegistrationsStay == Spec => []RegistrationsKept
<1>1. RegTypes /\ RegInv => RegistrationsKept
  BY DEF RegInv
<1>2. QED
  BY <1>1, InitReg, NextReg, PTL DEF Spec

-----------------------------------------------------------------------------
(* live() in the order of the slots                                         *)

\* Some enumeration of the set goes up.
Ordered(S) ==
    \E f \in [1..Cardinality(S) -> S] :
        \A i, j \in 1..Cardinality(S) : i < j => f[i] < f[j]

LEMMA LeastOf ==
    ASSUME NEW S \in SUBSET Nat, S # {}
    PROVE  \E d \in S : \A e \in S : d <= e
<1> DEFINE Less == {p \in Nat \X Nat : p[1] < p[2]}
<1>1. IsWellFoundedOn(Less, Nat)
  BY NatLessThanWellFounded, Zenon DEF OpToRel
<1> HIDE DEF Less
<1>2. PICK d \in S : \A e \in S : <<e, d>> \notin Less
  BY <1>1, WFMin
<1>3. ASSUME NEW e \in S PROVE d <= e
  <2>1. d \in Nat /\ e \in Nat /\ <<e, d>> \notin Less
    BY <1>2
  <2>2. ~(e < d)
    BY <2>1 DEF Less
  <2>3. QED
    BY <2>1, <2>2
<1>4. QED
  BY <1>3

\* A set of slots has a last one.
LEMMA LastOf ==
    ASSUME NEW S \in SUBSET Slots, S # {}
    PROVE  \E m \in S : \A s \in S : s <= m
<1>1. MaxHandlers \in Nat /\ \A s \in S : s \in Nat /\ s <= MaxHandlers
  BY EventConstants DEF Slots
<1>2. {MaxHandlers - s : s \in S} \in SUBSET Nat /\ {MaxHandlers - s : s \in S} # {}
  BY <1>1
<1>3. PICK d \in {MaxHandlers - s : s \in S} : \A e \in {MaxHandlers - s : s \in S} : d <= e
  BY <1>2, LeastOf
<1>4. PICK m \in S : d = MaxHandlers - m
  BY <1>3
<1>5. ASSUME NEW s \in S PROVE s <= m
  <2>1. MaxHandlers - m <= MaxHandlers - s
    BY <1>3, <1>4
  <2>2. QED
    BY <1>1, <2>1
<1>6. QED
  BY <1>5

LEMMA SlotSets ==
    ASSUME NEW S \in SUBSET Slots
    PROVE  IsFiniteSet(S) /\ Cardinality(S) \in Nat /\ Cardinality(S) <= MaxHandlers
<1>1. MaxHandlers \in Nat
  BY EventConstants
<1>2. IsFiniteSet(Slots) /\ Cardinality(Slots) = MaxHandlers
  BY <1>1, FS_Interval DEF Slots
<1>3. QED
  BY <1>2, FS_Subset, FS_CardinalityType

\* The induction over the size of the set, by its least counterexample.
LEMMA AllOrdered ==
    ASSUME NEW S \in SUBSET Slots
    PROVE  Ordered(S)
<1> DEFINE Bad == {n \in Nat : \E T \in SUBSET Slots : Cardinality(T) = n /\ ~Ordered(T)}
<1>1. SUFFICES ASSUME ~Ordered(S) PROVE FALSE
  OBVIOUS
<1>2. Bad \in SUBSET Nat /\ Bad # {}
  <2>1. Cardinality(S) \in Bad
    BY <1>1, SlotSets
  <2>2. QED
    BY <2>1
<1>3. PICK n \in Bad : \A m \in Bad : n <= m
  <2> HIDE DEF Bad
  <2>1. QED
    BY <1>2, LeastOf
<1>4. PICK T \in SUBSET Slots : Cardinality(T) = n /\ ~Ordered(T)
  OBVIOUS
<1>5. T # {}
  <2>1. ASSUME T = {} PROVE Ordered(T)
    <3>1. Cardinality(T) = 0
      BY <2>1, FS_EmptySet
    <3>2. [i \in 1..0 |-> 0] \in [1..0 -> T] /\ 1..0 = {}
      OBVIOUS
    <3>3. QED
      BY <3>1, <3>2 DEF Ordered
  <2>2. QED
    BY <1>4, <2>1
<1>6. PICK m \in T : \A s \in T : s <= m
  BY <1>5, LastOf
<1>7. PICK R \in SUBSET Slots : R = T \ {m}
  OBVIOUS
<1>8. n \in Nat /\ n >= 1 /\ Cardinality(R) = n - 1 /\ n - 1 \in Nat
  <2>1. IsFiniteSet(T) /\ n \in Nat
    BY <1>4, SlotSets
  <2>2. Cardinality(R) = n - 1
    BY <1>4, <1>7, <2>1, FS_RemoveElement
  <2>3. Cardinality(R) \in Nat
    BY SlotSets
  <2>4. QED
    BY <2>1, <2>2, <2>3
<1>9. Ordered(R)
  <2>1. n - 1 \notin Bad
    <3> HIDE DEF Bad
    <3>1. QED
      BY <1>3, <1>8
  <2>2. QED
    BY <1>8, <2>1
<1>10. PICK g \in [1..(n - 1) -> R] : \A i, j \in 1..(n - 1) : i < j => g[i] < g[j]
  BY <1>8, <1>9 DEF Ordered
<1>11. \A i \in 1..(n - 1) : g[i] \in T /\ g[i] \in Nat /\ m \in Nat /\ g[i] < m
  <2>1. \A i \in 1..(n - 1) : g[i] \in R
    BY <1>10
  <2>2. \A s \in T : s \in Nat
    BY DEF Slots
  <2>3. QED
    BY <1>6, <1>7, <2>1, <2>2
<1> DEFINE f == [i \in 1..n |-> IF i = n THEN m ELSE g[i]]
<1>12. \A i \in 1..n : i = n \/ i \in 1..(n - 1)
  BY <1>8
<1>13. f \in [1..n -> T]
  BY <1>11, <1>12
<1>14. ASSUME NEW i \in 1..n, NEW j \in 1..n, i < j PROVE f[i] < f[j]
  <2>1. i \in 1..(n - 1) /\ f[i] = g[i]
    BY <1>8, <1>14
  <2>2. CASE j = n
    BY <1>11, <2>1, <2>2
  <2>3. CASE j # n
    <3>1. j \in 1..(n - 1) /\ f[j] = g[j]
      BY <1>12, <2>3
    <3>2. QED
      BY <1>10, <1>14, <2>1, <3>1
  <2>4. QED
    BY <2>2, <2>3
<1> HIDE DEF f
<1>15. Ordered(T)
  BY <1>4, <1>13, <1>14 DEF Ordered
<1>16. QED
  BY <1>4, <1>15

\* The slots in their order: each of them once.
LEMMA InOrderOf ==
    ASSUME NEW S \in SUBSET Slots
    PROVE  /\ InOrder(S) \in [1..Cardinality(S) -> S]
           /\ \A i, j \in 1..Cardinality(S) : InOrder(S)[i] = InOrder(S)[j] => i = j
           /\ \A s \in S : \E i \in 1..Cardinality(S) : InOrder(S)[i] = s
<1> DEFINE n == Cardinality(S)
           f == InOrder(S)
<1>1. n \in Nat /\ IsFiniteSet(S)
  BY SlotSets
<1>2. f \in [1..n -> S] /\ \A i, j \in 1..n : i < j => f[i] < f[j]
  BY AllOrdered DEF Ordered, InOrder
<1>3. ASSUME NEW i \in 1..n, NEW j \in 1..n, f[i] = f[j] PROVE i = j
  <2>1. f[i] \in S
    BY <1>2
  <2>2. \A s \in S : s \in Nat
    BY DEF Slots
  <2> HIDE DEF f, n
  <2>3. f[i] \in Nat /\ ~(f[i] < f[j]) /\ ~(f[j] < f[i])
    BY <1>3, <2>1, <2>2
  <2>4. QED
    BY <1>1, <1>2, <2>3
<1>4. f \in Injection(1..n, S)
  <2>1. DOMAIN f = 1..n
    BY <1>2
  <2>2. IsInjective(f)
    BY <1>3, <2>1 DEF IsInjective
  <2>3. QED
    BY <1>2, <2>2 DEF Injection
<1>5. Cardinality(1..n) = Cardinality(S)
  <2>1. Cardinality(1..n) = IF 1 > n THEN 0 ELSE n - 1 + 1
    BY <1>1, FS_Interval
  <2> HIDE DEF n
  <2>2. Cardinality(1..n) = n
    BY <1>1, <2>1
  <2>3. QED
    BY <2>2 DEF n
<1>6. f \in Surjection(1..n, S)
  BY <1>1, <1>4, <1>5, FS_Injection
<1>7. QED
  BY <1>2, <1>3, <1>6 DEF Surjection

\* Every task of an event is a pair, and the callback of a queue's end is none.
LEMMA TaskKinds ==
    /\ \A q \in Queues : Ended(q) \in Tasks /\ Ended(q) \notin EventTasks
    /\ \A r \in Regs, i \in 0..MaxInvites : Event(r, i) \in EventTasks
    /\ \A q, z \in Queues : Ended(q) = Ended(z) => q = z
    /\ EventTasks \subseteq Tasks /\ None \notin Tasks
<1>1. ASSUME NEW q \in Queues PROVE Ended(q) \notin EventTasks
  <2>1. Len(Ended(q)) = 1
    BY DEF Ended
  <2>2. \A x \in EventTasks : Len(x) = 2
    BY DEF EventTasks
  <2>3. QED
    BY <2>1, <2>2
<1>2. QED
  BY <1>1, EventConstants DEF Ended, Event, EventTasks, Tasks

\* What a listener copies.
LEMMA LiveOf ==
    ASSUME RegTypes, RegInv, NEW k \in Kinds
    PROVE  /\ live(k) \in Seq(Regs) /\ Len(live(k)) <= MaxHandlers
           /\ \A i, j \in 1..Len(live(k)) : live(k)[i] = live(k)[j] => i = j
           /\ \A r : r \in Registered(k) <=> \E i \in 1..Len(live(k)) : live(k)[i] = r
<1>1. PICK U \in SUBSET Slots : U = {s \in Slots : used[k][s]}
  OBVIOUS
<1>2. PICK n \in Nat : n = Cardinality(U) /\ n <= MaxHandlers
  BY SlotSets
<1>3. PICK f : f = InOrder(U)
  OBVIOUS
<1>4. /\ f \in [1..n -> U] /\ \A i, j \in 1..n : f[i] = f[j] => i = j
      /\ \A s \in U : \E i \in 1..n : f[i] = s
  BY <1>2, <1>3, InOrderOf
<1>5. live(k) = [i \in 1..n |-> handlers[k][f[i]]]
  BY <1>1, <1>2, <1>3 DEF live
<1>6. \A s \in U : handlers[k][s] \in Registered(k) /\ token[handlers[k][s]] = s
  BY <1>1 DEF RegInv, RegistrationsKept
<1>7. Registered(k) \subseteq Regs
  BY DEF Registered
<1>8. \A i \in 1..n : f[i] \in U /\ handlers[k][f[i]] \in Registered(k)
                      /\ token[handlers[k][f[i]]] = f[i]
  BY <1>4, <1>6
<1>9. live(k) \in [1..n -> Regs]
  BY <1>5, <1>7, <1>8
<1>10. live(k) \in Seq(Regs) /\ Len(live(k)) = n
  BY <1>2, <1>9
<1>11. ASSUME NEW i \in 1..n, NEW j \in 1..n, live(k)[i] = live(k)[j] PROVE i = j
  BY <1>4, <1>5, <1>8, <1>11
<1>12. ASSUME NEW r \in Registered(k) PROVE \E i \in 1..n : live(k)[i] = r
  <2>1. used[k][token[r]] /\ handlers[k][token[r]] = r /\ r \in Regs /\ kind[r] = k
    BY <1>12 DEF RegInv, RegistrationsKept, Registered
  <2>2. token[r] \in Slots
    BY <2>1, EventConstants DEF RegInv
  <2>3. PICK i \in 1..n : f[i] = token[r]
    BY <1>1, <1>4, <2>1, <2>2
  <2>4. QED
    BY <1>5, <2>1, <2>3
<1>13. QED
  BY <1>2, <1>5, <1>8, <1>10, <1>11, <1>12

-----------------------------------------------------------------------------
(* The threads                                                              *)

\* The four ways to a dispatch: a worker, a client, the thread that waits for the end of a
\* queue and the one that stops it.
Taking(t, q, b) ==
    /\ Take(t, q, b) /\ UNCHANGED takeKept
    /\ \/ t \in Workers /\ pc[t] = "idle" /\ q = "fallback" /\ b = "idle"
       \/ t \in Clients /\ pc[t] = "idle" /\ q = "game" /\ b = "idle"
       \/ pc[t] = "wait" /\ q = dest[t] /\ b = "wait"
       \/ pc[t] = "join" /\ q = halting[t] /\ b = "join"

\* The kinds of steps.
LEMMA Steps ==
    ASSUME [Next]_vars
    PROVE  \/ UNCHANGED vars
           \/ \E t \in Threads :
                 \/ Copy(t) \/ Resolve(t) \/ AllPosted(t) \/ Submit(t) \/ WorkerExits(t)
                 \/ Return(t) \/ AnnounceEnd(t) \/ CloseCompletion(t) \/ WaitEnds(t)
                 \/ ListQueues(t) \/ StopQueue(t) \/ Drained(t) \/ Stopped(t)
                 \/ \E q, b : Taking(t, q, b)
                 \/ Arrive(t) \/ InitializeApiImplEx(t) \/ UninitializeApiImpl(t)
                 \/ \E k \in Kinds : Register(t, k)
                 \/ \E r \in Regs : Unregister(t, r)
                 \/ \E q \in ProcessQueues : SetProcess(t, q)
                 \/ \E q \in Queues, wait \in BOOLEAN : Terminate(t, q, wait)
<1>1. ASSUME NEW t \in Threads, Work(t) \/ Dispatch(t) \/ WaitTakes(t) \/ Drain(t)
      PROVE  \E q, b : Taking(t, q, b)
  <2>1. CASE Work(t)
    <3>1. Taking(t, "fallback", "idle")
      BY <2>1 DEF Work, Taking
    <3>2. QED
      BY <3>1
  <2>2. CASE Dispatch(t)
    <3>1. Taking(t, "game", "idle")
      BY <2>2 DEF Dispatch, Free, Taking
    <3>2. QED
      BY <3>1
  <2>3. CASE WaitTakes(t)
    <3>1. Taking(t, dest[t], "wait")
      BY <2>3 DEF WaitTakes, Taking
    <3>2. QED
      BY <3>1
  <2>4. CASE Drain(t)
    <3>1. Taking(t, halting[t], "join")
      BY <2>4 DEF Drain, Taking
    <3>2. QED
      BY <3>1
  <2>5. QED
    BY <1>1, <2>1, <2>2, <2>3, <2>4
<1>2. QED
  BY <1>1 DEF Next, Step, Call

\* A callback is taken from the head: thrown away, called within another one, or begun.
LEMMA TakeFacts ==
    ASSUME LocalTypes, QueueTypes, ThreadInv, NEW t \in Threads, NEW q, NEW b, Taking(t, q, b)
    PROVE  /\ q \in Queues /\ b \in States
           /\ \E x \in Tasks :
                 /\ items[q] # <<>> /\ x = items[q][1]
                 /\ items' = [items EXCEPT ![q] = Tail(items[q])]
                 /\ \/ /\ x \in EventTasks /\ q \in canceled
                       /\ dropped' = Count(dropped, x) /\ called' = called
                       /\ pc' = [pc EXCEPT ![t] = b] /\ hand' = hand
                    \/ /\ ~(x \in EventTasks /\ q \in canceled)
                       /\ called' = Count(called, x) /\ dropped' = dropped
                       /\ \/ InCallback(t) /\ pc' = [pc EXCEPT ![t] = b] /\ hand' = hand
                          \/ /\ ~InCallback(t) /\ pc' = [pc EXCEPT ![t] = "running"]
                             /\ hand' = [hand EXCEPT ![t] = [run |-> x, from |-> q, back |-> b]]
<1>1. q \in Queues /\ b \in States
  BY DEF Taking, Queues, States, ThreadInv, ThreadOK, QueueTypes, Base
<1>2. items[q] \in Seq(Tasks) /\ items[q] # <<>>
  BY <1>1 DEF Taking, Take, QueueTypes
<1>3. PICK x \in Tasks : x = items[q][1] /\ x = Head(items[q])
  BY <1>2
<1>4. QED
  BY <1>1, <1>2, <1>3 DEF Taking, Take, CallBack, Goto

\* A step changes nothing of any other thread.
LEMMA OthersStay ==
    ASSUME LocalTypes, QueueTypes, ThreadInv, NEW t \in Threads, NEW u \in Threads, u # t,
           ThreadOK(u), pc'[u] = pc[u], hand'[u] = hand[u], dest'[u] = dest[u],
           halting'[u] = halting[u], batch'[u] = batch[u],
           closed \subseteq closed', canceled \subseteq canceled'
    PROVE  ThreadOK(u)'
BY DEF ThreadOK, InCallback, Base, NoCall

\* What a step of thread t does to the threads and the queues.
Moves(t) ==
    /\ LocalTypes' /\ QueueTypes' /\ ThreadOK(t)'
    /\ closed \subseteq closed' /\ canceled \subseteq canceled'
    /\ \A u \in Threads \ {t} :
          /\ pc'[u] = pc[u] /\ hand'[u] = hand[u] /\ dest'[u] = dest[u]
          /\ halting'[u] = halting[u] /\ batch'[u] = batch[u]

\* Posting,
LEMMA PostMoves ==
    ASSUME RegTypes, RegInv, LocalTypes, QueueTypes, ThreadInv, CopyInv, NEW t \in Threads,
           Copy(t) \/ Resolve(t) \/ AllPosted(t) \/ Submit(t)
    PROVE  Moves(t)
<1> USE DEF LocalTypes, QueueTypes, tableVars, regVars, boundVars, portVars, queueVars, stopVars,
            localVars
<1>0. ThreadOK(t)
  BY DEF ThreadInv
<1>1. CASE Copy(t)
  <2>1. PICK es : es = [n \in 1..Len(live("invite")) |-> Event(live("invite")[n], invite[t])]
    OBVIOUS
  <2>2. es \in Seq(EventTasks)
    <3>1. live("invite") \in Seq(Regs)
      BY LiveOf DEF Kinds
    <3>2. invite[t] \in 0..MaxInvites
      BY DEF CopyInv
    <3>3. \A n \in 1..Len(live("invite")) : Event(live("invite")[n], invite[t]) \in EventTasks
      BY <3>1, <3>2, TaskKinds
    <3>4. PICK n \in Nat : n = Len(live("invite"))
      BY <3>1
    <3>5. es \in [1..n -> EventTasks]
      BY <2>1, <3>3, <3>4
    <3>6. QED
      BY <3>5
  <2>3. /\ pc[t] = "copy" /\ pc' = [pc EXCEPT ![t] = "post"] /\ batch' = [batch EXCEPT ![t] = es]
        /\ UNCHANGED <<hand, dest, halting, list, made, process, closed, canceled, items>>
    BY <1>1, <2>1 DEF Copy, Goto
  <2>4. LocalTypes' /\ QueueTypes'
    BY <2>2, <2>3 DEF States
  <2>5. ThreadOK(t)'
    BY <1>0, <2>3 DEF ThreadOK, InCallback, Base, NoCall
  <2>6. QED
    BY <2>3, <2>4, <2>5 DEF Moves
<1>2. CASE Resolve(t)
  <2>1. PICK q \in Queues :
           /\ pc[t] = "post" /\ batch[t] # <<>> /\ pc' = [pc EXCEPT ![t] = "submit"]
           /\ dest' = [dest EXCEPT ![t] = q] /\ process' = q /\ made' = made \cup {q}
           /\ UNCHANGED <<hand, batch, halting, list, closed, canceled, items>>
    BY <1>2 DEF Resolve, Goto, Queues
  <2>2. LocalTypes' /\ QueueTypes'
    BY <2>1 DEF States
  <2>3. ThreadOK(t)'
    BY <1>0, <2>1 DEF ThreadOK, InCallback, Base, NoCall
  <2>4. QED
    BY <2>1, <2>2, <2>3 DEF Moves
<1>3. CASE AllPosted(t)
  <2>1. /\ pc[t] = "post" /\ batch[t] = <<>> /\ pc' = [pc EXCEPT ![t] = "idle"]
        /\ UNCHANGED <<hand, dest, batch, halting, list, made, process, closed, canceled, items>>
    BY <1>3 DEF AllPosted, Goto
  <2>2. LocalTypes' /\ QueueTypes'
    BY <2>1 DEF States
  <2>3. ThreadOK(t)'
    BY <1>0, <2>1 DEF ThreadOK, InCallback, Base, NoCall
  <2>4. QED
    BY <2>1, <2>2, <2>3 DEF Moves
<1>4. CASE Submit(t)
  <2>1. pc[t] = "submit" /\ batch[t] \in Seq(EventTasks) /\ batch[t] # <<>> /\ ~InCallback(t)
    BY <1>0, <1>4 DEF Submit, ThreadOK
  <2>2. PICK x \in EventTasks : x = Head(batch[t])
    BY <2>1
  <2>3. PICK q \in Queues : q = dest[t]
    BY <1>0, <2>1 DEF ThreadOK, Base
  <2>4. x \in Tasks /\ x # None /\ Tail(batch[t]) \in Seq(EventTasks)
    BY <2>1, TaskKinds
  <2>5. /\ batch' = [batch EXCEPT ![t] = Tail(batch[t])] /\ dest' = [dest EXCEPT ![t] = None]
        /\ UNCHANGED <<halting, list, made, process, closed, canceled>>
    BY <1>4 DEF Submit
  <2>6. \/ /\ hand' = [hand EXCEPT ![t] = [run |-> x, from |-> q, back |-> "post"]]
           /\ pc' = [pc EXCEPT ![t] = "running"] /\ items' = items
        \/ /\ pc' = [pc EXCEPT ![t] = "post"] /\ hand' = hand
           /\ items' = items \/ items' = [items EXCEPT ![q] = Append(items[q], x)]
    BY <1>4, <2>2, <2>3 DEF Submit, CallBack, Goto, countVars
  <2>7. LocalTypes'
    <3>1. [run |-> x, from |-> q, back |-> "post"] \in Calls
      BY <2>4 DEF Calls, States
    <3>2. hand' \in [Threads -> Calls] /\ pc' \in [Threads -> States]
      BY <2>6, <3>1 DEF States
    <3>3. QED
      BY <2>4, <2>5, <3>2
  <2>8. QueueTypes'
    <3>1. items[q] \in Seq(Tasks)
      OBVIOUS
    <3>2. Append(items[q], x) \in Seq(Tasks)
      BY <2>4, <3>1
    <3>3. QED
      BY <2>5, <2>6, <3>2
  <2>9. ThreadOK(t)'
    <3>1. t \notin Workers
      BY <1>0, <2>1 DEF ThreadOK
    <3>2. QED
      BY <1>0, <2>1, <2>4, <2>5, <2>6, <3>1 DEF ThreadOK, InCallback, Base, NoCall
  <2>10. QED
    BY <2>5, <2>6, <2>7, <2>8, <2>9 DEF Moves
<1>5. QED
  BY <1>1, <1>2, <1>3, <1>4

\* dispatching and returning,
LEMMA TakeMoves ==
    ASSUME LocalTypes, QueueTypes, ThreadInv, NEW t \in Threads,
           (\E q, b : Taking(t, q, b)) \/ Return(t) \/ WorkerExits(t)
    PROVE  Moves(t)
<1> USE DEF LocalTypes, QueueTypes, tableVars, regVars, boundVars, portVars, queueVars, stopVars,
            localVars
<1>0. ThreadOK(t)
  BY DEF ThreadInv
<1>1. CASE \E q, b : Taking(t, q, b)
  <2>0. PICK q, b : Taking(t, q, b)
    BY <1>1
  <2>x1. q \in Queues /\ b \in States
    BY <2>0, TakeFacts
  <2>x2. PICK x \in Tasks :
           /\ items[q] # <<>> /\ items' = [items EXCEPT ![q] = Tail(items[q])]
           /\ \/ pc' = [pc EXCEPT ![t] = b] /\ hand' = hand
              \/ /\ ~InCallback(t) /\ pc' = [pc EXCEPT ![t] = "running"]
                 /\ hand' = [hand EXCEPT ![t] = [run |-> x, from |-> q, back |-> b]]
    <3> HIDE DEF LocalTypes, QueueTypes
    <3>1. QED
      BY <2>0, TakeFacts
  <2>1. /\ Taking(t, q, b) /\ items[q] # <<>> /\ q \in Queues /\ b \in States
        /\ items' = [items EXCEPT ![q] = Tail(items[q])]
        /\ \/ pc' = [pc EXCEPT ![t] = b] /\ hand' = hand
           \/ /\ ~InCallback(t) /\ pc' = [pc EXCEPT ![t] = "running"]
              /\ hand' = [hand EXCEPT ![t] = [run |-> x, from |-> q, back |-> b]]
    BY <2>0, <2>x1, <2>x2
  <2>2. UNCHANGED <<dest, batch, halting, list, made, process, closed, canceled>>
    BY <2>1 DEF Taking, takeKept
  <2>3. x # None
    BY TaskKinds
  <2>4. LocalTypes'
    <3>1. [run |-> x, from |-> q, back |-> b] \in Calls
      BY <2>1 DEF Calls
    <3>2. "running" \in States
      BY DEF States
    <3>3. hand' \in [Threads -> Calls] /\ pc' \in [Threads -> States]
      BY <2>1, <3>1, <3>2
    <3>4. QED
      BY <2>2, <3>3
  <2>5. QueueTypes'
    <3>1. items[q] \in Seq(Tasks) /\ items[q] # <<>>
      BY <2>1
    <3>2. Tail(items[q]) \in Seq(Tasks)
      BY <3>1
    <3>3. QED
      BY <2>1, <2>2, <3>2
  <2>6. \/ t \in Workers /\ pc[t] = "idle" /\ q = "fallback" /\ b = "idle"
        \/ t \in Clients /\ pc[t] = "idle" /\ q = "game" /\ b = "idle"
        \/ pc[t] = "wait" /\ q = dest[t] /\ b = "wait"
        \/ pc[t] = "join" /\ q = halting[t] /\ b = "join"
    BY <2>1 DEF Taking
  <2>7. (pc[t] = "wait" => t \in Clients) /\ (pc[t] = "join" /\ ~InCallback(t) => t \in Clients)
        /\ (t \in Clients => t \notin Listeners \cup Workers) /\ (t \in Workers => t \notin Listeners)
    BY <1>0, EventConstants DEF ThreadOK, Threads
  <2>8. ThreadOK(t)'
    <3>1. CASE pc' = [pc EXCEPT ![t] = b] /\ hand' = hand
      <4>1. b = pc[t]
        BY <2>6
      <4>2. pc' = pc
        BY <3>1, <4>1
      <4>3. QED
        BY <1>0, <2>2, <3>1, <4>2 DEF ThreadOK, InCallback, Base, NoCall
    <3>2. CASE /\ ~InCallback(t) /\ pc' = [pc EXCEPT ![t] = "running"]
               /\ hand' = [hand EXCEPT ![t] = [run |-> x, from |-> q, back |-> b]]
      <4>1. pc'[t] = "running" /\ hand'[t] = [run |-> x, from |-> q, back |-> b]
        BY <3>2
      <4>2. InCallback(t)' /\ Base(t)' = pc[t] /\ hand'[t].back = pc[t] /\ Base(t) = pc[t]
            /\ hand'[t].from = q
        BY <2>3, <2>6, <3>2, <4>1 DEF InCallback, Base
      <4>3. QED
        BY <1>0, <2>2, <2>6, <2>7, <3>2, <4>1, <4>2 DEF ThreadOK
    <3>3. QED
      BY <2>1, <3>1, <3>2
  <2>9. QED
    BY <2>1, <2>2, <2>4, <2>5, <2>8 DEF Moves
<1>2. CASE Return(t)
  <2>1. /\ pc[t] = "running" /\ pc' = [pc EXCEPT ![t] = hand[t].back]
        /\ hand' = [hand EXCEPT ![t] = NoCall]
        /\ UNCHANGED <<dest, batch, halting, list, made, process, closed, canceled, items>>
    BY <1>2 DEF Return, Goto
  <2>2. InCallback(t) /\ NoCall \in Calls /\ hand[t].back \in States /\ NoCall.run = None
        /\ NoCall.back = "idle"
    BY <1>0, <2>1 DEF ThreadOK, NoCall, Calls, States
  <2>3. LocalTypes' /\ QueueTypes'
    BY <2>1, <2>2
  <2>4. ~InCallback(t)' /\ hand'[t] = NoCall /\ pc'[t] = hand[t].back /\ Base(t)' = Base(t)
    BY <2>1, <2>2 DEF InCallback, Base
  <2>5. ThreadOK(t)'
    <3>1. Base(t) = hand[t].back
      BY <2>2 DEF Base
    <3>2. hand[t].back \in {"idle", "post", "close", "wait", "join"}
      BY <1>0 DEF ThreadOK, Threads
    <3>3. QED
      BY <1>0, <2>1, <2>2, <2>4, <3>1, <3>2 DEF ThreadOK
  <2>6. QED
    BY <2>1, <2>3, <2>5 DEF Moves
<1>3. CASE WorkerExits(t)
  <2>1. /\ t \in Workers /\ pc[t] = "idle" /\ pc' = [pc EXCEPT ![t] = "exited"]
        /\ UNCHANGED <<hand, dest, batch, halting, list, made, process, closed, canceled, items>>
    BY <1>3 DEF WorkerExits, Goto
  <2>2. t \notin Clients \cup Listeners
    BY <2>1, EventConstants
  <2>3. LocalTypes' /\ QueueTypes'
    BY <2>1 DEF States
  <2>4. ThreadOK(t)'
    BY <1>0, <2>1, <2>2 DEF ThreadOK, InCallback, Base, NoCall
  <2>5. QED
    BY <2>1, <2>3, <2>4 DEF Moves
<1>4. QED
  BY <1>1, <1>2, <1>3

\* ending a queue,
LEMMA EndMoves ==
    ASSUME LocalTypes, QueueTypes, ThreadInv, NEW t \in Threads,
           \/ \E q \in Queues, wait \in BOOLEAN : Terminate(t, q, wait)
           \/ AnnounceEnd(t) \/ CloseCompletion(t) \/ WaitEnds(t)
    PROVE  Moves(t)
<1> USE DEF LocalTypes, QueueTypes, tableVars, regVars, boundVars, portVars, queueVars, stopVars,
            localVars
<1>0. ThreadOK(t)
  BY DEF ThreadInv
<1>1. ASSUME NEW q \in Queues, NEW wait \in BOOLEAN, Terminate(t, q, wait) PROVE Moves(t)
  <2>1. /\ t \in Clients /\ pc[t] = "idle" /\ pc' = [pc EXCEPT ![t] = "announce"]
        /\ dest' = [dest EXCEPT ![t] = q]
        /\ UNCHANGED <<hand, batch, halting, list, made, process, closed, canceled, items>>
    BY <1>1 DEF Terminate, Free, Goto
  <2>2. LocalTypes' /\ QueueTypes'
    BY <2>1 DEF States
  <2>3. t \notin Listeners \cup Workers
    BY <2>1, EventConstants
  <2>4. ThreadOK(t)'
    BY <1>0, <2>1, <2>3 DEF ThreadOK, InCallback, Base, NoCall
  <2>5. QED
    BY <2>1, <2>2, <2>4 DEF Moves
<1>2. CASE AnnounceEnd(t)
  <2>1. pc[t] = "announce" /\ ~InCallback(t) /\ t \in Clients
    BY <1>0, <1>2 DEF AnnounceEnd, ThreadOK, Threads
  <2>2. PICK q \in Queues : q = dest[t]
    BY <1>0, <2>1 DEF ThreadOK, Base
  <2>3. Ended(q) \in Tasks /\ Ended(q) # None
    BY TaskKinds
  <2>4. UNCHANGED <<dest, batch, halting, list, made, process, closed, canceled>>
    BY <1>2 DEF AnnounceEnd
  <2>5. \/ /\ items' = [items EXCEPT ![q] = Append(items[q], Ended(q))]
           /\ pc' = [pc EXCEPT ![t] = "close"] /\ hand' = hand
        \/ /\ hand' = [hand EXCEPT ![t] = [run |-> Ended(q), from |-> q, back |-> "close"]]
           /\ pc' = [pc EXCEPT ![t] = "running"] /\ items' = items
    BY <1>2, <2>2 DEF AnnounceEnd, CallBack, Goto
  <2>6. LocalTypes'
    <3>1. [run |-> Ended(q), from |-> q, back |-> "close"] \in Calls
      BY <2>3 DEF Calls, States
    <3>2. hand' \in [Threads -> Calls] /\ pc' \in [Threads -> States]
      BY <2>5, <3>1 DEF States
    <3>3. QED
      BY <2>4, <3>2
  <2>7. QueueTypes'
    <3>1. items[q] \in Seq(Tasks)
      OBVIOUS
    <3>2. Append(items[q], Ended(q)) \in Seq(Tasks)
      BY <2>3, <3>1
    <3>3. QED
      BY <2>4, <2>5, <3>2
  <2>8. t \notin Listeners \cup Workers
    BY <2>1, EventConstants
  <2>9. ThreadOK(t)'
    BY <1>0, <2>1, <2>3, <2>4, <2>5, <2>8 DEF ThreadOK, InCallback, Base, NoCall
  <2>10. QED
    BY <2>4, <2>5, <2>6, <2>7, <2>9 DEF Moves
<1>3. CASE CloseCompletion(t)
  <2>1. pc[t] = "close" /\ ~InCallback(t) /\ t \in Clients
    BY <1>0, <1>3 DEF CloseCompletion, ThreadOK, Threads
  <2>2. PICK q \in Queues : q = dest[t]
    BY <1>0, <2>1 DEF ThreadOK, Base
  <2>3. /\ closed' = closed \cup {q} /\ canceled \subseteq canceled' /\ canceled' \subseteq Queues
        /\ UNCHANGED <<hand, batch, halting, list, made, process, items>>
    BY <1>3, <2>2 DEF CloseCompletion
  <2>4. \/ pc' = [pc EXCEPT ![t] = "wait"] /\ dest' = dest
        \/ pc' = [pc EXCEPT ![t] = "idle"] /\ dest' = [dest EXCEPT ![t] = None]
    BY <1>3 DEF CloseCompletion, Leave, Goto
  <2>5. LocalTypes' /\ QueueTypes'
    BY <2>3, <2>4 DEF States
  <2>6. t \notin Listeners \cup Workers
    BY <2>1, EventConstants
  <2>7. ThreadOK(t)'
    BY <1>0, <2>1, <2>3, <2>4, <2>6 DEF ThreadOK, InCallback, Base, NoCall
  <2>8. QED
    BY <2>3, <2>4, <2>5, <2>7 DEF Moves
<1>4. CASE WaitEnds(t)
  <2>1. /\ pc[t] = "wait" /\ pc' = [pc EXCEPT ![t] = "idle"] /\ dest' = [dest EXCEPT ![t] = None]
        /\ UNCHANGED <<hand, batch, halting, list, made, process, closed, canceled, items>>
    BY <1>4 DEF WaitEnds, Leave, Goto
  <2>2. LocalTypes' /\ QueueTypes'
    BY <2>1 DEF States
  <2>3. ThreadOK(t)'
    BY <1>0, <2>1 DEF ThreadOK, InCallback, Base, NoCall
  <2>4. QED
    BY <2>1, <2>2, <2>3 DEF Moves
<1>5. QED
  BY <1>1, <1>2, <1>3, <1>4

\* shutting down,
LEMMA StopMoves ==
    ASSUME LocalTypes, QueueTypes, ThreadInv, NEW t \in Threads,
           \/ UninitializeApiImpl(t) \/ ListQueues(t) \/ StopQueue(t) \/ Drained(t)
           \/ Stopped(t)
    PROVE  Moves(t)
<1> USE DEF LocalTypes, QueueTypes, tableVars, regVars, boundVars, portVars, queueVars, stopVars,
            localVars
<1>0. ThreadOK(t) /\ (t \in Clients => t \notin Listeners \cup Workers)
  BY EventConstants DEF ThreadInv
<1>1. CASE UninitializeApiImpl(t)
  <2>1. /\ (t \in Clients /\ pc[t] = "idle") \/ (pc[t] = "running" /\ hand[t].back # "join")
        /\ pc' = [pc EXCEPT ![t] = "list"]
        /\ UNCHANGED <<hand, dest, batch, halting, list, made, process, closed, canceled, items>>
    BY <1>1 DEF UninitializeApiImpl, Free, Goto
  <2>2. LocalTypes' /\ QueueTypes'
    BY <2>1 DEF States
  <2>3. ThreadOK(t)'
    BY <1>0, <2>1 DEF ThreadOK, InCallback, Base, NoCall
  <2>4. QED
    BY <2>1, <2>2, <2>3 DEF Moves
<1>2. CASE ListQueues(t)
  <2>1. /\ pc[t] = "list" /\ pc' = [pc EXCEPT ![t] = "stop"]
        /\ list' = [list EXCEPT ![t] = made]
        /\ UNCHANGED <<hand, dest, batch, halting, made, process, closed, canceled, items>>
    BY <1>2 DEF ListQueues, Goto
  <2>2. LocalTypes' /\ QueueTypes'
    BY <2>1 DEF States
  <2>3. ThreadOK(t)'
    BY <1>0, <2>1 DEF ThreadOK, InCallback, Base, NoCall
  <2>4. QED
    BY <2>1, <2>2, <2>3 DEF Moves
<1>3. CASE StopQueue(t)
  <2>1. PICK q \in Queues :
           /\ pc[t] = "stop" /\ pc' = [pc EXCEPT ![t] = "join"]
           /\ closed' = closed \cup {q} /\ canceled' = canceled \cup {q}
           /\ halting' = [halting EXCEPT ![t] = q]
           /\ UNCHANGED <<hand, dest, batch, list, made, process, items>>
    BY <1>3 DEF StopQueue, Goto
  <2>2. LocalTypes' /\ QueueTypes'
    BY <2>1 DEF States
  <2>3. ThreadOK(t)'
    BY <1>0, <2>1 DEF ThreadOK, InCallback, Base, NoCall
  <2>4. QED
    BY <2>1, <2>2, <2>3 DEF Moves
<1>4. CASE Drained(t)
  <2>1. /\ pc[t] = "join" /\ pc' = [pc EXCEPT ![t] = "stop"]
        /\ list' = [list EXCEPT ![t] = list[t] \ {halting[t]}]
        /\ halting' = [halting EXCEPT ![t] = None]
        /\ UNCHANGED <<hand, dest, batch, made, process, closed, canceled, items>>
    BY <1>4 DEF Drained, Goto
  <2>2. LocalTypes' /\ QueueTypes'
    BY <2>1 DEF States
  <2>3. ThreadOK(t)'
    BY <1>0, <2>1 DEF ThreadOK, InCallback, Base, NoCall
  <2>4. QED
    BY <2>1, <2>2, <2>3 DEF Moves
<1>5. CASE Stopped(t)
  <2>1. /\ pc[t] = "stop" /\ pc' = [pc EXCEPT ![t] = IF InCallback(t) THEN "running" ELSE "idle"]
        /\ UNCHANGED <<hand, dest, batch, halting, list, made, process, closed, canceled, items>>
    BY <1>5 DEF Stopped, Goto
  <2>2. LocalTypes' /\ QueueTypes'
    BY <2>1 DEF States
  <2>3. ThreadOK(t)'
    BY <1>0, <2>1 DEF ThreadOK, InCallback, Base, NoCall
  <2>4. QED
    BY <2>1, <2>2, <2>3 DEF Moves
<1>6. QED
  BY <1>1, <1>2, <1>3, <1>4, <1>5

\* and the other calls of the game, and an invitation.
LEMMA CallMoves ==
    ASSUME RegTypes, LocalTypes, QueueTypes, ThreadInv, NEW t \in Threads,
           \/ Arrive(t) \/ InitializeApiImplEx(t)
           \/ \E k \in Kinds : Register(t, k)
           \/ \E r \in Regs : Unregister(t, r)
           \/ \E q \in ProcessQueues : SetProcess(t, q)
    PROVE  Moves(t)
<1> USE DEF LocalTypes, QueueTypes, tableVars, regVars, boundVars, portVars, queueVars, stopVars,
            localVars
<1>0. ThreadOK(t) /\ (t \in Clients => t \notin Listeners \cup Workers)
      /\ (t \in Listeners => t \notin Clients \cup Workers)
  BY EventConstants DEF ThreadInv
<1>1. CASE Arrive(t)
  <2>1. /\ t \in Listeners /\ pc[t] = "idle"
        /\ pc' = [pc EXCEPT ![t] = "copy"] \/ pc' = [pc EXCEPT ![t] = "idle"]
        /\ UNCHANGED <<hand, dest, batch, halting, list, made, process, closed, canceled, items>>
    BY <1>1 DEF Arrive, Goto
  <2>2. LocalTypes' /\ QueueTypes'
    BY <2>1 DEF States
  <2>3. ThreadOK(t)'
    BY <1>0, <2>1 DEF ThreadOK, InCallback, Base, NoCall
  <2>4. QED
    BY <2>1, <2>2, <2>3 DEF Moves
<1>2. ASSUME NEW k \in Kinds, Register(t, k) PROVE Moves(t)
  <2>1. PICK r \in Regs : r = regs'
    BY <1>2, EventConstants DEF Register, RegTypes, Regs
  <2>2. PICK es : es = <<Event(r, 0)>>
    OBVIOUS
  <2>3. es \in Seq(EventTasks)
    <3>1. Event(r, 0) \in EventTasks
      BY TaskKinds, EventConstants
    <3>2. QED
      BY <2>2, <3>1
  <2>4. /\ t \in Clients /\ pc[t] = "idle"
        /\ \/ batch' = [batch EXCEPT ![t] = es] /\ pc' = [pc EXCEPT ![t] = "post"]
           \/ UNCHANGED <<batch, pc>>
        /\ UNCHANGED <<hand, dest, halting, list, made, process, closed, canceled, items>>
    BY <1>2, <2>1, <2>2 DEF Register, Free, Goto
  <2>5. LocalTypes' /\ QueueTypes'
    BY <2>3, <2>4 DEF States
  <2>6. ThreadOK(t)'
    BY <1>0, <2>4 DEF ThreadOK, InCallback, Base, NoCall
  <2>7. QED
    BY <2>4, <2>5, <2>6 DEF Moves
<1>3. CASE InitializeApiImplEx(t) \/ \E r \in Regs : Unregister(t, r)
  <2>1. UNCHANGED <<pc, hand, dest, batch, halting, list, made, process, closed, canceled, items>>
    BY <1>3 DEF InitializeApiImplEx, Unregister
  <2>2. QED
    BY <1>0, <2>1 DEF Moves, ThreadOK, InCallback, Base, NoCall
<1>4. ASSUME NEW q \in ProcessQueues, SetProcess(t, q) PROVE Moves(t)
  <2>1. /\ process' = q
        /\ UNCHANGED <<pc, hand, dest, batch, halting, list, made, closed, canceled, items>>
    BY <1>4 DEF SetProcess
  <2>2. q \in Queues \cup {None}
    BY EventConstants DEF Queues
  <2>3. QED
    BY <1>0, <2>1, <2>2 DEF Moves, ThreadOK, InCallback, Base, NoCall
<1>5. QED
  BY <1>1, <1>2, <1>3, <1>4

\* Every step is a move of one thread, which has not left.
LEMMA StepsMove ==
    ASSUME RegTypes, RegInv, LocalTypes, QueueTypes, ThreadInv, CopyInv, [Next]_vars
    PROVE  UNCHANGED vars \/ \E t \in Threads : Moves(t) /\ pc[t] # "exited"
<1>1. SUFFICES ASSUME ~UNCHANGED vars PROVE \E t \in Threads : Moves(t) /\ pc[t] # "exited"
  OBVIOUS
<1>2. PICK t \in Threads :
         \/ Copy(t) \/ Resolve(t) \/ AllPosted(t) \/ Submit(t) \/ WorkerExits(t)
         \/ Return(t) \/ AnnounceEnd(t) \/ CloseCompletion(t) \/ WaitEnds(t)
         \/ ListQueues(t) \/ StopQueue(t) \/ Drained(t) \/ Stopped(t)
         \/ \E q, b : Taking(t, q, b)
         \/ Arrive(t) \/ InitializeApiImplEx(t) \/ UninitializeApiImpl(t)
         \/ \E k \in Kinds : Register(t, k)
         \/ \E r \in Regs : Unregister(t, r)
         \/ \E q \in ProcessQueues : SetProcess(t, q)
         \/ \E q \in Queues, wait \in BOOLEAN : Terminate(t, q, wait)
  BY <1>1, Steps
<1>3. Moves(t)
  BY <1>2, PostMoves, TakeMoves, EndMoves, StopMoves, CallMoves
<1>4. pc[t] # "exited"
  BY <1>2 DEF Copy, Resolve, AllPosted, Submit, WorkerExits, Return, AnnounceEnd,
              CloseCompletion, WaitEnds, ListQueues, StopQueue, Drained, Stopped, Taking, Arrive,
              InitializeApiImplEx, UninitializeApiImpl, Register, Unregister, SetProcess,
              Terminate, Free
<1>5. QED
  BY <1>3, <1>4

LEMMA InitThreads == Init => LocalTypes /\ QueueTypes /\ ThreadInv /\ StopInv /\ CopyInv
<1> SUFFICES ASSUME Init PROVE LocalTypes /\ QueueTypes /\ ThreadInv /\ StopInv /\ CopyInv
  OBVIOUS
<1>1. NoCall \in Calls /\ NoCall.run = None /\ NoCall.back = "idle" /\ "idle" \in States
  BY DEF NoCall, Calls, States
<1>2. LocalTypes
  BY <1>1 DEF Init, LocalTypes
<1>3. QueueTypes
  BY DEF Init, QueueTypes, Queues
<1>4. ASSUME NEW t \in Threads PROVE ThreadOK(t)
  <2>1. pc[t] = "idle" /\ hand[t] = NoCall /\ batch[t] = <<>>
    BY DEF Init
  <2>2. QED
    BY <1>1, <2>1 DEF ThreadOK, InCallback, Base
<1>5. StopInv
  BY DEF Init, StopInv
<1>6. CopyInv
  BY EventConstants DEF Init, CopyInv
<1>7. QED
  BY <1>2, <1>3, <1>4, <1>5, <1>6 DEF ThreadInv

LEMMA NextThreads ==
    RegTypes /\ RegInv /\ LocalTypes /\ QueueTypes /\ ThreadInv /\ CopyInv /\ [Next]_vars
        => LocalTypes' /\ QueueTypes' /\ ThreadInv'
<1> SUFFICES ASSUME RegTypes, RegInv, LocalTypes, QueueTypes, ThreadInv, CopyInv, [Next]_vars
             PROVE  LocalTypes' /\ QueueTypes' /\ ThreadInv'
  OBVIOUS
<1>1. CASE UNCHANGED vars
  BY <1>1 DEF vars, localVars, stopVars, queueVars, portVars, LocalTypes, QueueTypes, ThreadInv,
              ThreadOK, InCallback, Base
<1>2. ASSUME NEW t \in Threads, Moves(t) PROVE LocalTypes' /\ QueueTypes' /\ ThreadInv'
  <2>1. ASSUME NEW u \in Threads PROVE ThreadOK(u)'
    <3>1. CASE u = t
      BY <1>2, <3>1 DEF Moves
    <3>2. CASE u # t
      BY <1>2, <3>2, OthersStay DEF Moves, ThreadInv
    <3>3. QED
      BY <3>1, <3>2
  <2>2. QED
    BY <1>2, <2>1 DEF Moves, ThreadInv
<1>3. QED
  BY <1>1, <1>2, StepsMove

\* Who copies the table, and when.
LEMMA CopySteps ==
    ASSUME LocalTypes, QueueTypes, ThreadInv, [Next]_vars
    PROVE  \/ \E t \in Threads : Arrive(t)
           \/ \E t \in Threads : Copy(t)
           \/ /\ UNCHANGED <<invites, invite, heard>>
              /\ \A u \in Threads : pc'[u] = "copy" => pc[u] = "copy"
<1>1. SUFFICES ASSUME NEW t \in Threads,
                      \/ Resolve(t) \/ AllPosted(t) \/ Submit(t) \/ WorkerExits(t)
                      \/ Return(t) \/ AnnounceEnd(t) \/ CloseCompletion(t) \/ WaitEnds(t)
                      \/ ListQueues(t) \/ StopQueue(t) \/ Drained(t) \/ Stopped(t)
                      \/ \E q, b : Taking(t, q, b)
                      \/ InitializeApiImplEx(t) \/ UninitializeApiImpl(t)
                      \/ \E k \in Kinds : Register(t, k)
                      \/ \E r \in Regs : Unregister(t, r)
                      \/ \E q \in ProcessQueues : SetProcess(t, q)
                      \/ \E q \in Queues, wait \in BOOLEAN : Terminate(t, q, wait)
               PROVE  /\ UNCHANGED <<invites, invite, heard>>
                      /\ \A u \in Threads : pc'[u] = "copy" => pc[u] = "copy"
  BY Steps DEF vars, localVars, regVars, boundVars
<1>2. UNCHANGED <<invites, invite, heard>>
  BY <1>1 DEF Resolve, AllPosted, Submit, WorkerExits, Return, AnnounceEnd, CloseCompletion,
              WaitEnds, ListQueues, StopQueue, Drained, Stopped, Taking, takeKept,
              InitializeApiImplEx, UninitializeApiImpl, Register, Unregister, SetProcess,
              Terminate, boundVars, regVars, localVars
<1>3. \/ pc' = pc
      \/ \E l \in States \ {"copy"} : pc' = [pc EXCEPT ![t] = l]
  <2>1. hand[t].back # "copy" /\ hand[t].back \in States
    BY DEF ThreadInv, ThreadOK, Threads, LocalTypes, Calls
  <2>2. ASSUME NEW q, NEW b, Taking(t, q, b)
        PROVE  \E l \in States \ {"copy"} : pc' = [pc EXCEPT ![t] = l]
    <3>1. b \in States \ {"copy"}
      BY <2>2 DEF Taking, States
    <3>2. pc' = [pc EXCEPT ![t] = b] \/ pc' = [pc EXCEPT ![t] = "running"]
      BY <2>2, TakeFacts
    <3>3. QED
      BY <3>1, <3>2 DEF States
  <2>3. QED
    BY <1>1, <2>1, <2>2
       DEF Resolve, AllPosted, Submit, WorkerExits, Return, AnnounceEnd, CloseCompletion, Leave,
           WaitEnds, ListQueues, StopQueue, Drained, Stopped, InitializeApiImplEx, CallBack,
           UninitializeApiImpl, Register, Unregister, SetProcess, Terminate, Goto, States
<1>4. QED
  BY <1>2, <1>3 DEF LocalTypes

LEMMA NextCopy ==
    RegTypes /\ LocalTypes /\ QueueTypes /\ ThreadInv /\ CopyInv /\ [Next]_vars => CopyInv'
<1> SUFFICES ASSUME RegTypes, LocalTypes, QueueTypes, ThreadInv, CopyInv, [Next]_vars
             PROVE  CopyInv'
  OBVIOUS
<1>0. MaxInvites \in Nat
  BY EventConstants
<1>1. ASSUME NEW t \in Threads, Arrive(t) PROVE CopyInv'
  <2>1. PICK i \in 1..MaxInvites : i = invites + 1 /\ i = invites'
    BY <1>0, <1>1 DEF Arrive, CopyInv
  <2>2. /\ invite' = [invite EXCEPT ![t] = i] /\ heard' = heard
        /\ pc' = [pc EXCEPT ![t] = "copy"] \/ pc' = [pc EXCEPT ![t] = "idle"]
    BY <1>1, <2>1 DEF Arrive, Goto, regVars
  <2>3. invites' \in 0..MaxInvites /\ invite' \in [Threads -> 0..MaxInvites]
    BY <1>0, <2>1, <2>2 DEF CopyInv
  <2>4. heard[i] = {} /\ \A j \in 1..MaxInvites : j > i => heard[j] = {}
    BY <1>0, <2>1 DEF CopyInv
  <2>5. ASSUME NEW u \in Threads, pc'[u] = "copy"
        PROVE  /\ invite'[u] \in 1..i /\ heard[invite'[u]] = {}
               /\ u # t => invite'[u] # i /\ invite'[u] = invite[u] /\ pc[u] = "copy"
    <3>1. CASE u = t
      BY <2>1, <2>2, <2>4, <3>1 DEF CopyInv
    <3>2. CASE u # t
      <4>1. pc[u] = "copy" /\ invite'[u] = invite[u]
        BY <2>2, <2>5, <3>2 DEF CopyInv, LocalTypes
      <4>2. invite[u] \in 1..invites /\ heard[invite[u]] = {} /\ invites \in Nat
        BY <1>0, <4>1 DEF CopyInv
      <4>3. QED
        BY <2>1, <3>2, <4>1, <4>2
    <3>3. QED
      BY <3>1, <3>2
  <2>6. \A u, v \in Threads :
           pc'[u] = "copy" /\ pc'[v] = "copy" /\ invite'[u] = invite'[v] => u = v
    <3>1. invite'[t] = i
      BY <2>2 DEF CopyInv
    <3>2. QED
      BY <2>5, <3>1 DEF CopyInv
  <2>7. QED
    BY <2>1, <2>2, <2>3, <2>4, <2>5, <2>6 DEF CopyInv
<1>2. ASSUME NEW t \in Threads, Copy(t) PROVE CopyInv'
  <2>1. PICK i \in 1..invites : i = invite[t]
    BY <1>2 DEF Copy, CopyInv
  <2>2. /\ pc[t] = "copy" /\ heard' = [heard EXCEPT ![i] = Registered("invite")]
        /\ pc' = [pc EXCEPT ![t] = "post"] /\ UNCHANGED <<invites, invite>>
    BY <1>2, <2>1 DEF Copy, Goto, boundVars
  <2>3. i \in 1..MaxInvites /\ ~(i > invites)
    BY <1>0, <2>1 DEF CopyInv
  <2>4. heard' \in [1..MaxInvites -> SUBSET Regs]
    BY <2>2, <2>3 DEF CopyInv, Registered
  <2>5. \A j \in 1..MaxInvites : j # i => heard'[j] = heard[j]
    BY <2>2 DEF CopyInv
  <2>6. ASSUME NEW u \in Threads, pc'[u] = "copy"
        PROVE  pc[u] = "copy" /\ invite[u] \in 1..invites /\ heard'[invite[u]] = {}
    <3>1. pc[u] = "copy" /\ u # t
      BY <2>2, <2>6 DEF LocalTypes
    <3>2. invite[u] # i /\ invite[u] \in 1..invites /\ heard[invite[u]] = {}
      BY <2>1, <2>2, <3>1 DEF CopyInv
    <3>3. invite[u] \in 1..MaxInvites
      BY <1>0, <3>2 DEF CopyInv
    <3>4. QED
      BY <2>5, <3>1, <3>2, <3>3
  <2>7. QED
    BY <2>2, <2>3, <2>4, <2>5, <2>6 DEF CopyInv
<1>3. CASE /\ UNCHANGED <<invites, invite, heard>>
           /\ \A u \in Threads : pc'[u] = "copy" => pc[u] = "copy"
  BY <1>3 DEF CopyInv
<1>4. QED
  BY <1>1, <1>2, <1>3, CopySteps

LEMMA NextStop ==
    /\ RegTypes /\ RegInv /\ LocalTypes /\ QueueTypes /\ ThreadInv /\ CopyInv /\ StopInv
    /\ [Next]_vars
    => StopInv'
<1> SUFFICES ASSUME RegTypes, RegInv, LocalTypes, QueueTypes, ThreadInv, CopyInv, StopInv,
                    [Next]_vars
             PROVE  StopInv'
  OBVIOUS
<1>1. /\ closed \subseteq closed' /\ canceled \subseteq canceled'
      /\ \A w \in Workers : pc[w] = "exited" => pc'[w] = "exited"
  <2>1. CASE UNCHANGED vars
    BY <2>1 DEF vars, queueVars, portVars
  <2>2. ASSUME NEW t \in Threads, Moves(t), pc[t] # "exited"
        PROVE  /\ closed \subseteq closed' /\ canceled \subseteq canceled'
               /\ \A w \in Workers : pc[w] = "exited" => pc'[w] = "exited"
    BY <2>2 DEF Moves, Threads
  <2>3. QED
    BY <2>1, <2>2, StepsMove
<1>2. \/ silenced' = silenced
      \/ \E t \in Threads : Drained(t)
  <2>1. ASSUME NEW t \in Threads, Step(t) \/ Call(t), ~Drained(t) PROVE silenced' = silenced
    BY <2>1 DEF Step, Call, Copy, Resolve, AllPosted, Submit, Work, WorkerExits, Return,
                AnnounceEnd, CloseCompletion, WaitTakes, WaitEnds, ListQueues, StopQueue, Drain,
                Stopped, Arrive, InitializeApiImplEx, UninitializeApiImpl, Register, Unregister,
                Dispatch, SetProcess, Terminate, takeKept, endVars
  <2>2. QED
    BY <2>1 DEF Next, vars, endVars
<1>3. ASSUME NEW t \in Threads, Drained(t) PROVE StopInv'
  <2>1. /\ silenced' = silenced \cup {halting[t]} /\ Joined(halting[t])
        /\ halting[t] \in closed \cap canceled
    BY <1>3 DEF Drained, ThreadInv, ThreadOK
  <2>2. QED
    BY <1>1, <2>1 DEF StopInv, Joined
<1>4. QED
  BY <1>1, <1>2, <1>3 DEF StopInv

\* The invariant of the threads and the tables.
ThreadsInv ==
    /\ RegTypes /\ RegInv /\ LocalTypes /\ QueueTypes /\ ThreadInv /\ StopInv /\ CopyInv

LEMMA InitThreadsInv == Init => ThreadsInv
BY InitReg, InitThreads DEF ThreadsInv

LEMMA NextThreadsInv == ThreadsInv /\ [Next]_vars => ThreadsInv'
BY NextReg, NextThreads, NextCopy, NextStop DEF ThreadsInv

\* What one step of QuietAfterShutdown may do.
QuietStep ==
    /\ \A w \in Workers : hand'[w].run # None => hand'[w].from \notin silenced'
    /\ \A t \in Threads :
          /\ hand'[t] # hand[t]
          /\ hand'[t].run \in EventTasks
          => hand'[t].from \notin silenced \/ mode[hand'[t].from] = "immediate"

LEMMA StepsQuiet == ThreadsInv /\ ThreadsInv' /\ [Next]_vars => QuietStep
<1> SUFFICES ASSUME ThreadsInv, ThreadsInv', [Next]_vars PROVE QuietStep
  OBVIOUS
<1> USE DEF ThreadsInv
<1>1. ASSUME NEW w \in Workers, hand'[w].run # None PROVE hand'[w].from \notin silenced'
  <2>1. hand'[w].from = "fallback" /\ pc'[w] # "exited"
    BY <1>1 DEF ThreadInv, ThreadOK, InCallback, Threads
  <2>2. QED
    BY <2>1 DEF StopInv
<1>2. ASSUME NEW t \in Threads, hand'[t] # hand[t], hand'[t].run \in EventTasks
      PROVE  hand'[t].from \notin silenced \/ mode[hand'[t].from] = "immediate"
  <2>1. PICK u \in Threads :
           \/ Submit(u) \/ Return(u) \/ AnnounceEnd(u)
           \/ \E q, b : Taking(u, q, b)
    BY <1>2, Steps
       DEF vars, localVars, Copy, Resolve, AllPosted, WorkerExits, CloseCompletion, Leave,
           WaitEnds, ListQueues, StopQueue, Drained, Stopped, Arrive, InitializeApiImplEx,
           UninitializeApiImpl, Register, Unregister, SetProcess, Terminate
  <2>2. CASE Submit(u)
    <3>1. PICK q, x : /\ mode[q] = "immediate"
                      /\ hand' = [hand EXCEPT ![u] = [run |-> x, from |-> q, back |-> "post"]]
      BY <1>2, <2>2 DEF Submit, CallBack
    <3>2. hand'[t].from = q
      BY <1>2, <3>1 DEF LocalTypes
    <3>3. QED
      BY <3>1, <3>2
  <2>3. CASE Return(u)
    <3>1. hand'[t] = NoCall
      BY <1>2, <2>3 DEF Return, LocalTypes
    <3>2. NoCall.run = None
      BY DEF NoCall
    <3>3. QED
      BY <1>2, <3>1, <3>2, TaskKinds
  <2>4. CASE AnnounceEnd(u)
    <3>1. dest[u] \in Queues
      BY <2>4 DEF AnnounceEnd, ThreadInv, ThreadOK, Base
    <3>2. hand'[t] = [run |-> Ended(dest[u]), from |-> dest[u], back |-> "close"]
      BY <1>2, <2>4 DEF AnnounceEnd, CallBack, LocalTypes
    <3>3. QED
      BY <1>2, <3>1, <3>2, TaskKinds
  <2>5. ASSUME NEW q, NEW b, Taking(u, q, b) PROVE hand'[t].from \notin silenced
    <3>1. PICK x : /\ ~(x \in EventTasks /\ q \in canceled)
                   /\ hand' = [hand EXCEPT ![u] = [run |-> x, from |-> q, back |-> b]]
      BY <1>2, <2>5, TakeFacts
    <3>2. hand'[t].from = q /\ hand'[t].run = x
      BY <1>2, <3>1 DEF LocalTypes
    <3>3. QED
      BY <1>2, <3>1, <3>2 DEF StopInv
  <2>6. QED
    BY <2>1, <2>2, <2>3, <2>4, <2>5
<1>3. QED
  BY <1>1, <1>2 DEF QuietStep

\* For any number of threads, queued events and shutdowns: once a shutdown has stopped a
\* queue, no worker is in a callback of it and no event of it is called any more, but
\* inline.
THEOREM StoppedQueuesStayQuiet == Spec => QuietAfterShutdown
<1>1. QuietAfterShutdown <=> [][QuietStep]_vars
  BY DEF QuietAfterShutdown, QuietStep
<1>2. QED
  BY <1>1, InitThreadsInv, NextThreadsInv, StepsQuiet, PTL DEF Spec

-----------------------------------------------------------------------------
(* The end of a queue                                                       *)

\* A step of a thread that is no call of queue_terminate does not begin to end a queue.
Ends(t) ==
    /\ Ending(t)' => Ending(t) /\ dest'[t] = dest[t]
    /\ pc'[t] = "announce" => pc[t] = "announce" /\ dest'[t] = dest[t]
    /\ Base(t)' = "wait" => Base(t) = "wait" \/ dest[t] \in closed'

LEMMA EndSteps ==
    ASSUME LocalTypes, QueueTypes, ThreadInv, NEW t \in Threads,
           \/ Copy(t) \/ Resolve(t) \/ AllPosted(t) \/ Submit(t) \/ WorkerExits(t)
           \/ Return(t) \/ AnnounceEnd(t) \/ CloseCompletion(t) \/ WaitEnds(t)
           \/ ListQueues(t) \/ StopQueue(t) \/ Drained(t) \/ Stopped(t)
           \/ \E q, b : Taking(t, q, b)
           \/ Arrive(t) \/ InitializeApiImplEx(t) \/ UninitializeApiImpl(t)
           \/ \E k \in Kinds : Register(t, k)
           \/ \E r \in Regs : Unregister(t, r)
           \/ \E q \in ProcessQueues : SetProcess(t, q)
    PROVE  Ends(t)
<1> USE DEF LocalTypes, Ends, Ending, Base, InCallback
<1>0. ThreadOK(t)
  BY DEF ThreadInv
<1>1. ASSUME hand' = hand, ~InCallback(t), pc'[t] \notin {"announce", "close", "wait"}
      PROVE  Ends(t)
  BY <1>1
<1>2. ASSUME hand' = hand, InCallback(t), dest' = dest, pc'[t] # "announce"
      PROVE  Ends(t)
  BY <1>2
<1>3. CASE Copy(t) \/ Resolve(t) \/ AllPosted(t)
  <2>1. /\ pc[t] \in {"copy", "post"} /\ hand' = hand
        /\ pc'[t] \in {"post", "submit", "idle"}
    BY <1>3 DEF Copy, Resolve, AllPosted, Goto, localVars
  <2>2. ~InCallback(t)
    BY <1>0, <2>1 DEF ThreadOK
  <2>3. QED
    BY <1>1, <2>1, <2>2
<1>4. CASE WorkerExits(t) \/ Arrive(t) \/ \E k \in Kinds : Register(t, k)
  <2>1. /\ pc[t] = "idle" /\ hand' = hand
        /\ pc'[t] \in {"post", "copy", "idle", "exited"}
    BY <1>4 DEF WorkerExits, Arrive, Register, Free, Goto, localVars
  <2>2. ~InCallback(t)
    BY <1>0, <2>1 DEF ThreadOK
  <2>3. QED
    BY <1>1, <2>1, <2>2
<1>5. CASE \/ InitializeApiImplEx(t)
           \/ \E r \in Regs : Unregister(t, r)
           \/ \E q \in ProcessQueues : SetProcess(t, q)
  BY <1>5 DEF InitializeApiImplEx, Unregister, SetProcess, localVars
<1>6. CASE ListQueues(t) \/ StopQueue(t) \/ Drained(t) \/ Stopped(t) \/ UninitializeApiImpl(t)
  <2>1. /\ hand' = hand /\ dest' = dest
        /\ pc'[t] \in {"list", "stop", "join", "running", "idle"}
    BY <1>6 DEF ListQueues, StopQueue, Drained, Stopped, UninitializeApiImpl, Goto, localVars
  <2>2. QED
    BY <1>1, <1>2, <2>1
<1>7. CASE Submit(t)
  <2>1. pc[t] = "submit" /\ ~InCallback(t) /\ hand[t] = NoCall /\ NoCall.back = "idle"
    BY <1>0, <1>7 DEF Submit, ThreadOK, NoCall
  <2>2. \/ hand' = hand /\ pc'[t] = "post"
        \/ hand'[t].back = "post" /\ pc'[t] = "running"
    BY <1>7 DEF Submit, CallBack, Goto
  <2>3. QED
    BY <1>1, <2>1, <2>2
<1>8. CASE Return(t)
  <2>1. /\ pc[t] = "running" /\ pc'[t] = hand[t].back /\ hand'[t].run = None /\ dest' = dest
    BY <1>8 DEF Return, Goto, NoCall
  <2>2. InCallback(t) /\ hand[t].back # "announce"
    BY <1>0, <2>1 DEF ThreadOK, Threads
  <2>3. QED
    BY <2>1, <2>2
<1>9. CASE AnnounceEnd(t)
  <2>1. pc[t] = "announce" /\ ~InCallback(t) /\ dest' = dest
    BY <1>0, <1>9 DEF AnnounceEnd, ThreadOK
  <2>2. \/ hand' = hand /\ pc'[t] = "close"
        \/ hand'[t] = [run |-> Ended(dest[t]), from |-> dest[t], back |-> "close"]
           /\ pc'[t] = "running"
    BY <1>9 DEF AnnounceEnd, CallBack, Goto
  <2>3. Base(t)' \in {"close", "running"}
    BY <2>1, <2>2
  <2>4. QED
    BY <2>1, <2>2, <2>3
<1>10. CASE CloseCompletion(t)
  <2>1. /\ pc[t] = "close" /\ ~InCallback(t) /\ hand' = hand /\ dest[t] \in closed'
    BY <1>0, <1>10 DEF CloseCompletion, ThreadOK
  <2>2. (pc'[t] = "wait" /\ dest' = dest) \/ pc'[t] = "idle"
    BY <1>10 DEF CloseCompletion, Leave, Goto
  <2>3. QED
    BY <2>1, <2>2
<1>11. CASE WaitEnds(t)
  <2>1. pc[t] = "wait" /\ ~InCallback(t) /\ hand' = hand /\ pc'[t] = "idle"
    BY <1>0, <1>11 DEF WaitEnds, Leave, Goto, ThreadOK
  <2>2. QED
    BY <1>1, <2>1
<1>12. ASSUME NEW q, NEW b, Taking(t, q, b) PROVE Ends(t)
  <2>1. b = pc[t] /\ pc[t] \in {"idle", "wait", "join"} /\ dest' = dest
    BY <1>12 DEF Taking, takeKept
  <2>2. PICK x \in Tasks :
           \/ hand' = hand /\ pc'[t] = b
           \/ /\ ~InCallback(t) /\ pc'[t] = "running"
              /\ hand'[t] = [run |-> x, from |-> q, back |-> b]
    <3> HIDE DEF LocalTypes, Ends, Ending, Base, InCallback
    <3>1. b \in States
      BY <1>12, TakeFacts
    <3>2. PICK x \in Tasks :
             \/ hand' = hand /\ pc' = [pc EXCEPT ![t] = b]
             \/ /\ ~InCallback(t) /\ pc' = [pc EXCEPT ![t] = "running"]
                /\ hand' = [hand EXCEPT ![t] = [run |-> x, from |-> q, back |-> b]]
      BY <1>12, TakeFacts
    <3>3. QED
      BY <3>2 DEF LocalTypes
  <2>3. x # None
    BY TaskKinds
  <2>4. QED
    BY <2>1, <2>2, <2>3
<1>13. QED
  BY <1>3, <1>4, <1>5, <1>6, <1>7, <1>8, <1>9, <1>10, <1>11, <1>12

\* The ports grow only while they are open.
LEMMA PortSteps ==
    ASSUME LocalTypes, QueueTypes, ThreadInv, [Next]_vars
    PROVE  \A q \in closed : items[q] = <<>> => items'[q] = <<>>
<1> SUFFICES ASSUME NEW q \in closed, items[q] = <<>> PROVE items'[q] = <<>>
  OBVIOUS
<1>1. \/ items' = items
      \/ \E t \in Threads : Submit(t) \/ AnnounceEnd(t)
      \/ \E t \in Threads : \E z, b : Taking(t, z, b)
  BY Steps
     DEF vars, queueVars, Copy, Resolve, AllPosted, WorkerExits, Return, CloseCompletion, WaitEnds,
         ListQueues, StopQueue, Drained, Stopped, Arrive, InitializeApiImplEx,
         UninitializeApiImpl, Register, Unregister, SetProcess, Terminate
<1>2. ASSUME NEW t \in Threads, Submit(t) \/ AnnounceEnd(t) PROVE items'[q] = <<>>
  <2>1. \/ items' = items
        \/ \E x : dest[t] \notin closed
                   /\ items' = [items EXCEPT ![dest[t]] = Append(items[dest[t]], x)]
    BY <1>2 DEF Submit, AnnounceEnd, Accepts
  <2>2. QED
    BY <2>1 DEF QueueTypes
<1>3. ASSUME NEW t \in Threads, NEW z, NEW b, Taking(t, z, b) PROVE items'[q] = <<>>
  <2>1. items[z] # <<>> /\ items' = [items EXCEPT ![z] = Tail(items[z])]
    BY <1>3 DEF Taking, Take
  <2>2. QED
    BY <2>1 DEF QueueTypes
<1>4. QED
  BY <1>1, <1>2, <1>3

LEMMA InitEnd == Init => EndInv
<1> SUFFICES ASSUME Init PROVE EndInv
  OBVIOUS
<1>1. \A t \in Threads : pc[t] = "idle" /\ Base(t) = "idle"
  BY DEF Init, Base, InCallback, NoCall
<1>2. QED
  BY <1>1 DEF Init, EndInv, Ending

LEMMA NextEnd == ThreadsInv /\ EndInv /\ [Next]_vars => EndInv'
<1> SUFFICES ASSUME ThreadsInv, EndInv, [Next]_vars PROVE EndInv'
  OBVIOUS
<1> USE DEF ThreadsInv
<1>1. CASE UNCHANGED vars
  BY <1>1 DEF vars, localVars, stopVars, queueVars, portVars, endVars, EndInv, Ending, Base,
              InCallback
<1>2. ASSUME NEW t \in Threads,
             \/ Copy(t) \/ Resolve(t) \/ AllPosted(t) \/ Submit(t) \/ WorkerExits(t)
             \/ Return(t) \/ AnnounceEnd(t) \/ CloseCompletion(t) \/ WaitEnds(t)
             \/ ListQueues(t) \/ StopQueue(t) \/ Drained(t) \/ Stopped(t)
             \/ \E q, b : Taking(t, q, b)
             \/ Arrive(t) \/ InitializeApiImplEx(t) \/ UninitializeApiImpl(t)
             \/ \E k \in Kinds : Register(t, k)
             \/ \E r \in Regs : Unregister(t, r)
             \/ \E q \in ProcessQueues : SetProcess(t, q)
      PROVE  EndInv'
  <2>1. Ends(t) /\ Moves(t)
    BY <1>2, EndSteps, PostMoves, TakeMoves, EndMoves, StopMoves, CallMoves
  <2>2. terminated' = terminated
    BY <1>2 DEF Copy, Resolve, AllPosted, Submit, WorkerExits, Return, AnnounceEnd,
                CloseCompletion, WaitEnds, ListQueues, StopQueue, Drained, Stopped, Taking,
                takeKept, Arrive, InitializeApiImplEx, UninitializeApiImpl, Register, Unregister,
                SetProcess, queueVars, portVars
  <2>3. \A u \in Threads \ {t} : /\ Base(u)' = Base(u) /\ (Ending(u)' <=> Ending(u))
                                 /\ dest'[u] = dest[u] /\ pc'[u] = pc[u]
    BY <2>1 DEF Moves, Base, InCallback, Ending
  <2>4. closed \subseteq closed'
    BY <2>1 DEF Moves
  <2>5. /\ \A u \in Threads : Ending(u)' => Ending(u) /\ dest'[u] = dest[u]
        /\ \A u \in Threads : pc'[u] = "announce" => pc[u] = "announce" /\ dest'[u] = dest[u]
    BY <2>1, <2>3 DEF Ends
  <2>6. ASSUME NEW u \in Threads, Base(u)' = "wait" PROVE dest'[u] \in closed'
    <3>1. dest'[u] = dest[u]
      BY <2>5, <2>6 DEF Ending
    <3>2. QED
      BY <2>1, <2>3, <2>4, <2>6, <3>1 DEF Ends, EndInv
  <2>7. ASSUME NEW q \in waited' \ waited
        PROVE  /\ q \in closed' \cap terminated /\ items'[q] = <<>>
               /\ \A u \in Threads : ~(pc'[u] = "announce" /\ dest'[u] = q)
    <3>1. WaitEnds(t)
      BY <1>2, <2>7
         DEF Copy, Resolve, AllPosted, Submit, WorkerExits, Return, AnnounceEnd, CloseCompletion,
             ListQueues, StopQueue, Drained, Stopped, Taking, takeKept, Arrive,
             InitializeApiImplEx, UninitializeApiImpl, Register, Unregister, SetProcess, endVars
    <3>2. /\ pc[t] = "wait" /\ q = dest[t] /\ items[q] = <<>> /\ items' = items
      BY <2>7, <3>1 DEF WaitEnds, queueVars
    <3>3. Base(t) = "wait" /\ Ending(t)
      BY <3>2 DEF ThreadInv, ThreadOK, Base, Ending
    <3>4. q \in closed /\ q \in terminated
      BY <3>2, <3>3 DEF EndInv
    <3>5. ASSUME NEW u \in Threads, pc'[u] = "announce", dest'[u] = q PROVE FALSE
      <4>1. pc[u] = "announce" /\ dest[u] = q
        BY <2>5, <3>5
      <4>2. Ending(u) /\ u # t
        BY <3>2, <4>1 DEF ThreadInv, ThreadOK, Base, Ending
      <4>3. QED
        BY <3>2, <3>3, <4>1, <4>2 DEF EndInv
    <3>6. QED
      BY <2>4, <3>2, <3>4, <3>5
  <2>8. ASSUME NEW q \in waited
        PROVE  /\ q \in closed' \cap terminated /\ items'[q] = <<>>
               /\ \A u \in Threads : ~(pc'[u] = "announce" /\ dest'[u] = q)
    BY <2>4, <2>5, PortSteps DEF EndInv
  <2>9. \A u, v \in Threads : Ending(u)' /\ Ending(v)' /\ dest'[u] = dest'[v] => u = v
    BY <2>5 DEF EndInv
  <2>10. QED
    BY <2>2, <2>5, <2>6, <2>7, <2>8, <2>9 DEF EndInv
<1>3. ASSUME NEW t \in Threads, NEW q \in Queues, NEW wait \in BOOLEAN, Terminate(t, q, wait)
      PROVE  EndInv'
  <2>1. /\ q \notin terminated /\ terminated' = terminated \cup {q}
        /\ pc' = [pc EXCEPT ![t] = "announce"] /\ dest' = [dest EXCEPT ![t] = q]
        /\ pc[t] = "idle" /\ UNCHANGED <<hand, items, closed, waited>>
    BY <1>3 DEF Terminate, Free, Goto, endVars
  <2>2. /\ pc'[t] = "announce" /\ dest'[t] = q /\ ~InCallback(t)
        /\ \A u \in Threads \ {t} : pc'[u] = pc[u] /\ dest'[u] = dest[u]
    BY <2>1 DEF LocalTypes, ThreadInv, ThreadOK
  <2>3. Base(t)' = "announce" /\ Ending(t)'
    BY <2>1, <2>2 DEF Base, Ending, InCallback
  <2>4. \A u \in Threads \ {t} : Base(u)' = Base(u) /\ (Ending(u)' <=> Ending(u))
    BY <2>1, <2>2 DEF Base, Ending, InCallback
  <2>5. \A u \in Threads \ {t} : Ending(u) => dest[u] # q
    BY <2>1 DEF EndInv
  <2>6. q \notin waited
    BY <2>1 DEF EndInv
  <2>7. QED
    BY <2>1, <2>2, <2>3, <2>4, <2>5, <2>6 DEF EndInv
<1>4. QED
  BY <1>1, <1>2, <1>3, Steps

-----------------------------------------------------------------------------
(* Where a task is                                                          *)

\* The places of x in the sequences f[d] for d in D, of at most N elements.
At(f, D, N, x)    == {p \in D \X (1..N) : p[2] <= Len(f[p[1]]) /\ f[p[1]][p[2]] = x}
Fits(f, D, N)     == \A e \in D : Len(f[e]) <= N
Distinct(h)       == \A i, j \in 1..Len(h) : h[i] = h[j] => i = j
Fresh(f, D, N, h) == \A i \in 1..Len(h) : At(f, D, N, h[i]) = {}

\* What becomes of the places when g is f without y at the head of a sequence, with y at
\* the end of one, or with h for an empty one.
Shortened(f, g, D, N, y) ==
    /\ Fits(g, D, N) /\ At(g, D, N, y) = {}
    /\ \A x : x # y => /\ At(f, D, N, x) = {} => At(g, D, N, x) = {}
                       /\ Single(At(f, D, N, x)) => Single(At(g, D, N, x))
Lengthened(f, g, D, N, y) ==
    /\ Fits(g, D, N) /\ Single(At(g, D, N, y))
    /\ \A x : x # y => At(g, D, N, x) = At(f, D, N, x)
Filled(f, g, D, N, h) ==
    /\ Fits(g, D, N) /\ \A i \in 1..Len(h) : Single(At(g, D, N, h[i]))
    /\ \A x : (\A i \in 1..Len(h) : h[i] # x) => At(g, D, N, x) = At(f, D, N, x)

\* Without its head a sequence has all the others once, one place further to the front;
LEMMA AtTail ==
    ASSUME NEW D, NEW T, NEW N \in Nat, NEW f \in [D -> Seq(T)], NEW d \in D, f[d] # <<>>,
           NEW y, y = Head(f[d]), Fits(f, D, N), Single(At(f, D, N, y)),
           NEW g, g = [f EXCEPT ![d] = Tail(f[d])]
    PROVE  Shortened(f, g, D, N, y)
<1> USE DEF Fits, Distinct, Fresh
<1>1. PICK n \in Nat : n = Len(f[d]) /\ n >= 1 /\ n <= N
  BY EmptySeq
<1>2. /\ \A e \in D : f[e] \in Seq(T) /\ g[e] = IF e = d THEN Tail(f[d]) ELSE f[e]
      /\ \A e \in D : Len(f[e]) \in Nat
  OBVIOUS
<1>3. Len(g[d]) = n - 1 /\ \A i \in 1..(n - 1) : g[d][i] = f[d][i + 1]
  BY <1>1, <1>2
<1>4. \A e \in D : Len(g[e]) <= N
  BY <1>1, <1>2, <1>3
<1>5. y = f[d][1]
  BY <1>1
<1>6. ASSUME NEW x, NEW p \in At(g, D, N, x)
      PROVE  \/ p[1] # d /\ p \in At(f, D, N, x)
             \/ /\ p[1] = d /\ p[2] \in 1..(n - 1)
                /\ <<d, p[2] + 1>> \in At(f, D, N, x)
  <2>1. PICK e \in D, i \in 1..N : p = <<e, i>> /\ i <= Len(g[e]) /\ g[e][i] = x
    BY <1>6 DEF At
  <2>2. CASE e # d
    BY <1>2, <2>1, <2>2 DEF At
  <2>3. CASE e = d
    <3>1. i \in 1..(n - 1) /\ f[d][i + 1] = x
      BY <1>1, <1>3, <2>1, <2>3
    <3>2. i + 1 \in 1..N /\ i + 1 <= Len(f[d])
      BY <1>1, <3>1
    <3>3. QED
      BY <2>1, <2>3, <3>1, <3>2 DEF At
  <2>4. QED
    BY <2>2, <2>3
<1>7. ASSUME NEW x, NEW p \in At(f, D, N, x)
      PROVE  \/ p[1] # d /\ p \in At(g, D, N, x)
             \/ p = <<d, 1>> /\ x = y
             \/ /\ p[1] = d /\ p[2] \in 2..n
                /\ <<d, p[2] - 1>> \in At(g, D, N, x)
  <2>1. PICK e \in D, i \in 1..N : p = <<e, i>> /\ i <= Len(f[e]) /\ f[e][i] = x
    BY <1>7 DEF At
  <2>2. CASE e # d
    BY <1>2, <2>1, <2>2 DEF At
  <2>3. CASE e = d /\ i = 1
    BY <1>5, <2>1, <2>3
  <2>4. CASE e = d /\ i # 1
    <3>1. i \in 2..n /\ i - 1 \in 1..(n - 1) /\ i - 1 \in 1..N
      BY <1>1, <2>1, <2>4
    <3>2. g[d][i - 1] = x /\ i - 1 <= Len(g[d])
      BY <1>1, <1>3, <2>1, <2>4, <3>1
    <3>3. QED
      BY <2>1, <2>4, <3>1, <3>2 DEF At
  <2>5. QED
    BY <2>2, <2>3, <2>4
<1>8. At(f, D, N, y) = {<<d, 1>>}
  <2>1. <<d, 1>> \in At(f, D, N, y)
    BY <1>1, <1>5 DEF At
  <2>2. QED
    BY <2>1 DEF Single
<1>9. At(g, D, N, y) = {}
  <2>1. SUFFICES ASSUME NEW p \in At(g, D, N, y) PROVE FALSE
    OBVIOUS
  <2>2. CASE p[1] # d /\ p \in At(f, D, N, y)
    BY <1>8, <2>2
  <2>3. CASE p[2] \in 1..(n - 1) /\ <<d, p[2] + 1>> \in At(f, D, N, y)
    <3>1. <<d, p[2] + 1>> = <<d, 1>>
      BY <1>8, <2>3
    <3>2. QED
      BY <1>1, <2>3, <3>1
  <2>4. QED
    BY <1>6, <2>2, <2>3
<1>10. ASSUME NEW x, At(f, D, N, x) = {} PROVE At(g, D, N, x) = {}
  BY <1>6, <1>10
<1>11. ASSUME NEW x, x # y, NEW p, At(f, D, N, x) = {p} PROVE Single(At(g, D, N, x))
  <2>1. p \in At(f, D, N, x)
    BY <1>11
  <2>2. CASE p[1] # d /\ p \in At(g, D, N, x)
    <3>1. ASSUME NEW o \in At(g, D, N, x) PROVE o = p
      <4>1. o \in At(f, D, N, x) \/ <<d, o[2] + 1>> \in At(f, D, N, x)
        BY <1>6, <3>1
      <4>2. QED
        BY <1>11, <2>2, <4>1
    <3>2. At(g, D, N, x) = {p}
      BY <2>2, <3>1
    <3>3. QED
      BY <3>2 DEF Single
  <2>3. CASE p[1] = d /\ p[2] \in 2..n /\ <<d, p[2] - 1>> \in At(g, D, N, x)
    <3>1. ASSUME NEW o \in At(g, D, N, x) PROVE o = <<d, p[2] - 1>>
      <4>1. PICK e \in D, i \in 1..N : o = <<e, i>>
        BY <3>1 DEF At
      <4>2. o[1] = e /\ o[2] = i
        BY <4>1
      <4>3. \/ e # d /\ o \in At(f, D, N, x)
            \/ e = d /\ <<d, i + 1>> \in At(f, D, N, x)
        BY <1>6, <3>1, <4>2
      <4>4. o # p \/ e = d
        BY <2>3, <4>2
      <4>5. e = d /\ p = <<d, i + 1>>
        BY <1>11, <4>3, <4>4
      <4>6. p[2] = i + 1
        BY <4>5
      <4>7. QED
        BY <4>1, <4>5, <4>6
    <3>2. At(g, D, N, x) = {<<d, p[2] - 1>>}
      BY <2>3, <3>1
    <3>3. QED
      BY <3>2 DEF Single
  <2>4. QED
    BY <1>7, <1>11, <2>1, <2>2, <2>3
<1>12. QED
  BY <1>4, <1>9, <1>10, <1>11 DEF Single, Shortened

\* one more element is at the end;
LEMMA AtAppend ==
    ASSUME NEW D, NEW T, NEW N \in Nat, NEW f \in [D -> Seq(T)], NEW d \in D, NEW y \in T,
           Fits(f, D, N), Len(f[d]) # N, At(f, D, N, y) = {},
           NEW g, g = [f EXCEPT ![d] = Append(f[d], y)]
    PROVE  Lengthened(f, g, D, N, y)
<1> USE DEF Fits, Distinct, Fresh
<1>1. PICK n \in Nat : n = Len(f[d]) /\ n < N
  OBVIOUS
<1>2. /\ \A e \in D : f[e] \in Seq(T) /\ g[e] = IF e = d THEN Append(f[d], y) ELSE f[e]
      /\ \A e \in D : Len(f[e]) \in Nat
  OBVIOUS
<1>3. Len(g[d]) = n + 1 /\ g[d][n + 1] = y /\ \A i \in 1..n : g[d][i] = f[d][i]
  BY <1>1, <1>2
<1>4. \A e \in D : Len(g[e]) <= N
  BY <1>1, <1>2, <1>3
<1>5. ASSUME NEW x, NEW e \in D, NEW i \in 1..N
      PROVE  i <= Len(g[e]) /\ g[e][i] = x
             <=> (i <= Len(f[e]) /\ f[e][i] = x) \/ (e = d /\ i = n + 1 /\ x = y)
  <2>1. CASE e # d
    BY <1>2, <2>1
  <2>2. CASE e = d
    BY <1>1, <1>3, <2>2
  <2>3. QED
    BY <2>1, <2>2
<1>6. ASSUME NEW x, x # y PROVE At(g, D, N, x) = At(f, D, N, x)
  BY <1>5, <1>6 DEF At
<1>7. At(g, D, N, y) = {<<d, n + 1>>}
  <2>1. n + 1 \in 1..N
    BY <1>1
  <2>2. <<d, n + 1>> \in At(g, D, N, y)
    BY <1>5, <2>1 DEF At
  <2>3. ASSUME NEW p \in At(g, D, N, y) PROVE p = <<d, n + 1>>
    <3>1. PICK e \in D, i \in 1..N : p = <<e, i>> /\ i <= Len(g[e]) /\ g[e][i] = y
      BY <2>3 DEF At
    <3>2. ASSUME i <= Len(f[e]), f[e][i] = y PROVE FALSE
      <4>1. <<e, i>> \in At(f, D, N, y)
        BY <3>2 DEF At
      <4>2. QED
        BY <4>1
    <3>3. \/ i <= Len(f[e]) /\ f[e][i] = y
          \/ e = d /\ i = n + 1
      BY <1>5, <3>1, Zenon
    <3>4. QED
      BY <3>1, <3>2, <3>3
  <2>4. QED
    BY <2>2, <2>3
<1>8. QED
  BY <1>4, <1>6, <1>7 DEF Single, Lengthened

\* and an empty sequence may be filled with new elements.
LEMMA AtFill ==
    ASSUME NEW D, NEW T, NEW N \in Nat, NEW f \in [D -> Seq(T)], NEW d \in D, f[d] = <<>>,
           NEW h \in Seq(T), Len(h) <= N, Fits(f, D, N), Distinct(h), Fresh(f, D, N, h),
           NEW g, g = [f EXCEPT ![d] = h]
    PROVE  Filled(f, g, D, N, h)
<1> USE DEF Fits, Distinct, Fresh
<1>1. PICK n \in Nat : n = Len(h) /\ n <= N
  OBVIOUS
<1>2. \A e \in D : g[e] = IF e = d THEN h ELSE f[e]
  OBVIOUS
<1>3. \A e \in D : Len(g[e]) <= N
  BY <1>1, <1>2
<1>4. Len(f[d]) = 0
  OBVIOUS
<1>5. ASSUME NEW x, NEW e \in D, NEW i \in 1..N
      PROVE  i <= Len(g[e]) /\ g[e][i] = x
             <=> (i <= Len(f[e]) /\ f[e][i] = x) \/ (e = d /\ i \in 1..n /\ h[i] = x)
  <2>1. CASE e # d
    BY <1>2, <2>1
  <2>2. CASE e = d
    BY <1>1, <1>2, <1>4, <2>2
  <2>3. QED
    BY <2>1, <2>2
<1>6. ASSUME NEW x, \A i \in 1..n : h[i] # x PROVE At(g, D, N, x) = At(f, D, N, x)
  <2>1. \A e \in D, i \in 1..N :
           i <= Len(g[e]) /\ g[e][i] = x <=> i <= Len(f[e]) /\ f[e][i] = x
    BY <1>5, <1>6
  <2>2. QED
    BY <2>1 DEF At
<1>7. ASSUME NEW i \in 1..n PROVE At(g, D, N, h[i]) = {<<d, i>>}
  <2>1. i \in 1..N
    BY <1>1
  <2>2. <<d, i>> \in At(g, D, N, h[i])
    BY <1>5, <2>1 DEF At
  <2>3. ASSUME NEW p \in At(g, D, N, h[i]) PROVE p = <<d, i>>
    <3>1. PICK e \in D, j \in 1..N : p = <<e, j>> /\ j <= Len(g[e]) /\ g[e][j] = h[i]
      BY <2>3 DEF At
    <3>2. ASSUME j <= Len(f[e]), f[e][j] = h[i] PROVE FALSE
      <4>1. <<e, j>> \in At(f, D, N, h[i])
        BY <3>2 DEF At
      <4>2. QED
        BY <1>1, <4>1
    <3>3. e = d /\ j \in 1..n /\ h[j] = h[i]
      BY <1>5, <3>1, <3>2
    <3>4. QED
      BY <1>1, <3>1, <3>3
  <2>4. QED
    BY <2>2, <2>3
<1>8. QED
  BY <1>1, <1>3, <1>6, <1>7 DEF Single, Filled

\* A thread of the game is about to queue the callback of the end of q.
Announcing(q) == \E c \in Clients : pc[c] = "announce" /\ dest[c] = q

LEMMA DueOf ==
    /\ \A x \in Tasks : \/ \E r \in Regs, i \in 0..MaxInvites : x = Event(r, i)
                        \/ \E q \in Queues : x = Ended(q)
    /\ \A r \in Regs, i \in 0..MaxInvites :
          Event(r, i) \in Due <=> IF i = 0 THEN kind[r] = "connectivity" ELSE r \in heard[i]
    /\ \A q \in Queues : Ended(q) \in Due <=> q \in terminated /\ ~Announcing(q)
    /\ \A r \in Regs, i \in 0..MaxInvites :
          Event(r, i) \in Due' <=> IF i = 0 THEN kind'[r] = "connectivity" ELSE r \in heard'[i]
    /\ \A q \in Queues : Ended(q) \in Due' <=> q \in terminated' /\ ~Announcing(q)'
<1>1. ASSUME NEW x \in Tasks
      PROVE  \/ \E r \in Regs, i \in 0..MaxInvites : x = Event(r, i)
             \/ \E q \in Queues : x = Ended(q)
  BY <1>1 DEF Tasks, EventTasks, Event
<1>2. ASSUME NEW r \in Regs, NEW i \in 0..MaxInvites
      PROVE  /\ Event(r, i) \in EventTasks /\ Event(r, i)[1] = r /\ Event(r, i)[2] = i
             /\ \A z : Event(r, i) # Ended(z)
  <2>1. Event(r, i) \in EventTasks /\ Event(r, i)[1] = r /\ Event(r, i)[2] = i
    BY DEF Event, EventTasks
  <2>2. ASSUME NEW z PROVE Event(r, i) # Ended(z)
    <3>1. Len(Event(r, i)) = 2 /\ Len(Ended(z)) = 1
      BY DEF Event, Ended
    <3>2. QED
      BY <3>1
  <2>3. QED
    BY <2>1, <2>2
<1>3. ASSUME NEW r \in Regs, NEW i \in 0..MaxInvites
      PROVE  /\ Event(r, i) \in Due <=> IF i = 0 THEN kind[r] = "connectivity" ELSE r \in heard[i]
             /\ Event(r, i) \in Due'
                <=> IF i = 0 THEN kind'[r] = "connectivity" ELSE r \in heard'[i]
  BY <1>2 DEF Due
<1>4. ASSUME NEW q \in Queues
      PROVE  /\ Ended(q) \notin EventTasks
             /\ \A z : Ended(q) = Ended(z) => q = z
  BY TaskKinds DEF Ended
<1>5. ASSUME NEW q \in Queues
      PROVE  Ended(q) \in Due <=> q \in terminated /\ ~Announcing(q)
  BY <1>4 DEF Due, Announcing
<1>6. ASSUME NEW q \in Queues
      PROVE  Ended(q) \in Due' <=> q \in terminated' /\ ~Announcing(q)'
  BY <1>4 DEF Due, Announcing
<1>7. QED
  BY <1>1, <1>3, <1>5, <1>6

\* Who begins and who ends an announcement.
LEMMA AnnounceSteps ==
    ASSUME ThreadsInv, [Next]_vars
    PROVE  \/ \E t \in Threads, q \in Queues, wait \in BOOLEAN : Terminate(t, q, wait)
           \/ \E t \in Threads : AnnounceEnd(t)
           \/ terminated' = terminated /\ \A q \in Queues : Announcing(q)' <=> Announcing(q)
<1> USE DEF ThreadsInv
<1>1. CASE UNCHANGED vars
  BY <1>1 DEF vars, localVars, queueVars, portVars, Announcing
<1>2. ASSUME NEW t \in Threads,
             \/ Copy(t) \/ Resolve(t) \/ AllPosted(t) \/ Submit(t) \/ WorkerExits(t)
             \/ Return(t) \/ CloseCompletion(t) \/ WaitEnds(t)
             \/ ListQueues(t) \/ StopQueue(t) \/ Drained(t) \/ Stopped(t)
             \/ \E q, b : Taking(t, q, b)
             \/ Arrive(t) \/ InitializeApiImplEx(t) \/ UninitializeApiImpl(t)
             \/ \E k \in Kinds : Register(t, k)
             \/ \E r \in Regs : Unregister(t, r)
             \/ \E q \in ProcessQueues : SetProcess(t, q)
      PROVE  terminated' = terminated /\ \A q \in Queues : Announcing(q)' <=> Announcing(q)
  <2>1. Ends(t) /\ Moves(t)
    BY <1>2, EndSteps, PostMoves, TakeMoves, EndMoves, StopMoves, CallMoves
  <2>2. pc[t] # "announce"
    BY <1>2 DEF Copy, Resolve, AllPosted, Submit, WorkerExits, Return, CloseCompletion, WaitEnds,
                ListQueues, StopQueue, Drained, Stopped, Taking, Arrive, InitializeApiImplEx,
                UninitializeApiImpl, Register, Unregister, SetProcess, Free
  <2>3. terminated' = terminated
    BY <1>2 DEF Copy, Resolve, AllPosted, Submit, WorkerExits, Return, CloseCompletion, WaitEnds,
                ListQueues, StopQueue, Drained, Stopped, Taking, takeKept, Arrive,
                InitializeApiImplEx, UninitializeApiImpl, Register, Unregister, SetProcess,
                queueVars, portVars
  <2>4. \A u \in Threads : /\ pc'[u] = "announce" <=> pc[u] = "announce"
                           /\ pc[u] = "announce" => dest'[u] = dest[u]
    BY <2>1, <2>2 DEF Ends, Moves
  <2>5. QED
    BY <2>3, <2>4 DEF Announcing, Threads
<1>3. QED
  BY <1>1, <1>2, Steps

\* What has to be called changes with a registration for connectivity, with the copy of
\* the table and with the announcement of an end, and with no other step.
LEMMA DueSteps ==
    ASSUME ThreadsInv, EndInv, [Next]_vars
    PROVE  \/ \E t \in Threads : Register(t, "connectivity") \/ Copy(t) \/ AnnounceEnd(t)
           \/ \A x \in Tasks : x \in Due' <=> x \in Due
<1> SUFFICES ASSUME ~ \E t \in Threads :
                         Register(t, "connectivity") \/ Copy(t) \/ AnnounceEnd(t)
             PROVE  \A x \in Tasks : x \in Due' <=> x \in Due
  OBVIOUS
<1> USE DEF ThreadsInv
<1>1. heard' = heard
  <2>1. ASSUME NEW t \in Threads, Arrive(t) PROVE heard' = heard
    BY <2>1 DEF Arrive, regVars
  <2>2. QED
    BY <2>1, CopySteps
<1>2. \A r \in Regs : kind'[r] = "connectivity" <=> kind[r] = "connectivity"
  <2>1. ASSUME NEW t \in Threads, NEW k \in Kinds, Register(t, k)
        PROVE  \A r \in Regs : kind'[r] = "connectivity" <=> kind[r] = "connectivity"
    <3>1. k = "invite"
      BY <2>1 DEF Kinds
    <3>2. PICK n \in Regs : n = regs + 1 /\ n = regs'
      BY <2>1, EventConstants DEF Register, RegTypes, Regs
    <3>3. kind' = [kind EXCEPT ![n] = k]
      BY <2>1, <3>2 DEF Register
    <3>4. ~(n <= regs)
      BY <3>2, EventConstants DEF RegTypes
    <3>5. kind[n] # "connectivity"
      BY <3>4, EventConstants DEF RegInv, Kinds
    <3>6. QED
      BY <3>1, <3>3, <3>5 DEF RegTypes
  <2>2. ASSUME NEW t \in Threads, NEW r \in Regs, Unregister(t, r) PROVE kind' = kind
    BY <2>2 DEF Unregister
  <2>3. QED
    BY <2>1, <2>2, TableSteps
<1>3. ASSUME NEW q \in Queues PROVE Ended(q) \in Due' <=> Ended(q) \in Due
  <2>1. ASSUME NEW t \in Threads, NEW z \in Queues, NEW wait \in BOOLEAN, Terminate(t, z, wait)
        PROVE  q \in terminated' /\ ~Announcing(q)' <=> q \in terminated /\ ~Announcing(q)
    <3>1. /\ t \in Clients /\ pc[t] = "idle" /\ z \notin terminated
          /\ terminated' = terminated \cup {z}
          /\ pc' = [pc EXCEPT ![t] = "announce"] /\ dest' = [dest EXCEPT ![t] = z]
      BY <2>1 DEF Terminate, Free, Goto
    <3>2. /\ pc'[t] = "announce" /\ dest'[t] = z
          /\ \A u \in Threads \ {t} : pc'[u] = pc[u] /\ dest'[u] = dest[u]
      BY <3>1 DEF LocalTypes
    <3>3. Announcing(z)' /\ (q # z => (Announcing(q)' <=> Announcing(q)))
      BY <3>1, <3>2 DEF Announcing, Threads
    <3>4. QED
      BY <3>1, <3>3
  <2>2. QED
    BY <2>1, AnnounceSteps, DueOf
<1>4. ASSUME NEW r \in Regs, NEW i \in 0..MaxInvites
      PROVE  Event(r, i) \in Due' <=> Event(r, i) \in Due
  BY <1>1, <1>2, DueOf
<1>5. QED
  BY <1>3, <1>4, DueOf

LEMMA Places ==
    /\ \A x : Unposted(x) = At(batch, Threads, MaxHandlers, x)
    /\ \A x : Unposted(x)' = At(batch', Threads, MaxHandlers, x)
    /\ \A x : Queued(x) = At(items, Queues, Capacity, x)
    /\ \A x : Queued(x)' = At(items', Queues, Capacity, x)
BY DEF Unposted, Queued, At

\* A task that no step touches stays where it is.
LEMMA PlaceStays ==
    ASSUME NEW x \in Tasks, Placed(x), x \in Due' <=> x \in Due,
           Unposted(x) = {} => Unposted(x)' = {}, Single(Unposted(x)) => Single(Unposted(x)'),
           Queued(x) = {} => Queued(x)' = {}, Single(Queued(x)) => Single(Queued(x)'),
           called'[x] = called[x], dropped'[x] = dropped[x]
    PROVE  Placed(x)'
<1>1. CASE x \in Due
  <2>1. ToPost(x) \/ InPort(x) \/ WasCalled(x) \/ WasDropped(x)
    BY <1>1 DEF Placed
  <2>2. (ToPost(x) \/ InPort(x) \/ WasCalled(x) \/ WasDropped(x))'
    BY <2>1 DEF ToPost, InPort, WasCalled, WasDropped, Single
  <2>3. QED
    BY <1>1, <2>2 DEF Placed
<1>2. CASE x \notin Due
  BY <1>2 DEF Placed, Nowhere
<1>3. QED
  BY <1>1, <1>2

\* The tasks of the batches and of the ports, at their places.
LEMMA HeadPlaces ==
    ASSUME ThreadsInv, PlaceInv
    PROVE  /\ \A t \in Threads : batch[t] # <<>> =>
                 Head(batch[t]) \in EventTasks /\ Head(batch[t]) \in Due /\ ToPost(Head(batch[t]))
           /\ \A q \in Queues : items[q] # <<>> =>
                 Head(items[q]) \in Tasks /\ Head(items[q]) \in Due /\ InPort(Head(items[q]))
<1>0. Capacity \in Nat /\ MaxHandlers \in Nat
  BY EventConstants
<1>1. ASSUME NEW t \in Threads, batch[t] # <<>>
      PROVE  Head(batch[t]) \in EventTasks /\ Head(batch[t]) \in Due /\ ToPost(Head(batch[t]))
  <2>1. batch[t] \in Seq(EventTasks)
    BY DEF ThreadsInv, LocalTypes
  <2>2. PICK x \in EventTasks : x = Head(batch[t]) /\ x = batch[t][1] /\ 1 <= Len(batch[t])
    BY <1>1, <2>1
  <2>3. Len(batch[t]) \in Nat /\ Len(batch[t]) <= MaxHandlers
    BY <2>1 DEF PlaceInv, PlaceTypes
  <2>4. <<t, 1>> \in Unposted(x)
    BY <1>0, <2>2, <2>3 DEF Unposted
  <2>5. Placed(x)
    BY TaskKinds DEF PlaceInv
  <2>6. QED
    BY <2>2, <2>4, <2>5 DEF Placed, Nowhere, ToPost, InPort, WasCalled, WasDropped
<1>2. ASSUME NEW q \in Queues, items[q] # <<>>
      PROVE  Head(items[q]) \in Tasks /\ Head(items[q]) \in Due /\ InPort(Head(items[q]))
  <2>1. items[q] \in Seq(Tasks)
    BY DEF ThreadsInv, QueueTypes
  <2>2. PICK x \in Tasks : x = Head(items[q]) /\ x = items[q][1] /\ 1 <= Len(items[q])
    BY <1>2, <2>1
  <2>3. Len(items[q]) \in Nat /\ Len(items[q]) <= Capacity
    BY <2>1 DEF PlaceInv, PlaceTypes
  <2>4. <<q, 1>> \in Queued(x)
    BY <1>0, <2>2, <2>3 DEF Queued
  <2>5. Placed(x)
    BY DEF PlaceInv
  <2>6. QED
    BY <2>2, <2>4, <2>5 DEF Placed, Nowhere, ToPost, InPort, WasCalled, WasDropped
<1>3. QED
  BY <1>1, <1>2

\* New events are posted: by a registration for connectivity, or by the copy of the table.
LEMMA FillPlaces ==
    ASSUME ThreadsInv, PlaceInv, NEW t \in Threads, batch[t] = <<>>,
           NEW h \in Seq(EventTasks), Len(h) <= MaxHandlers,
           \A i, j \in 1..Len(h) : h[i] = h[j] => i = j,
           \A i \in 1..Len(h) : h[i] \notin Due /\ h[i] \in Due',
           \A x \in Tasks : (\A i \in 1..Len(h) : h[i] # x) => (x \in Due' <=> x \in Due),
           batch' = [batch EXCEPT ![t] = h], UNCHANGED <<items, called, dropped>>
    PROVE  PlaceInv'
<1>0. MaxHandlers \in Nat /\ EventTasks \subseteq Tasks
  BY EventConstants, TaskKinds
<1>1. batch \in [Threads -> Seq(EventTasks)] /\ \A e \in Threads : Len(batch[e]) <= MaxHandlers
  BY DEF ThreadsInv, LocalTypes, PlaceInv, PlaceTypes
<1>2. ASSUME NEW i \in 1..Len(h) PROVE h[i] \in EventTasks /\ Nowhere(h[i])
  <2>1. h[i] \in EventTasks
    OBVIOUS
  <2>2. Placed(h[i])
    BY <1>0, <2>1 DEF PlaceInv
  <2>3. QED
    BY <2>1, <2>2 DEF Placed
<1>3. \A i \in 1..Len(h) : At(batch, Threads, MaxHandlers, h[i]) = {}
  BY <1>2, Places DEF Nowhere
<1>4. /\ \A e \in Threads : Len(batch'[e]) <= MaxHandlers
      /\ \A i \in 1..Len(h) : Single(At(batch', Threads, MaxHandlers, h[i]))
      /\ \A x : (\A i \in 1..Len(h) : h[i] # x) =>
              At(batch', Threads, MaxHandlers, x) = At(batch, Threads, MaxHandlers, x)
  <2>1. PICK f \in [Threads -> Seq(EventTasks)] : f = batch
    BY <1>1
  <2>2. PICK g : g = batch'
    OBVIOUS
  <2>3. /\ g = [f EXCEPT ![t] = h] /\ f[t] = <<>> /\ Distinct(h)
        /\ Fits(f, Threads, MaxHandlers) /\ Fresh(f, Threads, MaxHandlers, h)
    BY <1>1, <1>3, <2>1, <2>2 DEF Fits, Fresh, Distinct
  <2>4. Filled(f, g, Threads, MaxHandlers, h)
    BY <1>0, <2>3, AtFill
  <2>5. QED
    BY <2>1, <2>2, <2>4 DEF Fits, Filled
<1>5. \A x : Queued(x)' = Queued(x)
  BY Places
<1>6. ASSUME NEW x \in Tasks, \A i \in 1..Len(h) : h[i] # x PROVE Placed(x)'
  <2>1. Unposted(x)' = Unposted(x)
    BY <1>4, <1>6, Places
  <2>2. QED
    BY <1>5, <1>6, <2>1, PlaceStays DEF PlaceInv
<1>7. ASSUME NEW i \in 1..Len(h) PROVE Placed(h[i])'
  <2>1. Single(Unposted(h[i])')
    BY <1>4, Places
  <2>2. Nowhere(h[i])
    BY <1>2
  <2>3. PICK y : y = h[i]
    OBVIOUS
  <2>4. ToPost(y)'
    BY <1>5, <2>1, <2>2, <2>3 DEF ToPost, Nowhere
  <2>5. QED
    BY <2>3, <2>4 DEF Placed
<1>8. PlaceTypes' /\ OwnPort'
  BY <1>4 DEF PlaceInv, PlaceTypes, OwnPort
<1>9. QED
  BY <1>6, <1>7, <1>8 DEF PlaceInv

\* The head of a batch or of a port goes, and a task comes to the end of a port.
LEMMA BatchTail ==
    ASSUME ThreadsInv, PlaceInv, NEW t \in Threads, batch[t] # <<>>,
           batch' = [batch EXCEPT ![t] = Tail(batch[t])]
    PROVE  Shortened(batch, batch', Threads, MaxHandlers, Head(batch[t]))
<1>1. PICK f \in [Threads -> Seq(EventTasks)] : f = batch
  BY DEF ThreadsInv, LocalTypes
<1>2. PICK g, y : g = batch' /\ y = Head(batch[t])
  OBVIOUS
<1>3. /\ g = [f EXCEPT ![t] = Tail(f[t])] /\ f[t] # <<>> /\ y = Head(f[t])
      /\ Fits(f, Threads, MaxHandlers) /\ Single(At(f, Threads, MaxHandlers, y))
  BY <1>1, <1>2, HeadPlaces, Places DEF Fits, ToPost, PlaceInv, PlaceTypes
<1>4. Shortened(f, g, Threads, MaxHandlers, y)
  BY <1>3, EventConstants, AtTail
<1>5. QED
  BY <1>1, <1>2, <1>4

LEMMA PortTail ==
    ASSUME ThreadsInv, PlaceInv, NEW q \in Queues, items[q] # <<>>,
           items' = [items EXCEPT ![q] = Tail(items[q])]
    PROVE  Shortened(items, items', Queues, Capacity, Head(items[q])) /\ OwnPort'
<1>1. PICK f \in [Queues -> Seq(Tasks)] : f = items
  BY DEF ThreadsInv, QueueTypes
<1>2. PICK g, y : g = items' /\ y = Head(items[q])
  OBVIOUS
<1>3. /\ g = [f EXCEPT ![q] = Tail(f[q])] /\ f[q] # <<>> /\ y = Head(f[q])
      /\ Fits(f, Queues, Capacity) /\ Single(At(f, Queues, Capacity, y))
  BY <1>1, <1>2, HeadPlaces, Places DEF Fits, InPort, PlaceInv, PlaceTypes
<1>4. Shortened(f, g, Queues, Capacity, y)
  BY <1>3, EventConstants, AtTail
<1>5. ASSUME NEW o \in Queues, NEW z \in Queues, NEW i \in 1..Len(items'[z]),
             items'[z][i] = Ended(o)
      PROVE  z = o
  <2>1. CASE z # q
    BY <1>5, <2>1 DEF PlaceInv, OwnPort, ThreadsInv, QueueTypes
  <2>2. CASE z = q
    <3>1. PICK u \in Seq(Tasks) : u = items[q] /\ u # <<>>
      BY DEF ThreadsInv, QueueTypes
    <3>2. PICK n \in Nat : n = Len(u) /\ n >= 1
      BY <3>1, EmptySeq
    <3>x. Len(Tail(u)) = n - 1 /\ \A j \in 1..(n - 1) : Tail(u)[j] = u[j + 1]
      BY <3>1, <3>2
    <3>y. items'[q] = Tail(u)
      BY <3>1 DEF ThreadsInv, QueueTypes
    <3>3. Len(items'[q]) = n - 1 /\ \A j \in 1..(n - 1) : items'[q][j] = u[j + 1]
      BY <3>x, <3>y
    <3>4. i \in 1..(n - 1)
      BY <1>5, <2>2, <3>3
    <3>5. i + 1 \in 1..Len(items[q]) /\ items[q][i + 1] = Ended(o)
      BY <1>5, <2>2, <3>1, <3>2, <3>3, <3>4
    <3>6. QED
      BY <2>2, <3>5 DEF PlaceInv, OwnPort
  <2>3. QED
    BY <2>1, <2>2
<1>6. QED
  BY <1>1, <1>2, <1>4, <1>5 DEF OwnPort

LEMMA PortAppend ==
    ASSUME ThreadsInv, PlaceInv, NEW q \in Queues, Accepts(q), NEW y \in Tasks, Queued(y) = {},
           \A o \in Queues : y = Ended(o) => o = q,
           items' = [items EXCEPT ![q] = Append(items[q], y)]
    PROVE  Lengthened(items, items', Queues, Capacity, y) /\ OwnPort'
<1>1. PICK f \in [Queues -> Seq(Tasks)] : f = items
  BY DEF ThreadsInv, QueueTypes
<1>2. PICK g : g = items'
  OBVIOUS
<1>3. /\ g = [f EXCEPT ![q] = Append(f[q], y)] /\ Len(f[q]) # Capacity
      /\ Fits(f, Queues, Capacity) /\ At(f, Queues, Capacity, y) = {}
  BY <1>1, <1>2, Places DEF Fits, PlaceInv, PlaceTypes, Accepts
<1>4. Lengthened(f, g, Queues, Capacity, y)
  BY <1>3, EventConstants, AtAppend
<1>5. ASSUME NEW o \in Queues, NEW z \in Queues, NEW i \in 1..Len(items'[z]),
             items'[z][i] = Ended(o)
      PROVE  z = o
  <2>1. CASE z # q
    BY <1>5, <2>1 DEF PlaceInv, OwnPort, ThreadsInv, QueueTypes
  <2>2. CASE z = q
    <3>1. items[q] \in Seq(Tasks) /\ items'[q] = Append(items[q], y)
      BY DEF ThreadsInv, QueueTypes
    <3>2. (i \in 1..Len(items[q]) /\ items[q][i] = Ended(o)) \/ y = Ended(o)
      BY <1>5, <2>2, <3>1
    <3>3. QED
      BY <2>2, <3>2 DEF PlaceInv, OwnPort
  <2>3. QED
    BY <2>1, <2>2
<1>6. QED
  BY <1>1, <1>2, <1>4, <1>5 DEF OwnPort

\* How often a task was called or dropped.
LEMMA Counted ==
    ASSUME NEW f \in [Tasks -> Nat], NEW y \in Tasks
    PROVE  /\ Count(f, y) \in [Tasks -> Nat] /\ Count(f, y)[y] = f[y] + 1
           /\ \A x \in Tasks : x # y => Count(f, y)[x] = f[x]
BY DEF Count

\* post,
LEMMA SubmitPlaces ==
    ASSUME ThreadsInv, EndInv, PlaceInv, NEW t \in Threads, Submit(t), [Next]_vars,
           \A x \in Tasks : x \in Due' <=> x \in Due
    PROVE  PlaceInv'
<1>1. PICK q \in Queues : q = dest[t] /\ batch[t] # <<>>
  BY DEF Submit, ThreadsInv, ThreadInv, ThreadOK, Base
<1>2. PICK y \in EventTasks : y = Head(batch[t]) /\ y \in Due /\ ToPost(y) /\ y \in Tasks
  BY <1>1, HeadPlaces, TaskKinds
<1>3. batch' = [batch EXCEPT ![t] = Tail(batch[t])]
  BY DEF Submit
<1>4. Shortened(batch, batch', Threads, MaxHandlers, y)
  BY <1>1, <1>2, <1>3, BatchTail
<1>5. /\ \A e \in Threads : Len(batch'[e]) <= MaxHandlers
      /\ Unposted(y)' = {}
      /\ \A x \in Tasks : x # y => /\ Unposted(x) = {} => Unposted(x)' = {}
                                   /\ Single(Unposted(x)) => Single(Unposted(x)')
  BY <1>4, Places DEF Shortened, Fits
<1>6. called \in [Tasks -> Nat] /\ dropped \in [Tasks -> Nat]
  BY DEF PlaceInv, PlaceTypes
<1>count. /\ Count(called, y) \in [Tasks -> Nat] /\ Count(called, y)[y] = called[y] + 1
      /\ Count(dropped, y) \in [Tasks -> Nat] /\ Count(dropped, y)[y] = dropped[y] + 1
      /\ \A x \in Tasks : x # y => /\ Count(called, y)[x] = called[x]
                                   /\ Count(dropped, y)[x] = dropped[x]
  BY <1>2, <1>6, Counted
<1>7. \/ called' = Count(called, y) /\ dropped' = dropped /\ items' = items
      \/ /\ called' = called /\ dropped' = dropped /\ Accepts(q)
         /\ items' = [items EXCEPT ![q] = Append(items[q], y)]
      \/ called' = called /\ dropped' = Count(dropped, y) /\ items' = items
  BY <1>1, <1>2 DEF Submit, CallBack, countVars
<1>8. /\ called' \in [Tasks -> Nat] /\ dropped' \in [Tasks -> Nat]
      /\ \A x \in Tasks : x # y => called'[x] = called[x] /\ dropped'[x] = dropped[x]
  BY <1>2, <1>6, <1>7, <1>count
<1>9. /\ Queued(y) = {} /\ called[y] = 0 /\ dropped[y] = 0
  BY <1>2 DEF ToPost
<1>10. \A o \in Queues : y # Ended(o)
  BY TaskKinds
<1>11. CASE /\ items' = items
            /\ \/ called' = Count(called, y) /\ dropped' = dropped
               \/ called' = called /\ dropped' = Count(dropped, y)
  <2>1. \A x : Queued(x)' = Queued(x)
    BY <1>11, Places
  <2>2. ASSUME NEW x \in Tasks, x # y PROVE Placed(x)'
    <3>1. Placed(x) /\ (x \in Due' <=> x \in Due)
      BY DEF PlaceInv
    <3>2. called'[x] = called[x] /\ dropped'[x] = dropped[x]
      BY <1>8, <2>2
    <3>3. /\ Unposted(x) = {} => Unposted(x)' = {}
          /\ Single(Unposted(x)) => Single(Unposted(x)')
      BY <1>5, <2>2
    <3>4. QED
      BY <2>1, <3>1, <3>2, <3>3, PlaceStays
  <2>3. \/ called'[y] = 1 /\ dropped'[y] = 0
        \/ called'[y] = 0 /\ dropped'[y] = 1
    BY <1>9, <1>11, <1>count
  <2>4. (WasCalled(y) \/ WasDropped(y))'
    BY <1>5, <1>9, <2>1, <2>3 DEF WasCalled, WasDropped
  <2>5. Placed(y)'
    BY <1>2, <2>4 DEF Placed
  <2>6. PlaceTypes' /\ OwnPort'
    BY <1>5, <1>8, <1>11 DEF PlaceInv, PlaceTypes, OwnPort
  <2>7. QED
    BY <2>2, <2>5, <2>6 DEF PlaceInv
<1>12. CASE /\ called' = called /\ dropped' = dropped /\ Accepts(q)
            /\ items' = [items EXCEPT ![q] = Append(items[q], y)]
  <2>1. Lengthened(items, items', Queues, Capacity, y) /\ OwnPort'
    BY <1>2, <1>9, <1>10, <1>12, PortAppend
  <2>2. /\ \A o \in Queues : Len(items'[o]) <= Capacity
        /\ Single(Queued(y)')
        /\ \A x : x # y => Queued(x)' = Queued(x)
    BY <2>1, Places DEF Lengthened, Fits
  <2>3. ASSUME NEW x \in Tasks, x # y PROVE Placed(x)'
    <3>1. Placed(x) /\ (x \in Due' <=> x \in Due)
      BY DEF PlaceInv
    <3>2. called'[x] = called[x] /\ dropped'[x] = dropped[x] /\ Queued(x)' = Queued(x)
      BY <1>8, <2>2, <2>3
    <3>3. /\ Unposted(x) = {} => Unposted(x)' = {}
          /\ Single(Unposted(x)) => Single(Unposted(x)')
      BY <1>5, <2>3
    <3>4. QED
      BY <3>1, <3>2, <3>3, PlaceStays
  <2>4. InPort(y)'
    BY <1>5, <1>9, <1>12, <2>2 DEF InPort
  <2>5. Placed(y)'
    BY <1>2, <2>4 DEF Placed
  <2>6. PlaceTypes'
    BY <1>5, <1>8, <2>2 DEF PlaceTypes
  <2>7. QED
    BY <2>1, <2>3, <2>5, <2>6 DEF PlaceInv
<1>13. QED
  BY <1>7, <1>11, <1>12

\* the dispatches,
LEMMA TakePlaces ==
    ASSUME ThreadsInv, EndInv, PlaceInv, NEW t \in Threads, NEW q, NEW b, Taking(t, q, b),
           \A x \in Tasks : x \in Due' <=> x \in Due
    PROVE  PlaceInv'
<1>1. q \in Queues
  BY TakeFacts DEF ThreadsInv
<1>2. PICK y \in Tasks :
         /\ items[q] # <<>> /\ y = items[q][1]
         /\ items' = [items EXCEPT ![q] = Tail(items[q])]
         /\ \/ y \in EventTasks /\ dropped' = Count(dropped, y) /\ called' = called
            \/ called' = Count(called, y) /\ dropped' = dropped
  BY TakeFacts DEF ThreadsInv
<1>3. y = Head(items[q]) /\ y \in Due /\ InPort(y)
  <2>1. items[q] \in Seq(Tasks)
    BY <1>1 DEF ThreadsInv, QueueTypes
  <2>2. y = Head(items[q])
    BY <1>2, <2>1
  <2>3. QED
    BY <1>1, <1>2, <2>2, HeadPlaces
<1>4. Shortened(items, items', Queues, Capacity, y) /\ OwnPort'
  BY <1>1, <1>2, <1>3, PortTail
<1>5. /\ \A o \in Queues : Len(items'[o]) <= Capacity
      /\ Queued(y)' = {}
      /\ \A x \in Tasks : x # y => /\ Queued(x) = {} => Queued(x)' = {}
                                   /\ Single(Queued(x)) => Single(Queued(x)')
  BY <1>4, Places DEF Shortened, Fits
<1>6. batch' = batch /\ \A x : Unposted(x)' = Unposted(x)
  <2>1. batch' = batch
    BY DEF Taking, takeKept
  <2>2. QED
    BY <2>1, Places
<1>7. called \in [Tasks -> Nat] /\ dropped \in [Tasks -> Nat]
  BY DEF PlaceInv, PlaceTypes
<1>count. /\ Count(called, y) \in [Tasks -> Nat] /\ Count(called, y)[y] = called[y] + 1
      /\ Count(dropped, y) \in [Tasks -> Nat] /\ Count(dropped, y)[y] = dropped[y] + 1
      /\ \A x \in Tasks : x # y => /\ Count(called, y)[x] = called[x]
                                   /\ Count(dropped, y)[x] = dropped[x]
  BY <1>2, <1>7, Counted
<1>8. /\ called' \in [Tasks -> Nat] /\ dropped' \in [Tasks -> Nat]
      /\ \A x \in Tasks : x # y => called'[x] = called[x] /\ dropped'[x] = dropped[x]
  BY <1>2, <1>7, <1>count
<1>9. /\ Unposted(y) = {} /\ called[y] = 0 /\ dropped[y] = 0
  BY <1>3 DEF InPort
<1>10. \/ called'[y] = 1 /\ dropped'[y] = 0
       \/ called'[y] = 0 /\ dropped'[y] = 1 /\ y \in EventTasks
  BY <1>2, <1>7, <1>9, <1>count
<1>11. Placed(y)'
  <2>1. (WasCalled(y) \/ WasDropped(y))'
    BY <1>5, <1>6, <1>9, <1>10 DEF WasCalled, WasDropped
  <2>2. QED
    BY <1>3, <2>1 DEF Placed
<1>12. ASSUME NEW x \in Tasks, x # y PROVE Placed(x)'
  <2>1. Placed(x) /\ (x \in Due' <=> x \in Due)
    BY DEF PlaceInv
  <2>2. called'[x] = called[x] /\ dropped'[x] = dropped[x] /\ Unposted(x)' = Unposted(x)
    BY <1>6, <1>8, <1>12
  <2>3. /\ Queued(x) = {} => Queued(x)' = {}
        /\ Single(Queued(x)) => Single(Queued(x)')
    BY <1>5, <1>12
  <2>4. QED
    BY <2>1, <2>2, <2>3, PlaceStays
<1>13. PlaceTypes'
  BY <1>5, <1>6, <1>8 DEF PlaceInv, PlaceTypes
<1>14. QED
  BY <1>4, <1>11, <1>12, <1>13 DEF PlaceInv

\* and the callback of the end of a queue.
LEMMA AnnouncePlaces ==
    ASSUME ThreadsInv, EndInv, PlaceInv, NEW t \in Threads, AnnounceEnd(t), [Next]_vars
    PROVE  PlaceInv'
<1>1. PICK q \in Queues : q = dest[t] /\ pc[t] = "announce" /\ ~InCallback(t) /\ t \in Clients
  BY DEF AnnounceEnd, ThreadsInv, ThreadInv, ThreadOK, Base, Threads
<1>2. PICK y \in Tasks : y = Ended(q) /\ y \notin EventTasks
  BY TaskKinds
<1>3. /\ UNCHANGED <<dest, batch, dropped, terminated, kind, heard>>
      /\ \/ /\ Accepts(q) /\ items' = [items EXCEPT ![q] = Append(items[q], y)]
            /\ pc' = [pc EXCEPT ![t] = "close"] /\ called' = called
         \/ /\ pc' = [pc EXCEPT ![t] = "running"] /\ called' = Count(called, y)
            /\ items' = items
  BY <1>1, <1>2 DEF AnnounceEnd, CallBack, Goto, regVars, portVars
<1>4. /\ q \in terminated /\ Announcing(q) /\ ~Announcing(q)'
      /\ \A z \in Queues : z # q => (Announcing(z)' <=> Announcing(z))
  <2>1. Ending(t)
    BY <1>1 DEF Ending, Base
  <2>2. q \in terminated
    BY <1>1, <2>1 DEF EndInv
  <2>3. pc'[t] # "announce" /\ \A u \in Threads \ {t} : pc'[u] = pc[u]
    BY <1>3 DEF ThreadsInv, LocalTypes
  <2>4. ASSUME NEW u \in Threads, pc[u] = "announce", dest[u] = q PROVE u = t
    <3>1. Ending(u)
      BY <2>4 DEF Ending, Base, ThreadsInv, ThreadInv, ThreadOK
    <3>2. QED
      BY <1>1, <2>1, <2>4, <3>1 DEF EndInv
  <2>5. QED
    BY <1>1, <1>3, <2>2, <2>3, <2>4 DEF Announcing, Threads
<1>5. y \notin Due /\ y \in Due' /\ \A x \in Tasks : x # y => (x \in Due' <=> x \in Due)
  <2>1. \A z \in Queues : z # q => (Ended(z) \in Due' <=> Ended(z) \in Due)
    BY <1>3, <1>4, DueOf
  <2>2. \A r \in Regs, i \in 0..MaxInvites : Event(r, i) \in Due' <=> Event(r, i) \in Due
    BY <1>3, DueOf
  <2>3. y \notin Due /\ y \in Due'
    BY <1>2, <1>3, <1>4, DueOf
  <2>4. QED
    BY <1>2, <2>1, <2>2, <2>3, DueOf
<1>6. Unposted(y) = {} /\ Queued(y) = {} /\ called[y] = 0 /\ dropped[y] = 0
  BY <1>5 DEF PlaceInv, Placed, Nowhere
<1>7. called \in [Tasks -> Nat] /\ dropped \in [Tasks -> Nat]
  BY DEF PlaceInv, PlaceTypes
<1>8. /\ called' \in [Tasks -> Nat] /\ dropped' = dropped
      /\ \A x \in Tasks : x # y => called'[x] = called[x]
  BY <1>3, <1>7, Counted
<1>9. \A x : Unposted(x)' = Unposted(x)
  BY <1>3, Places
<1>10. CASE items' = items /\ called' = Count(called, y)
  <2>1. \A x : Queued(x)' = Queued(x)
    BY <1>10, Places
  <2>2. called'[y] = 1
    BY <1>6, <1>7, <1>10, Counted
  <2>3. WasCalled(y)'
    BY <1>6, <1>8, <1>9, <2>1, <2>2 DEF WasCalled
  <2>4. Placed(y)'
    BY <1>5, <2>3 DEF Placed
  <2>5. ASSUME NEW x \in Tasks, x # y PROVE Placed(x)'
    <3>1. Placed(x)
      BY DEF PlaceInv
    <3>2. QED
      BY <1>5, <1>8, <1>9, <2>1, <2>5, <3>1, PlaceStays
  <2>6. PlaceTypes' /\ OwnPort'
    BY <1>3, <1>7, <1>8, <1>10 DEF PlaceInv, PlaceTypes, OwnPort
  <2>7. QED
    BY <2>4, <2>5, <2>6 DEF PlaceInv
<1>11. CASE /\ Accepts(q) /\ items' = [items EXCEPT ![q] = Append(items[q], y)]
            /\ called' = called
  <2>1. Lengthened(items, items', Queues, Capacity, y) /\ OwnPort'
    <3>1. \A o \in Queues : y = Ended(o) => o = q
      BY <1>2, TaskKinds
    <3>2. QED
      BY <1>6, <1>11, <3>1, PortAppend
  <2>2. /\ \A o \in Queues : Len(items'[o]) <= Capacity
        /\ Single(Queued(y)')
        /\ \A x : x # y => Queued(x)' = Queued(x)
    BY <2>1, Places DEF Lengthened, Fits
  <2>3. ASSUME NEW x \in Tasks, x # y PROVE Placed(x)'
    <3>1. Placed(x)
      BY DEF PlaceInv
    <3>2. QED
      BY <1>5, <1>8, <1>9, <2>2, <2>3, <3>1, PlaceStays
  <2>4. InPort(y)'
    BY <1>6, <1>8, <1>9, <1>11, <2>2 DEF InPort
  <2>5. Placed(y)'
    BY <1>5, <2>4 DEF Placed
  <2>6. PlaceTypes'
    BY <1>3, <1>7, <1>8, <2>2 DEF PlaceInv, PlaceTypes
  <2>7. QED
    BY <2>1, <2>3, <2>5, <2>6 DEF PlaceInv
<1>12. QED
  BY <1>3, <1>10, <1>11

LEMMA InitPlace == Init => PlaceInv
<1> SUFFICES ASSUME Init PROVE PlaceInv
  OBVIOUS
<1>0. Capacity \in Nat /\ MaxHandlers \in Nat
  BY EventConstants
<1>1. /\ \A t \in Threads : batch[t] = <<>>
      /\ \A q \in Queues : items[q] = <<>>
      /\ Len(<<>>) = 0
  BY DEF Init
<1>2. PlaceTypes
  BY <1>0, <1>1 DEF PlaceTypes, Init
<1>3. \A x : Unposted(x) = {} /\ Queued(x) = {}
  BY <1>0, <1>1 DEF Unposted, Queued
<1>4. ASSUME NEW x \in Tasks PROVE x \notin Due
  <2>1. ASSUME NEW r \in Regs, NEW i \in 0..MaxInvites PROVE Event(r, i) \notin Due
    <3>1. kind[r] # "connectivity"
      BY EventConstants DEF Init, Kinds
    <3>2. i # 0 => heard[i] = {}
      BY EventConstants DEF Init
    <3>3. QED
      BY <3>1, <3>2, DueOf
  <2>2. ASSUME NEW q \in Queues PROVE Ended(q) \notin Due
    <3>1. terminated = {}
      BY DEF Init
    <3>2. QED
      BY <3>1, DueOf
  <2>3. QED
    BY <2>1, <2>2, DueOf
<1>5. \A x \in Tasks : Placed(x)
  BY <1>3, <1>4 DEF Placed, Nowhere, Init
<1>6. OwnPort
  BY <1>1 DEF OwnPort
<1>7. QED
  BY <1>2, <1>5, <1>6 DEF PlaceInv

LEMMA NextPlace == ThreadsInv /\ EndInv /\ PlaceInv /\ [Next]_vars => PlaceInv'
<1> SUFFICES ASSUME ThreadsInv, EndInv, PlaceInv, [Next]_vars PROVE PlaceInv'
  OBVIOUS
<1>0. MaxHandlers \in Nat /\ MaxInvites \in Nat /\ MaxRegs \in Nat
  BY EventConstants
<1>1. ASSUME NEW t \in Threads, Register(t, "connectivity") PROVE PlaceInv'
  <2>1. PICK r \in Regs : r = regs + 1 /\ r = regs'
    BY <1>0, <1>1 DEF Register, ThreadsInv, RegTypes, Regs
  <2>2. PICK y \in EventTasks : y = Event(r, 0)
    BY <1>0, TaskKinds
  <2>3. /\ t \in Clients /\ pc[t] = "idle" /\ pc' = [pc EXCEPT ![t] = "post"]
        /\ batch' = [batch EXCEPT ![t] = <<y>>] /\ kind' = [kind EXCEPT ![r] = "connectivity"]
        /\ UNCHANGED <<items, called, dropped, heard, dest, terminated>>
    BY <1>1, <2>1, <2>2 DEF Register, Free, Goto, queueVars, portVars, countVars
  <2>4. batch[t] = <<>> /\ MaxHandlers >= 1
    <3>1. batch[t] = <<>>
      BY <2>3 DEF ThreadsInv, ThreadInv, ThreadOK, Base
    <3>2. \E s : s \in Slots
      BY <1>1 DEF Register, add, FreeSlots
    <3>3. QED
      BY <1>0, <3>1, <3>2 DEF Slots
  <2>5. kind[r] # "connectivity"
    <3>1. ~(r <= regs)
      BY <2>1, <1>0 DEF ThreadsInv, RegTypes
    <3>2. QED
      BY <3>1, EventConstants DEF ThreadsInv, RegInv, Kinds
  <2>6. \A q \in Queues : Announcing(q)' <=> Announcing(q)
    <3>1. \A u \in Threads : pc'[u] = "announce" <=> pc[u] = "announce"
      BY <2>3 DEF ThreadsInv, LocalTypes
    <3>2. QED
      BY <2>3, <3>1 DEF Announcing, Threads
  <2>7. y \notin Due /\ y \in Due' /\ \A x \in Tasks : x # y => (x \in Due' <=> x \in Due)
    <3>1. kind'[r] = "connectivity" /\ \A z \in Regs : z # r => kind'[z] = kind[z]
      BY <2>3 DEF ThreadsInv, RegTypes
    <3>2. y \notin Due /\ y \in Due'
      BY <1>0, <2>2, <2>5, <3>1, DueOf
    <3>3. \A q \in Queues : Ended(q) \in Due' <=> Ended(q) \in Due
      BY <2>3, <2>6, DueOf
    <3>4. ASSUME NEW z \in Regs, NEW i \in 0..MaxInvites, Event(z, i) # y
          PROVE  Event(z, i) \in Due' <=> Event(z, i) \in Due
      <4>1. i = 0 => z # r
        BY <2>2, <3>4
      <4>2. QED
        BY <2>3, <3>1, <4>1, DueOf
    <3>5. QED
      BY <3>2, <3>3, <3>4, DueOf
  <2>8. PICK h \in Seq(EventTasks) : h = <<y>> /\ Len(h) = 1 /\ h[1] = y
    <3>1. <<y>> \in Seq(EventTasks) /\ Len(<<y>>) = 1 /\ <<y>>[1] = y
      OBVIOUS
    <3>2. QED
      BY <3>1
  <2>9. \A i \in 1..Len(h) : i = 1 /\ h[i] = y
    BY <2>8
  <2>10. /\ \A i, j \in 1..Len(h) : h[i] = h[j] => i = j
         /\ \A i \in 1..Len(h) : h[i] \notin Due /\ h[i] \in Due'
         /\ \A x \in Tasks : (\A i \in 1..Len(h) : h[i] # x) => (x \in Due' <=> x \in Due)
    <3>1. 1 \in 1..Len(h)
      BY <2>8
    <3>2. QED
      BY <2>7, <2>9, <3>1
  <2>11. Len(h) <= MaxHandlers /\ batch' = [batch EXCEPT ![t] = h]
    BY <1>0, <2>3, <2>4, <2>8
  <2>12. QED
    BY <2>3, <2>4, <2>10, <2>11, FillPlaces
<1>2. ASSUME NEW t \in Threads, Copy(t) PROVE PlaceInv'
  <2>1. PICK i \in 1..MaxInvites : i = invite[t] /\ heard[i] = {} /\ i \in 0..MaxInvites /\ i # 0
    BY <1>0, <1>2 DEF Copy, ThreadsInv, CopyInv
  <2>2. PICK l \in Seq(Regs) :
           /\ l = live("invite") /\ Len(l) <= MaxHandlers
           /\ \A a, b \in 1..Len(l) : l[a] = l[b] => a = b
           /\ \A r : r \in Registered("invite") <=> \E a \in 1..Len(l) : l[a] = r
    BY LiveOf DEF ThreadsInv, Kinds
  <2>3. PICK h : h = [a \in 1..Len(l) |-> Event(l[a], i)]
    OBVIOUS
  <2>4. PICK n \in Nat : n = Len(l)
    BY <2>2
  <2>5. \A a \in 1..n : l[a] \in Regs /\ Event(l[a], i) \in EventTasks
    BY <2>1, <2>4, TaskKinds
  <2>6. h \in [1..n -> EventTasks]
    BY <2>3, <2>4, <2>5
  <2>7. h \in Seq(EventTasks) /\ Len(h) = n /\ \A a \in 1..n : h[a] = Event(l[a], i)
    BY <2>3, <2>4, <2>6
  <2>8. /\ pc[t] = "copy" /\ pc' = [pc EXCEPT ![t] = "post"]
        /\ batch' = [batch EXCEPT ![t] = h]
        /\ heard' = [heard EXCEPT ![i] = Registered("invite")]
        /\ UNCHANGED <<items, called, dropped, kind, dest, terminated>>
    BY <1>2, <2>1, <2>2, <2>3 DEF Copy, Goto, queueVars, portVars, countVars
  <2>9. batch[t] = <<>>
    BY <2>8 DEF ThreadsInv, ThreadInv, ThreadOK, Base
  <2>10. \A q \in Queues : Announcing(q)' <=> Announcing(q)
    <3>1. \A u \in Threads : pc'[u] = "announce" <=> pc[u] = "announce"
      BY <2>8 DEF ThreadsInv, LocalTypes
    <3>2. QED
      BY <2>8, <3>1 DEF Announcing, Threads
  <2>11. heard'[i] = Registered("invite") /\ \A j \in 1..MaxInvites : j # i => heard'[j] = heard[j]
    BY <2>8 DEF ThreadsInv, CopyInv
  <2>12. \A a, b \in 1..n : h[a] = h[b] => a = b
    <3>1. ASSUME NEW a \in 1..n, NEW b \in 1..n, h[a] = h[b] PROVE a = b
      <4>1. Event(l[a], i) = Event(l[b], i)
        BY <2>7, <3>1
      <4>2. l[a] = l[b]
        BY <4>1 DEF Event
      <4>3. QED
        BY <2>2, <2>4, <4>2
    <3>2. QED
      BY <3>1
  <2>13. ASSUME NEW a \in 1..n PROVE h[a] \notin Due /\ h[a] \in Due'
    <3>1. l[a] \in Regs /\ l[a] \in heard'[i] /\ l[a] \notin heard[i]
      BY <2>1, <2>2, <2>4, <2>5, <2>11
    <3>2. QED
      BY <2>1, <2>7, <3>1, DueOf
  <2>14. ASSUME NEW x \in Tasks, \A a \in 1..n : h[a] # x PROVE x \in Due' <=> x \in Due
    <3>1. ASSUME NEW r \in Regs, NEW j \in 0..MaxInvites, x = Event(r, j)
          PROVE  x \in Due' <=> x \in Due
      <4>1. CASE j = i
        <5>1. \A a \in 1..n : l[a] # r
          BY <2>7, <2>14, <3>1, <4>1
        <5>2. r \notin Registered("invite")
          BY <2>2, <2>4, <5>1
        <5>3. r \notin heard[i] /\ r \notin heard'[i]
          BY <2>1, <2>11, <5>2
        <5>4. QED
          BY <2>1, <3>1, <4>1, <5>3, DueOf
      <4>2. CASE j # i
        <5>1. j # 0 => heard'[j] = heard[j]
          BY <1>0, <2>11, <4>2
        <5>2. kind' = kind
          BY <2>8
        <5>3. QED
          BY <3>1, <5>1, <5>2, DueOf
      <4>3. QED
        BY <4>1, <4>2
    <3>2. ASSUME NEW q \in Queues, x = Ended(q) PROVE x \in Due' <=> x \in Due
      BY <2>8, <2>10, <3>2, DueOf
    <3>3. QED
      BY <3>1, <3>2, DueOf
  <2>15. /\ \A a, b \in 1..Len(h) : h[a] = h[b] => a = b
         /\ \A a \in 1..Len(h) : h[a] \notin Due /\ h[a] \in Due'
         /\ \A x \in Tasks : (\A a \in 1..Len(h) : h[a] # x) => (x \in Due' <=> x \in Due)
    BY <2>7, <2>12, <2>13, <2>14
  <2>16. Len(h) <= MaxHandlers
    BY <2>2, <2>4, <2>7
  <2>17. QED
    BY <2>7, <2>8, <2>9, <2>15, <2>16, FillPlaces
<1>3. ASSUME \A x \in Tasks : x \in Due' <=> x \in Due PROVE PlaceInv'
  <2>1. \/ UNCHANGED <<batch, items, called, dropped>>
        \/ \E t \in Threads : Submit(t) \/ Copy(t) \/ AnnounceEnd(t)
                              \/ (\E q, b : Taking(t, q, b)) \/ Register(t, "connectivity")
    <3>1. ASSUME NEW t \in Threads, NEW k \in Kinds, Register(t, k), k # "connectivity"
          PROVE  UNCHANGED <<batch, items, called, dropped>>
      BY <3>1 DEF Register, queueVars, countVars
    <3>2. CASE UNCHANGED vars
      BY <3>2 DEF vars, localVars, queueVars, countVars
    <3>3. ASSUME NEW t \in Threads,
                 \/ Resolve(t) \/ AllPosted(t) \/ WorkerExits(t) \/ Return(t)
                 \/ CloseCompletion(t) \/ WaitEnds(t)
                 \/ ListQueues(t) \/ StopQueue(t) \/ Drained(t) \/ Stopped(t)
                 \/ Arrive(t) \/ InitializeApiImplEx(t) \/ UninitializeApiImpl(t)
                 \/ \E r \in Regs : Unregister(t, r)
                 \/ \E q \in ProcessQueues : SetProcess(t, q)
                 \/ \E q \in Queues, wait \in BOOLEAN : Terminate(t, q, wait)
          PROVE  UNCHANGED <<batch, items, called, dropped>>
      BY <3>3 DEF Resolve, AllPosted, WorkerExits, Return, CloseCompletion, WaitEnds, ListQueues,
                  StopQueue, Drained, Stopped, Arrive, InitializeApiImplEx, UninitializeApiImpl,
                  Unregister, SetProcess, Terminate, localVars, queueVars, countVars
    <3>4. QED
      BY <3>1, <3>2, <3>3, Steps
  <2>2. ASSUME UNCHANGED <<batch, items, called, dropped>> PROVE PlaceInv'
    <3>1. \A x : Unposted(x)' = Unposted(x) /\ Queued(x)' = Queued(x)
      BY <2>2, Places
    <3>2. ASSUME NEW x \in Tasks PROVE Placed(x)'
      <4>1. Placed(x) /\ (x \in Due' <=> x \in Due)
        BY <1>3 DEF PlaceInv
      <4>2. QED
        BY <2>2, <3>1, <4>1, PlaceStays
    <3>3. PlaceTypes' /\ OwnPort'
      BY <2>2 DEF PlaceInv, PlaceTypes, OwnPort
    <3>4. QED
      BY <3>2, <3>3 DEF PlaceInv
  <2>3. QED
    BY <1>1, <1>2, <1>3, <2>1, <2>2, SubmitPlaces, TakePlaces, AnnouncePlaces
<1>4. QED
  BY <1>1, <1>2, <1>3, AnnouncePlaces, DueSteps

\* The inductive invariant.
EventsInv == ThreadsInv /\ EndInv /\ PlaceInv

LEMMA InitEvents == Init => EventsInv
BY InitThreadsInv, InitEnd, InitPlace DEF EventsInv

LEMMA NextEvents == EventsInv /\ [Next]_vars => EventsInv'
BY NextThreadsInv, NextEnd, NextPlace DEF EventsInv

\* For any number of threads, registrations and invitations and any capacity of the ports,
\* every event reaches those it is for and comes to one end, and so does the callback of
\* every queue_terminate.
THEOREM TasksComeToOneEnd == Spec => []EachToOneEnd
<1>1. ASSUME EventsInv PROVE EachToOneEnd
  <2>1. ASSUME NEW S, Single(S) PROVE Cardinality(S) = 1
    BY <2>1, FS_Singleton DEF Single
  <2>2. Cardinality({}) = 0
    BY FS_EmptySet
  <2>3. ASSUME NEW x \in Tasks
        PROVE  /\ Cardinality(Unposted(x)) + Cardinality(Queued(x)) + called[x] + dropped[x]
                     = IF x \in Due THEN 1 ELSE 0
               /\ dropped[x] > 0 => x \in EventTasks
    <3>1. Placed(x)
      BY <1>1 DEF EventsInv, PlaceInv
    <3>2. PICK m, n : m = Cardinality(Unposted(x)) /\ n = Cardinality(Queued(x))
      OBVIOUS
    <3>3. \/ x \notin Due /\ m = 0 /\ n = 0 /\ called[x] = 0 /\ dropped[x] = 0
          \/ x \in Due /\ m = 1 /\ n = 0 /\ called[x] = 0 /\ dropped[x] = 0
          \/ x \in Due /\ m = 0 /\ n = 1 /\ called[x] = 0 /\ dropped[x] = 0
          \/ x \in Due /\ m = 0 /\ n = 0 /\ called[x] = 1 /\ dropped[x] = 0
          \/ x \in Due /\ m = 0 /\ n = 0 /\ called[x] = 0 /\ dropped[x] = 1 /\ x \in EventTasks
      BY <2>1, <2>2, <3>1, <3>2 DEF Placed, Nowhere, ToPost, InPort, WasCalled, WasDropped
    <3>4. QED
      BY <3>2, <3>3
  <2>4. QED
    BY <2>3 DEF EachToOneEnd
<1>2. QED
  BY <1>1, InitEvents, NextEvents, PTL DEF Spec

\* When a queue_terminate that waits has returned, its callback has been called and the
\* port is empty for good, whoever else dispatched it.
THEOREM WaitsAreKept == Spec => []TerminateWaits
<1>1. ASSUME EventsInv PROVE TerminateWaits
  <2>1. SUFFICES ASSUME NEW q \in waited PROVE called[Ended(q)] = 1 /\ items[q] = <<>>
    BY DEF TerminateWaits
  <2>2. q \in Queues /\ q \in terminated /\ items[q] = <<>> /\ ~Announcing(q)
    BY <1>1 DEF EventsInv, EndInv, Announcing, Threads
  <2>3. Ended(q) \in Tasks /\ Ended(q) \notin EventTasks
    BY <2>2, TaskKinds
  <2>4. Ended(q) \in Due /\ Placed(Ended(q))
    BY <1>1, <2>2, <2>3, DueOf DEF EventsInv, PlaceInv
  <2>5. ASSUME Single(Unposted(Ended(q))) PROVE FALSE
    <3>1. PICK t \in Threads, i \in 1..MaxHandlers :
             i <= Len(batch[t]) /\ batch[t][i] = Ended(q)
      BY <2>5 DEF Single, Unposted
    <3>2. batch[t] \in Seq(EventTasks)
      BY <1>1 DEF EventsInv, ThreadsInv, LocalTypes
    <3>3. batch[t][i] \in EventTasks
      BY <3>1, <3>2
    <3>4. QED
      BY <2>3, <3>1, <3>3
  <2>6. ASSUME Single(Queued(Ended(q))) PROVE FALSE
    <3>1. PICK z \in Queues, i \in 1..Capacity : i <= Len(items[z]) /\ items[z][i] = Ended(q)
      BY <2>6 DEF Single, Queued
    <3>2. items[z] \in Seq(Tasks)
      BY <1>1 DEF EventsInv, ThreadsInv, QueueTypes
    <3>3. i \in 1..Len(items[z])
      BY <3>1, <3>2
    <3>4. z = q
      BY <1>1, <2>2, <3>1, <3>3 DEF EventsInv, PlaceInv, OwnPort
    <3>5. Len(items[z]) = 0
      BY <2>2, <3>4
    <3>6. QED
      BY <3>3, <3>5
  <2>7. QED
    BY <2>2, <2>3, <2>4, <2>5, <2>6 DEF Placed, ToPost, InPort, WasCalled, WasDropped
<1>2. QED
  BY <1>1, InitEvents, NextEvents, PTL DEF Spec

=============================================================================
