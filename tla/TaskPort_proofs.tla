--------------------------- MODULE TaskPort_proofs ---------------------------
(***************************************************************************)
(* For any number of clients, workers and callbacks and any capacity: the  *)
(* port hands out each callback once and undelayed ones in order, is quiet *)
(* when stop has returned, loses no wake-up of its workers, and implements *)
(* the abstract CallbackQueue.                                             *)
(***************************************************************************)
EXTENDS TaskPort, WellFoundedInduction, TLAPS

-----------------------------------------------------------------------------
(* The operators on the ring                                                *)

\* A nonempty set of naturals has a least element.
LEMMA LeastNatural ==
  ASSUME NEW S \in SUBSET Nat, S # {}
  PROVE  \E d \in S : \A e \in S : d <= e
<1> DEFINE R == {p \in Nat \X Nat : p[1] < p[2]}
<1>1. IsWellFoundedOn(R, Nat)
  BY NatLessThanWellFounded, Zenon DEF OpToRel
<1> HIDE DEF R
<1>2. PICK d \in S : \A e \in S : ~ (<<e, d>> \in R)
  BY <1>1, WFMin
<1>3. ASSUME NEW e \in S PROVE d <= e
  <2>1. d \in Nat /\ e \in Nat /\ <<e, d>> \notin R
    BY <1>2
  <2>2. ~ (e < d)
    BY <2>1 DEF R
  <2>3. QED
    BY <2>1, <2>2
<1>4. QED
  BY <1>3

\* The deadline of a wait is an instant: earliest() reads the due times of the ring.
LEMMA EarliestType ==
  ASSUME TypeOK
  PROVE  Earliest \in Nat
<1>1. CASE items = <<>>
  BY <1>1, PortConstants DEF Earliest, Never
<1>2. CASE items # <<>>
  <2> DEFINE D == {due[x] : x \in Queued}
  <2>1. Queued \subseteq Callbacks /\ Queued # {}
    <3>1. items \in Seq(Callbacks) /\ 1 \in DOMAIN items
      BY <1>2 DEF TypeOK
    <3>2. QED
      BY <3>1 DEF Queued, Range
  <2>2. D \in SUBSET Nat /\ D # {}
    <3>1. due \in [Callbacks -> Nat]
      BY DEF TypeOK
    <3>2. QED
      BY <2>1, <3>1
  <2>3. \E d \in D : \A e \in D : d <= e
    BY <2>2, LeastNatural
  <2>4. \E d \in D : \A x \in Queued : d <= due[x]
    BY <2>3
  <2>5. Earliest \in D
    BY <1>2, <2>4 DEF Earliest
  <2>6. QED
    BY <2>2, <2>5
<1>3. QED
  BY <1>1, <1>2

\* Taking position i out of a ring removes that position and keeps all others.
LEMMA TakenFromRing ==
  ASSUME NEW S, NEW s \in Seq(S), NEW i \in 1..Len(s)
  PROVE  /\ TakenFrom(s, i) \in Seq(S)
         /\ Len(TakenFrom(s, i)) = Len(s) - 1
         /\ \A k \in 1..(Len(s) - 1) :
               TakenFrom(s, i)[k] = IF k + 1 = i THEN s[1] ELSE s[k + 1]
<1> DEFINE r == [k \in 1..(Len(s) - 1) |-> IF k + 1 = i THEN s[1] ELSE s[k + 1]]
<1>1. Len(s) - 1 \in Nat
  OBVIOUS
<1>2. \A k \in 1..(Len(s) - 1) : r[k] \in S
  OBVIOUS
<1>3. r \in Seq(S) /\ Len(r) = Len(s) - 1
  BY <1>1, <1>2
<1>4. QED
  BY <1>3 DEF TakenFrom

-----------------------------------------------------------------------------
(* Threads                                                                  *)

\* Which thread may be where: what the lifetime of the port rests on.
ThreadInv ==
    /\ \A t \in Threads : cur[t] # Nil <=> pc[t] = "running"
    /\ \A w \in Workers : pc[w] \in {"idle", "loop", "running", "waiting", "woken", "exited"}
    /\ \A w \in Workers \ workers : pc[w] \in {"idle", "exited"}
    /\ \A c \in Clients : pc[c] \notin {"loop", "exited"}
    /\ \A c \in Clients : pc[c] \in {"stop", "join", "drain"} => c \in stopping
    /\ \A c \in stopping :
          /\ pc[c] \in {"stop", "join", "drain", "running"}
          /\ pc[c] \in {"drain", "running"} => workers = {}
    /\ \A c, d \in stopping : c = d
    /\ stopping # {} => terminated /\ opened
    /\ ~opened => items = <<>> /\ workers = {} /\ stopping = {}

\* Where a thread is when it looks for a callback in the ring.
Looking(t) ==
    \/ t \in Clients /\ opened /\ pc[t] = "idle" /\ mode \in DispatchModes
    \/ t \in Workers /\ pc[t] = "loop"
    \/ pc[t] = "woken"
    \/ t \in Clients /\ pc[t] = "drain"

Limit(t) ==
    IF pc[t] = "woken" THEN {deadline[t]} ELSE IF t \in Workers THEN {Never} ELSE Limits

\* The kinds of steps, with the turn of dispatch taken out of the calls that make it.
LEMMA Steps ==
  ASSUME [Next]_vars
  PROVE  \/ \E m \in Modes, n \in 0..MaxWorkers : Open(m, n)
         \/ \E c \in Clients, x \in Callbacks : SubmitInline(c, x)
         \/ \E c \in Clients, x \in Callbacks : Submit(c, x)
         \/ \E c \in Clients : Terminate(c)
         \/ \E c \in Clients : Stop(c)
         \/ \E c \in Clients : WakeOne(c)
         \/ \E c \in Clients : WakeAll(c)
         \/ \E c \in Clients : Join(c)
         \/ \E c \in Clients : StopReturns(c)
         \/ \E t \in Threads : Looking(t) /\ Take(t)
         \/ \E t \in Threads : \E l \in Limit(t) :
               Looking(t) /\ pc[t] # "drain" /\ GiveUp(t, l)
         \/ \E t \in Threads : \E l \in Limit(t) :
               Looking(t) /\ pc[t] # "drain" /\ Sleep(t, l)
         \/ \E t \in Threads : WaitTimesOut(t)
         \/ \E t \in Threads : WakeSpuriously(t)
         \/ \E t \in Threads : CallbackReturns(t)
         \/ Tick
         \/ UNCHANGED vars
<1>1. ASSUME NEW c \in Clients, Call(c)
      PROVE  \/ \E x \in Callbacks : SubmitInline(c, x)
             \/ \E x \in Callbacks : Submit(c, x)
             \/ Terminate(c) \/ Stop(c)
             \/ Looking(c) /\ Take(c)
             \/ \E l \in Limit(c) : Looking(c) /\ pc[c] # "drain" /\ GiveUp(c, l)
             \/ \E l \in Limit(c) : Looking(c) /\ pc[c] # "drain" /\ Sleep(c, l)
  BY <1>1, PortConstants DEF Call, Dispatch, Turn, Looking, Limit, Workers
<1>2. ASSUME NEW t \in Threads, Step(t)
      PROVE  \/ t \in Clients /\ (WakeOne(t) \/ WakeAll(t) \/ Join(t) \/ StopReturns(t))
             \/ WaitTimesOut(t) \/ CallbackReturns(t)
             \/ Looking(t) /\ Take(t)
             \/ \E l \in Limit(t) : Looking(t) /\ pc[t] # "drain" /\ GiveUp(t, l)
             \/ \E l \in Limit(t) : Looking(t) /\ pc[t] # "drain" /\ Sleep(t, l)
  BY <1>2 DEF Step, Resume, Work, Drain, Turn, Looking, Limit
<1>3. Clients \subseteq Threads
  BY DEF Threads
<1>4. QED
  BY <1>1, <1>2, <1>3 DEF Next

\* A constructed port, not yet opened, is typed and holds no thread.
LEMMA InitBase == Init => TypeOK /\ ThreadInv
<1> SUFFICES ASSUME Init PROVE TypeOK /\ ThreadInv
  OBVIOUS
<1> USE PortConstants DEF Init, Threads, Workers
<1>1. TypeOK
  <2>1. items \in Seq(Callbacks) /\ Len(items) <= Capacity
    OBVIOUS
  <2>2. pc \in [Threads -> States] /\ cur \in [Threads -> Callbacks \cup {Nil}]
    BY DEF States
  <2>3. /\ deadline \in [Threads -> 0..Never] /\ alarm \in [Threads -> 0..Never]
        /\ due \in [Callbacks -> Nat] /\ rank \in [Callbacks -> Nat]
        /\ clock \in 0..MaxClock
    BY DEF Never
  <2>4. QED
    BY <2>1, <2>2, <2>3 DEF TypeOK, AllModes
<1>2. ThreadInv
  BY DEF ThreadInv
<1>3. QED
  BY <1>1, <1>2

\* A step keeps the types.
LEMMA NextTypeOK == TypeOK /\ ThreadInv /\ [Next]_vars => TypeOK'
<1> SUFFICES ASSUME TypeOK, ThreadInv, [Next]_vars PROVE TypeOK'
  OBVIOUS
<1> USE PortConstants DEF TypeOK, States, AllModes, Never, Threads, Workers,
        portVars, historyVars, threadVars
<1>1. ASSUME NEW m \in Modes, NEW n \in 0..MaxWorkers, Open(m, n) PROVE TypeOK'
  <2>1. items' \in Seq(Callbacks) /\ Len(items') <= Capacity
    BY <1>1 DEF Open
  <2>2. workers' \in SUBSET Workers
    BY <1>1 DEF Open
  <2>3. QED
    BY <1>1, <2>1, <2>2 DEF Open
<1>2. ASSUME NEW c \in Clients, NEW x \in Callbacks, SubmitInline(c, x) PROVE TypeOK'
  BY <1>2 DEF SubmitInline
<1>3. ASSUME NEW c \in Clients, NEW x \in Callbacks, Submit(c, x) PROVE TypeOK'
  <2>1. items' \in Seq(Callbacks) /\ Len(items') <= Capacity
    BY <1>3 DEF Submit
  <2>2. due' \in [Callbacks -> Nat] /\ issued' \in Nat /\ rank' \in [Callbacks -> Nat]
    BY <1>3 DEF Submit
  <2>3. QED
    BY <1>3, <2>1, <2>2 DEF Submit
<1>4. ASSUME NEW c \in Clients, Terminate(c) PROVE TypeOK'
  BY <1>4 DEF Terminate
<1>5. ASSUME NEW c \in Clients, Stop(c) PROVE TypeOK'
  BY <1>5 DEF Stop
<1>6. ASSUME NEW c \in Clients, WakeOne(c) PROVE TypeOK'
  BY <1>6 DEF WakeOne
<1>7. ASSUME NEW c \in Clients, WakeAll(c) PROVE TypeOK'
  BY <1>7 DEF WakeAll
<1>8. ASSUME NEW c \in Clients, Join(c) PROVE TypeOK'
  BY <1>8 DEF Join
<1>9. ASSUME NEW c \in Clients, StopReturns(c) PROVE TypeOK'
  BY <1>9 DEF StopReturns
<1>10. ASSUME NEW t \in Threads, Looking(t), Take(t) PROVE TypeOK'
  <2>1. PICK i \in DuePositions :
          /\ items' = TakenFrom(items, i)
          /\ cur' = [cur EXCEPT ![t] = items[i]]
          /\ dismissed' = IF canceled THEN dismissed \cup {items[i]} ELSE dismissed
    BY <1>10 DEF Take
  <2>2. i \in 1..Len(items) /\ items[i] \in Callbacks
    BY <2>1 DEF DuePositions
  <2>3. items' \in Seq(Callbacks) /\ Len(items') <= Capacity
    BY <2>1, <2>2, TakenFromRing
  <2>4. cur' \in [Threads -> Callbacks \cup {Nil}] /\ dismissed' \in SUBSET Callbacks
    BY <2>1, <2>2
  <2>5. /\ pc' = [pc EXCEPT ![t] = "running"]
        /\ deadline' = [deadline EXCEPT ![t] = 0]
        /\ alarm' = [alarm EXCEPT ![t] = 0]
        /\ UNCHANGED <<mode, terminated, canceled, due, opened, workers, stopping,
                       clock, rank, issued, finished>>
    BY <1>10 DEF Take
  <2>6. QED
    BY <2>3, <2>4, <2>5
<1>11. ASSUME NEW t \in Threads, NEW l \in Limit(t), Looking(t), pc[t] # "drain", GiveUp(t, l) PROVE TypeOK'
  BY <1>11 DEF GiveUp, AfterDispatch, SecondReading
<1>12. ASSUME NEW t \in Threads, NEW l \in Limit(t), Looking(t), pc[t] # "drain", Sleep(t, l) PROVE TypeOK'
  <2>1. l \in 0..Never
    <3>1. \A k \in Limits : k \in 0..Never
      BY DEF Limits
    <3>2. deadline[t] \in 0..Never /\ Never \in 0..Never
      OBVIOUS
    <3>3. QED
      BY <1>12, <3>1, <3>2 DEF Limit
  <2>2. Earliest \in Nat
    BY EarliestType
  <2>3. Min(l, Earliest) \in 0..Never
    BY <2>1, <2>2 DEF Min
  <2>4. QED
    BY <1>12, <2>1, <2>3 DEF Sleep, SecondReading
<1>13. ASSUME NEW t \in Threads, WaitTimesOut(t) PROVE TypeOK'
  BY <1>13 DEF WaitTimesOut
<1>14. ASSUME NEW t \in Threads, WakeSpuriously(t) PROVE TypeOK'
  BY <1>14 DEF WakeSpuriously
<1>15. ASSUME NEW t \in Threads, CallbackReturns(t) PROVE TypeOK'
  <2>1. cur[t] \in Callbacks
    BY <1>15 DEF CallbackReturns, ThreadInv
  <2>2. QED
    BY <1>15, <2>1 DEF CallbackReturns
<1>16. CASE Tick
  BY <1>16 DEF Tick
<1>17. CASE UNCHANGED vars
  BY <1>17 DEF vars
<1>18. QED
  BY Steps, <1>1, <1>2, <1>3, <1>4, <1>5, <1>6, <1>7, <1>8, <1>9, <1>10, <1>11, <1>12, <1>13, <1>14, <1>15, <1>16, <1>17

\* A step keeps every thread where it may be.
LEMMA NextThreadInv == TypeOK /\ ThreadInv /\ [Next]_vars => ThreadInv'
<1> SUFFICES ASSUME TypeOK, ThreadInv, [Next]_vars PROVE ThreadInv'
  OBVIOUS
<1> USE PortConstants DEF ThreadInv, Threads, Workers, portVars, historyVars, threadVars
<1> items \in Seq(Callbacks) /\ pc \in [Threads -> States]
    /\ cur \in [Threads -> Callbacks \cup {Nil}]
    /\ workers \in SUBSET Workers /\ stopping \in SUBSET Clients
  BY DEF TypeOK
<1>1. ASSUME NEW m \in Modes, NEW n \in 0..MaxWorkers, Open(m, n) PROVE ThreadInv'
  <2>1. /\ opened' = TRUE /\ workers' = 1..n /\ stopping' = stopping /\ cur' = cur
        /\ pc' = [t \in Threads |-> IF t \in 1..n THEN "loop" ELSE "idle"]
        /\ stopping = {} /\ workers = {} /\ \A c \in Clients : pc[c] = "idle"
    BY <1>1 DEF Open
  <2>2. \A t \in Threads : cur[t] = Nil
    BY <2>1
  <2>3. QED
    BY <2>1, <2>2
<1>2. ASSUME NEW c \in Clients, NEW x \in Callbacks, SubmitInline(c, x) PROVE ThreadInv'
  BY <1>2 DEF SubmitInline
<1>3. ASSUME NEW c \in Clients, NEW x \in Callbacks, Submit(c, x) PROVE ThreadInv'
  <2>1. /\ opened /\ pc[c] = "idle" /\ pc' = [pc EXCEPT ![c] = "wake_one"]
        /\ UNCHANGED <<terminated, cur, opened, workers, stopping>>
    BY <1>3 DEF Submit
  <2>2. QED
    BY <2>1
<1>4. ASSUME NEW c \in Clients, Terminate(c) PROVE ThreadInv'
  BY <1>4 DEF Terminate
<1>5. ASSUME NEW c \in Clients, Stop(c) PROVE ThreadInv'
  <2>1. /\ opened /\ pc[c] = "idle" /\ pc' = [pc EXCEPT ![c] = "stop"]
        /\ stopping = {} /\ stopping' = {c} /\ terminated' = TRUE
        /\ UNCHANGED <<items, cur, opened, workers>>
    BY <1>5 DEF Stop
  <2>2. QED
    BY <2>1
<1>6. ASSUME NEW c \in Clients, WakeOne(c) PROVE ThreadInv'
  <2>1. pc[c] = "wake_one" /\ UNCHANGED <<items, terminated, cur, opened, workers, stopping>>
    BY <1>6 DEF WakeOne
  <2>2. CASE pc' = [pc EXCEPT ![c] = "idle"]
    BY <2>1, <2>2
  <2>3. ASSUME NEW t \in Threads, pc[t] = "waiting",
               pc' = [pc EXCEPT ![c] = "idle", ![t] = "woken"]
        PROVE  ThreadInv'
    BY <2>1, <2>3
  <2>4. QED
    BY <1>6, <2>2, <2>3 DEF WakeOne
<1>7. ASSUME NEW c \in Clients, WakeAll(c) PROVE ThreadInv'
  BY <1>7 DEF WakeAll
<1>8. ASSUME NEW c \in Clients, Join(c) PROVE ThreadInv'
  BY <1>8 DEF Join
<1>9. ASSUME NEW c \in Clients, StopReturns(c) PROVE ThreadInv'
  <2>1. /\ pc[c] = "drain" /\ opened' = FALSE /\ stopping' = {}
        /\ pc' = [pc EXCEPT ![c] = "idle"]
        /\ UNCHANGED <<items, terminated, cur, workers>>
    BY <1>9 DEF StopReturns
  <2>2. c \in stopping /\ terminated /\ workers = {}
    BY <2>1
  <2>3. items = <<>>
    BY <1>9, <2>2 DEF StopReturns, DuePositions
  <2>4. QED
    BY <2>1, <2>2, <2>3
<1>10. ASSUME NEW t \in Threads, Looking(t), Take(t) PROVE ThreadInv'
  <2>1. PICK i \in DuePositions : cur' = [cur EXCEPT ![t] = items[i]]
    BY <1>10 DEF Take
  <2>2. items # <<>> /\ items[i] # Nil
    BY <2>1 DEF DuePositions
  <2>3. /\ pc' = [pc EXCEPT ![t] = "running"]
        /\ UNCHANGED <<terminated, opened, workers, stopping>>
    BY <1>10 DEF Take
  <2>4. opened /\ opened'
    BY <2>2, <2>3
  <2>5. /\ pc[t] \in {"idle", "loop", "woken", "drain"}
        /\ t \in Workers => t \in workers
        /\ t \in stopping => pc[t] = "drain"
    BY <1>10 DEF Looking
  <2>6. \A u \in Threads : cur'[u] # Nil <=> pc'[u] = "running"
    BY <2>1, <2>2, <2>3
  <2>7. QED
    BY <2>3, <2>4, <2>5, <2>6
<1>11. ASSUME NEW t \in Threads, NEW l \in Limit(t), Looking(t), pc[t] # "drain", GiveUp(t, l) PROVE ThreadInv'
  <2>1. /\ pc' = [pc EXCEPT ![t] = AfterDispatch(t)]
        /\ UNCHANGED <<items, terminated, cur, opened, workers, stopping>>
    BY <1>11 DEF GiveUp
  <2>2. QED
    BY <1>11, <2>1 DEF Looking, AfterDispatch
<1>12. ASSUME NEW t \in Threads, NEW l \in Limit(t), Looking(t), pc[t] # "drain", Sleep(t, l) PROVE ThreadInv'
  <2>1. /\ pc' = [pc EXCEPT ![t] = "waiting"]
        /\ UNCHANGED <<items, terminated, cur, opened, workers, stopping>>
    BY <1>12 DEF Sleep
  <2>2. QED
    BY <1>12, <2>1 DEF Looking
<1>13. ASSUME NEW t \in Threads, WaitTimesOut(t) PROVE ThreadInv'
  BY <1>13 DEF WaitTimesOut
<1>14. ASSUME NEW t \in Threads, WakeSpuriously(t) PROVE ThreadInv'
  BY <1>14 DEF WakeSpuriously
<1>15. ASSUME NEW t \in Threads, CallbackReturns(t) PROVE ThreadInv'
  BY <1>15 DEF CallbackReturns
<1>16. CASE Tick
  BY <1>16 DEF Tick
<1>17. CASE UNCHANGED vars
  BY <1>17 DEF vars
<1>18. QED
  BY Steps, <1>1, <1>2, <1>3, <1>4, <1>5, <1>6, <1>7, <1>8, <1>9, <1>10, <1>11, <1>12, <1>13, <1>14, <1>15, <1>16, <1>17

-----------------------------------------------------------------------------
(* The ring                                                                 *)

\* The callbacks in the ring, in the threads' hands and returned are disjoint, without
\* repetition, and together are the ones accepted (and the ones called inline).
OnceInv ==
    /\ \A i, j \in 1..Len(items) : items[i] = items[j] => i = j
    /\ \A t, u \in Threads : cur[t] # Nil /\ cur[t] = cur[u] => t = u
    /\ \A i \in 1..Len(items) :
          /\ rank[items[i]] # 0
          /\ items[i] \notin finished
          /\ \A t \in Threads : cur[t] # items[i]
    /\ \A t \in Threads : cur[t] \notin finished
    /\ \A x \in Callbacks : rank[x] # 0 =>
          \/ \E i \in 1..Len(items) : items[i] = x
          \/ \E t \in Threads : cur[t] = x
          \/ x \in finished

\* Undelayed callbacks are due as soon as they are in the ring and lie there in the order
\* of acceptance; that is what makes the first due position the oldest of them.
OrderInv ==
    /\ \A x \in Callbacks : rank[x] <= issued
    /\ \A i \in 1..Len(items) : Delay[items[i]] = 0 => due[items[i]] <= clock
    /\ \A i, j \in 1..Len(items) :
          i < j /\ Delay[items[i]] = 0 /\ Delay[items[j]] = 0
             => rank[items[i]] < rank[items[j]]
    /\ \A i \in 1..Len(items), y \in Callbacks :
          /\ Delay[items[i]] = 0 /\ Delay[y] = 0 /\ rank[y] # 0
          /\ \A j \in 1..Len(items) : items[j] # y
          => rank[y] < rank[items[i]]

IInv == TypeOK /\ ThreadInv /\ OnceInv /\ OrderInv

\* Four kinds of steps move callbacks; open finds the ring empty.
LEMMA RingSteps ==
  ASSUME TypeOK, ThreadInv, [Next]_vars
  PROVE  \/ \E c \in Clients, x \in Callbacks : SubmitInline(c, x)
         \/ \E c \in Clients, x \in Callbacks : Submit(c, x)
         \/ \E t \in Threads : Take(t) /\ Looking(t)
         \/ \E t \in Threads : CallbackReturns(t)
         \/ UNCHANGED <<items, cur, rank, issued, due, finished>> /\ clock' >= clock
<1> DEFINE Still == UNCHANGED <<items, cur, rank, issued, due, finished>> /\ clock' >= clock
<1> USE DEF portVars, historyVars, threadVars
<1>1. ASSUME NEW m \in Modes, NEW n \in 0..MaxWorkers, Open(m, n) PROVE Still
  <2>1. clock' = clock /\ clock \in Nat
    BY <1>1, PortConstants DEF Open, TypeOK
  <2>2. UNCHANGED <<cur, rank, issued, due, finished>>
    BY <1>1 DEF Open
  <2>3. items' = items
    BY <1>1 DEF Open, ThreadInv
  <2>4. QED
    BY <2>1, <2>2, <2>3
<1>2. ASSUME NEW c \in Clients,
             Terminate(c) \/ Stop(c) \/ WakeOne(c) \/ WakeAll(c) \/ Join(c) \/ StopReturns(c)
      PROVE  Still
  <2>1. clock' = clock /\ clock \in Nat
    BY <1>2, PortConstants DEF Terminate, Stop, WakeOne, WakeAll, Join, StopReturns, TypeOK
  <2>2. UNCHANGED <<items, cur, rank, issued, due, finished>>
    BY <1>2 DEF Terminate, Stop, WakeOne, WakeAll, Join, StopReturns
  <2>3. QED
    BY <2>1, <2>2
<1>3. ASSUME NEW t \in Threads, NEW l, GiveUp(t, l) \/ Sleep(t, l) PROVE Still
  <2>1. clock' >= clock
    BY <1>3, PortConstants DEF GiveUp, Sleep, SecondReading, TypeOK
  <2>2. UNCHANGED <<items, cur, rank, issued, due, finished>>
    BY <1>3 DEF GiveUp, Sleep
  <2>3. QED
    BY <2>1, <2>2
<1>4. ASSUME NEW t \in Threads, WaitTimesOut(t) \/ WakeSpuriously(t) PROVE Still
  BY <1>4, PortConstants DEF WaitTimesOut, WakeSpuriously, TypeOK
<1>5. CASE Tick \/ UNCHANGED vars
  BY <1>5, PortConstants DEF Tick, vars, TypeOK
<1>6. QED
  BY Steps, <1>1, <1>2, <1>3, <1>4, <1>5

\* A taken callback leaves the ring: what is left is what else was there, in one place
\* each, and undelayed callbacks keep their order.
LEMMA TakeFacts ==
  ASSUME TypeOK, OnceInv, OrderInv, NEW t \in Threads, Take(t)
  PROVE  \E i \in 1..Len(items) :
           /\ cur' = [cur EXCEPT ![t] = items[i]]
           /\ Len(items') = Len(items) - 1
           /\ \A k \in 1..Len(items') : \E j \in 1..Len(items) :
                 j # i /\ items'[k] = items[j]
           /\ \A j \in 1..Len(items) : j # i => \E k \in 1..Len(items') : items'[k] = items[j]
           /\ \A k, m \in 1..Len(items') : items'[k] = items'[m] => k = m
           /\ \A k, m \in 1..Len(items') :
                 k < m /\ Delay[items'[k]] = 0 /\ Delay[items'[m]] = 0
                    => rank[items'[k]] < rank[items'[m]]
           /\ \A k \in 1..Len(items') :
                 Delay[items[i]] = 0 /\ Delay[items'[k]] = 0
                    => rank[items[i]] < rank[items'[k]]
           /\ UNCHANGED <<rank, issued, due, finished, clock>>
<1>1. PICK i \in DuePositions :
        items' = TakenFrom(items, i) /\ cur' = [cur EXCEPT ![t] = items[i]]
  BY DEF Take
<1>2. items \in Seq(Callbacks) /\ i \in 1..Len(items) /\ Len(items) \in Nat
  BY <1>1 DEF TypeOK, DuePositions
<1> DEFINE from(k) == IF k + 1 = i THEN 1 ELSE k + 1
<1>3. /\ Len(items') = Len(items) - 1
      /\ \A k \in 1..Len(items') : items'[k] = IF k + 1 = i THEN items[1] ELSE items[k + 1]
  <2> DEFINE r == TakenFrom(items, i)
  <2>1. /\ Len(r) = Len(items) - 1
        /\ \A k \in 1..(Len(items) - 1) :
              r[k] = IF k + 1 = i THEN items[1] ELSE items[k + 1]
    BY <1>2, TakenFromRing
  <2>2. items' = r
    BY <1>1
  <2> HIDE DEF r
  <2>3. QED
    BY <2>1, <2>2
<1>4. \A k \in 1..Len(items') :
         from(k) \in 1..Len(items) /\ from(k) # i /\ items'[k] = items[from(k)]
  BY <1>2, <1>3
<1>5. \A k, m \in 1..Len(items') : from(k) = from(m) => k = m
  BY <1>2, <1>3
<1>6. \A j \in 1..Len(items) : j # i => \E k \in 1..Len(items') : items'[k] = items[j]
  <2> SUFFICES ASSUME NEW j \in 1..Len(items), j # i
               PROVE  \E k \in 1..Len(items') : items'[k] = items[j]
    OBVIOUS
  <2>1. CASE j = 1
    <3>1. i - 1 \in 1..Len(items') /\ items'[i - 1] = items[1]
      BY <2>1, <1>2, <1>3
    <3>2. QED
      BY <2>1, <3>1
  <2>2. CASE j # 1
    <3>1. j - 1 \in 1..Len(items') /\ items'[j - 1] = items[j]
      BY <2>2, <1>2, <1>3
    <3>2. QED
      BY <3>1
  <2>3. QED
    BY <2>1, <2>2
<1>7. \A j \in 1..Len(items) : j < i => Delay[items[j]] # 0
  <2>1. \A j \in 1..(i - 1) : due[items[j]] > clock
    BY <1>1, <1>2 DEF DuePositions
  <2>2. \A j \in 1..Len(items) : due[items[j]] \in Nat /\ clock \in Nat
    BY <1>2, PortConstants DEF TypeOK
  <2>3. \A j \in 1..Len(items) : Delay[items[j]] = 0 => due[items[j]] <= clock
    BY DEF OrderInv
  <2>4. QED
    BY <1>2, <2>1, <2>2, <2>3
<1>8. \A k \in 1..Len(items') : Delay[items'[k]] = 0 => from(k) = k + 1
  BY <1>2, <1>3, <1>4, <1>7
<1>9. \A k, m \in 1..Len(items') :
         k < m /\ Delay[items'[k]] = 0 /\ Delay[items'[m]] = 0
            => rank[items'[k]] < rank[items'[m]]
  <2> SUFFICES ASSUME NEW k \in 1..Len(items'), NEW m \in 1..Len(items'), k < m,
                      Delay[items'[k]] = 0, Delay[items'[m]] = 0
               PROVE  rank[items'[k]] < rank[items'[m]]
    OBVIOUS
  <2>1. from(k) < from(m)
    BY <1>2, <1>3, <1>8
  <2>2. QED
    BY <1>4, <2>1 DEF OrderInv
<1>10. ASSUME NEW k \in 1..Len(items'), Delay[items[i]] = 0, Delay[items'[k]] = 0
       PROVE  rank[items[i]] < rank[items'[k]]
  <2>1. i < from(k)
    <3>1. from(k) \in 1..Len(items) /\ from(k) # i /\ Delay[items[from(k)]] = 0
      BY <1>4, <1>10
    <3>2. QED
      BY <1>2, <1>7, <3>1
  <2>2. QED
    BY <1>2, <1>4, <1>10, <2>1 DEF OrderInv
<1>11. \A k, m \in 1..Len(items') : items'[k] = items'[m] => k = m
  BY <1>4, <1>5 DEF OnceInv
<1>12. UNCHANGED <<rank, issued, due, finished, clock>>
  BY DEF Take
<1>13. \A k \in 1..Len(items') : \E j \in 1..Len(items) : j # i /\ items'[k] = items[j]
  BY <1>4
<1> HIDE DEF from
<1>14. QED
  BY <1>1, <1>2, <1>3, <1>6, <1>9, <1>10, <1>11, <1>12, <1>13

\* What submit does to the ring: one new callback, at the end.
LEMMA SubmitFacts ==
  ASSUME TypeOK, NEW c \in Clients, NEW x \in Callbacks, Submit(c, x)
  PROVE  /\ Len(items') = Len(items) + 1
         /\ items'[Len(items) + 1] = x
         /\ \A i \in 1..Len(items) : items'[i] = items[i] /\ items[i] \in Callbacks
         /\ Fresh(x)
         /\ issued' = issued + 1
         /\ rank' = [rank EXCEPT ![x] = issued + 1]
         /\ due' = [due EXCEPT ![x] = clock + Delay[x]]
         /\ UNCHANGED <<cur, finished, clock>>
<1>1. items' = Append(items, x) /\ items \in Seq(Callbacks)
  BY DEF Submit, TypeOK
<1>2. /\ Fresh(x) /\ issued' = issued + 1
      /\ rank' = [rank EXCEPT ![x] = issued + 1]
      /\ due' = [due EXCEPT ![x] = clock + Delay[x]]
      /\ UNCHANGED <<cur, finished, clock>>
  BY DEF Submit
<1>3. QED
  BY <1>1, <1>2

\* A step keeps every accepted callback in exactly one place: submit adds a new one,
\* take moves one from the ring to a thread or drops it, a thread's end records it.
LEMMA NextOnceInv == TypeOK /\ ThreadInv /\ OnceInv /\ OrderInv /\ [Next]_vars => OnceInv'
<1> SUFFICES ASSUME TypeOK, ThreadInv, OnceInv, OrderInv, [Next]_vars PROVE OnceInv'
  OBVIOUS
<1>0. /\ items \in Seq(Callbacks) /\ Len(items) \in Nat /\ finished \in SUBSET Callbacks
      /\ cur \in [Threads -> Callbacks \cup {Nil}] /\ rank \in [Callbacks -> Nat]
      /\ issued \in Nat /\ Nil \notin Callbacks /\ Clients \subseteq Threads
  BY PortConstants DEF TypeOK, Threads
<1>1. ASSUME NEW c \in Clients, NEW x \in Callbacks, SubmitInline(c, x) PROVE OnceInv'
  <2>1. /\ cur[c] = Nil /\ cur' = [cur EXCEPT ![c] = x]
        /\ UNCHANGED <<items, rank, finished>>
        /\ rank[x] = 0 /\ x \notin finished /\ \A t \in Threads : cur[t] # x
    BY <1>0, <1>1 DEF SubmitInline, Fresh, Running, ThreadInv, portVars, historyVars
  <2>2. QED
    BY <1>0, <2>1 DEF OnceInv
<1>2. ASSUME NEW c \in Clients, NEW x \in Callbacks, Submit(c, x) PROVE OnceInv'
  <2>1. /\ rank[x] = 0 /\ x \notin finished /\ \A t \in Threads : cur[t] # x
        /\ \A i \in 1..Len(items) : items[i] # x
    BY <1>0, <1>2, SubmitFacts DEF Fresh, Running, OnceInv
  <2>2. /\ Len(items') = Len(items) + 1
        /\ items'[Len(items) + 1] = x
        /\ \A i \in 1..Len(items) : items'[i] = items[i] /\ items[i] \in Callbacks
        /\ rank' = [rank EXCEPT ![x] = issued + 1]
        /\ UNCHANGED <<cur, finished>>
    BY <1>2, SubmitFacts
  <2>3. \A k \in 1..Len(items') : k \in 1..Len(items) \/ k = Len(items) + 1
    BY <1>0, <2>2
  <2>4. \A i, j \in 1..Len(items') : items'[i] = items'[j] => i = j
    BY <1>0, <2>1, <2>2, <2>3 DEF OnceInv
  <2>5. \A i \in 1..Len(items') :
           /\ rank'[items'[i]] # 0
           /\ items'[i] \notin finished'
           /\ \A t \in Threads : cur'[t] # items'[i]
    <3> SUFFICES ASSUME NEW i \in 1..Len(items')
                 PROVE  /\ rank'[items'[i]] # 0 /\ items'[i] \notin finished'
                        /\ \A t \in Threads : cur'[t] # items'[i]
      OBVIOUS
    <3>1. CASE i = Len(items) + 1
      BY <1>0, <2>1, <2>2, <3>1
    <3>2. CASE i \in 1..Len(items)
      <4>1. items'[i] = items[i] /\ items[i] \in Callbacks /\ items[i] # x
        BY <2>1, <2>2, <3>2
      <4>2. rank[items[i]] # 0 /\ items[i] \notin finished
        BY <3>2 DEF OnceInv
      <4>3. \A t \in Threads : cur[t] # items[i]
        BY <3>2 DEF OnceInv
      <4>4. QED
        BY <1>0, <2>2, <4>1, <4>2, <4>3
    <3>3. QED
      BY <2>3, <3>1, <3>2
  <2>6. \A y \in Callbacks : rank'[y] # 0 =>
          \/ \E i \in 1..Len(items') : items'[i] = y
          \/ \E t \in Threads : cur'[t] = y
          \/ y \in finished'
    <3>1. 1..Len(items) \subseteq 1..Len(items') /\ Len(items) + 1 \in 1..Len(items')
      BY <1>0, <2>2
    <3>2. QED
      BY <1>0, <2>2, <3>1 DEF OnceInv
  <2>7. QED
    BY <2>2, <2>4, <2>5, <2>6 DEF OnceInv
<1>3. ASSUME NEW t \in Threads, Take(t), Looking(t) PROVE OnceInv'
  <2>1. cur[t] = Nil
    BY <1>3 DEF Looking, ThreadInv
  <2>2. PICK i \in 1..Len(items) :
           /\ cur' = [cur EXCEPT ![t] = items[i]]
           /\ \A k \in 1..Len(items') : \E j \in 1..Len(items) :
                 j # i /\ items'[k] = items[j]
           /\ \A j \in 1..Len(items) : j # i => \E k \in 1..Len(items') : items'[k] = items[j]
           /\ \A k, m \in 1..Len(items') : items'[k] = items'[m] => k = m
           /\ UNCHANGED <<rank, finished>>
    BY <1>3, TakeFacts
  <2>3. items[i] \in Callbacks
    BY <1>0
  <2>4. \A k \in 1..Len(items') :
           /\ rank'[items'[k]] # 0
           /\ items'[k] \notin finished'
           /\ \A u \in Threads : cur'[u] # items'[k]
    <3> TAKE k \in 1..Len(items')
    <3>1. PICK j \in 1..Len(items) : j # i /\ items'[k] = items[j]
      BY <2>2
    <3>2. rank[items[j]] # 0 /\ items[j] \notin finished /\ items[j] # items[i]
      BY <3>1 DEF OnceInv
    <3>3. \A u \in Threads : cur[u] # items[j]
      BY DEF OnceInv
    <3>4. QED
      BY <1>0, <2>2, <3>1, <3>2, <3>3
  <2>5. \A u, v \in Threads : cur'[u] # Nil /\ cur'[u] = cur'[v] => u = v
    BY <1>0, <2>2, <2>3 DEF OnceInv
  <2>6. \A u \in Threads : cur'[u] \notin finished'
    BY <1>0, <2>2 DEF OnceInv
  <2>7. \A y \in Callbacks : rank'[y] # 0 =>
          \/ \E k \in 1..Len(items') : items'[k] = y
          \/ \E u \in Threads : cur'[u] = y
          \/ y \in finished'
    <3> SUFFICES ASSUME NEW y \in Callbacks, rank[y] # 0
                 PROVE  \/ \E k \in 1..Len(items') : items'[k] = y
                        \/ \E u \in Threads : cur'[u] = y
                        \/ y \in finished
      BY <2>2
    <3>1. CASE \E j \in 1..Len(items) : items[j] = y
      <4>1. PICK j \in 1..Len(items) : items[j] = y
        BY <3>1
      <4>2. CASE j = i
        BY <1>0, <2>2, <4>1, <4>2
      <4>3. CASE j # i
        BY <2>2, <4>1, <4>3
      <4>4. QED
        BY <4>2, <4>3
    <3>2. CASE \E u \in Threads : cur[u] = y
      BY <1>0, <2>1, <2>2, <3>2
    <3>3. QED
      BY <3>1, <3>2 DEF OnceInv
  <2>8. QED
    BY <2>2, <2>4, <2>5, <2>6, <2>7 DEF OnceInv
<1>4. ASSUME NEW t \in Threads, CallbackReturns(t) PROVE OnceInv'
  <2>1. /\ cur[t] # Nil /\ cur' = [cur EXCEPT ![t] = Nil]
        /\ finished' = finished \cup {cur[t]}
        /\ UNCHANGED <<items, rank>>
    BY <1>4 DEF CallbackReturns, ThreadInv, portVars
  <2>2. QED
    BY <1>0, <2>1 DEF OnceInv
<1>5. CASE UNCHANGED <<items, cur, rank, issued, due, finished>>
  BY <1>5 DEF OnceInv
<1>6. QED
  BY <1>1, <1>2, <1>3, <1>4, <1>5, RingSteps

\* A step keeps the undelayed callbacks sorted by acceptance: submit appends a later one,
\* and the swap in due() only moves a delayed callback behind the one taken out.
LEMMA NextOrderInv == TypeOK /\ ThreadInv /\ OnceInv /\ OrderInv /\ [Next]_vars => OrderInv'
<1> SUFFICES ASSUME TypeOK, ThreadInv, OnceInv, OrderInv, [Next]_vars PROVE OrderInv'
  OBVIOUS
<1>0. /\ items \in Seq(Callbacks) /\ Len(items) \in Nat
      /\ rank \in [Callbacks -> Nat] /\ due \in [Callbacks -> Nat]
      /\ issued \in Nat /\ clock \in Nat /\ Delay \in [Callbacks -> Nat]
  BY PortConstants DEF TypeOK
<1>1. ASSUME NEW c \in Clients, NEW x \in Callbacks, SubmitInline(c, x) PROVE OrderInv'
  BY <1>1 DEF SubmitInline, OrderInv, portVars, historyVars
<1>2. ASSUME NEW c \in Clients, NEW x \in Callbacks, Submit(c, x) PROVE OrderInv'
  <2>1. \A i \in 1..Len(items) : items[i] # x
    BY <1>0, <1>2, SubmitFacts DEF Fresh, OnceInv
  <2>2. /\ Len(items') = Len(items) + 1
        /\ items'[Len(items) + 1] = x
        /\ \A i \in 1..Len(items) : items'[i] = items[i] /\ items[i] \in Callbacks
        /\ issued' = issued + 1
        /\ rank' = [rank EXCEPT ![x] = issued + 1]
        /\ due' = [due EXCEPT ![x] = clock + Delay[x]]
        /\ clock' = clock
    BY <1>2, SubmitFacts
  <2>3. \A k \in 1..Len(items') : k \in 1..Len(items) \/ k = Len(items) + 1
    BY <1>0, <2>2
  <2>4. \A y \in Callbacks : rank'[y] <= issued'
    BY <1>0, <2>2 DEF OrderInv
  <2> DEFINE n == Len(items) + 1
  <2>a. \A i \in 1..Len(items) :
           /\ items'[i] = items[i] /\ items[i] \in Callbacks
           /\ rank'[items'[i]] = rank[items[i]] /\ due'[items'[i]] = due[items[i]]
           /\ rank'[items'[i]] \in Nat /\ rank'[items'[i]] <= issued
    BY <1>0, <2>1, <2>2 DEF OrderInv
  <2>b. items'[n] = x /\ rank'[items'[n]] = issued + 1 /\ due'[items'[n]] = clock + Delay[x]
    BY <1>0, <2>2
  <2> HIDE DEF n
  <2>c. \A k \in 1..Len(items') : k \in 1..Len(items) \/ k = n
    BY <2>3 DEF n
  <2>d. \A k \in 1..Len(items) : k < n
    BY <1>0 DEF n
  <2>5. ASSUME NEW i \in 1..Len(items'), Delay[items'[i]] = 0
        PROVE  due'[items'[i]] <= clock'
    <3>1. CASE i = n
      BY <1>0, <2>2, <2>b, <2>5, <3>1
    <3>2. CASE i \in 1..Len(items)
      BY <2>2, <2>a, <2>5, <3>2 DEF OrderInv
    <3>3. QED
      BY <2>c, <3>1, <3>2
  <2>6. \A i, j \in 1..Len(items') :
          i < j /\ Delay[items'[i]] = 0 /\ Delay[items'[j]] = 0
             => rank'[items'[i]] < rank'[items'[j]]
    <3> SUFFICES ASSUME NEW i \in 1..Len(items'), NEW j \in 1..Len(items'), i < j,
                        Delay[items'[i]] = 0, Delay[items'[j]] = 0
                 PROVE  rank'[items'[i]] < rank'[items'[j]]
      OBVIOUS
    <3>1. i \in 1..Len(items)
      BY <1>0, <2>2
    <3>2. CASE j = n
      <4>1. rank'[items'[j]] = issued + 1
        BY <2>b, <3>2
      <4>2. rank'[items'[i]] \in Nat /\ rank'[items'[i]] <= issued
        BY <2>a, <3>1
      <4>3. QED
        BY <1>0, <4>1, <4>2
    <3>3. CASE j \in 1..Len(items)
      BY <2>a, <3>1, <3>3 DEF OrderInv
    <3>4. QED
      BY <2>c, <3>2, <3>3
  <2>7. \A i \in 1..Len(items'), y \in Callbacks :
          /\ Delay[items'[i]] = 0 /\ Delay[y] = 0 /\ rank'[y] # 0
          /\ \A j \in 1..Len(items') : items'[j] # y
          => rank'[y] < rank'[items'[i]]
    <3> SUFFICES ASSUME NEW i \in 1..Len(items'), NEW y \in Callbacks,
                        Delay[items'[i]] = 0, Delay[y] = 0, rank'[y] # 0,
                        \A j \in 1..Len(items') : items'[j] # y
                 PROVE  rank'[y] < rank'[items'[i]]
      OBVIOUS
    <3>1. n \in 1..Len(items') /\ \A j \in 1..Len(items) : j \in 1..Len(items')
      BY <1>0, <2>2 DEF n
    <3>2. y # x /\ \A j \in 1..Len(items) : items[j] # y
      BY <2>a, <2>b, <3>1
    <3>3. rank'[y] = rank[y] /\ rank[y] <= issued /\ rank[y] \in Nat
      BY <1>0, <2>2, <3>2 DEF OrderInv
    <3>4. CASE i = n
      BY <1>0, <2>b, <3>3, <3>4
    <3>5. CASE i \in 1..Len(items)
      BY <2>a, <3>2, <3>3, <3>5 DEF OrderInv
    <3>6. QED
      BY <2>c, <3>4, <3>5
  <2>8. QED
    BY <2>4, <2>5, <2>6, <2>7 DEF OrderInv
<1>3. ASSUME NEW t \in Threads, Take(t) PROVE OrderInv'
  <2>1. PICK i \in 1..Len(items) :
           /\ \A k \in 1..Len(items') : \E j \in 1..Len(items) :
                 j # i /\ items'[k] = items[j]
           /\ \A j \in 1..Len(items) : j # i => \E k \in 1..Len(items') : items'[k] = items[j]
           /\ \A k, m \in 1..Len(items') :
                 k < m /\ Delay[items'[k]] = 0 /\ Delay[items'[m]] = 0
                    => rank[items'[k]] < rank[items'[m]]
           /\ \A k \in 1..Len(items') :
                 Delay[items[i]] = 0 /\ Delay[items'[k]] = 0
                    => rank[items[i]] < rank[items'[k]]
           /\ UNCHANGED <<rank, issued, due, clock>>
    BY <1>3, TakeFacts
  <2>2. \A k \in 1..Len(items'), y \in Callbacks :
          /\ Delay[items'[k]] = 0 /\ Delay[y] = 0 /\ rank[y] # 0
          /\ \A j \in 1..Len(items') : items'[j] # y
          => rank[y] < rank[items'[k]]
    <3> SUFFICES ASSUME NEW k \in 1..Len(items'), NEW y \in Callbacks,
                        Delay[items'[k]] = 0, Delay[y] = 0, rank[y] # 0,
                        \A j \in 1..Len(items') : items'[j] # y
                 PROVE  rank[y] < rank[items'[k]]
      OBVIOUS
    <3>1. CASE y = items[i]
      BY <2>1, <3>1
    <3>2. CASE y # items[i]
      <4>1. \A j \in 1..Len(items) : items[j] # y
        BY <2>1, <3>2
      <4>2. PICK j \in 1..Len(items) : items'[k] = items[j]
        BY <2>1
      <4>3. QED
        BY <4>1, <4>2 DEF OrderInv
    <3>3. QED
      BY <3>1, <3>2
  <2>3. \A k \in 1..Len(items') : Delay[items'[k]] = 0 => due[items'[k]] <= clock
    <3> TAKE k \in 1..Len(items')
    <3>1. PICK j \in 1..Len(items) : items'[k] = items[j]
      BY <2>1
    <3>2. QED
      BY <3>1 DEF OrderInv
  <2>4. QED
    BY <2>1, <2>2, <2>3 DEF OrderInv
<1>4. ASSUME NEW t \in Threads, CallbackReturns(t) PROVE OrderInv'
  BY <1>4 DEF CallbackReturns, OrderInv, portVars
<1>5. CASE UNCHANGED <<items, cur, rank, issued, due, finished>> /\ clock' >= clock
  <2>1. clock' \in Nat
    BY <1>0, NextTypeOK, PortConstants DEF TypeOK
  <2>2. QED
    BY <1>0, <1>5, <2>1 DEF OrderInv
<1>6. QED
  BY <1>1, <1>2, <1>3, <1>4, <1>5, RingSteps

-----------------------------------------------------------------------------
(* The theorems                                                             *)

\* The inductive invariant holds before open.
LEMMA InitIInv == Init => IInv
<1> SUFFICES ASSUME Init PROVE IInv
  OBVIOUS
<1>1. TypeOK /\ ThreadInv
  BY InitBase
<1>2. /\ Len(items) = 0 /\ issued = 0 /\ finished = {}
      /\ \A t \in Threads : cur[t] = Nil
      /\ \A x \in Callbacks : rank[x] = 0
  BY DEF Init
<1>3. OnceInv /\ OrderInv
  BY <1>2 DEF OnceInv, OrderInv
<1>4. QED
  BY <1>1, <1>3 DEF IInv

\* The conjunction is inductive.
THEOREM InvariantHolds == Spec => []IInv
<1>1. IInv /\ [Next]_vars => IInv'
  BY NextTypeOK, NextThreadInv, NextOnceInv, NextOrderInv DEF IInv
<1>2. QED
  BY InitIInv, <1>1, PTL DEF Spec

\* Types are kept; in particular submit never overfills the ring.
THEOREM TypesHold == Spec => []TypeOK
<1>1. IInv => TypeOK
  BY DEF IInv
<1>2. QED
  BY <1>1, InvariantHolds, PTL

\* The port neither loses a callback nor hands it out twice, for every capacity, number of
\* workers and mix of delays.
THEOREM CallbacksKept == Spec => []OnceOnly
<1>1. IInv => OnceOnly
  <2> SUFFICES ASSUME TypeOK, ThreadInv, OnceInv, NEW x \in Callbacks
               PROVE  /\ \A i, j \in Position(x) : i = j
                      /\ \A t, u \in Callers(x) : t = u
                      /\ Position(x) # {} => rank[x] # 0 /\ Callers(x) = {}
                      /\ x \in finished => Position(x) = {} /\ Callers(x) = {}
                      /\ rank[x] # 0 => Position(x) # {} \/ Callers(x) # {} \/ x \in finished
    BY DEF IInv, OnceOnly
  <2>1. x # Nil
    BY PortConstants
  <2>2. QED
    BY <2>1 DEF OnceInv, Position, Callers
<1>2. QED
  BY <1>1, InvariantHolds, PTL

\* Undelayed callbacks leave the ring in the order submit accepted them, although due()
\* swaps delayed ones about.
THEOREM UndelayedKeepOrder == Spec => []UndelayedInOrder
<1>1. IInv => UndelayedInOrder
  BY DEF IInv, OrderInv, UndelayedInOrder, Position
<1>2. QED
  BY <1>1, InvariantHolds, PTL

\* A stopped port may be opened again: stop leaves neither callbacks nor workers behind.
THEOREM StopQuiets == Spec => []StoppedIsQuiet
<1>1. IInv => StoppedIsQuiet
  BY DEF IInv, TypeOK, ThreadInv, StoppedIsQuiet, Threads
<1>2. QED
  BY <1>1, InvariantHolds, PTL

-----------------------------------------------------------------------------
(* Wake-ups                                                                 *)

\* The modes in which a port has workers.
PoolModes == {"async", "thread_pool", "serialized_thread_pool"}

\* Clients wait only where they dispatch, workers are there in the pool modes only, and one
\* leaves only when the port is terminated and there is nothing left to take: it dispatches
\* without a deadline.
WakeInv ==
    /\ NoLostWakeup
    /\ \A c \in Clients : pc[c] \in {"waiting", "woken"} => mode \in DispatchModes
    /\ workers # {} => mode \in PoolModes
    /\ \A w \in workers : pc[w] # "idle" /\ (pc[w] = "exited" => terminated /\ items = <<>>)
    /\ \A w \in Workers : pc[w] \in {"waiting", "woken"} => deadline[w] = Never

\* A worker that does not sleep is up, as long as there is something to take.
LEMMA WorkersUp ==
  ASSUME TypeOK, ThreadInv, WakeInv, items # <<>>, NEW w \in workers, pc[w] # "waiting"
  PROVE  pc[w] \in {"loop", "running", "woken"}
BY DEF TypeOK, ThreadInv, WakeInv

\* A turn of dispatch that finds nothing in a terminated port finds it empty.
LEMMA NothingLeft ==
  ASSUME TypeOK, terminated, DuePositions = {}
  PROVE  items = <<>>
<1>1. items \in Seq(Callbacks)
  BY DEF TypeOK
<1>2. ASSUME items # <<>> PROVE FALSE
  <2>1. 1 \in 1..Len(items)
    BY <1>1, <1>2
  <2>2. 1 \in DuePositions
    BY <2>1 DEF DuePositions
  <2>3. QED
    BY <2>2
<1>3. QED
  BY <1>2

\* A step that touches neither the ring nor the workers keeps somebody on the way, if it
\* leaves whoever was.
LEMMA StillOnTheWay ==
  ASSUME NoLostWakeup, UNCHANGED <<items, due, workers, stopping>>,
         \A c \in Clients : pc[c] \in {"wake_one", "wake_all", "stop"} => pc'[c] = pc[c],
         \A w \in workers :
            /\ pc[w] \in {"loop", "running", "woken"} => pc'[w] \in {"loop", "running", "woken"}
            /\ pc[w] = "waiting" => \/ pc'[w] = "woken"
                                    \/ pc'[w] = "waiting" /\ alarm'[w] = alarm[w],
         \A c \in stopping : pc[c] \in {"join", "drain"} => pc'[c] = pc[c]
  PROVE  NoLostWakeup'
<1>1. Earliest' = Earliest
  BY DEF Earliest, Queued, Range
<1>2. QED
  BY <1>1 DEF NoLostWakeup

\* No step loses the wake-up of a port that only its workers dispatch.
LEMMA NextWakeInv ==
  ASSUME DispatchModes \cap PoolModes = {}, TypeOK, ThreadInv, WakeInv, [Next]_vars
  PROVE  WakeInv'
<1> USE PortConstants DEF portVars, historyVars, threadVars
<1> items \in Seq(Callbacks) /\ pc \in [Threads -> States] /\ alarm \in [Threads -> 0..Never]
    /\ deadline \in [Threads -> 0..Never] /\ Workers \subseteq Threads
    /\ workers \subseteq Workers /\ stopping \subseteq Clients /\ clock \in 0..MaxClock
    /\ workers \subseteq Threads /\ Clients \subseteq Threads /\ Clients \cap Workers = {}
  BY DEF TypeOK, Threads, Workers
<1>0. workers # {} => \A c \in Clients : pc[c] \notin {"waiting", "woken"}
  BY DEF WakeInv
<1>1. ASSUME NEW m \in Modes, NEW n \in 0..MaxWorkers, Open(m, n) PROVE WakeInv'
  <2>1. n # 0 => m \in PoolModes
    BY <1>1 DEF Open, worker_count, PoolModes, AllModes
  <2>2. /\ items' = <<>> /\ workers' = 1..n /\ mode' = m
        /\ \A t \in Threads : pc'[t] = IF t \in 1..n THEN "loop" ELSE "idle"
    BY <1>1 DEF Open
  <2>3. 1..n \subseteq Workers /\ (1..n # {} => n # 0)
    BY DEF Workers
  <2>4. QED
    BY <2>1, <2>2, <2>3 DEF WakeInv, NoLostWakeup, Threads
<1>2. ASSUME NEW c \in Clients, NEW x \in Callbacks, SubmitInline(c, x) PROVE WakeInv'
  <2>1. /\ pc[c] = "idle" /\ pc' = [pc EXCEPT ![c] = "running"]
        /\ UNCHANGED <<items, due, workers, stopping, alarm, deadline, mode, terminated>>
    BY <1>2 DEF SubmitInline
  <2>2. NoLostWakeup'
    BY <2>1, StillOnTheWay DEF WakeInv
  <2>3. QED
    BY <2>1, <2>2 DEF WakeInv
<1>3. ASSUME NEW c \in Clients, NEW x \in Callbacks, Submit(c, x) PROVE WakeInv'
  <2>1. /\ pc[c] = "idle" /\ pc' = [pc EXCEPT ![c] = "wake_one"] /\ ~terminated
        /\ UNCHANGED <<workers, deadline, mode, terminated>>
    BY <1>3 DEF Submit
  <2>2. NoLostWakeup'
    BY <2>1 DEF NoLostWakeup
  <2>3. QED
    BY <2>1, <2>2 DEF WakeInv
<1>4. ASSUME NEW c \in Clients, Terminate(c) \/ Stop(c) PROVE WakeInv'
  <2>1. /\ pc[c] = "idle" /\ terminated' = TRUE
        /\ pc' = [pc EXCEPT ![c] = "wake_all"] \/ pc' = [pc EXCEPT ![c] = "stop"]
        /\ UNCHANGED <<items, workers, deadline, mode>>
    BY <1>4 DEF Terminate, Stop
  <2>2. NoLostWakeup'
    BY <2>1 DEF NoLostWakeup
  <2>3. QED
    BY <2>1, <2>2 DEF WakeInv
<1>5. ASSUME NEW c \in Clients, WakeOne(c) PROVE WakeInv'
  <2>1. /\ pc[c] = "wake_one"
        /\ UNCHANGED <<items, due, workers, stopping, alarm, deadline, mode, terminated>>
    BY <1>5 DEF WakeOne
  <2>2. CASE /\ \A t \in Threads : pc[t] # "waiting"
             /\ pc' = [pc EXCEPT ![c] = "idle"]
    <3>1. NoLostWakeup'
      <4>1. SUFFICES ASSUME items # <<>>, NEW w \in workers
                     PROVE  pc'[w] \in {"loop", "running", "woken"}
        BY <2>1 DEF NoLostWakeup
      <4>2. QED
        BY <2>2, <4>1, WorkersUp
    <3>2. QED
      BY <2>1, <2>2, <3>1 DEF WakeInv
  <2>3. ASSUME NEW t \in Threads, pc[t] = "waiting",
               pc' = [pc EXCEPT ![c] = "idle", ![t] = "woken"]
        PROVE  WakeInv'
    <3>1. /\ t # c /\ pc'[t] = "woken" /\ pc'[c] = "idle"
          /\ \A u \in Threads \ {t, c} : pc'[u] = pc[u]
      BY <2>1, <2>3
    <3>2. NoLostWakeup'
      <4>1. SUFFICES ASSUME workers # {} PROVE t \in workers
        BY <2>1, <3>1 DEF NoLostWakeup
      <4>2. QED
        BY <1>0, <2>3, <4>1 DEF ThreadInv, Threads
    <3>3. QED
      BY <2>1, <2>3, <3>1, <3>2 DEF WakeInv
  <2>4. QED
    BY <1>5, <2>2, <2>3 DEF WakeOne
<1>6. ASSUME NEW c \in Clients, WakeAll(c) PROVE WakeInv'
  <2>1. /\ pc[c] \in {"wake_all", "stop"} /\ pc'[c] \in {"idle", "join"}
        /\ \A t \in Threads \ {c} : pc'[t] = IF pc[t] = "waiting" THEN "woken" ELSE pc[t]
        /\ UNCHANGED <<items, due, workers, stopping, alarm, deadline, mode, terminated>>
    BY <1>6 DEF WakeAll
  <2>2. NoLostWakeup'
    <3>1. SUFFICES ASSUME items # <<>>, NEW w \in workers
                   PROVE  pc'[w] \in {"loop", "running", "woken"}
      BY <2>1 DEF NoLostWakeup
    <3>2. QED
      BY <2>1, <3>1, WorkersUp
  <2>3. QED
    BY <2>1, <2>2 DEF WakeInv
<1>7. ASSUME NEW c \in Clients, Join(c) PROVE WakeInv'
  <2>1. pc' = [pc EXCEPT ![c] = "drain"] /\ workers' = {} /\ UNCHANGED <<mode, deadline>>
    BY <1>7 DEF Join
  <2>2. QED
    BY <2>1 DEF WakeInv, NoLostWakeup
<1>8. ASSUME NEW c \in Clients, StopReturns(c) PROVE WakeInv'
  <2>1. /\ pc[c] = "drain" /\ pc' = [pc EXCEPT ![c] = "idle"]
        /\ UNCHANGED <<workers, mode, deadline>>
    BY <1>8 DEF StopReturns
  <2>2. workers = {}
    BY <2>1 DEF ThreadInv
  <2>3. QED
    BY <2>1, <2>2 DEF WakeInv, NoLostWakeup
<1>9. ASSUME NEW t \in Threads, Looking(t), Take(t) PROVE WakeInv'
  <2>1. /\ pc' = [pc EXCEPT ![t] = "running"]
        /\ deadline' = [deadline EXCEPT ![t] = 0]
        /\ UNCHANGED <<mode, terminated, workers, stopping>>
    BY <1>9 DEF Take
  <2>2. items # <<>>
    BY <1>9 DEF Take, DuePositions
  <2>3. NoLostWakeup'
    <3>1. SUFFICES ASSUME workers # {} PROVE t \in workers
      BY <2>1 DEF NoLostWakeup
    <3>2. t \notin Clients
      BY <1>0, <1>9, <3>1 DEF Looking, ThreadInv, WakeInv
    <3>3. QED
      BY <1>9, <3>2 DEF Looking, ThreadInv, Threads
  <2>4. \A w \in workers : pc[w] # "exited"
    BY <2>2 DEF WakeInv
  <2>5. QED
    BY <2>1, <2>3, <2>4 DEF WakeInv
<1>10. ASSUME NEW t \in Threads, NEW l \in Limit(t), Looking(t), pc[t] # "drain", GiveUp(t, l)
       PROVE  WakeInv'
  <2>1. /\ pc' = [pc EXCEPT ![t] = AfterDispatch(t)]
        /\ alarm' = [alarm EXCEPT ![t] = 0] /\ deadline' = [deadline EXCEPT ![t] = 0]
        /\ UNCHANGED <<items, due, workers, stopping, mode, terminated>>
    BY <1>10 DEF GiveUp
  <2>2. CASE t \in Clients
    <3>1. pc[t] \in {"idle", "woken"} /\ pc'[t] = "idle" /\ \A u \in Threads \ {t} : pc'[u] = pc[u]
      BY <1>10, <2>1, <2>2 DEF Looking, AfterDispatch, ThreadInv
    <3>2. NoLostWakeup'
      BY <2>1, <2>2, <3>1, StillOnTheWay DEF WakeInv
    <3>3. QED
      BY <2>1, <2>2, <3>1, <3>2 DEF WakeInv
  <2>3. CASE t \in Workers
    <3>1. pc'[t] = "exited" /\ \A u \in Threads \ {t} : pc'[u] = pc[u]
      BY <2>1, <2>3 DEF AfterDispatch
    <3>2. CASE terminated
      <4>1. items = <<>>
        BY <1>10, <3>2, NothingLeft DEF GiveUp
      <4>2. QED
        BY <2>1, <2>3, <3>1, <3>2, <4>1 DEF WakeInv, NoLostWakeup
    <3>3. CASE ~terminated
      <4>1. l = Never
        BY <1>10, <2>3 DEF Limit, WakeInv
      <4>2. QED
        BY <1>10, <3>3, <4>1 DEF GiveUp, SecondReading, Never
    <3>4. QED
      BY <3>2, <3>3
  <2>4. QED
    BY <2>2, <2>3 DEF Threads
<1>11. ASSUME NEW t \in Threads, NEW l \in Limit(t), Looking(t), pc[t] # "drain", Sleep(t, l)
       PROVE  WakeInv'
  <2>1. /\ pc' = [pc EXCEPT ![t] = "waiting"]
        /\ alarm' = [alarm EXCEPT ![t] = Min(l, Earliest)]
        /\ deadline' = [deadline EXCEPT ![t] = l]
        /\ UNCHANGED <<items, due, workers, stopping, mode, terminated>>
    BY <1>11 DEF Sleep
  <2>2. CASE t \in Clients
    <3>1. /\ pc[t] \in {"idle", "woken"} /\ mode \in DispatchModes
          /\ \A u \in Threads \ {t} : pc'[u] = pc[u]
      BY <1>11, <2>1, <2>2 DEF Looking, ThreadInv, WakeInv
    <3>2. NoLostWakeup'
      BY <2>1, <2>2, <3>1, StillOnTheWay DEF WakeInv
    <3>3. QED
      BY <2>1, <2>2, <3>1, <3>2 DEF WakeInv
  <2>3. CASE t \in Workers
    <3>1. Earliest \in Nat /\ Earliest' = Earliest
      BY <2>1, EarliestType DEF Earliest, Queued, Range
    <3>2. l = Never /\ l \in Nat
      <4>1. l = Never
        BY <1>11, <2>3 DEF Limit, WakeInv
      <4>2. QED
        BY <4>1 DEF Never
    <3>3. alarm'[t] <= Earliest'
      BY <2>1, <3>1, <3>2 DEF Min
    <3>4. t \in workers
      BY <1>11, <2>3 DEF Looking, ThreadInv
    <3>5. NoLostWakeup'
      BY <2>1, <3>3, <3>4 DEF NoLostWakeup
    <3>6. QED
      BY <2>1, <2>3, <3>2, <3>5 DEF WakeInv
  <2>4. QED
    BY <2>2, <2>3 DEF Threads
<1>12. ASSUME NEW t \in Threads, WaitTimesOut(t) \/ WakeSpuriously(t) PROVE WakeInv'
  <2>1. /\ pc[t] = "waiting" /\ pc' = [pc EXCEPT ![t] = "woken"]
        /\ UNCHANGED <<items, due, workers, stopping, alarm, deadline, mode, terminated>>
    BY <1>12 DEF WaitTimesOut, WakeSpuriously
  <2>2. NoLostWakeup'
    BY <2>1, StillOnTheWay DEF WakeInv
  <2>3. QED
    BY <2>1, <2>2 DEF WakeInv
<1>13. ASSUME NEW t \in Threads, CallbackReturns(t) PROVE WakeInv'
  <2>1. /\ pc[t] = "running" /\ pc'[t] = (IF t \in Workers THEN "loop"
                                          ELSE IF t \in stopping THEN "drain" ELSE "idle")
        /\ \A u \in Threads \ {t} : pc'[u] = pc[u]
        /\ UNCHANGED <<items, due, workers, stopping, alarm, deadline, mode, terminated>>
    BY <1>13 DEF CallbackReturns
  <2>2. NoLostWakeup'
    BY <2>1, StillOnTheWay DEF WakeInv
  <2>3. QED
    BY <2>1, <2>2 DEF WakeInv
<1>14. CASE Tick \/ UNCHANGED vars
  <2>1. UNCHANGED <<items, due, workers, stopping, alarm, deadline, mode, terminated, pc>>
    BY <1>14 DEF Tick, vars
  <2>2. NoLostWakeup'
    BY <2>1, StillOnTheWay DEF WakeInv
  <2>3. QED
    BY <2>1, <2>2 DEF WakeInv
<1>15. QED
  BY Steps, <1>1, <1>2, <1>3, <1>4, <1>5, <1>6, <1>7, <1>8, <1>9, <1>10, <1>11, <1>12, <1>13, <1>14

\* For every number of workers, submitters and callbacks: as long as the workers of a port
\* are the only ones that dispatch it, no interleaving of submit's wake_one after its unlock
\* with waits, timeouts, terminate and stop leaves callbacks behind sleeping workers.
THEOREM WakeupsReachWorkers ==
  ASSUME DispatchModes \cap PoolModes = {}
  PROVE  Spec => []NoLostWakeup
<1>1. Init => WakeInv
  <2> SUFFICES ASSUME Init PROVE WakeInv
    OBVIOUS
  <2>1. workers = {} /\ \A t \in Threads : pc[t] = "idle"
    BY DEF Init
  <2>2. QED
    BY <2>1 DEF WakeInv, NoLostWakeup, Threads
<1>2. IInv /\ WakeInv /\ [Next]_vars => WakeInv'
  BY NextWakeInv DEF IInv
<1>3. WakeInv => NoLostWakeup
  BY DEF WakeInv
<1>4. QED
  BY <1>1, <1>2, <1>3, InvariantHolds, PTL DEF Spec

-----------------------------------------------------------------------------
(* The port implements the abstract queue                                   *)

\* Callbacks are dismissed only by a port that was terminated.
CanceledInv == canceled => terminated

\* Only a terminated port starts to dismiss callbacks.
LEMMA NextCanceledInv == CanceledInv /\ [Next]_vars => CanceledInv'
<1> SUFFICES ASSUME CanceledInv, [Next]_vars PROVE CanceledInv'
  OBVIOUS
<1> USE DEF CanceledInv, portVars, historyVars, threadVars
<1>1. ASSUME NEW m \in Modes, NEW n \in 0..MaxWorkers, Open(m, n) PROVE CanceledInv'
  BY <1>1 DEF Open
<1>2. ASSUME NEW c \in Clients, NEW x \in Callbacks, SubmitInline(c, x) \/ Submit(c, x)
      PROVE  CanceledInv'
  BY <1>2 DEF SubmitInline, Submit
<1>3. ASSUME NEW c \in Clients,
             Terminate(c) \/ Stop(c) \/ WakeOne(c) \/ WakeAll(c) \/ Join(c) \/ StopReturns(c)
      PROVE  CanceledInv'
  BY <1>3 DEF Terminate, Stop, WakeOne, WakeAll, Join, StopReturns
<1>4. ASSUME NEW t \in Threads,
             Take(t) \/ WaitTimesOut(t) \/ WakeSpuriously(t) \/ CallbackReturns(t)
      PROVE  CanceledInv'
  BY <1>4 DEF Take, WaitTimesOut, WakeSpuriously, CallbackReturns
<1>5. ASSUME NEW t \in Threads, NEW l, GiveUp(t, l) \/ Sleep(t, l) PROVE CanceledInv'
  BY <1>5 DEF GiveUp, Sleep
<1>6. CASE Tick \/ UNCHANGED vars
  BY <1>6 DEF Tick, vars
<1>7. QED
  BY Steps, <1>1, <1>2, <1>3, <1>4, <1>5, <1>6

\* Every step of the port is a step of the abstract queue or invisible to it.
LEMMA StepRefines ==
  ASSUME IInv, CanceledInv, [Next]_vars, IInv'
  PROVE  [Abstract!Next]_(Abstract!vars)
<1> DEFINE Closed == terminated \/ ~opened
           Unseen == UNCHANGED <<Queued, Running, finished, dismissed, rank, issued, due>>
<1>0. /\ items \in Seq(Callbacks) /\ Len(items) \in Nat /\ clock \in Nat /\ MaxClock \in Nat
      /\ cur \in [Threads -> Callbacks \cup {Nil}] /\ rank \in [Callbacks -> Nat]
      /\ clock' \in 0..MaxClock /\ Nil \notin Callbacks /\ Clients \subseteq Threads
  BY PortConstants DEF IInv, TypeOK, Threads
<1>1. CASE Unseen /\ Closed' = Closed /\ clock' >= clock
  <2>1. CASE clock' = clock
    BY <1>1, <2>1 DEF Abstract!vars
  <2>2. CASE clock' # clock
    BY <1>0, <1>1, <2>2 DEF Abstract!Next, Abstract!Pass, Never
  <2>3. QED
    BY <2>1, <2>2
<1>2. CASE Unseen /\ clock' = clock /\ Closed' = TRUE
  BY <1>2 DEF Abstract!Next, Abstract!Close
<1> USE DEF portVars, historyVars, threadVars
<1>3. ASSUME NEW m \in Modes, NEW n \in 0..MaxWorkers, Open(m, n)
      PROVE  Abstract!Reopen
  <2>1. ~opened /\ items = <<>> /\ items' = <<>> /\ opened' = TRUE /\ terminated' = FALSE
    BY <1>3 DEF Open, IInv, ThreadInv
  <2>2. Queued = {} /\ Queued' = {}
    BY <2>1 DEF Queued, Range
  <2>3. UNCHANGED <<cur, finished, dismissed, rank, issued, due, clock>>
    BY <1>3 DEF Open
  <2>4. Running' = Running
    BY <2>3 DEF Running
  <2>5. QED
    BY <2>1, <2>2, <2>3, <2>4 DEF Abstract!Reopen
<1>4. ASSUME NEW c \in Clients, NEW x \in Callbacks, SubmitInline(c, x)
      PROVE  Abstract!CallInline(x)
  <2>1. /\ Fresh(x) /\ cur[c] = Nil /\ cur' = [cur EXCEPT ![c] = x]
        /\ UNCHANGED <<items, terminated, opened, finished, dismissed, rank, issued, due, clock>>
    BY <1>0, <1>4 DEF SubmitInline, IInv, ThreadInv
  <2>2. Running' = Running \cup {x}
    BY <1>0, <2>1 DEF Running
  <2>3. Queued' = Queued
    BY <2>1 DEF Queued, Range
  <2>4. QED
    BY <2>1, <2>2, <2>3 DEF Abstract!CallInline, Abstract!Fresh, Fresh
<1>5. ASSUME NEW c \in Clients, NEW x \in Callbacks, Submit(c, x)
      PROVE  Abstract!Accept(x)
  <2>1. /\ Fresh(x) /\ opened /\ ~terminated /\ items' = Append(items, x)
        /\ issued' = issued + 1 /\ rank' = [rank EXCEPT ![x] = issued']
        /\ due' = [due EXCEPT ![x] = clock + Delay[x]]
        /\ UNCHANGED <<cur, terminated, opened, finished, dismissed, clock>>
    BY <1>5 DEF Submit
  <2>2. Queued' = Queued \cup {x}
    <3>1. /\ items' \in Seq(Callbacks) /\ Len(items') = Len(items) + 1
          /\ items'[Len(items) + 1] = x
          /\ \A i \in 1..Len(items) : items'[i] = items[i]
      BY <1>0, <2>1
    <3>2. \A k \in 1..Len(items') : k \in 1..Len(items) \/ k = Len(items) + 1
      BY <1>0, <3>1
    <3>3. 1..Len(items) \subseteq 1..Len(items') /\ Len(items) + 1 \in 1..Len(items')
      BY <1>0, <3>1
    <3>4. DOMAIN items = 1..Len(items) /\ DOMAIN items' = 1..Len(items')
      BY <1>0, <3>1
    <3>5. QED
      BY <3>1, <3>2, <3>3, <3>4 DEF Queued, Range
  <2>3. Running' = Running
    BY <2>1 DEF Running
  <2>4. QED
    BY <2>1, <2>2, <2>3 DEF Abstract!Accept, Abstract!Fresh, Fresh
<1>6. ASSUME NEW t \in Threads, Take(t), Looking(t)
      PROVE  \E x \in Callbacks : Abstract!Call(x)
  <2>1. cur[t] = Nil
    BY <1>6 DEF Looking, IInv, ThreadInv
  <2>2. PICK i \in 1..Len(items) :
           /\ cur' = [cur EXCEPT ![t] = items[i]]
           /\ \A k \in 1..Len(items') : \E j \in 1..Len(items) :
                 j # i /\ items'[k] = items[j]
           /\ \A j \in 1..Len(items) : j # i => \E k \in 1..Len(items') : items'[k] = items[j]
           /\ \A k \in 1..Len(items') :
                 Delay[items[i]] = 0 /\ Delay[items'[k]] = 0
                    => rank[items[i]] < rank[items'[k]]
           /\ UNCHANGED <<rank, issued, due, finished, clock>>
    BY <1>6, TakeFacts DEF IInv
  <2> DEFINE x == items[i]
  <2>3. /\ x \in Callbacks /\ DOMAIN items = 1..Len(items)
        /\ DOMAIN items' = 1..Len(items') /\ rank[x] \in Nat
    <3>1. items' \in Seq(Callbacks)
      BY DEF IInv, TypeOK
    <3>2. QED
      BY <1>0, <3>1
  <2>4. Queued' = Queued \ {x} /\ x \in Queued
    <3>1. \A j \in 1..Len(items) : j # i => items[j] # items[i]
      BY DEF IInv, OnceInv
    <3>2. \A y : y \in Queued <=> \E j \in 1..Len(items) : items[j] = y
      BY <2>3 DEF Queued, Range
    <3>3. \A y : y \in Queued' <=> \E k \in 1..Len(items') : items'[k] = y
      BY <2>3 DEF Queued, Range
    <3>4. ASSUME NEW y, y \in Queued' PROVE y \in Queued /\ y # x
      <4>1. PICK k \in 1..Len(items') : items'[k] = y
        BY <3>3, <3>4
      <4>2. PICK j \in 1..Len(items) : j # i /\ items'[k] = items[j]
        BY <2>2
      <4>3. QED
        BY <3>1, <3>2, <4>1, <4>2
    <3>5. \A y : y \in Queued /\ y # x => y \in Queued'
      BY <2>2, <3>2, <3>3
    <3>6. x \in Queued
      BY <3>2
    <3>7. QED
      BY <3>4, <3>5, <3>6
  <2>5. Running' = Running \cup {x}
    BY <1>0, <2>1, <2>2, <2>3 DEF Running
  <2>6. \A y \in Queued : Delay[x] = 0 /\ Delay[y] = 0 => rank[x] <= rank[y]
    <3>1. \A j \in 1..Len(items) :
             j # i /\ Delay[x] = 0 /\ Delay[items[j]] = 0 => rank[x] < rank[items[j]]
      BY <2>2
    <3>2. \A j \in 1..Len(items) : rank[items[j]] \in Nat
      BY <1>0
    <3>3. \A j \in 1..Len(items) :
             Delay[x] = 0 /\ Delay[items[j]] = 0 => rank[x] <= rank[items[j]]
      BY <2>3, <3>1, <3>2
    <3>4. QED
      BY <2>3, <3>3 DEF Queued, Range
  <2>7. PICK k \in DuePositions :
           /\ cur' = [cur EXCEPT ![t] = items[k]]
           /\ dismissed' = IF canceled THEN dismissed \cup {items[k]} ELSE dismissed
    BY <1>6 DEF Take
  <2>8. items[k] = x
    BY <1>0, <2>2, <2>7
  <2>9. terminated \/ due[x] <= clock
    BY <2>7, <2>8 DEF DuePositions
  <2>10. dismissed' = dismissed \/ (terminated /\ dismissed' = dismissed \cup {x})
    BY <2>7, <2>8 DEF CanceledInv
  <2>11. UNCHANGED <<terminated, opened>>
    BY <1>6 DEF Take
  <2> HIDE DEF x
  <2>12. Abstract!Call(x)
    BY <2>2, <2>4, <2>5, <2>6, <2>9, <2>10, <2>11 DEF Abstract!Call, Abstract!Undelayed
  <2>13. QED
    BY <2>3, <2>12
<1>7. ASSUME NEW t \in Threads, CallbackReturns(t)
      PROVE  \E x \in Callbacks : Abstract!Return(x)
  <2>1. cur[t] \in Callbacks
    BY <1>0, <1>7 DEF CallbackReturns, IInv, ThreadInv
  <2>2. /\ cur' = [cur EXCEPT ![t] = Nil] /\ finished' = finished \cup {cur[t]}
        /\ UNCHANGED <<items, terminated, opened, dismissed, rank, issued, due, clock>>
    BY <1>7 DEF CallbackReturns
  <2>3. Running' = Running \ {cur[t]} /\ cur[t] \in Running
    BY <1>0, <2>1, <2>2 DEF Running, IInv, OnceInv
  <2>4. Queued' = Queued
    BY <2>2 DEF Queued, Range
  <2>5. Abstract!Return(cur[t])
    BY <2>2, <2>3, <2>4 DEF Abstract!Return
  <2>6. QED
    BY <2>1, <2>5
<1>8. ASSUME NEW c \in Clients, WakeOne(c) \/ WakeAll(c) \/ Join(c)
      PROVE  Unseen /\ Closed' = Closed /\ clock' = clock
  BY <1>8 DEF WakeOne, WakeAll, Join, Queued, Range, Running
<1>9. ASSUME NEW c \in Clients, Terminate(c) \/ Stop(c)
      PROVE  Unseen /\ Closed' = TRUE /\ clock' = clock
  BY <1>9 DEF Terminate, Stop, Queued, Range, Running
<1>10. ASSUME NEW c \in Clients, StopReturns(c)
       PROVE  Unseen /\ Closed' = TRUE /\ clock' = clock
  BY <1>10 DEF StopReturns, Queued, Range, Running
<1>11. ASSUME NEW t \in Threads, WaitTimesOut(t) \/ WakeSpuriously(t)
       PROVE  Unseen /\ Closed' = Closed /\ clock' = clock
  BY <1>11 DEF WaitTimesOut, WakeSpuriously, Queued, Range, Running
<1>12. ASSUME NEW t \in Threads, NEW l, GiveUp(t, l) \/ Sleep(t, l)
       PROVE  Unseen /\ Closed' = Closed /\ clock' >= clock
  <2>1. clock' >= clock
    BY <1>0, <1>12 DEF GiveUp, Sleep, SecondReading
  <2>2. UNCHANGED <<items, cur, terminated, opened, finished, dismissed, rank, issued, due>>
    BY <1>12 DEF GiveUp, Sleep
  <2>3. QED
    BY <2>1, <2>2 DEF Queued, Range, Running
<1>13. CASE Tick
  <2>1. Unseen /\ Closed' = Closed
    BY <1>13 DEF Tick, Queued, Range, Running
  <2>2. clock' >= clock
    BY <1>0, <1>13 DEF Tick
  <2>3. QED
    BY <1>1, <2>1, <2>2
<1>14. CASE UNCHANGED vars
  BY <1>14 DEF vars, Abstract!vars, Queued, Range, Running
<1>15. clock' = clock => clock' >= clock
  BY <1>0
<1>16. QED
  BY Steps, <1>1, <1>2, <1>3, <1>4, <1>5, <1>6, <1>7, <1>8, <1>9, <1>10, <1>11, <1>12,
     <1>13, <1>14, <1>15 DEF Abstract!Next

\* The port implements the abstract callback queue, for all values of the constants.
THEOREM PortRefines == Spec => ImplementsCallbackQueue
<1>1. Init => Abstract!Init /\ CanceledInv
  <2> SUFFICES ASSUME Init PROVE Abstract!Init /\ CanceledInv
    OBVIOUS
  <2>1. Queued = {} /\ Running = {}
    BY DEF Init, Queued, Range, Running
  <2>2. QED
    BY <2>1 DEF Init, Abstract!Init, CanceledInv
<1>2. IInv /\ CanceledInv /\ [Next]_vars /\ IInv' => [Abstract!Next]_(Abstract!vars)
  BY StepRefines
<1>3. QED
  BY <1>1, <1>2, NextCanceledInv, InvariantHolds, PTL
     DEF Spec, ImplementsCallbackQueue, Abstract!Spec

=============================================================================
