-------------------------- MODULE QueuePool_proofs --------------------------
(***************************************************************************)
(* For any number of threads, queues and ports: the pool's books agree     *)
(* with the queues alive, a port outlives every queue that refers to it    *)
(* and is given back once, and a queue outlives every handle on it.        *)
(***************************************************************************)
EXTENDS QueuePool, FiniteSetTheorems, TLAPS

-----------------------------------------------------------------------------
(* The inductive invariant                                                  *)

Used == {j \in Ports : port_used[j]}
Made == {q \in Queues : made_used[q]}

\* BooksBalance, by the variables each part is about.
BorrowBooks == \A j \in Ports : port_borrows[j] = Cardinality(Borrowers(j))
OwnBooks ==
    \A j \in Ports : /\ port_owned[j] <=> Owners(j) # {}
                     /\ \A q, r \in Owners(j) : q = r
CountBooks == ports = Cardinality(Used) /\ queues = Cardinality(Made)

\* A thread on its way to release a queue took the last handle on it.
ReleaseInv ==
    \A t \in Threads : pc[t] = "release" =>
        /\ target[t] \in Queues /\ made_used[target[t]]
        /\ handles[target[t]] = 0 /\ target[t] # fallback

\* Whatever is, or was read as, the process queue has a handle that stays.
Kept(q) == q \in pinned \/ (q = fallback /\ q # None)
ProcessInv ==
    /\ \A q \in pinned : handles[q] > 0
    /\ process # None => Kept(process)
    /\ \A t \in Threads :
          /\ pc[t] = "duplicate" => IF target[t] = None THEN cleared ELSE Kept(target[t])
          /\ pc[t] = "publish" => fallback # None
          /\ pc[t] = "load" /\ process = None => cleared

\* Ports in use are stopped only by a release, or when the runtime goes down.
DownInv == \A t \in Threads : pc[t] = "stop_all" => down

IInv == /\ TypeOK /\ BorrowBooks /\ OwnBooks /\ CountBooks /\ HeldPortsStay
        /\ SpentPortsReturn /\ HandlesKeepQueues /\ ReleaseInv /\ ProcessInv /\ DownInv

-----------------------------------------------------------------------------
(* Counting                                                                 *)

\* The sets the books count are finite.
LEMMA FiniteBooks ==
  /\ \A j : IsFiniteSet(Borrowers(j)) /\ IsFiniteSet(Borrowers(j)')
  /\ IsFiniteSet(Used) /\ IsFiniteSet(Made) /\ IsFiniteSet(Made')
<1>1. IsFiniteSet(Queues) /\ IsFiniteSet(Ports)
  BY PoolConstants, FS_Interval DEF Queues, Ports
<1>2. IsFiniteSet(Sides)
  <2>1. Sides = ({} \cup {"work"}) \cup {"completion"}
    BY DEF Sides
  <2>2. IsFiniteSet({} \cup {"work"})
    BY FS_EmptySet, FS_AddElement
  <2>3. QED
    BY <2>1, <2>2, FS_AddElement
<1>3. IsFiniteSet(Queues \X Sides)
  BY <1>1, <1>2, FS_Product
<1>4. ASSUME NEW j PROVE IsFiniteSet(Borrowers(j)) /\ IsFiniteSet(Borrowers(j)')
  <2>1. Borrowers(j) \in SUBSET (Queues \X Sides) /\ Borrowers(j)' \in SUBSET (Queues \X Sides)
    BY DEF Borrowers
  <2>2. QED
    BY <2>1, <1>3, FS_Subset
<1>5. Used \in SUBSET Ports /\ Made \in SUBSET Queues /\ Made' \in SUBSET Queues
  BY DEF Used, Made
<1>6. QED
  BY <1>1, <1>4, <1>5, FS_Subset

\* Putting in, or taking out, one or two elements.
LEMMA CardPair ==
  ASSUME NEW S, IsFiniteSet(S), NEW x, NEW y, x # y
  PROVE  /\ x \notin S => Cardinality(S \cup {x}) = Cardinality(S) + 1
         /\ x \in S => Cardinality(S \ {x}) = Cardinality(S) - 1
         /\ x \notin S /\ y \notin S => Cardinality(S \cup {x, y}) = Cardinality(S) + 2
         /\ x \in S /\ y \in S => Cardinality(S \ {x, y}) = Cardinality(S) - 2
         /\ Cardinality(S) \in Nat
<1>1. /\ IsFiniteSet(S \cup {x}) /\ IsFiniteSet(S \ {x})
      /\ Cardinality(S \cup {x}) = IF x \in S THEN Cardinality(S) ELSE Cardinality(S) + 1
      /\ Cardinality(S \ {x}) = IF x \in S THEN Cardinality(S) - 1 ELSE Cardinality(S)
  BY FS_AddElement, FS_RemoveElement
<1>2. /\ Cardinality((S \cup {x}) \cup {y}) =
            IF y \in S \cup {x} THEN Cardinality(S \cup {x}) ELSE Cardinality(S \cup {x}) + 1
      /\ Cardinality((S \ {x}) \ {y}) =
            IF y \in S \ {x} THEN Cardinality(S \ {x}) - 1 ELSE Cardinality(S \ {x})
  BY <1>1, FS_AddElement, FS_RemoveElement
<1>3. (S \cup {x}) \cup {y} = S \cup {x, y} /\ (S \ {x}) \ {y} = S \ {x, y}
  OBVIOUS
<1>4. Cardinality(S) \in Nat
  BY FS_CardinalityType
<1>5. ASSUME x \notin S, y \notin S PROVE Cardinality(S \cup {x, y}) = Cardinality(S) + 2
  <2>1. y \notin S \cup {x}
    BY <1>5
  <2>2. QED
    BY <1>1, <1>2, <1>3, <1>4, <1>5, <2>1
<1>6. ASSUME x \in S, y \in S PROVE Cardinality(S \ {x, y}) = Cardinality(S) - 2
  <2>1. y \in S \ {x}
    BY <1>6
  <2>2. QED
    BY <1>1, <1>2, <1>3, <1>4, <1>6, <2>1
<1>7. QED
  BY <1>1, <1>4, <1>5, <1>6

\* The books hold while queues and ports stay as they are.
LEMMA BooksQuiet ==
  ASSUME BorrowBooks, OwnBooks, CountBooks,
         UNCHANGED <<made_used, made_owns, made_ports, queues, portVars>>
  PROVE  /\ BorrowBooks' /\ OwnBooks' /\ CountBooks'
         /\ \A j : Owners(j)' = Owners(j) /\ Borrowers(j)' = Borrowers(j)
<1>1. ASSUME NEW j PROVE Owners(j)' = Owners(j) /\ Borrowers(j)' = Borrowers(j)
  BY DEF Owners, Borrowers, PortsOf, portVars
<1>2. Used' = Used /\ Made' = Made
  BY DEF Used, Made, portVars
<1>3. QED
  BY <1>1, <1>2 DEF BorrowBooks, OwnBooks, CountBooks, portVars

\* Each side of a live queue is a claim on the port there.
LEMMA SidesClaim ==
  ASSUME NEW q \in Queues, made_used[q], NEW s \in Sides, made_ports[q][s] \in Ports
  PROVE  IF made_owns[q] THEN q \in Owners(made_ports[q][s])
                         ELSE <<q, s>> \in Borrowers(made_ports[q][s])
<1>1. made_ports[q][s] # None
  BY PoolConstants DEF Ports, None
<1>2. QED
  BY <1>1 DEF Owners, Borrowers, PortsOf

\* Spent ports stay those of their thread while claims, and the releases under way, do.
LEMMA SpentQuiet ==
  ASSUME SpentPortsReturn, port_used' = port_used,
         \A j : Owners(j)' = Owners(j) /\ Borrowers(j)' = Borrowers(j),
         \A u \in Threads : /\ Releasing(u)' <=> Releasing(u)
                            /\ Releasing(u) => done'[u] = done[u]
  PROVE  SpentPortsReturn'
BY DEF SpentPortsReturn

\* Handles and queues agree while they, and the releases to come, stay.
LEMMA HandlesQuiet ==
  ASSUME HandlesKeepQueues, ReleaseInv,
         UNCHANGED <<handles, references, made_used, fallback>>,
         \A u \in Threads : /\ pc'[u] = "release" <=> pc[u] = "release"
                            /\ pc[u] = "release" => target'[u] = target[u]
  PROVE  HandlesKeepQueues' /\ ReleaseInv'
BY DEF HandlesKeepQueues, ReleaseInv

\* A queue that is owed a reference gets one more: nobody is about to release it.
Owed(q) == handles[q] + (IF q = fallback THEN 1 ELSE 0)
LEMMA HandlesTake ==
  ASSUME TypeOK, HandlesKeepQueues, ReleaseInv, NEW q \in Queues, Owed(q) # 0,
         references' = [references EXCEPT ![q] = @ + 1],
         handles' = [handles EXCEPT ![q] = @ + 1],
         UNCHANGED <<made_used, fallback>>,
         \A u \in Threads : /\ pc'[u] = "release" <=> pc[u] = "release"
                            /\ pc[u] = "release" => target'[u] = target[u]
  PROVE  HandlesKeepQueues' /\ ReleaseInv'
<1>1. /\ handles'[q] = handles[q] + 1 /\ references'[q] = references[q] + 1
      /\ \A r \in Queues \ {q} : handles'[r] = handles[r] /\ references'[r] = references[r]
      /\ handles[q] \in Nat /\ references[q] \in Nat
  BY DEF TypeOK
<1>2. \A u \in Threads : pc[u] = "release" => target[u] # q
  BY DEF ReleaseInv, Owed
<1>3. ReleaseInv'
  BY <1>1, <1>2 DEF ReleaseInv
<1>4. made_used[q] /\ references[q] = Owed(q)
  BY DEF HandlesKeepQueues, Owed
<1>5. handles'[q] + (IF q = fallback THEN 1 ELSE 0) = Owed(q) + 1 /\ Owed(q) \in Nat
  BY <1>1 DEF Owed
<1>6. HandlesKeepQueues'
  BY <1>1, <1>2, <1>4, <1>5 DEF HandlesKeepQueues
<1>7. QED
  BY <1>3, <1>6

-----------------------------------------------------------------------------
(* Each step preserves the invariant: those that leave the books alone      *)

\* XTaskQueueDuplicateHandle.
LEMMA DuplicateStep ==
  ASSUME IInv, NEW t \in Threads, NEW q \in Queues, Duplicate(t, q)
  PROVE  IInv'
<1> USE DEF IInv
<1>1. UNCHANGED <<made_used, made_owns, made_ports, queues, portVars>>
  BY DEF Duplicate, poolVars
<1>2. BorrowBooks' /\ OwnBooks' /\ CountBooks'
  BY <1>1, BooksQuiet
<1>3. \A j : Owners(j)' = Owners(j) /\ Borrowers(j)' = Borrowers(j)
  BY <1>1, BooksQuiet
<1>4. TypeOK'
  BY DEF TypeOK, States, Duplicate, poolVars, portVars, threadVars
<1>5. HeldPortsStay'
  BY DEF HeldPortsStay, Duplicate, poolVars, portVars, threadVars
<1>6. SpentPortsReturn'
  <2>1. \A u \in Threads : /\ Releasing(u)' <=> Releasing(u)
                           /\ Releasing(u) => done'[u] = done[u]
    BY DEF Releasing, TypeOK, Duplicate, poolVars, portVars, threadVars
  <2>2. QED
    BY <1>1, <1>3, <2>1, SpentQuiet DEF portVars
<1>7. HandlesKeepQueues' /\ ReleaseInv'
  <2>1. Owed(q) # 0
    BY DEF Owed, TypeOK, Duplicate
  <2>2. QED
    BY <2>1, HandlesTake DEF Duplicate, threadVars
<1>8. ProcessInv'
  BY DEF ProcessInv, Kept, TypeOK, Duplicate, poolVars, portVars, threadVars, None
<1>9. DownInv'
  BY DEF DownInv, TypeOK, Duplicate, poolVars, portVars, threadVars
<1>10. QED
  BY <1>2, <1>4, <1>5, <1>6, <1>7, <1>8, <1>9

\* XTaskQueueCloseHandle: who drops the last reference goes on to release the queue.
LEMMA CloseStep ==
  ASSUME IInv, NEW t \in Threads, NEW q \in Queues, Close(t, q)
  PROVE  IInv'
<1> USE DEF IInv
<1>1. UNCHANGED <<made_used, made_owns, made_ports, queues, portVars>>
  BY DEF Close, poolVars
<1>2. BorrowBooks' /\ OwnBooks' /\ CountBooks'
  BY <1>1, BooksQuiet
<1>3. \A j : Owners(j)' = Owners(j) /\ Borrowers(j)' = Borrowers(j)
  BY <1>1, BooksQuiet
<1>4. TypeOK'
  <2>1. references[q] \in Nat \ {0} /\ handles[q] \in Nat \ {0}
    <3>1. handles[q] \in Nat \ {0}
      BY DEF TypeOK, Close
    <3>2. references[q] = Owed(q)
      BY <3>1 DEF HandlesKeepQueues, Owed
    <3>3. QED
      BY <3>1, <3>2 DEF Owed
  <2>2. references' \in [Queues -> Nat] /\ handles' \in [Queues -> Nat]
    <3>1. references[q] - 1 \in Nat /\ handles[q] - 1 \in Nat
      BY <2>1
    <3>2. /\ references' = [references EXCEPT ![q] = references[q] - 1]
          /\ handles' = [handles EXCEPT ![q] = handles[q] - 1]
      BY DEF Close
    <3>3. QED
      BY <3>1, <3>2 DEF TypeOK
  <2>3. pc' \in [Threads -> States] /\ target' \in [Threads -> Queues \cup {None}]
    BY DEF TypeOK, Close, States
  <2>4. QED
    BY <2>2, <2>3 DEF TypeOK, Close, portVars
<1>5. HeldPortsStay'
  BY DEF HeldPortsStay, Close, poolVars, portVars, threadVars
<1>6. SpentPortsReturn'
  <2>1. \A u \in Threads : /\ Releasing(u)' <=> Releasing(u)
                           /\ Releasing(u) => done'[u] = done[u]
    BY DEF Releasing, TypeOK, Close, poolVars, portVars, threadVars
  <2>2. QED
    BY <1>1, <1>3, <2>1, SpentQuiet DEF portVars
<1>7. HandlesKeepQueues' /\ ReleaseInv'
  <2> DEFINE own == IF q = fallback THEN 1 ELSE 0
  <2>1. references[q] = handles[q] + own /\ handles[q] \in Nat \ {0} /\ made_used[q]
    <3>1. handles[q] \in Nat \ {0}
      BY DEF TypeOK, Close
    <3>2. QED
      BY <3>1 DEF HandlesKeepQueues
  <2>2. \A u \in Threads : pc[u] = "release" => target[u] # q /\ u # t
    BY <2>1 DEF ReleaseInv, Close
  <2>3. /\ handles'[q] = handles[q] - 1 /\ references'[q] = references[q] - 1
        /\ \A r \in Queues \ {q} : handles'[r] = handles[r] /\ references'[r] = references[r]
        /\ made_used' = made_used /\ fallback' = fallback
    BY DEF TypeOK, Close
  <2>4. \A u \in Threads \ {t} : pc'[u] = pc[u] /\ target'[u] = target[u]
    BY DEF TypeOK, Close
  <2>5. CASE references[q] = 1
    <3>1. handles'[q] = 0 /\ q # fallback /\ references'[q] = 0
      BY <2>1, <2>3, <2>5
    <3>2. pc'[t] = "release" /\ target'[t] = q
      BY <2>5 DEF TypeOK, Close
    <3>3. ReleaseInv'
      BY <2>1, <2>2, <2>3, <2>4, <3>1, <3>2 DEF ReleaseInv
    <3>4. HandlesKeepQueues'
      <4>1. \A r \in Queues \ {q}, u \in Threads :
               (pc'[u] = "release" /\ target'[u] = r) <=> (pc[u] = "release" /\ target[u] = r)
        BY <2>4, <3>2 DEF Close
      <4>2. \A u \in Threads : (pc'[u] = "release" /\ target'[u] = q) => u = t
        BY <2>2, <2>4
      <4> DEFINE owed(r)   == handles[r] + (IF r = fallback THEN 1 ELSE 0)
                 owes(r)   == handles'[r] + (IF r = fallback THEN 1 ELSE 0)
                 goes(u, r) == pc[u] = "release" /\ target[u] = r
                 went(u, r) == pc'[u] = "release" /\ target'[u] = r
      <4>3. \A r \in Queues \ {q} :
               /\ owed(r) # 0 => made_used[r]
               /\ made_used[r] => references[r] = owed(r)
               /\ \A u, v \in Threads : goes(u, r) /\ goes(v, r) => u = v
               /\ made_used[r] /\ owed(r) = 0 => \E u \in Threads : goes(u, r)
        BY DEF HandlesKeepQueues
      <4>4. \A r \in Queues \ {q} : owes(r) = owed(r) /\ references'[r] = references[r]
        BY <2>3
      <4>5. owes(q) = 0 /\ references'[q] = 0
        BY <3>1
      <4>6. went(t, q)
        BY <3>2
      <4>7. SUFFICES ASSUME NEW r \in Queues
                     PROVE  /\ owes(r) # 0 => made_used[r]
                            /\ made_used[r] => references'[r] = owes(r)
                            /\ \A u, v \in Threads : went(u, r) /\ went(v, r) => u = v
                            /\ made_used[r] /\ owes(r) = 0 => \E u \in Threads : went(u, r)
        BY <2>3 DEF HandlesKeepQueues
      <4>8. \A u \in Threads : r # q => (went(u, r) <=> goes(u, r))
        BY <4>1
      <4>9. \A u \in Threads : went(u, q) => u = t
        BY <4>2
      <4> HIDE DEF owed, owes, goes, went
      <4>10. CASE r = q
        BY <4>5, <4>6, <4>9, <4>10
      <4>11. CASE r # q
        BY <4>3, <4>4, <4>8, <4>11, Zenon
      <4>12. QED
        BY <4>10, <4>11
    <3>5. QED
      BY <3>3, <3>4
  <2>6. CASE references[q] # 1
    <3>1. handles'[q] + own # 0 /\ references'[q] = handles'[q] + own
      BY <2>1, <2>3, <2>6
    <3>2. pc' = pc /\ target' = target
      BY <2>6 DEF Close
    <3>3. ReleaseInv'
      BY <2>2, <2>3, <3>2 DEF ReleaseInv
    <3>4. HandlesKeepQueues'
      BY <2>1, <2>2, <2>3, <3>1, <3>2 DEF HandlesKeepQueues
    <3>5. QED
      BY <3>3, <3>4
  <2>7. QED
    BY <2>5, <2>6
<1>8. ProcessInv'
  BY DEF ProcessInv, Kept, TypeOK, Close, poolVars, portVars, threadVars, None
<1>9. DownInv'
  BY DEF DownInv, TypeOK, Close, poolVars, portVars, threadVars
<1>10. QED
  BY <1>2, <1>4, <1>5, <1>6, <1>7, <1>8, <1>9

\* XTaskQueueSetCurrentProcessTaskQueue: the caller keeps a handle on the queue.
LEMMA SetProcessStep ==
  ASSUME IInv, NEW t \in Threads, NEW q \in Queues, SetProcess(t, q)
  PROVE  IInv'
<1> USE DEF IInv
<1>1. UNCHANGED <<made_used, made_owns, made_ports, queues, portVars>>
  BY DEF SetProcess, poolVars
<1>2. BorrowBooks' /\ OwnBooks' /\ CountBooks'
  BY <1>1, BooksQuiet
<1>3. \A j : Owners(j)' = Owners(j) /\ Borrowers(j)' = Borrowers(j)
  BY <1>1, BooksQuiet
<1>4. TypeOK'
  BY DEF TypeOK, States, SetProcess, poolVars, portVars, threadVars
<1>5. HeldPortsStay'
  BY DEF HeldPortsStay, SetProcess, poolVars, portVars, threadVars
<1>6. SpentPortsReturn'
  <2>1. \A u \in Threads : /\ Releasing(u)' <=> Releasing(u)
                           /\ Releasing(u) => done'[u] = done[u]
    BY DEF Releasing, TypeOK, SetProcess, poolVars, portVars, threadVars
  <2>2. QED
    BY <1>1, <1>3, <2>1, SpentQuiet DEF portVars
<1>7. HandlesKeepQueues' /\ ReleaseInv'
  <2>1. UNCHANGED <<handles, references, made_used, fallback>>
    BY DEF SetProcess, poolVars, portVars, threadVars
  <2>2. \A u \in Threads : /\ pc'[u] = "release" <=> pc[u] = "release"
                           /\ pc[u] = "release" => target'[u] = target[u]
    BY DEF TypeOK, SetProcess, poolVars, portVars, threadVars
  <2>3. QED
    BY <2>1, <2>2, HandlesQuiet
<1>8. ProcessInv'
  <2>1. q # None
    BY PoolConstants DEF Queues, None
  <2>2. QED
    BY <2>1 DEF ProcessInv, Kept, TypeOK, SetProcess, threadVars
<1>9. DownInv'
  BY DEF DownInv, TypeOK, SetProcess, poolVars, portVars, threadVars
<1>10. QED
  BY <1>2, <1>4, <1>5, <1>6, <1>7, <1>8, <1>9

\* XTaskQueueSetCurrentProcessTaskQueue with no queue.
LEMMA ClearProcessStep ==
  ASSUME IInv, NEW t \in Threads, ClearProcess(t)
  PROVE  IInv'
<1> USE DEF IInv
<1>1. UNCHANGED <<made_used, made_owns, made_ports, queues, portVars>>
  BY DEF ClearProcess, poolVars
<1>2. BorrowBooks' /\ OwnBooks' /\ CountBooks'
  BY <1>1, BooksQuiet
<1>3. \A j : Owners(j)' = Owners(j) /\ Borrowers(j)' = Borrowers(j)
  BY <1>1, BooksQuiet
<1>4. TypeOK'
  BY DEF TypeOK, States, ClearProcess, poolVars, portVars, threadVars
<1>5. HeldPortsStay'
  BY DEF HeldPortsStay, ClearProcess, poolVars, portVars, threadVars
<1>6. SpentPortsReturn'
  <2>1. \A u \in Threads : /\ Releasing(u)' <=> Releasing(u)
                           /\ Releasing(u) => done'[u] = done[u]
    BY DEF Releasing, TypeOK, ClearProcess, poolVars, portVars, threadVars
  <2>2. QED
    BY <1>1, <1>3, <2>1, SpentQuiet DEF portVars
<1>7. HandlesKeepQueues' /\ ReleaseInv'
  <2>1. UNCHANGED <<handles, references, made_used, fallback>>
    BY DEF ClearProcess, poolVars, portVars, threadVars
  <2>2. \A u \in Threads : /\ pc'[u] = "release" <=> pc[u] = "release"
                           /\ pc[u] = "release" => target'[u] = target[u]
    BY DEF TypeOK, ClearProcess, poolVars, portVars, threadVars
  <2>3. QED
    BY <2>1, <2>2, HandlesQuiet
<1>8. ProcessInv'
  BY DEF ProcessInv, Kept, TypeOK, ClearProcess, poolVars, portVars, threadVars, None
<1>9. DownInv'
  BY DEF DownInv, TypeOK, ClearProcess, poolVars, portVars, threadVars
<1>10. QED
  BY <1>2, <1>4, <1>5, <1>6, <1>7, <1>8, <1>9

\* process_queue, the first load.
LEMMA LoadProcessStep ==
  ASSUME IInv, NEW t \in Threads, LoadProcess(t)
  PROVE  IInv'
<1> USE DEF IInv
<1>1. UNCHANGED <<made_used, made_owns, made_ports, queues, portVars>>
  BY DEF LoadProcess, poolVars
<1>2. BorrowBooks' /\ OwnBooks' /\ CountBooks'
  BY <1>1, BooksQuiet
<1>3. \A j : Owners(j)' = Owners(j) /\ Borrowers(j)' = Borrowers(j)
  BY <1>1, BooksQuiet
<1>4. TypeOK'
  BY DEF TypeOK, States, LoadProcess, poolVars, portVars, threadVars
<1>5. HeldPortsStay'
  BY DEF HeldPortsStay, LoadProcess, poolVars, portVars, threadVars
<1>6. SpentPortsReturn'
  <2>1. \A u \in Threads : /\ Releasing(u)' <=> Releasing(u)
                           /\ Releasing(u) => done'[u] = done[u]
    BY DEF Releasing, TypeOK, LoadProcess, poolVars, portVars, threadVars
  <2>2. QED
    BY <1>1, <1>3, <2>1, SpentQuiet DEF portVars
<1>7. HandlesKeepQueues' /\ ReleaseInv'
  <2>1. UNCHANGED <<handles, references, made_used, fallback>>
    BY DEF LoadProcess, poolVars, portVars, threadVars
  <2>2. \A u \in Threads : /\ pc'[u] = "release" <=> pc[u] = "release"
                           /\ pc[u] = "release" => target'[u] = target[u]
    BY DEF TypeOK, LoadProcess, poolVars, portVars, threadVars
  <2>3. QED
    BY <2>1, <2>2, HandlesQuiet
<1>8. ProcessInv'
  BY DEF ProcessInv, Kept, TypeOK, LoadProcess, poolVars, portVars, threadVars, None
<1>9. DownInv'
  BY DEF DownInv, TypeOK, LoadProcess, poolVars, portVars, threadVars
<1>10. QED
  BY <1>2, <1>4, <1>5, <1>6, <1>7, <1>8, <1>9

\* process_queue, the exchange.
LEMMA PublishFallbackStep ==
  ASSUME IInv, NEW t \in Threads, PublishFallback(t)
  PROVE  IInv'
<1> USE DEF IInv
<1>1. UNCHANGED <<made_used, made_owns, made_ports, queues, portVars>>
  BY DEF PublishFallback, poolVars
<1>2. BorrowBooks' /\ OwnBooks' /\ CountBooks'
  BY <1>1, BooksQuiet
<1>3. \A j : Owners(j)' = Owners(j) /\ Borrowers(j)' = Borrowers(j)
  BY <1>1, BooksQuiet
<1>4. TypeOK'
  BY DEF TypeOK, States, PublishFallback, poolVars, portVars, threadVars
<1>5. HeldPortsStay'
  BY DEF HeldPortsStay, PublishFallback, poolVars, portVars, threadVars
<1>6. SpentPortsReturn'
  <2>1. \A u \in Threads : /\ Releasing(u)' <=> Releasing(u)
                           /\ Releasing(u) => done'[u] = done[u]
    BY DEF Releasing, TypeOK, PublishFallback, poolVars, portVars, threadVars
  <2>2. QED
    BY <1>1, <1>3, <2>1, SpentQuiet DEF portVars
<1>7. HandlesKeepQueues' /\ ReleaseInv'
  <2>1. UNCHANGED <<handles, references, made_used, fallback>>
    BY DEF PublishFallback, poolVars, portVars, threadVars
  <2>2. \A u \in Threads : /\ pc'[u] = "release" <=> pc[u] = "release"
                           /\ pc[u] = "release" => target'[u] = target[u]
    BY DEF TypeOK, PublishFallback, poolVars, portVars, threadVars
  <2>3. QED
    BY <2>1, <2>2, HandlesQuiet
<1>8. ProcessInv'
  BY DEF ProcessInv, Kept, TypeOK, PublishFallback, poolVars, portVars, threadVars, None
<1>9. DownInv'
  BY DEF DownInv, TypeOK, PublishFallback, poolVars, portVars, threadVars
<1>10. QED
  BY <1>2, <1>4, <1>5, <1>6, <1>7, <1>8, <1>9

\* process_queue, the second load.
LEMMA ReloadProcessStep ==
  ASSUME IInv, NEW t \in Threads, ReloadProcess(t)
  PROVE  IInv'
<1> USE DEF IInv
<1>1. UNCHANGED <<made_used, made_owns, made_ports, queues, portVars>>
  BY DEF ReloadProcess, poolVars
<1>2. BorrowBooks' /\ OwnBooks' /\ CountBooks'
  BY <1>1, BooksQuiet
<1>3. \A j : Owners(j)' = Owners(j) /\ Borrowers(j)' = Borrowers(j)
  BY <1>1, BooksQuiet
<1>4. TypeOK'
  BY DEF TypeOK, States, ReloadProcess, poolVars, portVars, threadVars
<1>5. HeldPortsStay'
  BY DEF HeldPortsStay, ReloadProcess, poolVars, portVars, threadVars
<1>6. SpentPortsReturn'
  <2>1. \A u \in Threads : /\ Releasing(u)' <=> Releasing(u)
                           /\ Releasing(u) => done'[u] = done[u]
    BY DEF Releasing, TypeOK, ReloadProcess, poolVars, portVars, threadVars
  <2>2. QED
    BY <1>1, <1>3, <2>1, SpentQuiet DEF portVars
<1>7. HandlesKeepQueues' /\ ReleaseInv'
  <2>1. UNCHANGED <<handles, references, made_used, fallback>>
    BY DEF ReloadProcess, poolVars, portVars, threadVars
  <2>2. \A u \in Threads : /\ pc'[u] = "release" <=> pc[u] = "release"
                           /\ pc[u] = "release" => target'[u] = target[u]
    BY DEF TypeOK, ReloadProcess, poolVars, portVars, threadVars
  <2>3. QED
    BY <2>1, <2>2, HandlesQuiet
<1>8. ProcessInv'
  BY DEF ProcessInv, Kept, TypeOK, ReloadProcess, poolVars, portVars, threadVars, None
<1>9. DownInv'
  BY DEF DownInv, TypeOK, ReloadProcess, poolVars, portVars, threadVars
<1>10. QED
  BY <1>2, <1>4, <1>5, <1>6, <1>7, <1>8, <1>9

\* queue_get_current_process takes its reference: the queue it read is still alive.
LEMMA DuplicateProcessStep ==
  ASSUME IInv, NEW t \in Threads, DuplicateProcess(t)
  PROVE  IInv'
<1> USE DEF IInv
<1>1. UNCHANGED <<made_used, made_owns, made_ports, queues, portVars>>
  BY DEF DuplicateProcess, poolVars
<1>2. BorrowBooks' /\ OwnBooks' /\ CountBooks'
  BY <1>1, BooksQuiet
<1>3. \A j : Owners(j)' = Owners(j) /\ Borrowers(j)' = Borrowers(j)
  BY <1>1, BooksQuiet
<1>4. TypeOK'
  BY DEF TypeOK, States, DuplicateProcess, poolVars, portVars, threadVars
<1>5. HeldPortsStay'
  BY DEF HeldPortsStay, DuplicateProcess, poolVars, portVars, threadVars
<1>6. SpentPortsReturn'
  <2>1. \A u \in Threads : /\ Releasing(u)' <=> Releasing(u)
                           /\ Releasing(u) => done'[u] = done[u]
    BY DEF Releasing, TypeOK, DuplicateProcess, poolVars, portVars, threadVars
  <2>2. QED
    BY <1>1, <1>3, <2>1, SpentQuiet DEF portVars
<1>7. HandlesKeepQueues' /\ ReleaseInv'
  <2> DEFINE q == target[t]
  <2>1. q \in Queues /\ Kept(q) /\ pc[t] = "duplicate"
    BY DEF ProcessInv, TypeOK, DuplicateProcess
  <2>2. Owed(q) # 0
    BY <2>1 DEF ProcessInv, Kept, TypeOK, Owed
  <2>3. \A u \in Threads : /\ pc'[u] = "release" <=> pc[u] = "release"
                           /\ pc[u] = "release" => target'[u] = target[u]
    BY <2>1 DEF TypeOK, DuplicateProcess
  <2>4. QED
    BY <2>1, <2>2, <2>3, HandlesTake DEF DuplicateProcess
<1>8. ProcessInv'
  BY DEF ProcessInv, Kept, TypeOK, DuplicateProcess, poolVars, portVars, threadVars, None
<1>9. DownInv'
  BY DEF DownInv, TypeOK, DuplicateProcess, poolVars, portVars, threadVars
<1>10. QED
  BY <1>2, <1>4, <1>5, <1>6, <1>7, <1>8, <1>9

\* task_port::stop outside the mutex: nobody refers to a spent port any more.
LEMMA StopSpentStep ==
  ASSUME IInv, NEW t \in Threads, StopSpent(t)
  PROVE  IInv'
<1> USE DEF IInv
<1>1. UNCHANGED <<made_used, made_owns, made_ports, queues, portVars>>
  BY DEF StopSpent, poolVars
<1>2. BorrowBooks' /\ OwnBooks' /\ CountBooks'
  BY <1>1, BooksQuiet
<1>3. \A j : Owners(j)' = Owners(j) /\ Borrowers(j)' = Borrowers(j)
  BY <1>1, BooksQuiet
<1>4. TypeOK'
  BY DEF TypeOK, States, StopSpent, poolVars, portVars, threadVars
<1>5. HeldPortsStay'
  <2>1. ASSUME NEW j \in done[t] \cap running, NEW q \in Queues, made_used[q], NEW s \in Sides
        PROVE  made_ports[q][s] # j
    <3>1. Owners(j) = {} /\ Borrowers(j) = {}
      BY DEF SpentPortsReturn, Releasing, StopSpent
    <3>2. made_ports[q][s] \in Ports
      BY <2>1 DEF HeldPortsStay
    <3>3. QED
      BY <2>1, <3>1, <3>2, SidesClaim
  <2>2. QED
    BY <1>1, <2>1 DEF HeldPortsStay, StopSpent, portVars
<1>6. SpentPortsReturn'
  <2>1. \A u \in Threads : /\ Releasing(u)' <=> Releasing(u)
                           /\ Releasing(u) => done'[u] = done[u]
    BY DEF Releasing, TypeOK, StopSpent, poolVars, portVars, threadVars
  <2>2. QED
    BY <1>1, <1>3, <2>1, SpentQuiet DEF portVars
<1>7. HandlesKeepQueues' /\ ReleaseInv'
  <2>1. UNCHANGED <<handles, references, made_used, fallback>>
    BY DEF StopSpent, poolVars, portVars, threadVars
  <2>2. \A u \in Threads : /\ pc'[u] = "release" <=> pc[u] = "release"
                           /\ pc[u] = "release" => target'[u] = target[u]
    BY DEF TypeOK, StopSpent, poolVars, portVars, threadVars
  <2>3. QED
    BY <2>1, <2>2, HandlesQuiet
<1>8. ProcessInv'
  BY DEF ProcessInv, Kept, TypeOK, StopSpent, poolVars, portVars, threadVars, None
<1>9. DownInv'
  BY DEF DownInv, TypeOK, StopSpent, poolVars, portVars, threadVars
<1>10. QED
  BY <1>2, <1>4, <1>5, <1>6, <1>7, <1>8, <1>9

\* stop_queues lists the ports in use.
LEMMA StopAllStep ==
  ASSUME IInv, NEW t \in Threads, StopAll(t)
  PROVE  IInv'
<1> USE DEF IInv
<1>1. UNCHANGED <<made_used, made_owns, made_ports, queues, portVars>>
  BY DEF StopAll, poolVars
<1>2. BorrowBooks' /\ OwnBooks' /\ CountBooks'
  BY <1>1, BooksQuiet
<1>3. \A j : Owners(j)' = Owners(j) /\ Borrowers(j)' = Borrowers(j)
  BY <1>1, BooksQuiet
<1>4. TypeOK'
  BY DEF TypeOK, States, StopAll, poolVars, portVars, threadVars
<1>5. HeldPortsStay'
  BY DEF HeldPortsStay, StopAll, poolVars, portVars, threadVars
<1>6. SpentPortsReturn'
  <2>1. \A u \in Threads : /\ Releasing(u)' <=> Releasing(u)
                           /\ Releasing(u) => done'[u] = done[u]
    BY DEF Releasing, TypeOK, StopAll, poolVars, portVars, threadVars
  <2>2. QED
    BY <1>1, <1>3, <2>1, SpentQuiet DEF portVars
<1>7. HandlesKeepQueues' /\ ReleaseInv'
  <2>1. UNCHANGED <<handles, references, made_used, fallback>>
    BY DEF StopAll, poolVars, portVars, threadVars
  <2>2. \A u \in Threads : /\ pc'[u] = "release" <=> pc[u] = "release"
                           /\ pc[u] = "release" => target'[u] = target[u]
    BY DEF TypeOK, StopAll, poolVars, portVars, threadVars
  <2>3. QED
    BY <2>1, <2>2, HandlesQuiet
<1>8. ProcessInv'
  BY DEF ProcessInv, Kept, TypeOK, StopAll, poolVars, portVars, threadVars, None
<1>9. DownInv'
  BY DEF DownInv, TypeOK, StopAll, poolVars, portVars, threadVars
<1>10. QED
  BY <1>2, <1>4, <1>5, <1>6, <1>7, <1>8, <1>9

\* stop_queues stops the ports it listed.
LEMMA StopNextStep ==
  ASSUME IInv, NEW t \in Threads, StopNext(t)
  PROVE  IInv'
<1> USE DEF IInv
<1>1. UNCHANGED <<made_used, made_owns, made_ports, queues, portVars>>
  BY DEF StopNext, poolVars
<1>2. BorrowBooks' /\ OwnBooks' /\ CountBooks'
  BY <1>1, BooksQuiet
<1>3. \A j : Owners(j)' = Owners(j) /\ Borrowers(j)' = Borrowers(j)
  BY <1>1, BooksQuiet
<1>4. TypeOK'
  BY DEF TypeOK, States, StopNext, poolVars, portVars, threadVars
<1>5. HeldPortsStay'
  BY <1>1 DEF HeldPortsStay, DownInv, StopNext, portVars
<1>6. SpentPortsReturn'
  <2>1. \A u \in Threads : /\ Releasing(u)' <=> Releasing(u)
                           /\ Releasing(u) => done'[u] = done[u]
    BY DEF Releasing, TypeOK, StopNext, poolVars, portVars, threadVars
  <2>2. QED
    BY <1>1, <1>3, <2>1, SpentQuiet DEF portVars
<1>7. HandlesKeepQueues' /\ ReleaseInv'
  <2>1. UNCHANGED <<handles, references, made_used, fallback>>
    BY DEF StopNext, poolVars, portVars, threadVars
  <2>2. \A u \in Threads : /\ pc'[u] = "release" <=> pc[u] = "release"
                           /\ pc[u] = "release" => target'[u] = target[u]
    BY DEF TypeOK, StopNext, poolVars, portVars, threadVars
  <2>3. QED
    BY <2>1, <2>2, HandlesQuiet
<1>8. ProcessInv'
  BY DEF ProcessInv, Kept, TypeOK, StopNext, poolVars, portVars, threadVars, None
<1>9. DownInv'
  BY DEF DownInv, TypeOK, StopNext, poolVars, portVars, threadVars
<1>10. QED
  BY <1>2, <1>4, <1>5, <1>6, <1>7, <1>8, <1>9


-----------------------------------------------------------------------------
(* Making queues                                                            *)

\* create_queue: the new queue is the only owner of ports that were nobody's.
LEMMA CreateQueueClaims ==
  ASSUME IInv, NEW q \in Queues, NEW w \in Ports, NEW c \in Ports, create_queue(q, w, c)
  PROVE  /\ ~made_used[q] /\ ~port_used[w] /\ ~port_used[c] /\ w # c
         /\ \A j \in Ports : Borrowers(j)' = Borrowers(j)
         /\ \A j \in Ports : Owners(j)' = IF j \in {w, c} THEN {q} ELSE Owners(j)
<1> USE DEF IInv
<1>1. ~made_used[q] /\ ~port_used[w] /\ ~port_used[c] /\ w # c
  BY DEF create_queue, FirstFree, FreePorts, FreeQueues
<1>2. /\ made_used'[q] /\ made_owns'[q]
      /\ made_ports'[q]["work"] = w /\ made_ports'[q]["completion"] = c
      /\ \A r \in Queues \ {q} : /\ made_used'[r] = made_used[r] /\ made_owns'[r] = made_owns[r]
                                 /\ made_ports'[r] = made_ports[r]
  BY DEF create_queue, TypeOK, Sides
<1>3. ASSUME NEW j \in Ports PROVE Borrowers(j)' = Borrowers(j)
  BY <1>1, <1>2 DEF Borrowers
<1>4. ASSUME NEW j \in Ports, NEW r \in Owners(j) PROVE port_used[j] /\ r \in Queues \ {q}
  BY <1>1, <1>4 DEF Owners, PortsOf, HeldPortsStay
<1>5. ASSUME NEW j \in Ports, NEW r \in Queues \ {q} PROVE r \in Owners(j)' <=> r \in Owners(j)
  BY <1>2 DEF Owners, PortsOf
<1>6. ASSUME NEW j \in Ports PROVE q \in Owners(j)' <=> j \in {w, c}
  <2>1. j # None /\ w # None /\ c # None
    BY PoolConstants DEF Ports, None
  <2>2. QED
    BY <1>2, <2>1 DEF Owners, PortsOf, Sides
<1>7. ASSUME NEW j \in Ports PROVE Owners(j)' = IF j \in {w, c} THEN {q} ELSE Owners(j)
  <2>1. Owners(j)' \subseteq Queues /\ Owners(j) \subseteq Queues
    BY DEF Owners
  <2>2. CASE j \in {w, c}
    <3>1. \A r \in Owners(j) : FALSE
      BY <1>1, <1>4, <2>2
    <3>2. QED
      BY <1>5, <1>6, <2>1, <2>2, <3>1
  <2>3. CASE j \notin {w, c}
    BY <1>4, <1>5, <1>6, <2>1, <2>3
  <2>4. QED
    BY <2>2, <2>3
<1>8. QED
  BY <1>1, <1>3, <1>7

\* The books after create_queue.
LEMMA CreateQueueBooks ==
  ASSUME IInv, NEW q \in Queues, NEW w \in Ports, NEW c \in Ports, create_queue(q, w, c)
  PROVE  BorrowBooks' /\ OwnBooks' /\ CountBooks'
<1> USE DEF IInv
<1>1. /\ ~made_used[q] /\ ~port_used[w] /\ ~port_used[c] /\ w # c
      /\ \A j \in Ports : Borrowers(j)' = Borrowers(j)
      /\ \A j \in Ports : Owners(j)' = IF j \in {w, c} THEN {q} ELSE Owners(j)
  BY CreateQueueClaims
<1>2. BorrowBooks'
  BY <1>1 DEF BorrowBooks, create_queue
<1>3. OwnBooks'
  <2>1. \A j \in Ports : port_owned'[j] <=> (j \in {w, c} \/ port_owned[j])
    BY DEF create_queue, TypeOK
  <2>2. QED
    BY <1>1, <2>1 DEF OwnBooks
<1>4. CountBooks'
  <2>1. Used' = Used \cup {w, c} /\ w \notin Used /\ c \notin Used
    BY <1>1 DEF Used, create_queue, TypeOK
  <2>2. Cardinality(Used') = Cardinality(Used) + 2
    BY <1>1, <2>1, FiniteBooks, CardPair
  <2>3. Made' = Made \cup {q} /\ q \notin Made
    BY <1>1 DEF Made, create_queue, TypeOK
  <2>4. Cardinality(Made') = Cardinality(Made) + 1
    BY <2>3, FiniteBooks, FS_AddElement
  <2>5. QED
    BY <2>2, <2>4 DEF CountBooks, create_queue
<1>5. QED
  BY <1>2, <1>3, <1>4

\* The ports of the new queue are open, and those of the others and the spent ones stay.
LEMMA CreateQueuePorts ==
  ASSUME IInv, NEW q \in Queues, NEW w \in Ports, NEW c \in Ports, create_queue(q, w, c),
         down' = down, done' = done, \A u \in Threads : Releasing(u)' <=> Releasing(u)
  PROVE  HeldPortsStay' /\ SpentPortsReturn'
<1> USE DEF IInv
<1>1. /\ ~made_used[q] /\ ~port_used[w] /\ ~port_used[c] /\ w # c
      /\ \A j \in Ports : Borrowers(j)' = Borrowers(j)
      /\ \A j \in Ports : Owners(j)' = IF j \in {w, c} THEN {q} ELSE Owners(j)
  BY CreateQueueClaims
<1>2. \A j \in Ports : port_used'[j] <=> (j \in {w, c} \/ port_used[j])
  BY DEF create_queue, TypeOK
<1>3. HeldPortsStay'
  <2>1. ASSUME NEW r \in Queues, made_used'[r], NEW s \in Sides
        PROVE  /\ made_ports'[r][s] \in Ports /\ port_used'[made_ports'[r][s]]
               /\ down' \/ made_ports'[r][s] \in running'
    <3>1. CASE r = q
      <4>1. made_ports'[q][s] \in {w, c}
        BY DEF create_queue, TypeOK, Sides
      <4>2. running' = running \cup {w, c}
        BY DEF create_queue
      <4>3. QED
        BY <1>2, <3>1, <4>1, <4>2
    <3>2. CASE r # q
      <4>1. made_used[r] /\ made_ports'[r] = made_ports[r]
        BY <2>1, <3>2 DEF create_queue, TypeOK
      <4>2. running' = running \cup {w, c}
        BY DEF create_queue
      <4>3. QED
        BY <1>2, <4>1, <4>2 DEF HeldPortsStay
    <3>3. QED
      BY <3>1, <3>2
  <2>2. QED
    BY <2>1 DEF HeldPortsStay
<1>4. SpentPortsReturn'
  <2>1. \A t \in Threads : done[t] \subseteq Ports
    BY DEF TypeOK
  <2>2. \A t \in Threads : Releasing(t) => w \notin done[t] /\ c \notin done[t]
    BY <1>1 DEF SpentPortsReturn
  <2>3. ASSUME NEW t \in Threads, Releasing(t)', NEW j \in done'[t]
        PROVE  /\ port_used'[j] /\ Owners(j)' = {} /\ Borrowers(j)' = {}
               /\ \A u \in Threads : Releasing(u)' /\ j \in done'[u] => u = t
    <3>1. j \in Ports /\ Releasing(t) /\ j \in done[t] /\ j \notin {w, c}
      BY <2>1, <2>2, <2>3
    <3>2. Owners(j)' = Owners(j) /\ Borrowers(j)' = Borrowers(j) /\ (port_used'[j] <=> port_used[j])
      BY <1>1, <1>2, <3>1
    <3>3. QED
      BY <3>1, <3>2 DEF SpentPortsReturn
  <2>4. ASSUME NEW j \in Ports, port_used'[j]
        PROVE  \/ Owners(j)' # {} \/ Borrowers(j)' # {}
               \/ \E t \in Threads : Releasing(t)' /\ j \in done'[t]
    BY <1>1, <1>2, <2>4 DEF SpentPortsReturn
  <2>5. QED
    BY <2>3, <2>4 DEF SpentPortsReturn
<1>5. QED
  BY <1>3, <1>4

\* A new queue has one reference, and nobody releases it.
LEMMA NewQueueHandles ==
  ASSUME IInv, NEW q \in Queues, ~made_used[q],
         made_used' = [made_used EXCEPT ![q] = TRUE],
         references' = [references EXCEPT ![q] = 1],
         \/ handles' = [handles EXCEPT ![q] = 1] /\ fallback' = fallback
         \/ handles' = handles /\ fallback = None /\ fallback' = q,
         target' = target,
         \A u \in Threads : pc'[u] = "release" <=> pc[u] = "release"
  PROVE  /\ HandlesKeepQueues' /\ ReleaseInv'
         /\ handles[q] = 0 /\ q # fallback
<1> USE DEF IInv
<1>1. handles[q] = 0 /\ q # fallback
  <2>1. handles[q] \in Nat
    BY DEF TypeOK
  <2>2. handles[q] + (IF q = fallback THEN 1 ELSE 0) = 0
    BY DEF HandlesKeepQueues
  <2>3. QED
    BY <2>1, <2>2
<1>2. \A u \in Threads : pc[u] = "release" => target[u] # q
  BY DEF ReleaseInv
<1>3. /\ made_used'[q] /\ references'[q] = 1
      /\ \A r \in Queues \ {q} : made_used'[r] = made_used[r] /\ references'[r] = references[r]
  BY DEF TypeOK
<1>4. /\ \A r \in Queues \ {q} : handles'[r] = handles[r] /\ (r = fallback' <=> r = fallback)
      /\ handles'[q] + (IF q = fallback' THEN 1 ELSE 0) = 1
  <2>1. \A r \in Queues : r # None
    BY PoolConstants DEF Queues, None
  <2>2. QED
    BY <1>1, <2>1 DEF TypeOK
<1>5. HandlesKeepQueues'
  BY <1>2, <1>3, <1>4 DEF HandlesKeepQueues
<1>6. ReleaseInv'
  BY <1>2, <1>3, <1>4 DEF ReleaseInv
<1>7. QED
  BY <1>1, <1>5, <1>6

\* What create_queue writes is in range.
LEMMA CreateQueueTypes ==
  ASSUME TypeOK, NEW q \in Queues, NEW w \in Ports, NEW c \in Ports, create_queue(q, w, c)
  PROVE  /\ made_used' \in [Queues -> BOOLEAN] /\ made_owns' \in [Queues -> BOOLEAN]
         /\ made_ports' \in [Queues -> [Sides -> Ports \cup {None}]]
         /\ references' \in [Queues -> Nat] /\ queues' \in Nat /\ ports' \in Nat
         /\ port_used' \in [Ports -> BOOLEAN] /\ port_owned' \in [Ports -> BOOLEAN]
         /\ port_borrows' \in [Ports -> Nat] /\ running' \in SUBSET Ports
<1>1. made_used' \in [Queues -> BOOLEAN] /\ made_owns' \in [Queues -> BOOLEAN]
  BY DEF TypeOK, create_queue
<1>2. made_ports' \in [Queues -> [Sides -> Ports \cup {None}]]
  <2>1. [s \in Sides |-> IF s = "work" THEN w ELSE c] \in [Sides -> Ports \cup {None}]
    OBVIOUS
  <2>2. QED
    BY <2>1 DEF TypeOK, create_queue
<1>3. references' \in [Queues -> Nat] /\ queues' \in Nat /\ ports' \in Nat
  BY DEF TypeOK, create_queue
<1>4. port_used' \in [Ports -> BOOLEAN] /\ port_owned' \in [Ports -> BOOLEAN]
  BY DEF TypeOK, create_queue
<1>5. port_borrows' \in [Ports -> Nat] /\ running' \in SUBSET Ports
  BY DEF TypeOK, create_queue
<1>6. QED
  BY <1>1, <1>2, <1>3, <1>4, <1>5

\* XTaskQueueCreate.
LEMMA CreateStep ==
  ASSUME IInv, NEW t \in Threads, Create(t)
  PROVE  IInv'
<1> USE DEF IInv
<1>1. PICK q \in Queues, w \in Ports, c \in Ports :
         create_queue(q, w, c) /\ handles' = [handles EXCEPT ![q] = 1]
  BY DEF Create
<1>2. UNCHANGED <<pc, target, done, process, fallback, pinned, down, cleared>>
  BY DEF Create, threadVars
<1>3. BorrowBooks' /\ OwnBooks' /\ CountBooks'
  BY <1>1, CreateQueueBooks
<1>4. HeldPortsStay' /\ SpentPortsReturn'
  BY <1>1, <1>2, CreateQueuePorts DEF Releasing
<1>5. HandlesKeepQueues' /\ ReleaseInv' /\ handles[q] = 0 /\ q # fallback
  <2>1. ~made_used[q]
    BY <1>1, CreateQueueClaims
  <2>2. QED
    BY <1>1, <1>2, <2>1, NewQueueHandles DEF create_queue
<1>6. TypeOK'
  <2>1. handles' \in [Queues -> Nat]
    BY <1>1 DEF TypeOK
  <2>2. QED
    BY <1>1, <1>2, <2>1, CreateQueueTypes DEF TypeOK
<1>7. ProcessInv' /\ DownInv'
  BY <1>1, <1>2, <1>5 DEF ProcessInv, Kept, DownInv, TypeOK
<1>8. QED
  BY <1>3, <1>4, <1>5, <1>6, <1>7

\* process_queue makes the fallback at most once.
LEMMA MakeFallbackStep ==
  ASSUME IInv, NEW t \in Threads, MakeFallback(t)
  PROVE  IInv'
<1> USE DEF IInv
<1>1. /\ UNCHANGED <<target, done, process, handles, pinned, down, cleared>>
      /\ pc[t] = "fallback" /\ pc' = [pc EXCEPT ![t] = "publish"]
  BY DEF MakeFallback
<1>2. /\ pc'[t] = "publish" /\ \A u \in Threads \ {t} : pc'[u] = pc[u]
      /\ \A u \in Threads : /\ Releasing(u)' <=> Releasing(u)
                            /\ pc'[u] = "release" <=> pc[u] = "release"
  BY <1>1 DEF TypeOK, Releasing
<1>3. DownInv'
  BY <1>1, <1>2 DEF DownInv
<1>4. CASE fallback = None
  <2>1. PICK q \in Queues, w \in Ports, c \in Ports : create_queue(q, w, c) /\ fallback' = q
    BY <1>4 DEF MakeFallback
  <2>2. BorrowBooks' /\ OwnBooks' /\ CountBooks'
    BY <2>1, CreateQueueBooks
  <2>3. HeldPortsStay' /\ SpentPortsReturn'
    BY <1>1, <1>2, <2>1, CreateQueuePorts
  <2>4. HandlesKeepQueues' /\ ReleaseInv'
    <3>1. ~made_used[q]
      BY <2>1, CreateQueueClaims
    <3>2. QED
      BY <1>1, <1>2, <1>4, <2>1, <3>1, NewQueueHandles DEF create_queue
  <2>5. TypeOK'
    <3>1. pc' \in [Threads -> States] /\ fallback' \in Queues
      BY <1>1, <2>1 DEF TypeOK, States
    <3>2. QED
      BY <1>1, <2>1, <3>1, CreateQueueTypes DEF TypeOK
  <2>6. ProcessInv'
    <3>1. q # None
      BY PoolConstants DEF Queues, None
    <3>2. QED
      BY <1>1, <1>2, <1>4, <2>1, <3>1 DEF ProcessInv, Kept
  <2>7. QED
    BY <1>3, <2>2, <2>3, <2>4, <2>5, <2>6
<1>5. CASE fallback # None
  <2>1. UNCHANGED <<poolVars, portVars, running, fallback>>
    BY <1>5 DEF MakeFallback
  <2>2. /\ BorrowBooks' /\ OwnBooks' /\ CountBooks'
        /\ \A j : Owners(j)' = Owners(j) /\ Borrowers(j)' = Borrowers(j)
    BY <2>1, BooksQuiet DEF poolVars
  <2>3. HeldPortsStay'
    BY <1>1, <2>1 DEF HeldPortsStay, poolVars, portVars
  <2>4. SpentPortsReturn'
    BY <1>1, <1>2, <2>1, <2>2, SpentQuiet DEF portVars
  <2>5. HandlesKeepQueues' /\ ReleaseInv'
    BY <1>1, <1>2, <2>1, HandlesQuiet DEF poolVars
  <2>6. TypeOK'
    BY <1>1, <2>1 DEF TypeOK, States, poolVars, portVars
  <2>7. ProcessInv'
    BY <1>1, <1>2, <1>5, <2>1 DEF ProcessInv, Kept
  <2>8. QED
    BY <1>3, <2>2, <2>3, <2>4, <2>5, <2>6, <2>7
<1>6. QED
  BY <1>4, <1>5

\* A port that a client can name is claimed by a live queue.
LEMMA ReachablePorts ==
  ASSUME IInv, NEW w \in Reachable
  PROVE  /\ w \in Ports /\ port_used[w] /\ (down \/ w \in running)
         /\ Owners(w) # {} \/ Borrowers(w) # {}
<1> USE DEF IInv
<1>1. PICK q \in Queues, s \in Sides : handles[q] > 0 /\ w = made_ports[q][s]
  BY DEF Reachable
<1>2. made_used[q]
  <2>1. handles[q] + (IF q = fallback THEN 1 ELSE 0) # 0
    BY <1>1 DEF TypeOK
  <2>2. QED
    BY <2>1 DEF HandlesKeepQueues
<1>3. w \in Ports /\ port_used[w] /\ (down \/ w \in running)
  BY <1>1, <1>2 DEF HeldPortsStay
<1>4. QED
  BY <1>1, <1>2, <1>3, SidesClaim

\* XTaskQueueCreateComposite: the sides of the new queue are borrowed.
LEMMA CreateCompositeStep ==
  ASSUME IInv, NEW t \in Threads, CreateComposite(t)
  PROVE  IInv'
<1> USE DEF IInv
<1>1. PICK w \in Reachable, c \in Reachable, q \in FreeQueues :
          /\ FirstFree(q, FreeQueues)
          /\ made_used' = [made_used EXCEPT ![q] = TRUE]
          /\ made_owns' = [made_owns EXCEPT ![q] = FALSE]
          /\ made_ports' = [made_ports EXCEPT ![q] =
                              [s \in Sides |-> IF s = "work" THEN w ELSE c]]
          /\ port_borrows' = [j \in Ports |-> port_borrows[j] + Borrowed(w, c, j)]
          /\ references' = [references EXCEPT ![q] = 1]
          /\ handles' = [handles EXCEPT ![q] = 1]
  BY DEF CreateComposite
<1>2. /\ queues' = queues + 1
      /\ UNCHANGED <<port_used, port_owned, ports, running, pc, target, done, process,
                     fallback, pinned, down, cleared>>
  BY DEF CreateComposite, threadVars
<1>3. q \in Queues /\ ~made_used[q]
  BY DEF FreeQueues
<1>4. /\ w \in Ports /\ port_used[w] /\ (down \/ w \in running)
      /\ c \in Ports /\ port_used[c] /\ (down \/ c \in running)
      /\ Owners(w) # {} \/ Borrowers(w) # {}
      /\ Owners(c) # {} \/ Borrowers(c) # {}
  BY ReachablePorts
<1>5. /\ made_used'[q] /\ ~made_owns'[q]
      /\ made_ports'[q]["work"] = w /\ made_ports'[q]["completion"] = c
      /\ \A r \in Queues \ {q} : /\ made_used'[r] = made_used[r] /\ made_owns'[r] = made_owns[r]
                                 /\ made_ports'[r] = made_ports[r]
  BY <1>1, <1>3 DEF TypeOK, Sides
<1> DEFINE x == <<q, "work">>
           y == <<q, "completion">>
<1>6. ASSUME NEW j \in Ports PROVE Owners(j)' = Owners(j)
  <2>1. q \notin Owners(j) /\ q \notin Owners(j)'
    BY <1>3, <1>5 DEF Owners
  <2>2. \A r \in Queues \ {q} : r \in Owners(j)' <=> r \in Owners(j)
    BY <1>5 DEF Owners, PortsOf
  <2>3. QED
    BY <2>1, <2>2 DEF Owners
<1>7. ASSUME NEW j \in Ports
      PROVE  /\ x \notin Borrowers(j) /\ y \notin Borrowers(j)
             /\ Borrowers(j)' = Borrowers(j) \cup {b \in {x, y} : j = IF b = x THEN w ELSE c}
  <2>1. x \notin Borrowers(j) /\ y \notin Borrowers(j)
    BY <1>3 DEF Borrowers
  <2>2. x # y /\ x \in Queues \X Sides /\ y \in Queues \X Sides
    BY <1>3 DEF Sides
  <2>3. (x \in Borrowers(j)' <=> j = w) /\ (y \in Borrowers(j)' <=> j = c)
    BY <1>5, <2>2 DEF Borrowers
  <2>4. ASSUME NEW b \in Queues \X Sides, b # x, b # y
        PROVE  b \in Borrowers(j)' <=> b \in Borrowers(j)
    <3>1. b[1] \in Queues \ {q} /\ b[2] \in Sides
      BY <1>3, <2>4 DEF Sides
    <3>2. QED
      BY <1>5, <3>1 DEF Borrowers
  <2>5. Borrowers(j) \subseteq Queues \X Sides /\ Borrowers(j)' \subseteq Queues \X Sides
    BY DEF Borrowers
  <2> HIDE DEF x, y
  <2>6. QED
    BY <2>1, <2>2, <2>3, <2>4, <2>5
<1>8. BorrowBooks'
  <2>1. ASSUME NEW j \in Ports PROVE port_borrows'[j] = Cardinality(Borrowers(j)')
    <3>1. x # y /\ IsFiniteSet(Borrowers(j)) /\ x \notin Borrowers(j) /\ y \notin Borrowers(j)
      BY <1>7, FiniteBooks
    <3>2. port_borrows'[j] = Cardinality(Borrowers(j)) + Borrowed(w, c, j)
      BY <1>1 DEF BorrowBooks
    <3> HIDE DEF x, y
    <3>3. CASE j = w /\ j = c
      <4>1. Borrowers(j)' = Borrowers(j) \cup {x, y}
        BY <1>7, <3>3
      <4>2. Cardinality(Borrowers(j) \cup {x, y}) = Cardinality(Borrowers(j)) + 2
        BY <3>1, CardPair
      <4>3. Borrowed(w, c, j) = 2
        BY <3>3 DEF Borrowed
      <4>4. QED
        BY <3>2, <4>1, <4>2, <4>3
    <3>4. CASE j = w /\ j # c
      <4>1. Borrowers(j)' = Borrowers(j) \cup {x}
        BY <1>7, <3>1, <3>4
      <4>2. Cardinality(Borrowers(j) \cup {x}) = Cardinality(Borrowers(j)) + 1
        BY <3>1, CardPair
      <4>3. Borrowed(w, c, j) = 1
        BY <3>4 DEF Borrowed
      <4>4. QED
        BY <3>2, <4>1, <4>2, <4>3
    <3>5. CASE j # w /\ j = c
      <4>1. Borrowers(j)' = Borrowers(j) \cup {y}
        BY <1>7, <3>1, <3>5
      <4>2. Cardinality(Borrowers(j) \cup {y}) = Cardinality(Borrowers(j)) + 1
        BY <3>1, CardPair
      <4>3. Borrowed(w, c, j) = 1
        BY <3>5 DEF Borrowed
      <4>4. QED
        BY <3>2, <4>1, <4>2, <4>3
    <3>6. CASE j # w /\ j # c
      <4>1. Borrowers(j)' = Borrowers(j)
        BY <1>7, <3>1, <3>6
      <4>2. Cardinality(Borrowers(j)) \in Nat
        BY <3>1, FS_CardinalityType
      <4>3. QED
        BY <3>2, <3>6, <4>1, <4>2 DEF Borrowed
    <3>7. QED
      BY <3>3, <3>4, <3>5, <3>6
  <2>2. QED
    BY <2>1 DEF BorrowBooks
<1>9. OwnBooks'
  BY <1>2, <1>6 DEF OwnBooks
<1>10. CountBooks'
  <2>1. Used' = Used
    BY <1>2 DEF Used
  <2>2. Made' = Made \cup {q} /\ q \notin Made
    BY <1>3, <1>5 DEF Made
  <2>3. Cardinality(Made') = Cardinality(Made) + 1
    BY <2>2, FiniteBooks, FS_AddElement
  <2>4. QED
    BY <1>2, <2>1, <2>3 DEF CountBooks
<1>11. HeldPortsStay'
  <2>1. ASSUME NEW r \in Queues, made_used'[r], NEW s \in Sides
        PROVE  /\ made_ports'[r][s] \in Ports /\ port_used'[made_ports'[r][s]]
               /\ down' \/ made_ports'[r][s] \in running'
    <3>1. CASE r = q
      <4>1. made_ports'[q][s] \in {w, c}
        BY <1>5 DEF Sides
      <4>2. QED
        BY <1>2, <1>4, <3>1, <4>1
    <3>2. CASE r # q
      BY <1>2, <1>5, <2>1, <3>2 DEF HeldPortsStay
    <3>3. QED
      BY <3>1, <3>2
  <2>2. QED
    BY <2>1 DEF HeldPortsStay
<1>12. SpentPortsReturn'
  <2>1. \A u \in Threads : Releasing(u)' <=> Releasing(u)
    BY <1>2 DEF Releasing
  <2>2. \A u \in Threads : Releasing(u) => w \notin done[u] /\ c \notin done[u]
    BY <1>4 DEF SpentPortsReturn
  <2>3. ASSUME NEW u \in Threads, Releasing(u), NEW j \in done[u]
        PROVE  Owners(j)' = {} /\ Borrowers(j)' = {}
    <3>1. j \in Ports /\ j # w /\ j # c /\ Owners(j) = {} /\ Borrowers(j) = {}
      BY <2>2, <2>3 DEF SpentPortsReturn, TypeOK
    <3> HIDE DEF x, y
    <3>2. QED
      BY <1>6, <1>7, <3>1
  <2>4. \A j \in Ports : Owners(j) # {} \/ Borrowers(j) # {} => Owners(j)' # {} \/ Borrowers(j)' # {}
    BY <1>6, <1>7
  <2>5. QED
    BY <1>2, <2>1, <2>3, <2>4 DEF SpentPortsReturn
<1>13. HandlesKeepQueues' /\ ReleaseInv' /\ handles[q] = 0 /\ q # fallback
  BY <1>1, <1>2, <1>3, NewQueueHandles
<1>14. TypeOK'
  <2>1. made_used' \in [Queues -> BOOLEAN] /\ made_owns' \in [Queues -> BOOLEAN]
    BY <1>1 DEF TypeOK
  <2>2. made_ports' \in [Queues -> [Sides -> Ports \cup {None}]]
    <3>1. [s \in Sides |-> IF s = "work" THEN w ELSE c] \in [Sides -> Ports \cup {None}]
      BY <1>4
    <3>2. QED
      BY <1>1, <3>1 DEF TypeOK
  <2>3. references' \in [Queues -> Nat] /\ handles' \in [Queues -> Nat]
    BY <1>1 DEF TypeOK
  <2>5. queues' \in Nat
    BY <1>2 DEF TypeOK
  <2>4. port_borrows' \in [Ports -> Nat]
    BY <1>1 DEF TypeOK, Borrowed
  <2>6. QED
    BY <1>2, <2>1, <2>2, <2>3, <2>4, <2>5 DEF TypeOK
<1>15. ProcessInv' /\ DownInv'
  BY <1>1, <1>2, <1>3, <1>13 DEF ProcessInv, Kept, DownInv, TypeOK
<1>16. QED
  BY <1>8, <1>9, <1>10, <1>11, <1>12, <1>13, <1>14, <1>15

-----------------------------------------------------------------------------
(* Releasing queues                                                         *)

\* release_queue, first critical section, as it is when the queue is in use.
Released(t, q) ==
    /\ IF made_owns[q]
       THEN /\ port_owned' = [j \in Ports |-> port_owned[j] /\ j \notin PortsOf(q)]
            /\ UNCHANGED port_borrows
       ELSE /\ port_borrows' = [j \in Ports |-> Less(port_borrows[j], Uses(q, j))]
            /\ UNCHANGED port_owned
    /\ LET spent == {j \in PortsOf(q) : /\ port_used[j]
                                        /\ ~port_owned'[j]
                                        /\ port_borrows'[j] = 0}
       IN /\ done' = [done EXCEPT ![t] = spent]
          /\ pc' = [pc EXCEPT ![t] = IF spent = {} THEN "idle" ELSE "stop"]
    /\ made_ports' = [made_ports EXCEPT ![q] = [s \in Sides |-> None]]
    /\ made_owns' = [made_owns EXCEPT ![q] = FALSE]
    /\ made_used' = [made_used EXCEPT ![q] = FALSE]
    /\ queues' = queues - 1
    /\ UNCHANGED references

\* A thread releases a queue that is in use and that nobody has a handle on.
LEMMA ReleaseClaimsCase ==
  ASSUME IInv, NEW t \in Threads, ReleaseClaims(t)
  PROVE  /\ target[t] \in Queues /\ made_used[target[t]] /\ pc[t] = "release"
         /\ handles[target[t]] = 0 /\ target[t] # fallback
         /\ Released(t, target[t])
         /\ target' = [target EXCEPT ![t] = None]
         /\ UNCHANGED <<port_used, ports, running, process, fallback, handles, pinned,
                        down, cleared>>
<1>1. /\ target[t] \in Queues /\ made_used[target[t]] /\ pc[t] = "release"
      /\ handles[target[t]] = 0 /\ target[t] # fallback
  BY DEF IInv, ReleaseInv, ReleaseClaims
<1>2. Released(t, target[t])
  BY <1>1 DEF ReleaseClaims, Released
<1>3. QED
  BY <1>1, <1>2 DEF ReleaseClaims

\* The claims that are left when queue q is gone.
LEMMA ReleasedClaims ==
  ASSUME IInv, NEW t \in Threads, NEW q \in Queues, made_used[q], Released(t, q)
  PROVE  /\ PortsOf(q) = {made_ports[q]["work"], made_ports[q]["completion"]}
         /\ PortsOf(q) \subseteq Ports
         /\ \A j \in Ports :
               /\ Owners(j)' = Owners(j) \ {q}
               /\ Borrowers(j)' = Borrowers(j) \ {<<q, "work">>, <<q, "completion">>}
               /\ IF made_owns[q]
                  THEN /\ q \in Owners(j) <=> j \in PortsOf(q)
                       /\ Borrowers(j)' = Borrowers(j)
                  ELSE /\ q \notin Owners(j)
                       /\ <<q, "work">> \in Borrowers(j) <=> j = made_ports[q]["work"]
                       /\ <<q, "completion">> \in Borrowers(j) <=> j = made_ports[q]["completion"]
<1> USE DEF IInv
<1> DEFINE w == made_ports[q]["work"]
           c == made_ports[q]["completion"]
           x == <<q, "work">>
           y == <<q, "completion">>
<1>1. w \in Ports /\ c \in Ports
  BY DEF HeldPortsStay, Sides
<1>2. PortsOf(q) = {w, c} /\ PortsOf(q) \subseteq Ports
  BY <1>1, PoolConstants DEF PortsOf, Sides, Ports, None
<1>3. /\ ~made_used'[q]
      /\ \A r \in Queues \ {q} : /\ made_used'[r] = made_used[r] /\ made_owns'[r] = made_owns[r]
                                 /\ made_ports'[r] = made_ports[r]
  BY DEF Released, TypeOK
<1>4. ASSUME NEW j \in Ports PROVE Owners(j)' = Owners(j) \ {q}
  <2>1. q \notin Owners(j)'
    BY <1>3 DEF Owners
  <2>2. \A r \in Queues \ {q} : r \in Owners(j)' <=> r \in Owners(j)
    BY <1>3 DEF Owners, PortsOf
  <2>3. QED
    BY <2>1, <2>2 DEF Owners
<1>5. x \in Queues \X Sides /\ y \in Queues \X Sides
  BY DEF Sides
<1>6. ASSUME NEW j \in Ports PROVE Borrowers(j)' = Borrowers(j) \ {x, y}
  <2>1. x \notin Borrowers(j)' /\ y \notin Borrowers(j)'
    BY <1>3 DEF Borrowers
  <2>2. ASSUME NEW b \in Queues \X Sides, b # x, b # y
        PROVE  b \in Borrowers(j)' <=> b \in Borrowers(j)
    <3>1. b[1] \in Queues \ {q} /\ b[2] \in Sides
      BY <2>2 DEF Sides
    <3>2. QED
      BY <1>3, <3>1 DEF Borrowers
  <2>3. Borrowers(j) \subseteq Queues \X Sides /\ Borrowers(j)' \subseteq Queues \X Sides
    BY DEF Borrowers
  <2> HIDE DEF x, y
  <2>4. QED
    BY <2>1, <2>2, <2>3
<1>7. ASSUME NEW j \in Ports, made_owns[q]
      PROVE  (q \in Owners(j) <=> j \in PortsOf(q)) /\ Borrowers(j)' = Borrowers(j)
  <2>1. q \in Owners(j) <=> j \in PortsOf(q)
    BY <1>7 DEF Owners
  <2>2. x \notin Borrowers(j) /\ y \notin Borrowers(j)
    BY <1>7 DEF Borrowers
  <2>3. QED
    BY <1>6, <2>1, <2>2
<1>8. ASSUME NEW j \in Ports, ~made_owns[q]
      PROVE  /\ q \notin Owners(j) /\ (x \in Borrowers(j) <=> j = w)
             /\ y \in Borrowers(j) <=> j = c
  BY <1>5, <1>8 DEF Owners, Borrowers
<1>9. QED
  BY <1>2, <1>4, <1>6, <1>7, <1>8

\* The books when queue q has given up its claims.
LEMMA ReleasedBooks ==
  ASSUME IInv, NEW t \in Threads, NEW q \in Queues, made_used[q], Released(t, q),
         port_used' = port_used, ports' = ports
  PROVE  BorrowBooks' /\ OwnBooks' /\ CountBooks'
<1> USE DEF IInv
<1> DEFINE w == made_ports[q]["work"]
           c == made_ports[q]["completion"]
           x == <<q, "work">>
           y == <<q, "completion">>
<1>1. BorrowBooks'
  <2>1. CASE made_owns[q]
    <3>1. port_borrows' = port_borrows
      BY <2>1 DEF Released
    <3>2. \A j \in Ports : Borrowers(j)' = Borrowers(j)
      BY <2>1, ReleasedClaims
    <3>3. QED
      BY <3>1, <3>2 DEF BorrowBooks
  <2>2. CASE ~made_owns[q]
    <3>1. ASSUME NEW j \in Ports PROVE port_borrows'[j] = Cardinality(Borrowers(j)')
      <4>1. port_borrows'[j] = Less(Cardinality(Borrowers(j)), Borrowed(w, c, j))
        BY <2>2 DEF Released, Uses, BorrowBooks
      <4>2. /\ x # y /\ IsFiniteSet(Borrowers(j)) /\ Cardinality(Borrowers(j)) \in Nat
            /\ IsFiniteSet(Borrowers(j)')
        BY FiniteBooks, FS_CardinalityType
      <4>3. (x \in Borrowers(j) <=> j = w) /\ (y \in Borrowers(j) <=> j = c)
        BY <2>2, ReleasedClaims
      <4>4. Borrowers(j)' = Borrowers(j) \ {x, y}
        BY ReleasedClaims
      <4>5. Cardinality(Borrowers(j)') \in Nat
        BY <4>2, FS_CardinalityType
      <4> HIDE DEF x, y
      <4>6. CASE j = w /\ j = c
        <5>1. x \in Borrowers(j) /\ y \in Borrowers(j)
          BY <4>3, <4>6
        <5>2. Cardinality(Borrowers(j) \ {x, y}) = Cardinality(Borrowers(j)) - 2
          BY <4>2, <5>1, CardPair
        <5>3. Borrowed(w, c, j) = 2
          BY <4>6 DEF Borrowed
        <5>4. QED
          BY <4>1, <4>2, <4>4, <4>5, <5>2, <5>3 DEF Less
      <4>7. CASE j = w /\ j # c
        <5>1. Cardinality(Borrowers(j) \ {x}) = Cardinality(Borrowers(j)) - 1
          BY <4>2, <4>3, <4>7, CardPair
        <5>2. Borrowed(w, c, j) = 1 /\ Borrowers(j)' = Borrowers(j) \ {x}
          BY <4>3, <4>4, <4>7 DEF Borrowed
        <5>3. QED
          BY <4>1, <4>2, <4>5, <5>1, <5>2 DEF Less
      <4>8. CASE j # w /\ j = c
        <5>1. Cardinality(Borrowers(j) \ {y}) = Cardinality(Borrowers(j)) - 1
          BY <4>2, <4>3, <4>8, CardPair
        <5>2. Borrowed(w, c, j) = 1 /\ Borrowers(j)' = Borrowers(j) \ {y}
          BY <4>3, <4>4, <4>8 DEF Borrowed
        <5>3. QED
          BY <4>1, <4>2, <4>5, <5>1, <5>2 DEF Less
      <4>9. CASE j # w /\ j # c
        <5>1. Borrowed(w, c, j) = 0 /\ Borrowers(j)' = Borrowers(j)
          BY <4>3, <4>4, <4>9 DEF Borrowed
        <5>2. QED
          BY <4>1, <4>2, <5>1 DEF Less
      <4>10. QED
        BY <4>6, <4>7, <4>8, <4>9
    <3>2. QED
      BY <3>1 DEF BorrowBooks
  <2>3. QED
    BY <2>1, <2>2
<1>2. OwnBooks'
  <2>1. ASSUME NEW j \in Ports
        PROVE  /\ port_owned'[j] <=> Owners(j)' # {}
               /\ \A p, r \in Owners(j)' : p = r
    <3>1. Owners(j)' = Owners(j) \ {q}
      BY ReleasedClaims
    <3>2. CASE made_owns[q]
      <4>1. port_owned'[j] <=> port_owned[j] /\ j \notin PortsOf(q)
        BY <3>2 DEF Released
      <4>2. q \in Owners(j) <=> j \in PortsOf(q)
        BY <3>2, ReleasedClaims
      <4>3. QED
        BY <3>1, <4>1, <4>2 DEF OwnBooks
    <3>3. CASE ~made_owns[q]
      <4>1. port_owned' = port_owned
        BY <3>3 DEF Released
      <4>2. q \notin Owners(j)
        BY <3>3, ReleasedClaims
      <4>3. QED
        BY <3>1, <4>1, <4>2 DEF OwnBooks
    <3>4. QED
      BY <3>2, <3>3
  <2>2. QED
    BY <2>1 DEF OwnBooks
<1>3. CountBooks'
  <2>1. Used' = Used
    BY DEF Used
  <2>2. Made' = Made \ {q} /\ q \in Made
    BY DEF Made, Released, TypeOK
  <2>3. Cardinality(Made') = Cardinality(Made) - 1
    BY <2>2, FiniteBooks, FS_RemoveElement
  <2>4. QED
    BY <2>1, <2>3 DEF CountBooks, Released
<1>4. QED
  BY <1>1, <1>2, <1>3

\* The ports nobody claims any more are the ones the thread goes on to stop.
LEMMA ReleasedSpent ==
  ASSUME IInv, NEW t \in Threads, NEW q \in Queues, made_used[q], pc[t] = "release",
         Released(t, q), BorrowBooks', OwnBooks', port_used' = port_used
  PROVE  /\ SpentPortsReturn'
         /\ done'[t] \subseteq Ports
         /\ pc'[t] \in {"idle", "stop"}
         /\ \A u \in Threads \ {t} : pc'[u] = pc[u] /\ done'[u] = done[u]
<1> USE DEF IInv
<1> DEFINE spent == {j \in PortsOf(q) : port_used[j] /\ ~port_owned'[j] /\ port_borrows'[j] = 0}
<1>1. /\ done'[t] = spent /\ pc'[t] = IF spent = {} THEN "idle" ELSE "stop"
      /\ \A u \in Threads \ {t} : pc'[u] = pc[u] /\ done'[u] = done[u]
  BY DEF Released, TypeOK
<1>2. PortsOf(q) = {made_ports[q]["work"], made_ports[q]["completion"]} /\ PortsOf(q) \subseteq Ports
  BY ReleasedClaims
<1>3. ASSUME NEW j \in Ports
      PROVE  /\ ~port_owned'[j] <=> Owners(j)' = {}
             /\ port_borrows'[j] = 0 <=> Borrowers(j)' = {}
  <2>1. IsFiniteSet(Borrowers(j)')
    BY FiniteBooks
  <2>2. port_borrows'[j] = Cardinality(Borrowers(j)')
    BY DEF BorrowBooks
  <2>3. QED
    BY <2>1, <2>2, FS_EmptySet DEF OwnBooks
<1>4. ASSUME NEW j \in Ports PROVE j \in spent <=> /\ j \in PortsOf(q) /\ port_used[j]
                                                   /\ Owners(j)' = {} /\ Borrowers(j)' = {}
  BY <1>3
<1>5. ASSUME NEW j \in PortsOf(q) PROVE Owners(j) # {} \/ Borrowers(j) # {}
  BY <1>2, SidesClaim DEF Sides
<1>6. ASSUME NEW j \in Ports
      PROVE  /\ Owners(j)' \subseteq Owners(j) /\ Borrowers(j)' \subseteq Borrowers(j)
             /\ j \notin PortsOf(q) => Owners(j)' = Owners(j) /\ Borrowers(j)' = Borrowers(j)
  <2>1. Owners(j)' = Owners(j) \ {q} /\ Borrowers(j)' = Borrowers(j) \ {<<q, "work">>, <<q, "completion">>}
    BY ReleasedClaims
  <2>2. ASSUME j \notin PortsOf(q)
        PROVE  Owners(j)' = Owners(j) /\ Borrowers(j)' = Borrowers(j)
    <3>1. q \notin Owners(j)
      BY <2>2 DEF Owners
    <3>2. <<q, "work">> \notin Borrowers(j) /\ <<q, "completion">> \notin Borrowers(j)
      BY <1>2, <2>2 DEF Borrowers
    <3>3. QED
      BY <2>1, <3>1, <3>2
  <2>3. QED
    BY <2>1, <2>2
<1> HIDE DEF spent
<1>7. ~Releasing(t) /\ (Releasing(t)' <=> spent # {})
  BY <1>1 DEF Releasing
<1>8. \A u \in Threads \ {t} : (Releasing(u)' <=> Releasing(u)) /\ done'[u] = done[u]
  BY <1>1 DEF Releasing
<1>9. \A u \in Threads \ {t} : Releasing(u) => \A j \in done[u] : j \in Ports /\ j \notin PortsOf(q)
  BY <1>5 DEF SpentPortsReturn, TypeOK
<1>10. ASSUME NEW u \in Threads, Releasing(u)', NEW j \in done'[u]
       PROVE  /\ port_used'[j] /\ Owners(j)' = {} /\ Borrowers(j)' = {}
              /\ \A v \in Threads : Releasing(v)' /\ j \in done'[v] => v = u
  <2>1. spent \subseteq PortsOf(q)
    BY DEF spent
  <2>2. CASE u = t
    BY <1>1, <1>2, <1>4, <1>8, <1>9, <1>10, <2>1, <2>2
  <2>3. CASE u # t
    <3>1. Releasing(u) /\ j \in done[u] /\ j \in Ports /\ j \notin PortsOf(q)
      BY <1>8, <1>9, <1>10, <2>3
    <3>2. Owners(j)' = {} /\ Borrowers(j)' = {} /\ port_used'[j]
      BY <1>6, <3>1 DEF SpentPortsReturn
    <3>3. \A v \in Threads : Releasing(v)' /\ j \in done'[v] => v = u
      BY <1>1, <1>8, <2>1, <3>1 DEF SpentPortsReturn
    <3>4. QED
      BY <3>2, <3>3
  <2>4. QED
    BY <2>2, <2>3
<1>11. ASSUME NEW j \in Ports, port_used'[j], Owners(j)' = {}, Borrowers(j)' = {}
       PROVE  \E u \in Threads : Releasing(u)' /\ j \in done'[u]
  <2>1. CASE j \in PortsOf(q)
    <3>1. j \in spent
      BY <1>4, <1>11, <2>1
    <3>2. QED
      BY <1>1, <1>7, <3>1
  <2>2. CASE j \notin PortsOf(q)
    <3>1. PICK u \in Threads : Releasing(u) /\ j \in done[u]
      BY <1>6, <1>11, <2>2 DEF SpentPortsReturn
    <3>2. QED
      BY <1>7, <1>8, <3>1
  <2>3. QED
    BY <2>1, <2>2
<1>12. SpentPortsReturn'
  BY <1>10, <1>11 DEF SpentPortsReturn
<1>13. QED
  BY <1>1, <1>2, <1>12 DEF spent

\* release_queue, first critical section.
LEMMA ReleaseClaimsStep ==
  ASSUME IInv, NEW t \in Threads, ReleaseClaims(t)
  PROVE  IInv'
<1> USE DEF IInv
<1> DEFINE q == target[t]
<1>1. /\ q \in Queues /\ made_used[q] /\ pc[t] = "release" /\ handles[q] = 0 /\ q # fallback
      /\ Released(t, q) /\ target' = [target EXCEPT ![t] = None]
      /\ UNCHANGED <<port_used, ports, running, process, fallback, handles, pinned, down, cleared>>
  BY ReleaseClaimsCase
<1> HIDE DEF q
<1>2. BorrowBooks' /\ OwnBooks' /\ CountBooks'
  BY <1>1, ReleasedBooks
<1>3. /\ SpentPortsReturn' /\ done'[t] \subseteq Ports /\ pc'[t] \in {"idle", "stop"}
      /\ \A u \in Threads \ {t} : pc'[u] = pc[u] /\ done'[u] = done[u]
  BY <1>1, <1>2, ReleasedSpent
<1>4. /\ ~made_used'[q] /\ references' = references
      /\ \A r \in Queues \ {q} : made_used'[r] = made_used[r] /\ made_ports'[r] = made_ports[r]
  BY <1>1 DEF Released, TypeOK
<1>5. target'[t] = None /\ \A u \in Threads \ {t} : target'[u] = target[u]
  BY <1>1 DEF TypeOK
<1>6. HeldPortsStay'
  BY <1>1, <1>4 DEF HeldPortsStay
<1>7. \A u \in Threads \ {t} : pc[u] = "release" => target[u] # q
  BY <1>1 DEF HandlesKeepQueues, q
<1>8. HandlesKeepQueues'
  <2>1. ASSUME NEW r \in Queues \ {q}, NEW u \in Threads
        PROVE  pc'[u] = "release" /\ target'[u] = r <=> pc[u] = "release" /\ target[u] = r
    BY <1>3, <1>5 DEF q
  <2>2. ASSUME NEW u \in Threads PROVE ~(pc'[u] = "release" /\ target'[u] = q)
    BY <1>3, <1>5, <1>7
  <2>3. QED
    BY <1>1, <1>4, <2>1, <2>2 DEF HandlesKeepQueues
<1>9. ReleaseInv'
  BY <1>1, <1>3, <1>4, <1>5, <1>7 DEF ReleaseInv
<1>10. ProcessInv' /\ DownInv'
  BY <1>1, <1>3, <1>5 DEF ProcessInv, Kept, DownInv
<1>11. TypeOK'
  <2>1. made_used' \in [Queues -> BOOLEAN] /\ made_owns' \in [Queues -> BOOLEAN]
    BY <1>1 DEF TypeOK, Released
  <2>2. made_ports' \in [Queues -> [Sides -> Ports \cup {None}]]
    BY <1>1 DEF TypeOK, Released
  <2>3. port_owned' \in [Ports -> BOOLEAN]
    BY <1>1 DEF TypeOK, Released
  <2>4. port_borrows' \in [Ports -> Nat]
    <3>1. \A j \in Ports : Less(port_borrows[j], Uses(q, j)) \in Nat
      BY DEF TypeOK, Less, Uses, Borrowed
    <3>2. QED
      BY <1>1, <3>1 DEF TypeOK, Released
  <2>5. queues' \in Nat
    <3>1. IsFiniteSet(Made')
      BY FiniteBooks
    <3>2. QED
      BY <1>2, <3>1, FS_CardinalityType DEF CountBooks
  <2>6. done' \in [Threads -> SUBSET Ports] /\ pc' \in [Threads -> States]
    <3>1. DOMAIN done' = Threads /\ DOMAIN pc' = Threads
      BY <1>1 DEF Released, TypeOK
    <3>2. /\ done' = [done EXCEPT ![t] = done'[t]]
          /\ pc' = [pc EXCEPT ![t] = pc'[t]]
      BY <1>1 DEF Released, TypeOK
    <3>3. QED
      BY <1>3, <3>2 DEF TypeOK, States
  <2>7. target' \in [Threads -> Queues \cup {None}]
    BY <1>1 DEF TypeOK
  <2>8. QED
    BY <1>1, <1>4, <2>1, <2>2, <2>3, <2>4, <2>5, <2>6, <2>7 DEF TypeOK
<1>12. QED
  BY <1>2, <1>3, <1>6, <1>8, <1>9, <1>10, <1>11

\* release_queue, second critical section: the ports given back were allotted, and nobody's.
LEMMA GivePortsStep ==
  ASSUME IInv, NEW t \in Threads, GivePorts(t)
  PROVE  IInv'
<1> USE DEF IInv
<1>1. /\ pc[t] = "give" /\ pc' = [pc EXCEPT ![t] = "idle"] /\ done' = [done EXCEPT ![t] = {}]
      /\ port_used' = [j \in Ports |-> port_used[j] /\ j \notin done[t]]
      /\ ports' = ports - Cardinality(done[t])
      /\ UNCHANGED <<made_used, made_owns, made_ports, references, queues, port_owned,
                     port_borrows, target, running, process, fallback, handles, pinned,
                     down, cleared>>
  BY DEF GivePorts, poolVars
<1>2. /\ pc'[t] = "idle" /\ done'[t] = {}
      /\ \A u \in Threads \ {t} : pc'[u] = pc[u] /\ done'[u] = done[u]
  BY <1>1 DEF TypeOK
<1>3. Releasing(t) /\ ~Releasing(t)' /\ \A u \in Threads \ {t} : Releasing(u)' <=> Releasing(u)
  BY <1>1, <1>2 DEF Releasing
<1>4. \A j : Owners(j)' = Owners(j) /\ Borrowers(j)' = Borrowers(j)
  BY <1>1 DEF Owners, Borrowers, PortsOf
<1>5. done[t] \subseteq Used /\ \A j \in done[t] : Owners(j) = {} /\ Borrowers(j) = {}
  BY <1>3 DEF SpentPortsReturn, Used, TypeOK
<1>6. CountBooks' /\ ports' \in Nat
  <2>1. Used' = Used \ done[t] /\ Made' = Made
    BY <1>1 DEF Used, Made
  <2>2. IsFiniteSet(Used) /\ Used \cap done[t] = done[t]
    BY <1>5, FiniteBooks
  <2>3. IsFiniteSet(Used') /\ Cardinality(Used') = Cardinality(Used) - Cardinality(done[t])
    <3>1. /\ IsFiniteSet(Used \ done[t])
          /\ Cardinality(Used \ done[t]) = Cardinality(Used) - Cardinality(Used \cap done[t])
      BY <2>2, FS_Difference
    <3>2. QED
      BY <2>1, <2>2, <3>1
  <2>4. Cardinality(Used') \in Nat
    BY <2>3, FS_CardinalityType
  <2>5. QED
    BY <1>1, <2>1, <2>3, <2>4 DEF CountBooks
<1>7. BorrowBooks' /\ OwnBooks'
  BY <1>1, <1>4 DEF BorrowBooks, OwnBooks
<1>8. HeldPortsStay'
  <2>1. ASSUME NEW q \in Queues, made_used[q], NEW s \in Sides
        PROVE  made_ports[q][s] \in Ports /\ made_ports[q][s] \notin done[t]
    <3>1. made_ports[q][s] \in Ports
      BY <2>1 DEF HeldPortsStay
    <3>2. QED
      BY <1>5, <2>1, <3>1, SidesClaim
  <2>2. QED
    BY <1>1, <2>1 DEF HeldPortsStay
<1>9. SpentPortsReturn'
  <2>1. ASSUME NEW u \in Threads \ {t}, Releasing(u), NEW j \in done[u]
        PROVE  j \in Ports /\ j \notin done[t]
    BY <1>3, <2>1 DEF SpentPortsReturn, TypeOK
  <2>2. ASSUME NEW u \in Threads, Releasing(u)', NEW j \in done'[u]
        PROVE  /\ port_used'[j] /\ Owners(j)' = {} /\ Borrowers(j)' = {}
               /\ \A v \in Threads : Releasing(v)' /\ j \in done'[v] => v = u
    <3>1. u # t /\ Releasing(u) /\ j \in done[u]
      BY <1>2, <1>3, <2>2
    <3>2. port_used'[j]
      BY <1>1, <2>1, <3>1 DEF SpentPortsReturn
    <3>3. QED
      BY <1>2, <1>3, <1>4, <3>1, <3>2 DEF SpentPortsReturn
  <2>3. ASSUME NEW j \in Ports, port_used'[j]
        PROVE  \/ Owners(j)' # {} \/ Borrowers(j)' # {}
               \/ \E u \in Threads : Releasing(u)' /\ j \in done'[u]
    <3>1. port_used[j] /\ j \notin done[t]
      BY <1>1, <2>3
    <3>2. QED
      BY <1>2, <1>3, <1>4, <3>1 DEF SpentPortsReturn
  <2>4. QED
    BY <2>2, <2>3 DEF SpentPortsReturn
<1>10. HandlesKeepQueues' /\ ReleaseInv'
  BY <1>1, <1>2, HandlesQuiet
<1>11. ProcessInv' /\ DownInv'
  BY <1>1, <1>2 DEF ProcessInv, Kept, DownInv
<1>12. TypeOK'
  <2>1. port_used' \in [Ports -> BOOLEAN]
    BY <1>1 DEF TypeOK
  <2>2. pc' \in [Threads -> States] /\ done' \in [Threads -> SUBSET Ports]
    BY <1>1 DEF TypeOK, States
  <2>3. QED
    BY <1>1, <1>6, <2>1, <2>2 DEF TypeOK
<1>13. QED
  BY <1>6, <1>7, <1>8, <1>9, <1>10, <1>11, <1>12

-----------------------------------------------------------------------------
(* The theorems                                                             *)

\* The pool starts empty.
LEMMA InitIInv == Init => IInv
<1> SUFFICES ASSUME Init PROVE IInv
  OBVIOUS
<1>1. TypeOK
  BY DEF Init, TypeOK, States
<1>2. (\A j : Borrowers(j) = {} /\ Owners(j) = {}) /\ Used = {} /\ Made = {}
  BY DEF Init, Borrowers, Owners, Used, Made
<1>3. BorrowBooks /\ OwnBooks /\ CountBooks
  BY <1>2, FS_EmptySet DEF Init, BorrowBooks, OwnBooks, CountBooks
<1>4. HeldPortsStay /\ SpentPortsReturn
  BY DEF Init, HeldPortsStay, SpentPortsReturn, Releasing
<1>5. HandlesKeepQueues /\ ReleaseInv /\ ProcessInv /\ DownInv
  BY PoolConstants DEF Init, HandlesKeepQueues, ReleaseInv, ProcessInv, DownInv, Kept, Queues, None
<1>6. QED
  BY <1>1, <1>3, <1>4, <1>5 DEF IInv

\* Every step of every thread keeps the invariant.
LEMMA NextIInv == IInv /\ [Next]_vars => IInv'
<1> SUFFICES ASSUME IInv, [Next]_vars PROVE IInv'
  OBVIOUS
<1>1. ASSUME NEW t \in Threads, Call(t) PROVE IInv'
  BY <1>1, CreateStep, CreateCompositeStep, LoadProcessStep, ClearProcessStep, StopAllStep,
     DuplicateStep, CloseStep, SetProcessStep DEF Call
<1>2. ASSUME NEW t \in Threads, Step(t) PROVE IInv'
  BY <1>2, ReleaseClaimsStep, StopSpentStep, GivePortsStep, MakeFallbackStep,
     PublishFallbackStep, ReloadProcessStep, DuplicateProcessStep, StopNextStep DEF Step
<1>3. CASE UNCHANGED vars
  <2>1. /\ BorrowBooks' /\ OwnBooks' /\ CountBooks'
        /\ \A j : Owners(j)' = Owners(j) /\ Borrowers(j)' = Borrowers(j)
    BY <1>3, BooksQuiet DEF IInv, vars, poolVars
  <2>2. TypeOK'
    BY <1>3 DEF IInv, TypeOK, vars, poolVars, portVars, threadVars
  <2>3. HeldPortsStay' /\ SpentPortsReturn'
    BY <1>3, <2>1 DEF IInv, HeldPortsStay, SpentPortsReturn, Releasing, vars, poolVars, portVars,
                      threadVars
  <2>4. HandlesKeepQueues' /\ ReleaseInv' /\ ProcessInv' /\ DownInv'
    BY <1>3 DEF IInv, HandlesKeepQueues, ReleaseInv, ProcessInv, DownInv, Kept, vars, poolVars,
                threadVars
  <2>5. QED
    BY <2>1, <2>2, <2>3, <2>4 DEF IInv
<1>4. QED
  BY <1>1, <1>2, <1>3 DEF Next

\* The invariant of the pool.
LEMMA Invariant == Spec => []IInv
BY InitIInv, NextIInv, PTL DEF Spec

\* The counts and flags of queue_pool agree with the queues alive after any sequence of
\* creating, borrowing, closing and releasing by any number of threads.
THEOREM BooksAlwaysBalance == Spec => []BooksBalance
<1>1. IInv => BooksBalance
  BY DEF IInv, BooksBalance, BorrowBooks, OwnBooks, CountBooks, Used, Made
<1>2. QED
  BY <1>1, Invariant, PTL

\* No order of closing queues that share ports stops or gives back a port that one of
\* them still refers to.
THEOREM PortsOutliveQueues == Spec => []HeldPortsStay
<1>1. IInv => HeldPortsStay
  BY DEF IInv
<1>2. QED
  BY <1>1, Invariant, PTL

\* A spent port is given back by one release, once, and no port is lost to the pool.
THEOREM PortsGivenBackOnce == Spec => []SpentPortsReturn
<1>1. IInv => SpentPortsReturn
  BY DEF IInv
<1>2. QED
  BY <1>1, Invariant, PTL

\* The last close releases a queue, and no other does.
THEOREM QueuesOutliveHandles == Spec => []HandlesKeepQueues
<1>1. IInv => HandlesKeepQueues
  BY DEF IInv
<1>2. QED
  BY <1>1, Invariant, PTL

\* The queue that process_queue returned is alive when its caller takes a reference.
THEOREM ProcessQueueStaysAlive == Spec => []ProcessQueueAlive
<1>1. IInv => ProcessQueueAlive
  <2> SUFFICES ASSUME IInv, NEW t \in Threads, pc[t] = "duplicate", target[t] # None
               PROVE  made_used[target[t]] /\ references[target[t]] > 0
    BY DEF IInv, ProcessInv, ProcessQueueAlive
  <2> DEFINE q == target[t]
  <2>1. q \in Queues /\ Kept(q) /\ handles[q] \in Nat
    BY DEF IInv, ProcessInv, TypeOK
  <2>2. handles[q] + (IF q = fallback THEN 1 ELSE 0) > 0
    BY <2>1 DEF IInv, ProcessInv, Kept
  <2>3. QED
    BY <2>1, <2>2 DEF IInv, HandlesKeepQueues
<1>2. QED
  BY <1>1, Invariant, PTL

=============================================================================
