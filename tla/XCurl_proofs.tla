---------------------------- MODULE XCurl_proofs ----------------------------
(***************************************************************************)
(* Proofs about XCurl, for every number of transfers and every capacity of *)
(* the list and of the ring.  What the list and the ring say of a transfer *)
(* is one predicate, Books, on any list and any ring, so that a turn of    *)
(* answered()'s loop is shown to keep it in the middle of the loop, where  *)
(* the variables still have their old values.                              *)
(***************************************************************************)
EXTENDS XCurl, NaturalsInduction, WellFoundedInduction, TLAPS

-----------------------------------------------------------------------------
(* The invariant                                                            *)

Completions == [of : Transfers, stale : BOOLEAN]

Fits(l, r) ==
    /\ l \in Seq(Transfers) /\ Len(l) <= Capacity
    /\ r \in Seq(Completions) /\ Len(r) <= Capacity

\* No transfer is on the list twice, none has two completions that are not stale, and none
\* has both.
Single(l, r) ==
    /\ \A i, j \in 1..Len(l) : l[i] = l[j] => i = j
    /\ \A t \in Transfers : \A i, j \in 1..Len(r) : r[i] = Done(t) /\ r[j] = Done(t) => i = j
    /\ \A i \in 1..Len(l) : \A j \in 1..Len(r) : r[j] # Done(l[i])

\* A transfer that waits was added, is answered here and was not reported.
Waits(t) == added[t] /\ local[t] /\ ~reported[t]

\* On the list, the flag says whether the answer was given.
Listed(l) ==
    \A i \in 1..Len(l) :
        /\ Waits(l[i])
        /\ delivered[l[i]] => answers[l[i]] = 1
        /\ ~delivered[l[i]] => answers[l[i]] = 0

\* In the ring, it was.
Queued(r) ==
    \A t \in Transfers : \A i \in 1..Len(r) :
        r[i] = Done(t) => Waits(t) /\ delivered[t] /\ answers[t] = 1

\* No transfer is forgotten.
Kept(l, r) ==
    \A t \in Transfers : added[t] /\ local[t] =>
        \/ \E i \in 1..Len(l) : l[i] = t
        \/ \E j \in 1..Len(r) : r[j] = Done(t)
        \/ reported[t]

Books(l, r) == Fits(l, r) /\ Single(l, r) /\ Listed(l) /\ Queued(r) /\ Kept(l, r)

\* What a client has added is in use, and what libcurl has is not answered here.
Sides ==
    \A t \in Transfers :
        /\ added[t] => used[t]
        /\ network[t] # "out" => added[t] /\ ~local[t]

XCurlInv == TypeOK /\ answered = Len(list) /\ Books(list, messages) /\ Sides

-----------------------------------------------------------------------------
(* The list and the ring                                                    *)

LEMMA DoneFacts ==
    ASSUME NEW t \in Transfers
    PROVE  /\ Done(t) \in Completions
           /\ Done(t).of = t /\ ~Done(t).stale
           /\ \A u \in Transfers : Done(u) = Done(t) => u = t
           /\ \A c \in Completions : (c = Done(t)) <=> (c.of = t /\ ~c.stale)
  BY DEF Done, Completions

\* Without drops what was at one place and nothing else.
LEMMA WithoutFacts ==
    ASSUME NEW S, NEW s \in Seq(S), NEW k \in 1..Len(s)
    PROVE  /\ Without(s, k) \in Seq(S)
           /\ Len(Without(s, k)) = Len(s) - 1
           /\ \A j \in 1..Len(Without(s, k)) :
                 \E i \in 1..Len(s) : i # k /\ Without(s, k)[j] = s[i]
           /\ \A i \in 1..Len(s) : i # k =>
                 \E j \in 1..Len(Without(s, k)) : Without(s, k)[j] = s[i]
           /\ (\A i, j \in 1..Len(s) : s[i] = s[j] => i = j) =>
                 \A i, j \in 1..Len(Without(s, k)) :
                    Without(s, k)[i] = Without(s, k)[j] => i = j
<1> DEFINE w == Without(s, k)
           n == Len(s)
<1>1. n \in Nat /\ n >= 1 /\ k \in 1..n /\ (\A i \in 1..n : s[i] \in S)
  OBVIOUS
<1>2. w = [j \in 1..(n - 1) |-> IF j = k THEN s[n] ELSE s[j]]
  BY DEF Without
<1>3. \A j \in 1..(n - 1) : w[j] = IF j = k THEN s[n] ELSE s[j]
  BY <1>2
<1>4. w \in Seq(S) /\ Len(w) = n - 1
  <2>1. n - 1 \in Nat /\ \A j \in 1..(n - 1) : (IF j = k THEN s[n] ELSE s[j]) \in S
    BY <1>1
  <2>2. QED
    BY <1>2, <2>1
<1> HIDE DEF w
<1>5. \A j \in 1..(n - 1) : \E i \in 1..n : i # k /\ w[j] = s[i]
  BY <1>1, <1>3
<1>6. \A i \in 1..n : i # k => \E j \in 1..(n - 1) : w[j] = s[i]
  <2>1. SUFFICES ASSUME NEW i \in 1..n, i # k PROVE \E j \in 1..(n - 1) : w[j] = s[i]
    OBVIOUS
  <2>2. CASE i = n
    BY <1>1, <1>3, <2>1, <2>2
  <2>3. CASE i # n
    BY <1>1, <1>3, <2>1, <2>3
  <2>4. QED
    BY <2>2, <2>3
<1>7. (\A i, j \in 1..n : s[i] = s[j] => i = j) =>
         \A i, j \in 1..(n - 1) : w[i] = w[j] => i = j
  BY <1>1, <1>3
<1>8. QED
  BY <1>4, <1>5, <1>6, <1>7 DEF w

-----------------------------------------------------------------------------
(* answered()'s loop                                                        *)

LoopStates ==
    [i : Nat, list : Seq(Transfers), ring : Seq(Completions)]

LoopInv(s) == s \in LoopStates /\ s.i >= 1 /\ Books(s.list, s.ring)

\* A turn moves a transfer from the list to the ring, or moves nothing.
LEMMA TurnKeepsBooks ==
    ASSUME TypeOK, NEW s, LoopInv(s)
    PROVE  LoopInv(Collect1(s))
<1> DEFINE l == s.list
           r == s.ring
           k == s.i
<1>1. /\ s \in LoopStates /\ l \in Seq(Transfers) /\ r \in Seq(Completions)
      /\ k \in Nat /\ k >= 1 /\ Books(l, r)
  BY DEF LoopInv, LoopStates
<1>2. CASE k > Len(l)
  BY <1>2 DEF Collect1
<1>3. CASE ~(k > Len(l)) /\ (~delivered[l[k]] \/ Len(r) = Capacity)
  <2>1. Collect1(s) = [s EXCEPT !.i = @ + 1]
    BY <1>3 DEF Collect1
  <2>2. [s EXCEPT !.i = @ + 1] \in LoopStates
    BY <1>1 DEF LoopStates
  <2>3. /\ [s EXCEPT !.i = @ + 1].i = k + 1
        /\ [s EXCEPT !.i = @ + 1].list = l /\ [s EXCEPT !.i = @ + 1].ring = r
    BY <1>1 DEF LoopStates
  <2>4. QED
    BY <1>1, <2>1, <2>2, <2>3 DEF LoopInv
<1>4. CASE ~(k > Len(l)) /\ ~(~delivered[l[k]] \/ Len(r) = Capacity)
  <2> DEFINE w == Without(l, k)
             q == Append(r, Done(l[k]))
             u == l[k]
  <2>1. Collect1(s) = [s EXCEPT !.ring = q, !.list = w]
    BY <1>4, <1>1 DEF Collect1, LoopStates
  <2>2. k \in 1..Len(l) /\ u \in Transfers /\ Len(l) \in Nat /\ Len(r) \in Nat
    BY <1>1, <1>4
  <2>3. /\ w \in Seq(Transfers) /\ Len(w) = Len(l) - 1
        /\ \A j \in 1..Len(w) : \E i \in 1..Len(l) : i # k /\ w[j] = l[i]
        /\ \A i \in 1..Len(l) : i # k => \E j \in 1..Len(w) : w[j] = l[i]
        /\ (\A i, j \in 1..Len(l) : l[i] = l[j] => i = j) =>
              \A i, j \in 1..Len(w) : w[i] = w[j] => i = j
    <3>1. l \in Seq(Transfers) /\ k \in 1..Len(l)
      BY <1>1, <2>2
    <3> HIDE DEF l, k
    <3>2. QED
      BY <3>1, WithoutFacts, Zenon
  <2>4. /\ Done(u) \in Completions
        /\ \A t \in Transfers : Done(t) = Done(u) => t = u
    BY <2>2, DoneFacts
  <2>5. /\ q \in Seq(Completions) /\ Len(q) = Len(r) + 1
        /\ \A i \in 1..Len(r) : q[i] = r[i]
        /\ q[Len(r) + 1] = Done(u)
    BY <1>1, <2>4
  <2>6. Len(l) <= Capacity /\ Len(r) < Capacity
    BY <1>1, <1>4, <2>2, XCurlConstants DEF Books, Fits
  <2>7. delivered[u]
    BY <1>4
  <2> HIDE DEF w, q, u
  <2>10. Fits(w, q)
    BY <2>2, <2>3, <2>5, <2>6, XCurlConstants DEF Fits
  <2>11. Single(w, q)
    <3>1. /\ \A i, j \in 1..Len(l) : l[i] = l[j] => i = j
          /\ \A t \in Transfers : \A i, j \in 1..Len(r) : r[i] = Done(t) /\ r[j] = Done(t) => i = j
          /\ \A i \in 1..Len(l) : \A j \in 1..Len(r) : r[j] # Done(l[i])
      BY <1>1 DEF Books, Single
    <3>2. \A i, j \in 1..Len(w) : w[i] = w[j] => i = j
      BY <2>3, <3>1
    <3>3. \A j \in 1..Len(r) : r[j] # Done(u)
      BY <3>1, <2>2 DEF u
    <3>4. \A t \in Transfers : \A i, j \in 1..Len(q) : q[i] = Done(t) /\ q[j] = Done(t) => i = j
      <4>1. SUFFICES ASSUME NEW t \in Transfers, NEW i \in 1..Len(q), NEW j \in 1..Len(q),
                            q[i] = Done(t), q[j] = Done(t)
                     PROVE  i = j
        OBVIOUS
      <4>2. CASE i \in 1..Len(r) /\ j \in 1..Len(r)
        BY <3>1, <2>5, <4>1, <4>2
      <4>3. CASE i = Len(r) + 1 /\ j = Len(r) + 1
        BY <4>3
      <4>4. CASE i = Len(r) + 1 /\ j \in 1..Len(r)
        BY <3>3, <2>4, <2>5, <4>1, <4>4
      <4>5. CASE i \in 1..Len(r) /\ j = Len(r) + 1
        BY <3>3, <2>4, <2>5, <4>1, <4>5
      <4>6. QED
        BY <4>2, <4>3, <4>4, <4>5, <2>2, <2>5
    <3>5. \A j \in 1..Len(w) : w[j] # u /\ w[j] \in Transfers
      BY <3>1, <2>2, <2>3 DEF u
    <3>6. \A i \in 1..Len(w) : \A j \in 1..Len(q) : q[j] # Done(w[i])
      <4>1. SUFFICES ASSUME NEW i \in 1..Len(w), NEW j \in 1..Len(q), q[j] = Done(w[i])
                     PROVE  FALSE
        OBVIOUS
      <4>2. PICK m \in 1..Len(l) : w[i] = l[m]
        BY <2>3
      <4>3. CASE j \in 1..Len(r)
        BY <4>1, <4>2, <4>3, <3>1, <2>5
      <4>4. CASE j = Len(r) + 1
        BY <4>1, <4>4, <3>5, <2>4, <2>5
      <4>5. QED
        BY <4>3, <4>4, <2>2, <2>5
    <3>7. QED
      BY <3>2, <3>4, <3>6 DEF Single
  <2>12. Listed(w)
    <3>1. SUFFICES ASSUME NEW j \in 1..Len(w)
                   PROVE  /\ Waits(w[j])
                          /\ delivered[w[j]] => answers[w[j]] = 1
                          /\ ~delivered[w[j]] => answers[w[j]] = 0
      BY Zenon DEF Listed
    <3>2. PICK i \in 1..Len(l) : w[j] = l[i]
      BY <2>3
    <3>3. /\ Waits(l[i])
          /\ delivered[l[i]] => answers[l[i]] = 1
          /\ ~delivered[l[i]] => answers[l[i]] = 0
      BY <1>1, Zenon DEF Books, Listed
    <3>4. QED
      BY <3>2, <3>3, Zenon
  <2>13. Queued(q)
    <3>1. Waits(u) /\ answers[u] = 1
      BY <1>1, <2>2, <2>7 DEF Books, Listed, u
    <3>2. SUFFICES ASSUME NEW t \in Transfers, NEW i \in 1..Len(q), q[i] = Done(t)
                   PROVE  Waits(t) /\ delivered[t] /\ answers[t] = 1
      BY DEF Queued
    <3>3. CASE i \in 1..Len(r)
      BY <1>1, <2>5, <3>2, <3>3 DEF Books, Queued
    <3>4. CASE i = Len(r) + 1
      BY <2>4, <2>5, <2>7, <3>1, <3>2, <3>4
    <3>5. QED
      BY <3>3, <3>4, <2>2, <2>5
  <2>14. Kept(w, q)
    <3>1. SUFFICES ASSUME NEW t \in Transfers, added[t], local[t], ~reported[t]
                   PROVE  \/ \E i \in 1..Len(w) : w[i] = t
                          \/ \E j \in 1..Len(q) : q[j] = Done(t)
      BY DEF Kept
    <3>2. (\E i \in 1..Len(l) : l[i] = t) \/ (\E j \in 1..Len(r) : r[j] = Done(t))
      BY <1>1, <3>1 DEF Books, Kept
    <3>3. CASE \E j \in 1..Len(r) : r[j] = Done(t)
      BY <3>3, <2>2, <2>5
    <3>4. CASE \E i \in 1..Len(l) : l[i] = t
      <4>1. PICK i \in 1..Len(l) : l[i] = t
        BY <3>4
      <4>2. CASE i = k
        BY <4>1, <4>2, <2>2, <2>5 DEF u
      <4>3. CASE i # k
        BY <4>1, <4>3, <2>3
      <4>4. QED
        BY <4>2, <4>3
    <3>5. QED
      BY <3>2, <3>3, <3>4
  <2>15. Books(w, q)
    BY <2>10, <2>11, <2>12, <2>13, <2>14 DEF Books
  <2>16. /\ [s EXCEPT !.ring = q, !.list = w] \in LoopStates
         /\ [s EXCEPT !.ring = q, !.list = w].i = k
         /\ [s EXCEPT !.ring = q, !.list = w].list = w
         /\ [s EXCEPT !.ring = q, !.list = w].ring = q
    BY <1>1, <2>3, <2>5 DEF LoopStates
  <2>17. QED
    BY <1>1, <2>1, <2>15, <2>16 DEF LoopInv
<1>5. QED
  BY <1>2, <1>3, <1>4

\* A set of numbers that is not empty has a least one.
LEMMA LeastTurn ==
    ASSUME NEW S \in SUBSET Nat, S # {}
    PROVE  \E d \in S : \A e \in S : d <= e
<1> DEFINE Less == {p \in Nat \X Nat : p[1] < p[2]}
<1>1. IsWellFoundedOn(Less, Nat)
  BY NatLessThanWellFounded, Zenon DEF OpToRel
<1> HIDE DEF Less
<1>2. PICK d \in S : \A e \in S : <<e, d>> \notin Less
  BY <1>1, WFMin
<1>3. ASSUME NEW e \in S PROVE d <= e
  <2>1. d \in Nat /\ e \in Nat /\ <<e, d>> \notin Less
    BY <1>2
  <2>2. ~(e < d)
    BY <2>1 DEF Less
  <2>3. QED
    BY <2>1, <2>2
<1>4. QED
  BY <1>3

Start == [i |-> 1, list |-> list, ring |-> messages]

\* g is what the recursion says it is, up to turn n.
IsTurns(g, n) == g = [m \in 0..n |-> IF m = 0 THEN Start ELSE Collect1(g[m - 1])]

\* The recursion has a solution, however many turns there are.
LEMMA TurnsExist == \A n \in Nat : \E g : IsTurns(g, n)
<1> DEFINE S == {n \in Nat : ~\E g : IsTurns(g, n)}
<1>1. SUFFICES ASSUME S # {} PROVE FALSE
  OBVIOUS
<1>2. S \in SUBSET Nat
  OBVIOUS
<1>3. PICK d \in S : \A e \in S : d <= e
  <2> HIDE DEF S
  <2> QED
    BY <1>1, <1>2, LeastTurn
<1>4. d \in Nat /\ ~\E g : IsTurns(g, d)
  OBVIOUS
<1>5. CASE d = 0
  <2> DEFINE g == [m \in 0..0 |-> Start]
  <2>1. g = [m \in 0..0 |-> IF m = 0 THEN Start ELSE Collect1(g[m - 1])]
    BY SMT
  <2>2. IsTurns(g, 0)
    BY <2>1 DEF IsTurns
  <2>3. QED
    BY <2>2, <1>4, <1>5
<1>6. CASE d # 0
  <2>1. d - 1 \in Nat /\ d - 1 \notin S
    BY <1>3, <1>4, <1>6
  <2>2. PICK g : IsTurns(g, d - 1)
    BY <2>1
  <2> DEFINE h == [m \in 0..d |-> IF m = d THEN Collect1(g[d - 1]) ELSE g[m]]
  <2>3. \A m \in 0..(d - 1) : g[m] = IF m = 0 THEN Start ELSE Collect1(g[m - 1])
    BY <2>2 DEF IsTurns
  <2>4. \A m \in 0..d : h[m] = IF m = d THEN Collect1(g[d - 1]) ELSE g[m]
    OBVIOUS
  <2>5. ASSUME NEW m \in 0..d
        PROVE  (IF m = d THEN Collect1(g[d - 1]) ELSE g[m]) =
               (IF m = 0 THEN Start ELSE Collect1(h[m - 1]))
    <3> HIDE DEF h
    <3>1. CASE m = d
      <4>1. h[m - 1] = g[d - 1]
        BY <1>4, <1>6, <2>4, <3>1
      <4>2. QED
        BY <3>1, <4>1, <1>6
    <3>2. CASE m # d /\ m # 0
      <4>1. m \in 0..(d - 1) /\ m - 1 \in 0..d /\ m - 1 # d
        BY <1>4, <3>2
      <4>2. h[m - 1] = g[m - 1]
        BY <2>4, <4>1
      <4>3. QED
        BY <2>3, <3>2, <4>1, <4>2
    <3>3. CASE m # d /\ m = 0
      BY <1>4, <2>3, <3>3
    <3>4. QED
      BY <3>1, <3>2, <3>3
  <2>6. h = [m \in 0..d |-> IF m = 0 THEN Start ELSE Collect1(h[m - 1])]
    BY <2>5
  <2>7. IsTurns(h, d)
    BY <2>6 DEF IsTurns
  <2>8. QED
    BY <2>7, <1>4
<1>7. QED
  BY <1>5, <1>6

LEMMA TurnsAre ==
    ASSUME TypeOK
    PROVE  \A n \in 0..Len(list) : Turns[n] = IF n = 0 THEN Start ELSE Collect1(Turns[n - 1])
<1>1. Len(list) \in Nat
  BY DEF TypeOK
<1>2. PICK g : IsTurns(g, Len(list))
  BY <1>1, TurnsExist
<1>3. g = [n \in 0..Len(list) |->
             IF n = 0 THEN [i |-> 1, list |-> list, ring |-> messages]
             ELSE Collect1(g[n - 1])]
  BY <1>2 DEF IsTurns, Start
<1>4. Turns = [n \in 0..Len(list) |->
                 IF n = 0 THEN [i |-> 1, list |-> list, ring |-> messages]
                 ELSE Collect1(Turns[n - 1])]
  BY <1>3, SMT DEF Turns
<1> HIDE DEF Turns
<1>5. QED
  BY <1>4 DEF Start

\* The loop ends with books as good as those it began with.
LEMMA CollectedKeepsBooks ==
    ASSUME TypeOK, Books(list, messages)
    PROVE  LoopInv(Collected)
<1>1. Len(list) \in Nat /\ list \in Seq(Transfers) /\ messages \in Seq(Completions)
  BY DEF TypeOK, Completions
<1>2. LoopInv(Start)
  BY <1>1 DEF LoopInv, LoopStates, Start
<1> DEFINE S == {n \in 0..Len(list) : ~LoopInv(Turns[n])}
<1>3. S = {}
  <2>1. SUFFICES ASSUME S # {} PROVE FALSE
    OBVIOUS
  <2>2. S \in SUBSET Nat
    BY <1>1
  <2>3. PICK d \in S : \A e \in S : d <= e
    <3> HIDE DEF S
    <3> QED
      BY <2>1, <2>2, LeastTurn
  <2>4. d \in 0..Len(list) /\ ~LoopInv(Turns[d])
    OBVIOUS
  <2>5. Turns[d] = IF d = 0 THEN Start ELSE Collect1(Turns[d - 1])
    BY <2>4, TurnsAre
  <2>6. d # 0
    BY <1>2, <2>4, <2>5
  <2>7. d - 1 \in 0..Len(list) /\ d - 1 \notin S
    BY <1>1, <2>3, <2>4, <2>6
  <2>8. LoopInv(Turns[d - 1])
    BY <2>7
  <2>9. LoopInv(Collect1(Turns[d - 1]))
    BY <2>8, TurnKeepsBooks
  <2>10. QED
    BY <2>4, <2>5, <2>6, <2>9
<1>4. QED
  BY <1>1, <1>3 DEF Collected

-----------------------------------------------------------------------------
(* The steps                                                                *)

\* The step leaves alone all there is to know of a transfer that is answered here, and makes
\* none.
Undisturbed ==
    \A t \in Transfers :
        /\ added[t] /\ local[t] =>
              /\ added'[t] /\ local'[t]
              /\ reported'[t] <=> reported[t]
              /\ delivered'[t] <=> delivered[t]
              /\ answers'[t] = answers[t]
        /\ added'[t] /\ local'[t] => added[t] /\ local[t]

LEMMA BooksUndisturbed ==
    ASSUME Books(list, messages), list' = list, messages' = messages, Undisturbed
    PROVE  Books(list, messages)'
<1>1. Fits(list, messages)' /\ Single(list, messages)'
  BY DEF Books, Fits, Single
<1>2. list \in Seq(Transfers)
  BY DEF Books, Fits
<1>3. Listed(list)'
  <2>1. SUFFICES ASSUME NEW i \in 1..Len(list)
                 PROVE  /\ Waits(list[i])'
                        /\ delivered'[list[i]] => answers'[list[i]] = 1
                        /\ ~delivered'[list[i]] => answers'[list[i]] = 0
    BY DEF Listed, Waits
  <2>2. list[i] \in Transfers
    BY <1>2
  <2>3. /\ Waits(list[i])
        /\ delivered[list[i]] => answers[list[i]] = 1
        /\ ~delivered[list[i]] => answers[list[i]] = 0
    BY DEF Books, Listed
  <2>4. QED
    BY <2>2, <2>3 DEF Undisturbed, Waits
<1>4. Queued(messages)'
  <2>1. SUFFICES ASSUME NEW t \in Transfers, NEW i \in 1..Len(messages), messages[i] = Done(t)
                 PROVE  Waits(t)' /\ delivered'[t] /\ answers'[t] = 1
    BY DEF Queued, Waits, Done
  <2>2. Waits(t) /\ delivered[t] /\ answers[t] = 1
    BY <2>1 DEF Books, Queued
  <2>3. QED
    BY <2>2 DEF Undisturbed, Waits
<1>5. Kept(list, messages)'
  <2>1. SUFFICES ASSUME NEW t \in Transfers, added'[t], local'[t], ~reported'[t]
                 PROVE  \/ \E i \in 1..Len(list) : list[i] = t
                        \/ \E j \in 1..Len(messages) : messages[j] = Done(t)
    BY DEF Kept, Done
  <2>2. added[t] /\ local[t] /\ ~reported[t]
    BY <2>1 DEF Undisturbed
  <2>3. QED
    BY <2>2 DEF Books, Kept
<1>6. QED
  BY <1>1, <1>3, <1>4, <1>5 DEF Books

LEMMA InitBooks == Init => XCurlInv
<1>1. SUFFICES ASSUME Init PROVE XCurlInv
  OBVIOUS
<1>2. answered = Len(list) /\ Len(list) = 0 /\ Len(messages) = 0 /\ Capacity \in Nat
  BY <1>1, XCurlConstants DEF Init
<1>3. list \in Seq(Transfers) /\ copied \in Seq(Transfers)
  BY <1>1 DEF Init
<1>4. messages \in Seq([of : Transfers, stale : BOOLEAN])
  BY <1>1 DEF Init
<1>5. TypeOK
  <2>1. answered \in 0..Capacity /\ Len(list) <= Capacity /\ Len(messages) <= Capacity
    BY <1>2
  <2>2. QED
    BY <1>1, <1>3, <1>4, <2>1 DEF Init, TypeOK, Requests
<1>6. Books(list, messages)
  BY <1>1, XCurlConstants DEF Init, Books, Fits, Single, Listed, Queued, Kept
<1>7. Sides
  BY <1>1 DEF Init, Sides
<1>8. QED
  BY <1>2, <1>5, <1>6, <1>7 DEF XCurlInv

\* A transfer's own calls, and what libcurl does, leave the list and the ring alone.
LEMMA TransferSteps ==
    ASSUME XCurlInv, NEW t \in Transfers,
           \/ easy_init(t) \/ easy_cleanup(t)
           \/ \E r \in {"local", "network"} : easy_setopt(t, r)
           \/ AddRefused(t) \/ AddNetwork(t) \/ RemoveNetwork(t)
    PROVE  XCurlInv'
<1> USE DEF XCurlInv
<1>1. CASE easy_init(t)
  <2>1. TypeOK'
    BY <1>1 DEF easy_init, TypeOK, Requests, multiVars, performVars, historyVars
  <2>2. Undisturbed /\ Sides' /\ list' = list /\ messages' = messages /\ answered' = answered
    BY <1>1 DEF easy_init, TypeOK, Undisturbed, Sides, multiVars, historyVars
  <2>3. QED
    BY <2>1, <2>2, BooksUndisturbed
<1>2. CASE easy_cleanup(t)
  <2>1. TypeOK'
    BY <1>2 DEF easy_cleanup, TypeOK, multiVars, performVars, historyVars
  <2>2. Undisturbed /\ Sides' /\ list' = list /\ messages' = messages /\ answered' = answered
    BY <1>2 DEF easy_cleanup, TypeOK, Undisturbed, Sides, multiVars, historyVars
  <2>3. QED
    BY <2>1, <2>2, BooksUndisturbed
<1>3. CASE \E r \in {"local", "network"} : easy_setopt(t, r)
  <2>1. TypeOK'
    BY <1>3 DEF easy_setopt, TypeOK, Requests, multiVars, performVars, historyVars
  <2>2. Undisturbed /\ Sides' /\ list' = list /\ messages' = messages /\ answered' = answered
    BY <1>3 DEF easy_setopt, TypeOK, Undisturbed, Sides, multiVars, historyVars
  <2>3. QED
    BY <2>1, <2>2, BooksUndisturbed
<1>4. CASE AddRefused(t)
  <2>1. TypeOK'
    BY <1>4 DEF AddRefused, begin, TypeOK, multiVars, performVars, historyVars
  <2>2. Undisturbed /\ Sides' /\ list' = list /\ messages' = messages /\ answered' = answered
    BY <1>4 DEF AddRefused, CanAdd, begin, TypeOK, Undisturbed, Sides, multiVars, historyVars
  <2>3. QED
    BY <2>1, <2>2, BooksUndisturbed
<1>5. CASE AddNetwork(t)
  <2>1. TypeOK'
    BY <1>5 DEF AddNetwork, Added, begin, TypeOK, multiVars, performVars
  <2>2. Undisturbed /\ Sides' /\ list' = list /\ messages' = messages /\ answered' = answered
    BY <1>5 DEF AddNetwork, Added, CanAdd, begin, TypeOK, Undisturbed, Sides, multiVars
  <2>3. QED
    BY <2>1, <2>2, BooksUndisturbed
<1>6. CASE RemoveNetwork(t)
  <2>1. TypeOK'
    BY <1>6 DEF RemoveNetwork, TypeOK, transferVars, multiVars, performVars
  <2>2. Undisturbed /\ Sides' /\ list' = list /\ messages' = messages /\ answered' = answered
    BY <1>6 DEF RemoveNetwork, TypeOK, Undisturbed, Sides, transferVars, multiVars
  <2>3. QED
    BY <2>1, <2>2, BooksUndisturbed
<1>7. QED
  BY <1>1, <1>2, <1>3, <1>4, <1>5, <1>6

\* Opening and closing the multi, libcurl's progress and its completions.
LEMMA MultiSteps ==
    ASSUME XCurlInv, multi_init \/ multi_cleanup \/ perform \/ ReadNetwork
    PROVE  XCurlInv'
<1> USE DEF XCurlInv
<1>1. CASE multi_init
  <2>1. TypeOK'
    BY <1>1 DEF multi_init, TypeOK, transferVars, performVars, historyVars
  <2>2. Undisturbed /\ Sides' /\ list' = list /\ messages' = messages /\ answered' = answered
    BY <1>1 DEF multi_init, TypeOK, Undisturbed, Sides, transferVars, historyVars
  <2>3. QED
    BY <2>1, <2>2, BooksUndisturbed
<1>2. CASE multi_cleanup
  <2>1. TypeOK'
    <3>1. Len(list') = 0 /\ Len(messages') = 0 /\ answered' = 0 /\ Capacity \in Nat
      BY <1>2, XCurlConstants DEF multi_cleanup
    <3>2. list' \in Seq(Transfers)
      BY <1>2 DEF multi_cleanup
    <3>3. messages' \in Seq([of : Transfers, stale : BOOLEAN])
      BY <1>2 DEF multi_cleanup
    <3>4. answered' \in 0..Capacity /\ Len(list') <= Capacity /\ Len(messages') <= Capacity
      BY <3>1
    <3>5. QED
      BY <1>2, <3>2, <3>3, <3>4 DEF multi_cleanup, TypeOK, transferVars, performVars
  <2>2. answered' = Len(list') /\ Sides'
    BY <1>2 DEF multi_cleanup, Sides
  <2>3. Books(list, messages)'
    BY <1>2, XCurlConstants DEF multi_cleanup, Books, Fits, Single, Listed, Queued, Kept
  <2>4. QED
    BY <2>1, <2>2, <2>3
<1>3. CASE perform
  <2>1. PICK S \in SUBSET {t \in Transfers : network[t] = "running"} :
           network' = [t \in Transfers |-> IF t \in S THEN "done" ELSE network[t]]
    BY <1>3 DEF perform
  <2>2. /\ UNCHANGED <<transferVars, multiVars, historyVars>>
        /\ performing' = (answered # 0)
        /\ copied' = IF answered # 0 THEN list ELSE <<>>
    BY <1>3 DEF perform
  <2>3. TypeOK'
    <3>1. network' \in [Transfers -> {"out", "running", "done", "told"}]
      BY <2>1 DEF TypeOK
    <3>2. copied' \in Seq(Transfers) /\ performing' \in BOOLEAN
      BY <2>2 DEF TypeOK
    <3>3. QED
      BY <2>2, <3>1, <3>2 DEF TypeOK, transferVars, multiVars, historyVars
  <2>4. Undisturbed /\ list' = list /\ messages' = messages /\ answered' = answered
    BY <2>2 DEF TypeOK, Undisturbed, transferVars, multiVars, historyVars
  <2>5. Sides'
    BY <2>1, <2>2 DEF Sides, transferVars, historyVars
  <2>6. QED
    BY <2>3, <2>4, <2>5, BooksUndisturbed
<1>4. CASE ReadNetwork
  <2>1. PICK t \in Transfers :
           /\ network[t] = "done"
           /\ network' = [network EXCEPT ![t] = "told"]
           /\ reported' = [reported EXCEPT ![t] = TRUE]
    BY <1>4 DEF ReadNetwork
  <2>2. UNCHANGED <<transferVars, multiVars, performVars, added, answers>>
    BY <1>4 DEF ReadNetwork
  <2>3. TypeOK'
    BY <2>1, <2>2 DEF TypeOK, transferVars, multiVars, performVars
  <2>4. added[t] /\ ~local[t]
    BY <2>1 DEF Sides
  <2>5. Undisturbed /\ Sides' /\ list' = list /\ messages' = messages /\ answered' = answered
    BY <2>1, <2>2, <2>4 DEF TypeOK, Undisturbed, Sides, transferVars, multiVars
  <2>6. QED
    BY <2>3, <2>5, BooksUndisturbed
<1>5. QED
  BY <1>1, <1>2, <1>3, <1>4

\* A new transfer goes to the end of the list.
LEMMA AddLocalStep ==
    ASSUME XCurlInv, NEW t \in Transfers, AddLocal(t)
    PROVE  XCurlInv'
<1> USE DEF XCurlInv
<1>1. /\ used[t] /\ ~added[t] /\ request[t] = "local" /\ Len(list) < Capacity
      /\ list' = Append(list, t) /\ answered' = Len(list') /\ messages' = messages
      /\ local' = [local EXCEPT ![t] = request[t] = "local"]
      /\ delivered' = [delivered EXCEPT ![t] = FALSE]
      /\ added' = [added EXCEPT ![t] = TRUE]
      /\ answers' = [answers EXCEPT ![t] = 0]
      /\ reported' = [reported EXCEPT ![t] = FALSE]
      /\ UNCHANGED <<used, request, handle, performVars, network>>
  BY DEF AddLocal, CanAdd, begin, Added
<1>2. /\ list \in Seq(Transfers) /\ Len(list) \in Nat /\ Capacity \in Nat
      /\ messages \in Seq(Completions) /\ Len(messages) \in Nat /\ Len(messages) <= Capacity
  BY XCurlConstants DEF TypeOK, Completions
<1>3. /\ list' \in Seq(Transfers) /\ Len(list') = Len(list) + 1
      /\ \A i \in 1..Len(list) : list'[i] = list[i] /\ list[i] \in Transfers
      /\ list'[Len(list) + 1] = t
  BY <1>1, <1>2
<1>4. /\ \A u \in Transfers : u # t =>
            /\ added'[u] <=> added[u]
            /\ local'[u] <=> local[u]
            /\ reported'[u] <=> reported[u]
            /\ delivered'[u] <=> delivered[u]
            /\ answers'[u] = answers[u]
      /\ added'[t] /\ local'[t] /\ ~reported'[t] /\ ~delivered'[t] /\ answers'[t] = 0
  BY <1>1 DEF TypeOK
<1>5. \A i \in 1..Len(list) : list[i] # t
  BY <1>1, <1>3 DEF Books, Listed, Waits
<1>6. \A j \in 1..Len(messages) : messages[j] # Done(t)
  BY <1>1 DEF Books, Queued, Waits
<1>7. TypeOK'
  <2>1. answered' \in 0..Capacity /\ Len(list') <= Capacity
    BY <1>1, <1>2, <1>3
  <2>2. QED
    BY <1>1, <1>3, <2>1 DEF TypeOK, performVars
<1>8. Sides'
  BY <1>1, <1>4 DEF Sides
<1>9. Fits(list, messages)'
  BY <1>1, <1>2, <1>3 DEF Fits, Completions, Transfers
<1>10. Single(list, messages)'
  <2>1. /\ \A i, j \in 1..Len(list) : list[i] = list[j] => i = j
        /\ \A u \in Transfers : \A i, j \in 1..Len(messages) :
              messages[i] = Done(u) /\ messages[j] = Done(u) => i = j
        /\ \A i \in 1..Len(list) : \A j \in 1..Len(messages) : messages[j] # Done(list[i])
    BY DEF Books, Single
  <2>2. \A i, j \in 1..Len(list') : list'[i] = list'[j] => i = j
    BY <1>2, <1>3, <1>5, <2>1
  <2>3. \A i \in 1..Len(list') : \A j \in 1..Len(messages) : messages[j] # Done(list'[i])
    BY <1>2, <1>3, <1>6, <2>1
  <2>4. QED
    BY <1>1, <2>1, <2>2, <2>3 DEF Single, Done
<1>11. Listed(list)'
  <2>1. SUFFICES ASSUME NEW i \in 1..Len(list')
                 PROVE  /\ added'[list'[i]] /\ local'[list'[i]] /\ ~reported'[list'[i]]
                        /\ delivered'[list'[i]] => answers'[list'[i]] = 1
                        /\ ~delivered'[list'[i]] => answers'[list'[i]] = 0
    BY DEF Listed, Waits
  <2>2. CASE i \in 1..Len(list)
    <3>1. list'[i] = list[i] /\ list[i] \in Transfers /\ list[i] # t
      BY <2>2, <1>3, <1>5
    <3>2. /\ Waits(list[i])
          /\ delivered[list[i]] => answers[list[i]] = 1
          /\ ~delivered[list[i]] => answers[list[i]] = 0
      BY <2>2 DEF Books, Listed
    <3>3. QED
      BY <3>1, <3>2, <1>4 DEF Waits
  <2>3. CASE i = Len(list) + 1
    BY <2>3, <1>3, <1>4
  <2>4. QED
    BY <2>2, <2>3, <1>2, <1>3
<1>12. Queued(messages)'
  <2>1. SUFFICES ASSUME NEW u \in Transfers, NEW i \in 1..Len(messages), messages[i] = Done(u)
                 PROVE  added'[u] /\ local'[u] /\ ~reported'[u] /\ delivered'[u] /\ answers'[u] = 1
    BY <1>1 DEF Queued, Waits, Done
  <2>2. Waits(u) /\ delivered[u] /\ answers[u] = 1 /\ u # t
    BY <2>1, <1>6 DEF Books, Queued
  <2>3. QED
    BY <2>2, <1>4 DEF Waits
<1>13. Kept(list, messages)'
  <2>1. SUFFICES ASSUME NEW u \in Transfers, added'[u], local'[u], ~reported'[u]
                 PROVE  \/ \E i \in 1..Len(list') : list'[i] = u
                        \/ \E j \in 1..Len(messages) : messages[j] = Done(u)
    BY <1>1 DEF Kept, Done
  <2>2. CASE u = t
    BY <2>2, <1>2, <1>3
  <2>3. CASE u # t
    <3>1. \/ \E i \in 1..Len(list) : list[i] = u
          \/ \E j \in 1..Len(messages) : messages[j] = Done(u)
      BY <2>1, <2>3, <1>4 DEF Books, Kept
    <3>2. QED
      BY <3>1, <1>2, <1>3
  <2>4. QED
    BY <2>2, <2>3
<1>14. QED
  BY <1>1, <1>7, <1>8, <1>9, <1>10, <1>11, <1>12, <1>13 DEF Books

\* What RemoveLocal does to the list: the transfer is off it, and nothing else is.
LEMMA RemovedList ==
    ASSUME TypeOK, Single(list, messages), NEW t \in Transfers, RemoveLocal(t)
    PROVE  /\ list' \in Seq(Transfers) /\ Len(list') <= Len(list)
           /\ \A j \in 1..Len(list') : \E i \in 1..Len(list) : list[i] # t /\ list'[j] = list[i]
           /\ \A i \in 1..Len(list) : list[i] # t => \E j \in 1..Len(list') : list'[j] = list[i]
           /\ \A i, j \in 1..Len(list') : list'[i] = list'[j] => i = j
<1>1. list \in Seq(Transfers) /\ Len(list) \in Nat
  BY DEF TypeOK
<1>2. \A i, j \in 1..Len(list) : list[i] = list[j] => i = j
  BY DEF Single
<1>3. CASE Positions(list, t) = {}
  <2>1. list' = list /\ \A i \in 1..Len(list) : list[i] # t
    BY <1>3 DEF RemoveLocal, Positions
  <2>2. QED
    BY <1>1, <1>2, <2>1
<1>4. CASE Positions(list, t) # {}
  <2> DEFINE P == Positions(list, t)
             k == CHOOSE i \in P : \A j \in P : i <= j
  <2>1. P \in SUBSET Nat /\ P # {}
    BY <1>1, <1>4 DEF Positions
  <2>2. list' = Without(list, k)
    BY <1>4 DEF RemoveLocal
  <2>3. \E i \in P : \A j \in P : i <= j
    <3> HIDE DEF P
    <3> QED
      BY <2>1, LeastTurn
  <2>4. k \in P
    <3> HIDE DEF P
    <3> QED
      BY <2>3
  <2> HIDE DEF k
  <2>5. k \in 1..Len(list) /\ list[k] = t
    BY <2>4 DEF Positions
  <2>6. /\ list' \in Seq(Transfers) /\ Len(list') = Len(list) - 1
        /\ \A j \in 1..Len(list') : \E i \in 1..Len(list) : i # k /\ list'[j] = list[i]
        /\ \A i \in 1..Len(list) : i # k => \E j \in 1..Len(list') : list'[j] = list[i]
        /\ (\A i, j \in 1..Len(list) : list[i] = list[j] => i = j) =>
              \A i, j \in 1..Len(list') : list'[i] = list'[j] => i = j
    <3> DEFINE w == Without(list, k)
    <3>1. /\ w \in Seq(Transfers) /\ Len(w) = Len(list) - 1
          /\ \A j \in 1..Len(w) : \E i \in 1..Len(list) : i # k /\ w[j] = list[i]
          /\ \A i \in 1..Len(list) : i # k => \E j \in 1..Len(w) : w[j] = list[i]
          /\ (\A i, j \in 1..Len(list) : list[i] = list[j] => i = j) =>
                \A i, j \in 1..Len(w) : w[i] = w[j] => i = j
      BY <1>1, <2>5, WithoutFacts, Zenon
    <3>2. list' = w
      BY <2>2
    <3> HIDE DEF w
    <3>3. QED
      BY <3>1, <3>2, Zenon
  <2>7. \A i \in 1..Len(list) : i # k <=> list[i] # t
    BY <1>2, <2>5
  <2>8. Len(list') <= Len(list)
    BY <1>1, <2>6
  <2>9. QED
    BY <1>2, <2>6, <2>7, <2>8, Zenon
<1>5. QED
  BY <1>3, <1>4

\* What it does to the ring: the transfer's completion is stale, and no other.
LEMMA RemovedRing ==
    ASSUME TypeOK, NEW t \in Transfers, RemoveLocal(t)
    PROVE  /\ messages' \in Seq(Completions) /\ Len(messages') = Len(messages)
           /\ \A u \in Transfers : \A i \in 1..Len(messages) :
                 (messages'[i] = Done(u)) <=> (messages[i] = Done(u) /\ u # t)
<1> DEFINE c(i) == [messages[i] EXCEPT !.stale = @ \/ messages[i].of = t]
<1>1. messages \in Seq(Completions) /\ Len(messages) \in Nat
  BY DEF TypeOK, Completions
<1>2. messages' = [i \in 1..Len(messages) |-> c(i)]
  BY DEF RemoveLocal
<1>3. ASSUME NEW i \in 1..Len(messages)
      PROVE  /\ c(i) \in Completions /\ c(i).of = messages[i].of
             /\ c(i).stale <=> (messages[i].stale \/ messages[i].of = t)
  <2>1. messages[i] \in Completions
    BY <1>1
  <2>2. PICK b \in BOOLEAN : b <=> (messages[i].stale \/ messages[i].of = t)
    OBVIOUS
  <2>3. messages[i].stale \in BOOLEAN
    BY <2>1 DEF Completions
  <2>4. b = (messages[i].stale \/ messages[i].of = t)
    BY <2>2, <2>3, Zenon
  <2>5. c(i) = [messages[i] EXCEPT !.stale = b]
    BY <2>1, <2>4 DEF Completions
  <2>6. QED
    BY <2>1, <2>2, <2>5 DEF Completions
<1> HIDE DEF c
<1>4. messages' \in Seq(Completions) /\ Len(messages') = Len(messages)
  BY <1>1, <1>2, <1>3
<1>5. \A i \in 1..Len(messages) : messages'[i] = c(i) /\ messages[i] \in Completions
  BY <1>1, <1>2
<1>6. ASSUME NEW u \in Transfers, NEW i \in 1..Len(messages)
      PROVE  (messages'[i] = Done(u)) <=> (messages[i] = Done(u) /\ u # t)
  <2>1. (c(i) = Done(u)) <=> (c(i).of = u /\ ~c(i).stale)
    BY <1>3, DoneFacts
  <2>2. (messages[i] = Done(u)) <=> (messages[i].of = u /\ ~messages[i].stale)
    BY <1>5, DoneFacts
  <2>3. QED
    BY <1>3, <1>5, <2>1, <2>2
<1>7. QED
  BY <1>4, <1>6

LEMMA RemoveLocalStep ==
    ASSUME XCurlInv, NEW t \in Transfers, RemoveLocal(t)
    PROVE  XCurlInv'
<1> USE DEF XCurlInv
<1>1. /\ added[t] /\ local[t] /\ answered' = Len(list')
      /\ added' = [added EXCEPT ![t] = FALSE]
      /\ UNCHANGED <<transferVars, handle, performVars, network, answers, reported>>
  BY DEF RemoveLocal
<1>2. Single(list, messages) /\ Listed(list) /\ Queued(messages) /\ Kept(list, messages)
  BY DEF Books
<1>3. /\ list' \in Seq(Transfers) /\ Len(list') <= Len(list)
      /\ \A j \in 1..Len(list') : \E i \in 1..Len(list) : list[i] # t /\ list'[j] = list[i]
      /\ \A i \in 1..Len(list) : list[i] # t => \E j \in 1..Len(list') : list'[j] = list[i]
      /\ \A i, j \in 1..Len(list') : list'[i] = list'[j] => i = j
  BY <1>2, RemovedList
<1>4. /\ messages' \in Seq(Completions) /\ Len(messages') = Len(messages)
      /\ \A u \in Transfers : \A i \in 1..Len(messages) :
            (messages'[i] = Done(u)) <=> (messages[i] = Done(u) /\ u # t)
  BY RemovedRing
<1>5. /\ list \in Seq(Transfers) /\ Len(list) \in Nat /\ Len(list') \in Nat /\ Capacity \in Nat
      /\ Len(list) <= Capacity /\ Len(messages) <= Capacity
  BY <1>3, XCurlConstants DEF TypeOK
<1>6. /\ ~added'[t]
      /\ \A u \in Transfers : u # t => (added'[u] <=> added[u])
      /\ local' = local /\ reported' = reported /\ delivered' = delivered /\ answers' = answers
  BY <1>1 DEF TypeOK, transferVars
<1>7. TypeOK'
  <2>1. answered' \in 0..Capacity /\ Len(list') <= Capacity /\ Len(messages') <= Capacity
    BY <1>1, <1>3, <1>4, <1>5
  <2>2. messages' \in Seq([of : Transfers, stale : BOOLEAN])
    BY <1>4 DEF Completions
  <2>3. QED
    BY <1>1, <1>3, <2>1, <2>2 DEF TypeOK, transferVars, performVars
<1>8. Sides'
  BY <1>1, <1>6 DEF Sides, transferVars
<1>9. Fits(list, messages)'
  BY <1>3, <1>4, <1>5 DEF Fits, Completions, Transfers
<1>10. Single(list, messages)'
  <2>1. \A u \in Transfers : \A i, j \in 1..Len(messages') :
           messages'[i] = Done(u) /\ messages'[j] = Done(u) => i = j
    BY <1>2, <1>4 DEF Single
  <2>2. \A i \in 1..Len(list') : \A j \in 1..Len(messages') : messages'[j] # Done(list'[i])
    <3>1. SUFFICES ASSUME NEW i \in 1..Len(list'), NEW j \in 1..Len(messages'),
                          messages'[j] = Done(list'[i])
                   PROVE  FALSE
      OBVIOUS
    <3>2. PICK m \in 1..Len(list) : list'[i] = list[m]
      BY <1>3
    <3>3. list[m] \in Transfers
      BY <1>5
    <3>4. messages[j] = Done(list[m])
      BY <1>4, <3>1, <3>2, <3>3
    <3>5. QED
      BY <1>2, <1>4, <3>1, <3>4 DEF Single
  <2>3. QED
    BY <1>3, <2>1, <2>2 DEF Single, Done, Transfers
<1>11. Listed(list)'
  <2>1. SUFFICES ASSUME NEW j \in 1..Len(list')
                 PROVE  /\ added'[list'[j]] /\ local[list'[j]] /\ ~reported[list'[j]]
                        /\ delivered[list'[j]] => answers[list'[j]] = 1
                        /\ ~delivered[list'[j]] => answers[list'[j]] = 0
    BY <1>6 DEF Listed, Waits
  <2>2. PICK i \in 1..Len(list) : list[i] # t /\ list'[j] = list[i]
    BY <1>3
  <2>3. list[i] \in Transfers
    BY <1>5
  <2>4. /\ Waits(list[i])
        /\ delivered[list[i]] => answers[list[i]] = 1
        /\ ~delivered[list[i]] => answers[list[i]] = 0
    BY <1>2 DEF Listed
  <2>5. added'[list[i]]
    BY <1>6, <2>2, <2>3, <2>4 DEF Waits
  <2>6. QED
    BY <2>2, <2>4, <2>5, Zenon DEF Waits
<1>12. Queued(messages)'
  <2>1. SUFFICES ASSUME NEW u \in Transfers, NEW i \in 1..Len(messages'), messages'[i] = Done(u)
                 PROVE  added'[u] /\ local[u] /\ ~reported[u] /\ delivered[u] /\ answers[u] = 1
    BY <1>6 DEF Queued, Waits, Done, Transfers
  <2>2. messages[i] = Done(u) /\ u # t
    BY <1>4, <2>1
  <2>3. Waits(u) /\ delivered[u] /\ answers[u] = 1
    BY <1>2, <1>4, <2>1, <2>2 DEF Queued
  <2>4. QED
    BY <1>6, <2>2, <2>3 DEF Waits
<1>13. Kept(list, messages)'
  <2>1. SUFFICES ASSUME NEW u \in Transfers, added'[u], local[u], ~reported[u]
                 PROVE  \/ \E i \in 1..Len(list') : list'[i] = u
                        \/ \E j \in 1..Len(messages') : messages'[j] = Done(u)
    BY <1>6 DEF Kept, Done, Transfers
  <2>2. u # t /\ added[u]
    BY <1>6, <2>1
  <2>3. \/ \E i \in 1..Len(list) : list[i] = u
        \/ \E j \in 1..Len(messages) : messages[j] = Done(u)
    BY <1>2, <2>1, <2>2 DEF Kept
  <2>4. QED
    BY <1>3, <1>4, <2>2, <2>3
<1>14. QED
  BY <1>1, <1>7, <1>8, <1>9, <1>10, <1>11, <1>12, <1>13 DEF Books

\* The callbacks of the head of the copy, which may have been removed since, or added again.
LEMMA DeliverStep ==
    ASSUME XCurlInv, Deliver
    PROVE  XCurlInv'
<1> USE DEF XCurlInv
<1> DEFINE t == Head(copied)
<1>1. /\ delivered' = [delivered EXCEPT ![t] = TRUE]
      /\ answers' = [answers EXCEPT ![t] = IF delivered[t] THEN @ ELSE @ + 1]
      /\ copied # <<>> /\ copied' = Tail(copied)
      /\ UNCHANGED <<used, request, local, multiVars, performing, network, added, reported>>
  BY DEF Deliver, deliver
<1>2. t \in Transfers /\ copied' \in Seq(Transfers)
  BY <1>1 DEF TypeOK
<1> HIDE DEF t
<1>3. /\ list' = list /\ messages' = messages /\ answered' = answered
      /\ added' = added /\ local' = local /\ reported' = reported
  BY <1>1 DEF multiVars
<1>4. /\ delivered'[t] /\ (delivered[t] => answers'[t] = answers[t])
      /\ ~delivered[t] => answers'[t] = answers[t] + 1
      /\ \A u \in Transfers : u # t =>
            (delivered'[u] <=> delivered[u]) /\ answers'[u] = answers[u]
  BY <1>1, <1>2 DEF TypeOK
<1>5. TypeOK'
  <2>1. answers' \in [Transfers -> Nat] /\ delivered' \in [Transfers -> BOOLEAN]
    BY <1>1, <1>2 DEF TypeOK
  <2>2. QED
    BY <1>1, <1>2, <2>1 DEF TypeOK, multiVars
<1>6. Sides'
  BY <1>1 DEF Sides
<1>7. Fits(list, messages)' /\ Single(list, messages)' /\ Kept(list, messages)'
  BY <1>3 DEF Books, Fits, Single, Kept
<1>8. Listed(list)'
  <2>1. SUFFICES ASSUME NEW i \in 1..Len(list)
                 PROVE  /\ added[list[i]] /\ local[list[i]] /\ ~reported[list[i]]
                        /\ delivered'[list[i]] => answers'[list[i]] = 1
                        /\ ~delivered'[list[i]] => answers'[list[i]] = 0
    BY <1>3 DEF Listed, Waits
  <2>2. list[i] \in Transfers
    BY DEF TypeOK
  <2>3. /\ Waits(list[i])
        /\ delivered[list[i]] => answers[list[i]] = 1
        /\ ~delivered[list[i]] => answers[list[i]] = 0
    BY DEF Books, Listed
  <2>4. QED
    BY <1>4, <2>2, <2>3 DEF Waits
<1>9. Queued(messages)'
  <2>1. SUFFICES ASSUME NEW u \in Transfers, NEW i \in 1..Len(messages), messages[i] = Done(u)
                 PROVE  added[u] /\ local[u] /\ ~reported[u] /\ delivered'[u] /\ answers'[u] = 1
    BY <1>3 DEF Queued, Waits, Done
  <2>2. Waits(u) /\ delivered[u] /\ answers[u] = 1
    BY <2>1 DEF Books, Queued
  <2>3. QED
    BY <1>4, <2>2 DEF Waits
<1>10. QED
  BY <1>3, <1>5, <1>6, <1>7, <1>8, <1>9 DEF Books

\* The client learns of the completion at the head of the ring.
LEMMA ReadLocalStep ==
    ASSUME XCurlInv, ReadLocal
    PROVE  XCurlInv'
<1> USE DEF XCurlInv
<1>1. /\ messages # <<>> /\ messages' = Tail(messages)
      /\ reported' = IF Head(messages).stale THEN reported
                     ELSE [reported EXCEPT ![Head(messages).of] = TRUE]
      /\ UNCHANGED <<transferVars, handle, list, answered, performVars, network, added, answers>>
  BY DEF ReadLocal
<1>2. messages \in Seq(Completions) /\ Len(messages) \in Nat /\ Len(messages) <= Capacity
  BY DEF TypeOK, Completions
<1>3. /\ Len(messages) >= 1 /\ Head(messages) = messages[1] /\ messages[1] \in Completions
      /\ messages' \in Seq(Completions) /\ Len(messages') = Len(messages) - 1
      /\ \A i \in 1..Len(messages') : messages'[i] = messages[i + 1]
  BY <1>1, <1>2
<1>4. /\ list' = list /\ answered' = answered /\ added' = added /\ local' = local
      /\ delivered' = delivered /\ answers' = answers
  BY <1>1 DEF transferVars
<1>5. Single(list, messages) /\ Listed(list) /\ Queued(messages) /\ Kept(list, messages)
  BY DEF Books
<1>6. \A u \in Transfers : (reported'[u] <=> (reported[u] \/ messages[1] = Done(u)))
  <2>1. SUFFICES ASSUME NEW u \in Transfers
                 PROVE  reported'[u] <=> (reported[u] \/ messages[1] = Done(u))
    OBVIOUS
  <2>2. (messages[1] = Done(u)) <=> (messages[1].of = u /\ ~messages[1].stale)
    BY <1>3, DoneFacts
  <2>3. messages[1].of \in Transfers
    BY <1>3 DEF Completions
  <2>4. QED
    BY <1>1, <1>3, <2>2, <2>3 DEF TypeOK
<1>7. TypeOK'
  <2>1. reported' \in [Transfers -> BOOLEAN]
    BY <1>1 DEF TypeOK
  <2>2. messages' \in Seq([of : Transfers, stale : BOOLEAN])
    BY <1>3 DEF Completions
  <2>3. Len(messages') <= Capacity
    BY <1>2, <1>3, XCurlConstants
  <2>4. QED
    BY <1>1, <2>1, <2>2, <2>3 DEF TypeOK, transferVars, performVars
<1>8. Sides'
  BY <1>1 DEF Sides, transferVars
<1>9. Fits(list, messages)'
  BY <1>2, <1>3, <1>4, XCurlConstants DEF Books, Fits, Completions, Transfers
<1>10. Single(list, messages)'
  <2>1. \A u \in Transfers : \A i, j \in 1..Len(messages') :
           messages'[i] = Done(u) /\ messages'[j] = Done(u) => i = j
    <3>1. SUFFICES ASSUME NEW u \in Transfers,
                          NEW i \in 1..Len(messages'), NEW j \in 1..Len(messages'),
                          messages'[i] = Done(u), messages'[j] = Done(u)
                   PROVE  i = j
      OBVIOUS
    <3>2. /\ i + 1 \in 1..Len(messages) /\ j + 1 \in 1..Len(messages)
          /\ messages[i + 1] = Done(u) /\ messages[j + 1] = Done(u)
      BY <1>2, <1>3, <3>1
    <3>3. i + 1 = j + 1
      BY <1>5, <3>2 DEF Single
    <3>4. QED
      BY <1>2, <1>3, <3>3
  <2>2. \A i \in 1..Len(list) : \A j \in 1..Len(messages') : messages'[j] # Done(list[i])
    <3>1. \A j \in 1..Len(messages') : j + 1 \in 1..Len(messages)
      BY <1>2, <1>3
    <3>2. QED
      BY <1>3, <1>5, <3>1 DEF Single
  <2>3. QED
    BY <1>4, <1>5, <2>1, <2>2 DEF Single, Done, Transfers
<1>11. Listed(list)'
  <2>1. SUFFICES ASSUME NEW i \in 1..Len(list)
                 PROVE  /\ added[list[i]] /\ local[list[i]] /\ ~reported'[list[i]]
                        /\ delivered[list[i]] => answers[list[i]] = 1
                        /\ ~delivered[list[i]] => answers[list[i]] = 0
    BY <1>4 DEF Listed, Waits
  <2>2. list[i] \in Transfers
    BY DEF TypeOK
  <2>3. /\ Waits(list[i])
        /\ delivered[list[i]] => answers[list[i]] = 1
        /\ ~delivered[list[i]] => answers[list[i]] = 0
    BY <1>5 DEF Listed
  <2>4. messages[1] # Done(list[i])
    BY <1>2, <1>3, <1>5 DEF Single
  <2>5. ~reported'[list[i]]
    BY <1>6, <2>2, <2>3, <2>4 DEF Waits
  <2>6. QED
    BY <2>3, <2>5 DEF Waits
<1>12. Queued(messages)'
  <2>1. SUFFICES ASSUME NEW u \in Transfers, NEW i \in 1..Len(messages'), messages'[i] = Done(u)
                 PROVE  added[u] /\ local[u] /\ ~reported'[u] /\ delivered[u] /\ answers[u] = 1
    BY <1>4 DEF Queued, Waits, Done, Transfers
  <2>2. i + 1 \in 1..Len(messages) /\ 1 \in 1..Len(messages) /\ messages[i + 1] = Done(u) /\ i + 1 # 1
    BY <1>2, <1>3, <2>1
  <2>3. messages[1] # Done(u)
    BY <1>5, <2>2 DEF Single
  <2>4. Waits(u) /\ delivered[u] /\ answers[u] = 1
    BY <1>5, <2>2 DEF Queued
  <2>5. ~reported'[u]
    BY <1>6, <2>3, <2>4 DEF Waits
  <2>6. QED
    BY <2>4, <2>5 DEF Waits
<1>13. Kept(list, messages)'
  <2>1. SUFFICES ASSUME NEW u \in Transfers, added[u], local[u], ~reported'[u]
                 PROVE  \/ \E i \in 1..Len(list) : list[i] = u
                        \/ \E j \in 1..Len(messages') : messages'[j] = Done(u)
    BY <1>4 DEF Kept, Done, Transfers
  <2>2. ~reported[u] /\ messages[1] # Done(u)
    BY <1>6, <2>1
  <2>3. \/ \E i \in 1..Len(list) : list[i] = u
        \/ \E j \in 1..Len(messages) : messages[j] = Done(u)
    BY <1>5, <2>1, <2>2 DEF Kept
  <2>4. CASE \E j \in 1..Len(messages) : messages[j] = Done(u)
    <3>1. PICK j \in 1..Len(messages) : messages[j] = Done(u)
      BY <2>4
    <3>2. j # 1 /\ j - 1 \in 1..Len(messages') /\ (j - 1) + 1 = j
      BY <1>2, <1>3, <2>2, <3>1
    <3>3. messages'[j - 1] = Done(u)
      BY <1>3, <3>1, <3>2
    <3>4. QED
      BY <3>2, <3>3
  <2>5. QED
    BY <2>3, <2>4
<1>14. QED
  BY <1>4, <1>7, <1>8, <1>9, <1>10, <1>11, <1>12, <1>13 DEF Books

\* answered() ends: what its loop has built becomes the list and the ring.
LEMMA CollectStep ==
    ASSUME XCurlInv, Collect
    PROVE  XCurlInv'
<1> USE DEF XCurlInv
<1>1. /\ list' = Collected.list /\ messages' = Collected.ring /\ answered' = Len(list')
      /\ performing' = FALSE
      /\ UNCHANGED <<transferVars, handle, copied, network, historyVars>>
  BY DEF Collect
<1>2. Books(list', messages')
  BY <1>1, CollectedKeepsBooks DEF LoopInv
<1>3. /\ added' = added /\ local' = local /\ reported' = reported
      /\ delivered' = delivered /\ answers' = answers
  BY <1>1 DEF transferVars, historyVars
<1>4. Books(list, messages)'
  BY <1>2, <1>3 DEF Books, Fits, Single, Listed, Queued, Kept, Waits, Done, Completions, Transfers
<1>5. Fits(list', messages')
  BY <1>2 DEF Books
<1>6. TypeOK'
  <2>1. list' \in Seq(Transfers) /\ Len(list') <= Capacity /\ Len(list') \in Nat
    BY <1>5 DEF Fits
  <2>2. messages' \in Seq([of : Transfers, stale : BOOLEAN]) /\ Len(messages') <= Capacity
    BY <1>5 DEF Fits, Completions
  <2>3. answered' \in 0..Capacity
    BY <1>1, <2>1, XCurlConstants
  <2>4. QED
    BY <1>1, <2>1, <2>2, <2>3 DEF TypeOK, transferVars, historyVars
<1>7. Sides'
  BY <1>1 DEF Sides, transferVars, historyVars
<1>8. QED
  BY <1>1, <1>4, <1>6, <1>7

LEMMA NextBooks == XCurlInv /\ [Next]_vars => XCurlInv'
<1>1. SUFFICES ASSUME XCurlInv, [Next]_vars PROVE XCurlInv'
  OBVIOUS
<1>2. CASE Next
  BY <1>1, <1>2, TransferSteps, AddLocalStep, RemoveLocalStep, MultiSteps, DeliverStep,
     CollectStep, ReadLocalStep, Zenon DEF Next
<1>3. CASE UNCHANGED vars
  <2>1. TypeOK' /\ Sides' /\ answered' = Len(list')
    BY <1>1, <1>3 DEF XCurlInv, TypeOK, Sides, vars, transferVars, multiVars, performVars, historyVars
  <2>2. Undisturbed /\ list' = list /\ messages' = messages
    BY <1>3 DEF Undisturbed, vars, transferVars, multiVars, historyVars
  <2>3. QED
    BY <1>1, <2>1, <2>2, BooksUndisturbed DEF XCurlInv
<1>4. QED
  BY <1>1, <1>2, <1>3

-----------------------------------------------------------------------------
(* Theorems                                                                 *)

\* The list, the ring and the answer count keep their types: neither the list nor the ring
\* outgrows multi::capacity.
THEOREM XCurlTypes == Spec => []TypeOK
<1>1. XCurlInv => TypeOK
  BY DEF XCurlInv
<1>2. QED
  BY <1>1, InitBooks, NextBooks, PTL DEF Spec

\* For every number of transfers and every capacity, no answer this client owes is lost, and
\* answered_ counts the list (multi.cxx 135-177, 189, 248).
THEOREM NoAnswerLost == Spec => []AnswersKept
<1>1. XCurlInv => AnswersKept
  <2>1. SUFFICES ASSUME XCurlInv PROVE AnswersKept
    OBVIOUS
  <2>2. answered = Len(list) /\ Kept(list, messages)
    BY <2>1 DEF XCurlInv, Books
  <2>3. ASSUME NEW t \in Transfers, added[t], local[t]
        PROVE  Positions(list, t) # {} \/ Fresh(t) # {} \/ reported[t]
    <3>1. \/ \E i \in 1..Len(list) : list[i] = t
          \/ \E j \in 1..Len(messages) : messages[j] = Done(t)
          \/ reported[t]
      BY <2>2, <2>3 DEF Kept
    <3>2. QED
      BY <3>1 DEF Positions, Fresh
  <2>4. QED
    BY <2>2, <2>3 DEF AnswersKept
<1>2. QED
  BY <1>1, InitBooks, NextBooks, PTL DEF Spec

\* For every number of transfers and every capacity, a completion that is not stale is its
\* transfer's only one and comes after the one answer, with the transfer off the list
\* (multi.cxx 104-116, 135-177).
THEOREM CompletionsFollowAnswers == Spec => []ReportedAfterAnswer
<1>1. XCurlInv => ReportedAfterAnswer
  <2>1. SUFFICES ASSUME XCurlInv, NEW t \in Transfers, NEW i \in Fresh(t)
                 PROVE  /\ added[t] /\ ~reported[t] /\ answers[t] = 1
                        /\ Fresh(t) = {i} /\ Positions(list, t) = {}
    BY DEF ReportedAfterAnswer
  <2>2. i \in 1..Len(messages) /\ messages[i] = Done(t)
    BY <2>1 DEF Fresh, Positions
  <2>3. Single(list, messages) /\ Queued(messages)
    BY <2>1 DEF XCurlInv, Books
  <2>4. Waits(t) /\ answers[t] = 1
    BY <2>2, <2>3 DEF Queued
  <2>5. \A j \in 1..Len(messages) : messages[j] = Done(t) => j = i
    BY <2>2, <2>3 DEF Single
  <2>6. Fresh(t) = {i}
    BY <2>2, <2>5 DEF Fresh, Positions
  <2>7. Positions(list, t) = {}
    BY <2>2, <2>3 DEF Single, Positions
  <2>8. QED
    BY <2>4, <2>6, <2>7 DEF Waits
<1>2. QED
  BY <1>1, InitBooks, NextBooks, PTL DEF Spec

=============================================================================
