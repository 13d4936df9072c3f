----------------------------- MODULE MCTaskPort -----------------------------
(* TaskPort on small instances.                                            *)
EXTENDS TaskPort, TLC

CONSTANTS c1, c2, c3, a, b, d, e

\* Two callbacks without a delay and two with.
TwoAndTwo == (a :> 0) @@ (b :> 0) @@ (d :> 1) @@ (e :> 1)

\* One callback without a delay and one with.
OneAndOne == (a :> 0) @@ (d :> 1)

\* A callback that falls due after the shorter of two waits has ended.
LateOnly == (d :> 2)

\* Clients are alike, and so are callbacks with the same delay.
Interchangeable == Permutations(Clients) \cup Permutations({a, b}) \cup Permutations({d, e})

=============================================================================
