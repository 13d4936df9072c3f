------------------------------- MODULE MCAsync -------------------------------
(* Async on small instances.                                                 *)
EXTENDS Async, TLC

CONSTANTS a1, a2, c1, c2, w1

Interchangeable == Permutations(Clients)

=============================================================================
