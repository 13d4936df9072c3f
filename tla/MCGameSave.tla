----------------------------- MODULE MCGameSave -----------------------------
(* GameSave on a small instance.                                            *)
EXTENDS GameSave, TLC

CONSTANTS o1, o2, b1, i1, i2

Interchangeable == Permutations(Ops) \cup Permutations(Ids)

=============================================================================
