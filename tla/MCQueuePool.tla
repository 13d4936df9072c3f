----------------------------- MODULE MCQueuePool -----------------------------
(* QueuePool on a small instance.                                            *)
EXTENDS QueuePool, TLC

CONSTANTS t1, t2

Interchangeable == Permutations(Threads)

=============================================================================
