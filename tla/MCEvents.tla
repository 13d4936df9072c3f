------------------------------ MODULE MCEvents ------------------------------
(* Events on a small instance.                                               *)
EXTENDS Events

CONSTANTS c1, d1, w1

=============================================================================
