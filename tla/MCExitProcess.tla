--------------------------- MODULE MCExitProcess ---------------------------
(* ExitProcess with three callers and distinct codes.                       *)
EXTENDS ExitProcess, TLC

CONSTANTS t1, t2, t3

DistinctCodes == (t1 :> 1) @@ (t2 :> 2) @@ (t3 :> 3) @@ (Cleaner :> 4)

=============================================================================
