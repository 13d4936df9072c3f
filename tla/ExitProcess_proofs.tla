------------------------- MODULE ExitProcess_proofs -------------------------
(***************************************************************************)
(* For any number of callers and any codes: destruction completes before   *)
(* the original ExitProcess is entered, and the first code is canonical.   *)
(***************************************************************************)
EXTENDS ExitProcess, TLAPS

\* What the owner is doing, and what everyone else may conclude from it.
OwnerInv ==
    /\ owner # Cleaner
    /\ \A t \in Threads :
          /\ pc[t] \in {"publish", "create", "wait"} => owner = t
          /\ pc[t] \in {"running", "claim"} => owner # t
          /\ pc[t] \in {"poll", "recheck", "giveup", "transfer", "native"}
                => owner # Nobody
    /\ pc[Cleaner] # "unborn" =>
          owner # Nobody /\ pc[owner] \notin {"publish", "create"}
    /\ pc[Cleaner] # "running"
    /\ \A t \in Callers : pc[t] \notin {"unborn", "destruct", "detached"}

\* The code is that of the owner from the moment it is published.
CodeInv ==
    /\ owner # Nobody /\ pc[owner] = "publish" => code = 0
    /\ owner # Nobody /\ pc[owner] # "publish" => code = Requested[owner]
    /\ owner = Nobody => code = 0

\* Completion is published by the cleanup thread as its last step, and is known to
\* every thread that may enter the original ExitProcess.
CompleteInv ==
    /\ complete => pc[Cleaner] = "gone"
    /\ pc[Cleaner] = "gone" /\ ended = "no" => complete
    /\ \A t \in Threads :
          /\ pc[t] \in {"transfer", "native"} => complete
          /\ pc[t] = "check" /\ owner = t => complete
    /\ native # Nobody => complete

IInv == TypeOK /\ OwnerInv /\ CodeInv /\ CompleteInv /\ FirstCodeCanonical

\* No request to exit has been made: nobody owns the destruction.
LEMMA InitIInv == Init => IInv
<1> SUFFICES ASSUME Init PROVE IInv
  OBVIOUS
<1> USE ExitConstants DEF Init, Threads
<1>1. TypeOK
  BY DEF TypeOK, States
<1>2. OwnerInv
  BY DEF OwnerInv
<1>3. CodeInv /\ CompleteInv
  BY DEF CodeInv, CompleteInv
<1>4. FirstCodeCanonical
  BY DEF FirstCodeCanonical
<1>5. QED
  BY <1>1, <1>2, <1>3, <1>4 DEF IInv

\* Each step of the replacement of ExitProcess keeps the inductive invariant.
LEMMA NextIInv == IInv /\ [Next]_vars => IInv'
<1> SUFFICES ASSUME IInv, [Next]_vars PROVE IInv'
  OBVIOUS
<1> USE ExitConstants DEF IInv, TypeOK, OwnerInv, CodeInv, CompleteInv,
        FirstCodeCanonical, Threads, States, Alive, Goto
<1>1. ASSUME NEW t \in Threads, Request(t) PROVE IInv'
  BY <1>1 DEF Request
<1>2. ASSUME NEW t \in Threads, CheckOwner(t) PROVE IInv'
  BY <1>2 DEF CheckOwner
<1>3. ASSUME NEW t \in Threads, Claim(t) PROVE IInv'
  BY <1>3 DEF Claim
<1>4. ASSUME NEW t \in Threads, PublishCode(t) PROVE IInv'
  BY <1>4 DEF PublishCode
<1>5. ASSUME NEW t \in Threads, StartCleanup(t) PROVE IInv'
  BY <1>5 DEF StartCleanup, TerminateProcess
<1>6. ASSUME NEW t \in Threads, CleanupEnds(t) PROVE IInv'
  BY <1>6 DEF CleanupEnds
<1>7. ASSUME NEW t \in Threads, OwnerTimesOut(t) PROVE IInv'
  BY <1>7 DEF OwnerTimesOut, TerminateProcess
<1>8. ASSUME NEW t \in Threads, PollEnds(t) PROVE IInv'
  BY <1>8 DEF PollEnds
<1>9. ASSUME NEW t \in Threads, Recheck(t) PROVE IInv'
  BY <1>9 DEF Recheck
<1>10. ASSUME NEW t \in Threads, GiveUp(t) PROVE IInv'
  BY <1>10 DEF GiveUp, TerminateProcess
<1>11. ASSUME NEW t \in Threads, Transfer(t) PROVE IInv'
  BY <1>11 DEF Transfer
<1>12. ASSUME NEW t \in Threads, OriginalExits(t) PROVE IInv'
  BY <1>12 DEF OriginalExits
<1>13. ASSUME NEW t \in Threads, OriginalReturns(t) PROVE IInv'
  BY <1>13 DEF OriginalReturns, TerminateProcess
<1>14. CASE Destruct
  BY <1>14 DEF Destruct
<1>15. CASE PublishComplete
  BY <1>15 DEF PublishComplete
<1>16. CASE UNCHANGED vars
  BY <1>16 DEF vars
<1>17. QED
  BY <1>1, <1>2, <1>3, <1>4, <1>5, <1>6, <1>7, <1>8, <1>9, <1>10, <1>11, <1>12,
     <1>13, <1>14, <1>15, <1>16 DEF Next, Step, Exit

\* Every reachable state satisfies the inductive invariant.
THEOREM InvariantHolds == Spec => []IInv
  BY InitIInv, NextIInv, PTL DEF Spec

\* The replacement never enters the original ExitProcess while destructors run.
THEOREM DestructionFirst == Spec => []NativeExitAfterDestruction
<1>1. IInv => NativeExitAfterDestruction
  BY DEF IInv, CompleteInv, NativeExitAfterDestruction
<1>2. QED
  BY <1>1, InvariantHolds, PTL

\* The process ends with the code of the first request, but for the snapshot the
\* source admits.
THEOREM FirstCodeWins == Spec => []FirstCodeCanonical
<1>1. IInv => FirstCodeCanonical
  BY DEF IInv
<1>2. QED
  BY <1>1, InvariantHolds, PTL

=============================================================================
