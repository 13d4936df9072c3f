----------------------------- MODULE ExitProcess -----------------------------
(***************************************************************************)
(* win32/process-threads-api.cxx: the replacement of ExitProcess.  The     *)
(* first caller owns termination: it runs global destruction on a thread   *)
(* of its own and waits for it with a deadline, so that destructors run    *)
(* while the process is still whole.  Later callers poll for completion    *)
(* with the same deadline.  Everyone then goes on to the original          *)
(* ExitProcess or, when the deadline passed, to TerminateProcess.          *)
(*                                                                         *)
(* The deadlines are finite and nothing bounds the steps of other threads, *)
(* so each may pass at any moment.  Destructors may hang, and may call     *)
(* ExitProcess themselves; so may the detach handlers that the original    *)
(* ExitProcess runs.                                                       *)
(***************************************************************************)
EXTENDS Naturals

CONSTANTS Callers,   \* threads of the program
          Cleaner,   \* the cleanup thread
          Requested, \* Requested[t]: the code thread t passes to ExitProcess
          Nobody     \* the owner before there is one (thread id zero)

Threads == Callers \cup {Cleaner}

ASSUME ExitConstants ==
    /\ Cleaner \notin Callers
    /\ Nobody \notin Threads
    /\ Requested \in [Threads -> Nat]

VARIABLES owner, code, complete,
          pc,
          native,   \* the thread inside the original ExitProcess, which ended the others
          ended,    \* how the process ended: "no", "exit" or "terminate"
          final     \* the exit code it ended with

vars == <<owner, code, complete, pc, native, ended, final>>

States == {"running", "check", "claim", "publish", "create", "wait", "poll",
           "recheck", "giveup", "transfer", "native", "unborn", "destruct",
           "detached", "gone"}

TypeOK ==
    /\ owner \in Threads \cup {Nobody}
    /\ code \in Nat
    /\ complete \in BOOLEAN
    /\ pc \in [Threads -> States]
    /\ native \in Threads \cup {Nobody}
    /\ ended \in {"no", "exit", "terminate"}
    /\ final \in Nat

Init ==
    /\ owner = Nobody /\ code = 0 /\ complete = FALSE
    /\ pc = [t \in Threads |-> IF t = Cleaner THEN "unborn" ELSE "running"]
    /\ native = Nobody /\ ended = "no" /\ final = 0

Alive(t) == ended = "no" /\ native \in {Nobody, t}

Goto(t, l) == pc' = [pc EXCEPT ![t] = l]

\* TerminateProcess does not return.
TerminateProcess(t, c) ==
    /\ ended' = "terminate"
    /\ final' = c
    /\ Goto(t, "gone")

-----------------------------------------------------------------------------
\* A thread calls ExitProcess: of its own accord, from a destructor, or from a
\* detach handler inside the original ExitProcess.
Request(t) ==
    /\ Alive(t)
    /\ pc[t] \in {"running", "destruct", "native"}
    /\ Goto(t, "check")
    /\ UNCHANGED <<owner, code, complete, native, ended, final>>

\* Re-entry by the thread that owns termination goes straight on.
CheckOwner(t) ==
    /\ Alive(t) /\ pc[t] = "check"
    /\ Goto(t, IF owner = t THEN "transfer" ELSE "claim")
    /\ UNCHANGED <<owner, code, complete, native, ended, final>>

\* Mutant of Claim: a plain store takes the place of the compare-exchange.
Claim_Store(t) ==
    /\ Alive(t) /\ pc[t] = "claim"
    /\ owner' = t
    /\ Goto(t, "publish")
    /\ UNCHANGED <<code, complete, native, ended, final>>

\* The compare-exchange of owner.
Claim(t) ==
    /\ Alive(t) /\ pc[t] = "claim"
    /\ IF owner = Nobody
       THEN owner' = t /\ Goto(t, "publish")
       ELSE UNCHANGED owner /\ Goto(t, "poll")
    /\ UNCHANGED <<code, complete, native, ended, final>>

PublishCode(t) ==
    /\ Alive(t) /\ pc[t] = "publish"
    /\ code' = Requested[t]
    /\ Goto(t, "create")
    /\ UNCHANGED <<owner, complete, native, ended, final>>

\* CreateThread, and TerminateProcess when it fails.
StartCleanup(t) ==
    /\ Alive(t) /\ pc[t] = "create"
    /\ \/ /\ pc' = [pc EXCEPT ![t] = "wait", ![Cleaner] = "destruct"]
          /\ UNCHANGED <<ended, final>>
       \/ TerminateProcess(t, Requested[t])
    /\ UNCHANGED <<owner, code, complete, native>>

\* The owner's wait: for the end of the cleanup thread, or for the deadline.
CleanupEnds(t) ==
    /\ Alive(t) /\ pc[t] = "wait"
    /\ pc[Cleaner] = "gone"
    /\ Goto(t, "transfer")
    /\ UNCHANGED <<owner, code, complete, native, ended, final>>

\* Mutants of OwnerTimesOut: the original ExitProcess after the deadline, or no deadline.
OwnerTimesOut_Transfers(t) ==
    /\ Alive(t) /\ pc[t] = "wait"
    /\ Goto(t, "transfer")
    /\ UNCHANGED <<owner, code, complete, native, ended, final>>

OwnerTimesOut_Never(t) ==
    /\ Alive(t) /\ pc[t] = "wait" /\ pc[Cleaner] = "gone"
    /\ TerminateProcess(t, Requested[t])
    /\ UNCHANGED <<owner, code, complete, native>>

OwnerTimesOut(t) ==
    /\ Alive(t) /\ pc[t] = "wait"
    /\ TerminateProcess(t, Requested[t])
    /\ UNCHANGED <<owner, code, complete, native>>

\* The polling loop ends when it sees completion or at the deadline, and completion
\* is looked at once more before the process is terminated.
PollEnds(t) ==
    /\ Alive(t) /\ pc[t] = "poll"
    /\ Goto(t, "recheck")
    /\ UNCHANGED <<owner, code, complete, native, ended, final>>

Recheck(t) ==
    /\ Alive(t) /\ pc[t] = "recheck"
    /\ Goto(t, IF complete THEN "transfer" ELSE "giveup")
    /\ UNCHANGED <<owner, code, complete, native, ended, final>>

GiveUp(t) ==
    /\ Alive(t) /\ pc[t] = "giveup"
    /\ TerminateProcess(t, code)
    /\ UNCHANGED <<owner, code, complete, native>>

-----------------------------------------------------------------------------
(* transfer: the original ExitProcess, then TerminateProcess as a backstop  *)

Transfer(t) ==
    /\ Alive(t) /\ pc[t] = "transfer"
    /\ native' = t
    /\ Goto(t, "native")
    /\ UNCHANGED <<owner, code, complete, ended, final>>

OriginalExits(t) ==
    /\ Alive(t) /\ pc[t] = "native"
    /\ ended' = "exit"
    /\ final' = code
    /\ Goto(t, "gone")
    /\ UNCHANGED <<owner, code, complete, native>>

OriginalReturns(t) ==
    /\ Alive(t) /\ pc[t] = "native"
    /\ TerminateProcess(t, code)
    /\ UNCHANGED <<owner, code, complete, native>>

-----------------------------------------------------------------------------
(* The cleanup thread                                                       *)

\* _CRT_INIT returns.
Destruct ==
    /\ Alive(Cleaner) /\ pc[Cleaner] = "destruct"
    /\ Goto(Cleaner, "detached")
    /\ UNCHANGED <<owner, code, complete, native, ended, final>>

PublishComplete ==
    /\ Alive(Cleaner) /\ pc[Cleaner] = "detached"
    /\ complete' = TRUE
    /\ Goto(Cleaner, "gone")
    /\ UNCHANGED <<owner, code, native, ended, final>>

-----------------------------------------------------------------------------
Step(t) ==
    \/ CheckOwner(t) \/ Claim(t) \/ PublishCode(t) \/ StartCleanup(t)
    \/ CleanupEnds(t) \/ OwnerTimesOut(t) \/ PollEnds(t) \/ Recheck(t) \/ GiveUp(t)
    \/ Transfer(t)

Exit(t) == OriginalExits(t) \/ OriginalReturns(t)

Next ==
    \/ \E t \in Threads : Request(t) \/ Step(t) \/ Exit(t)
    \/ Destruct \/ PublishComplete

Spec == Init /\ [][Next]_vars

\* Threads inside the replacement go on and deadlines pass; the original ExitProcess
\* ends the process in the end, however often detach handlers re-enter.  Nothing is
\* assumed of destructors.
Fairness == \A t \in Threads : WF_vars(Step(t)) /\ SF_vars(Exit(t))

FairSpec == Spec /\ Fairness

-----------------------------------------------------------------------------
(* Properties                                                               *)

\* The original ExitProcess is not entered while a destructor may be running on the
\* cleanup thread (process-threads-api.cxx 204-210 and 217-219): whoever gets there,
\* the owner, a later caller or a re-entrant one, destruction has completed.
NativeExitAfterDestruction ==
    native # Nobody => complete /\ pc[Cleaner] \notin {"unborn", "destruct", "detached"}

\* The first exit request is canonical (143-146, 232-234): the process ends with the
\* code of the owner.  The one exception is the partial snapshot that lines 27-41 allow:
\* a later caller gave up while the owner had not published its code.
FirstCodeCanonical ==
    ended # "no" =>
        \/ owner # Nobody /\ final = Requested[owner]
        \/ ended = "terminate" /\ final = 0 /\ owner # Nobody /\ pc[owner] = "publish"

\* Every path ends in ExitProcess or TerminateProcess (36-37): once a thread has called
\* the replacement the process ends, even when destructors hang or call ExitProcess.
RequestEndsProcess == (\E t \in Threads : pc[t] = "check") ~> (ended # "no")

=============================================================================
