--------------------------- MODULE CallbackQueue ---------------------------
(***************************************************************************)
(* What a task port promises to the code that submits callbacks to it,     *)
(* with no ring buffer, lock, condition variable or thread in sight: every *)
(* accepted callback is called once; it is not called before its delay has *)
(* passed unless the queue was closed; callbacks without a delay are       *)
(* called in the order they were accepted; only a closed queue tells a     *)
(* callback that it was canceled; a closed queue accepts nothing, and is   *)
(* reopened only once it has nothing pending.                              *)
(***************************************************************************)
EXTENDS Naturals

CONSTANTS Callbacks,  \* callback instances, each submitted at most once
          Delay,      \* Delay[x]: the delay x is submitted with
          Never       \* an instant that is never reached

VARIABLES pending,    \* accepted and not yet called
          running,    \* being called
          finished,   \* called, and returned
          canceled,   \* called with the canceled flag set
          rank,       \* rank[x]: the place of x in the order of acceptance
          issued,     \* callbacks accepted so far
          due,        \* due[x]: the instant from which x may be called
          closed,     \* the queue was terminated, or was never opened
          clock

vars == <<pending, running, finished, canceled, rank, issued, due, closed, clock>>

Fresh(x) == rank[x] = 0 /\ x \notin running \cup finished

Undelayed(x) == Delay[x] = 0

Init ==
    /\ pending = {} /\ running = {} /\ finished = {} /\ canceled = {}
    /\ rank = [x \in Callbacks |-> 0]
    /\ due = [x \in Callbacks |-> 0]
    /\ issued = 0
    /\ closed = TRUE
    /\ clock = 0

Reopen ==
    /\ closed
    /\ pending = {}
    /\ closed' = FALSE
    /\ UNCHANGED <<pending, running, finished, canceled, rank, issued, due, clock>>

Accept(x) ==
    /\ Fresh(x)
    /\ ~closed
    /\ pending' = pending \cup {x}
    /\ issued' = issued + 1
    /\ rank' = [rank EXCEPT ![x] = issued']
    /\ due' = [due EXCEPT ![x] = clock + Delay[x]]
    /\ UNCHANGED <<running, finished, canceled, closed, clock>>

\* A port that runs callbacks immediately calls them on the submitter's thread,
\* whatever their delay and whether or not it was terminated.
CallInline(x) ==
    /\ Fresh(x)
    /\ running' = running \cup {x}
    /\ UNCHANGED <<pending, finished, canceled, rank, issued, due, closed, clock>>

Call(x) ==
    /\ x \in pending
    /\ closed \/ due[x] <= clock
    /\ Undelayed(x) => \A y \in pending : Undelayed(y) => rank[x] <= rank[y]
    /\ pending' = pending \ {x}
    /\ running' = running \cup {x}
    /\ \/ canceled' = canceled
       \/ closed /\ canceled' = canceled \cup {x}
    /\ UNCHANGED <<finished, rank, issued, due, closed, clock>>

Return(x) ==
    /\ x \in running
    /\ running' = running \ {x}
    /\ finished' = finished \cup {x}
    /\ UNCHANGED <<pending, canceled, rank, issued, due, closed, clock>>

Close ==
    /\ closed' = TRUE
    /\ UNCHANGED <<pending, running, finished, canceled, rank, issued, due, clock>>

Pass ==
    /\ clock' > clock
    /\ clock' < Never
    /\ UNCHANGED <<pending, running, finished, canceled, rank, issued, due, closed>>

Next ==
    \/ Reopen \/ Close \/ Pass
    \/ \E x \in Callbacks : Accept(x) \/ CallInline(x) \/ Call(x) \/ Return(x)

Spec == Init /\ [][Next]_vars

=============================================================================
