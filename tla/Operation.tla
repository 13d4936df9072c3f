----------------------------- MODULE Operation -----------------------------
(***************************************************************************)
(* What an XAsyncBlock promises about the operation behind it, with no     *)
(* slot, token, hold, task or lock in sight.  A block has one operation at *)
(* a time.  An operation settles once, whoever races to finish it, and is  *)
(* closed to the client only when it has settled or could not begin.  Its  *)
(* completion routine falls due at most once, after it has settled and     *)
(* before it is closed, and is called before everybody has let go of it,   *)
(* which may be after it is closed.  From then on nothing happens to it,   *)
(* save that its provider cleans up, and then it is over.                  *)
(***************************************************************************)
EXTENDS Naturals

CONSTANTS Operations, Blocks,
          Notified,   \* the blocks that have a completion routine
          None

VARIABLES stage,      \* unborn, starting, open, closed, ending, over
          kind,       \* none, local, provider; failed if the provider's begin fails
          owner,      \* the block, until the operation is closed
          verdict,    \* pending, or how it ended
          due,        \* the operations whose completion routine is about to be called
          told,       \* how often the completion routine was called
          cleaned     \* how often the provider was told to clean up

vars == <<stage, kind, owner, verdict, due, told, cleaned>>

Init ==
    /\ stage = [k \in Operations |-> "unborn"]
    /\ kind = [k \in Operations |-> "none"]
    /\ owner = [k \in Operations |-> None]
    /\ verdict = [k \in Operations |-> "pending"]
    /\ due = {}
    /\ told = [k \in Operations |-> 0]
    /\ cleaned = [k \in Operations |-> 0]

Start(k, a) ==
    /\ stage[k] = "unborn"
    /\ \A j \in Operations : owner[j] # a
    /\ stage' = [stage EXCEPT ![k] = "starting"]
    /\ owner' = [owner EXCEPT ![k] = a]
    /\ UNCHANGED <<kind, verdict, due, told, cleaned>>

Fill(k, m) ==
    /\ stage[k] = "starting" /\ kind[k] = "none"
    /\ kind' = [kind EXCEPT ![k] = m]
    /\ UNCHANGED <<stage, owner, verdict, due, told, cleaned>>

\* The call that begins the operation returns.
Began(k) ==
    /\ stage[k] = "starting" /\ kind[k] \in {"local", "provider"}
    /\ stage' = [stage EXCEPT ![k] = "open"]
    /\ UNCHANGED <<kind, owner, verdict, due, told, cleaned>>

\* The provider cannot begin: it is told to clean up, then and when the operation ends.
BeginFails(k) ==
    /\ stage[k] = "starting" /\ kind[k] = "provider"
    /\ kind' = [kind EXCEPT ![k] = "failed"]
    /\ cleaned' = [cleaned EXCEPT ![k] = @ + 1]
    /\ UNCHANGED <<stage, owner, verdict, due, told>>

Settle(k, s) ==
    /\ stage[k] \in {"starting", "open", "closed"} /\ verdict[k] = "pending"
    /\ verdict' = [verdict EXCEPT ![k] = s]
    /\ UNCHANGED <<stage, kind, owner, due, told, cleaned>>

\* Somebody is going to call the completion routine,
Take(k) ==
    /\ stage[k] \in {"starting", "open"} /\ owner[k] \in Notified
    /\ verdict[k] # "pending" /\ told[k] = 0 /\ k \notin due
    /\ due' = due \cup {k}
    /\ UNCHANGED <<stage, kind, owner, verdict, told, cleaned>>

\* and does, also if the operation was closed meanwhile.
Tell(k) ==
    /\ stage[k] \in {"starting", "open", "closed"} /\ k \in due
    /\ due' = due \ {k}
    /\ told' = [told EXCEPT ![k] = 1]
    /\ UNCHANGED <<stage, kind, owner, verdict, cleaned>>

\* The result was taken, the operation canceled, or its begin failed.
Close(k) ==
    /\ \/ stage[k] = "starting" /\ kind[k] # "none"
       \/ stage[k] = "open" /\ verdict[k] # "pending"
    /\ stage' = [stage EXCEPT ![k] = "closed"]
    /\ owner' = [owner EXCEPT ![k] = None]
    /\ UNCHANGED <<kind, verdict, due, told, cleaned>>

LetGo(k) ==
    /\ stage[k] = "closed" /\ k \notin due
    /\ stage' = [stage EXCEPT ![k] = "ending"]
    /\ UNCHANGED <<kind, owner, verdict, due, told, cleaned>>

CleanUp(k) ==
    /\ stage[k] = "ending"
    /\ \/ kind[k] = "provider" /\ cleaned[k] = 0
       \/ kind[k] = "failed" /\ cleaned[k] = 1
    /\ cleaned' = [cleaned EXCEPT ![k] = @ + 1]
    /\ UNCHANGED <<stage, kind, owner, verdict, due, told>>

End(k) ==
    /\ stage[k] = "ending"
    /\ cleaned[k] = CASE kind[k] = "local"    -> 0
                      [] kind[k] = "provider" -> 1
                      [] kind[k] = "failed"   -> 2
    /\ stage' = [stage EXCEPT ![k] = "over"]
    /\ verdict' = [verdict EXCEPT ![k] = "pending"]
    /\ UNCHANGED <<kind, owner, due, told, cleaned>>

Next ==
    \E k \in Operations :
        \/ \E a \in Blocks : Start(k, a)
        \/ \E m \in {"local", "provider"} : Fill(k, m)
        \/ Began(k) \/ BeginFails(k) \/ Take(k) \/ Tell(k) \/ Close(k)
        \/ \E s \in {"ok", "fail", "abort"} : Settle(k, s)
        \/ LetGo(k) \/ CleanUp(k) \/ End(k)

Spec == Init /\ [][Next]_vars

=============================================================================
