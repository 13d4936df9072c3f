------------------------------- MODULE XCurl -------------------------------
(***************************************************************************)
(* xcurl: libcurl's easy and multi interfaces as the game calls them.  A   *)
(* transfer to an address this client answers itself never reaches libcurl: *)
(* multi::add lists it among the multi's own, perform hands its answer to   *)
(* the transfer's callbacks and then queues a completion in a ring, and     *)
(* read takes completions from the ring before it asks libcurl.  All other *)
(* transfers are libcurl's, which is external.                             *)
(*                                                                         *)
(* perform delivers from a copy of the list with the mutex released, so    *)
(* that a callback may call the interface again: every other call can come *)
(* between the copy, the deliveries and the collection.                    *)
(*                                                                         *)
(* Clients keep libcurl's rules: one perform at a time; a transfer is      *)
(* added when it is in no multi, and cleaned up or changed only then; a    *)
(* multi is cleaned up outside perform.                                    *)
(***************************************************************************)
EXTENDS Integers, Sequences

CONSTANTS MaxTransfers,   \* max_transfers
          Capacity        \* multi::capacity, of the list and of the ring

ASSUME XCurlConstants == MaxTransfers \in Nat /\ Capacity \in Nat

Transfers == 1..MaxTransfers
Requests  == {"none", "local", "network"}

VARIABLES used,         \* transfer_used, and the signature that goes with it
          request,      \* what answer() and platform() make of the method and the URL
          local, delivered,
          handle,       \* multi::handle_ is open
          list,         \* local_[0..locals_)
          answered,     \* multi::answered_
          messages,     \* the ring: whose completion, and as history, whether the
                        \* transfer was removed since (stale)
          copied,       \* the copy perform has yet to deliver from
          performing,   \* perform is between its copy and its collection
          network,      \* external: libcurl's view of the transfer
          added,        \* history: the client has added it and not removed it
          answers,      \* history: deliveries since it was added
          reported      \* history: read returned its completion since it was added

transferVars == <<used, request, local, delivered>>
multiVars    == <<handle, list, answered, messages>>
performVars  == <<copied, performing>>
historyVars  == <<added, answers, reported>>
vars == <<transferVars, multiVars, performVars, network, historyVars>>

TypeOK ==
    /\ used \in [Transfers -> BOOLEAN] /\ request \in [Transfers -> Requests]
    /\ local \in [Transfers -> BOOLEAN] /\ delivered \in [Transfers -> BOOLEAN]
    /\ handle \in BOOLEAN /\ performing \in BOOLEAN
    /\ list \in Seq(Transfers) /\ Len(list) <= Capacity
    /\ messages \in Seq([of : Transfers, stale : BOOLEAN]) /\ Len(messages) <= Capacity
    /\ answered \in 0..Capacity /\ copied \in Seq(Transfers)
    /\ network \in [Transfers -> {"out", "running", "done", "told"}]
    /\ added \in [Transfers -> BOOLEAN] /\ reported \in [Transfers -> BOOLEAN]
    /\ answers \in [Transfers -> Nat]

Init ==
    /\ used = [t \in Transfers |-> FALSE]
    /\ request = [t \in Transfers |-> "none"]
    /\ local = [t \in Transfers |-> FALSE]
    /\ delivered = [t \in Transfers |-> FALSE]
    /\ handle = FALSE /\ list = <<>> /\ answered = 0 /\ messages = <<>>
    /\ copied = <<>> /\ performing = FALSE
    /\ network = [t \in Transfers |-> "out"]
    /\ added = [t \in Transfers |-> FALSE]
    /\ answers = [t \in Transfers |-> 0]
    /\ reported = [t \in Transfers |-> FALSE]

-----------------------------------------------------------------------------
(* Transfers                                                                *)

\* open_transfer takes the first item not in use; open() drops the easy handle of the
\* item's last user and starts from nothing.
easy_init(t) ==
    /\ ~used[t] /\ \A s \in 1..(t - 1) : used[s]
    /\ used' = [used EXCEPT ![t] = TRUE]
    /\ request' = [request EXCEPT ![t] = "none"]
    /\ local' = [local EXCEPT ![t] = FALSE]
    /\ delivered' = [delivered EXCEPT ![t] = FALSE]
    /\ network' = [network EXCEPT ![t] = "out"]
    /\ UNCHANGED <<multiVars, performVars, historyVars>>

\* CURLOPT_URL and the options that set the method.
easy_setopt(t, r) ==
    /\ used[t] /\ ~added[t]
    /\ request' = [request EXCEPT ![t] = r]
    /\ UNCHANGED <<used, local, delivered, multiVars, performVars, network, historyVars>>

\* close_transfer gives the item back and forgets the signature, nothing else.
easy_cleanup(t) ==
    /\ used[t] /\ ~added[t]
    /\ used' = [used EXCEPT ![t] = FALSE]
    /\ UNCHANGED <<request, local, delivered, multiVars, performVars, network, historyVars>>

\* begin decides who answers and makes the transfer ready to be delivered.
begin(t) ==
    /\ local' = [local EXCEPT ![t] = request[t] = "local"]
    /\ delivered' = [delivered EXCEPT ![t] = FALSE]

\* Mutant of deliver: the flag is not looked at.
deliver_Again(t) ==
    /\ delivered' = [delivered EXCEPT ![t] = TRUE]
    /\ answers' = [answers EXCEPT ![t] = @ + 1]

\* deliver calls the callbacks unless it did before.
deliver(t) ==
    /\ delivered' = [delivered EXCEPT ![t] = TRUE]
    /\ answers' = [answers EXCEPT ![t] = IF delivered[t] THEN @ ELSE @ + 1]

-----------------------------------------------------------------------------
(* The multi                                                                *)

multi_init ==
    /\ ~handle
    /\ handle' = TRUE
    /\ UNCHANGED <<transferVars, list, answered, messages, performVars, network, historyVars>>

\* multi::close forgets the list and the ring; libcurl lets go of its transfers.
multi_cleanup ==
    /\ handle /\ ~performing
    /\ handle' = FALSE /\ list' = <<>> /\ answered' = 0 /\ messages' = <<>>
    /\ network' = [t \in Transfers |-> "out"]
    /\ added' = [t \in Transfers |-> FALSE]
    /\ UNCHANGED <<transferVars, performVars, answers, reported>>

Added(t) ==
    /\ added' = [added EXCEPT ![t] = TRUE]
    /\ answers' = [answers EXCEPT ![t] = 0]
    /\ reported' = [reported EXCEPT ![t] = FALSE]

CanAdd(t) == handle /\ used[t] /\ ~added[t] /\ request[t] # "none"

AddLocal(t) ==
    /\ CanAdd(t) /\ request[t] = "local"
    /\ Len(list) < Capacity
    /\ begin(t)
    /\ list' = Append(list, t)
    /\ answered' = Len(list')
    /\ Added(t)
    /\ UNCHANGED <<used, request, handle, messages, performVars, network>>

\* No room in the list, or the redirection to the platform fails: the transfer has begun
\* and is in no multi.
AddRefused(t) ==
    /\ CanAdd(t)
    /\ request[t] = "local" => Len(list) = Capacity
    /\ begin(t)
    /\ UNCHANGED <<used, request, multiVars, performVars, network, historyVars>>

AddNetwork(t) ==
    /\ CanAdd(t) /\ request[t] = "network"
    /\ begin(t)
    /\ network' = [network EXCEPT ![t] = "running"]
    /\ Added(t)
    /\ UNCHANGED <<used, request, multiVars, performVars>>

\* A completion as queue() makes it.
Done(t) == [of |-> t, stale |-> FALSE]

\* Element i is overwritten by the last one.
Without(s, i) == [j \in 1..(Len(s) - 1) |-> IF j = i THEN s[Len(s)] ELSE s[j]]

Positions(s, t) == {i \in 1..Len(s) : s[i] = t}
Fresh(t)        == Positions(messages, Done(t))

\* The list forgets the transfer; a completion in the ring stays there.
RemoveLocal(t) ==
    /\ handle /\ used[t] /\ added[t] /\ local[t]
    /\ list' = IF Positions(list, t) = {} THEN list
               ELSE Without(list, CHOOSE i \in Positions(list, t) :
                                     \A j \in Positions(list, t) : i <= j)
    /\ answered' = Len(list')
    /\ added' = [added EXCEPT ![t] = FALSE]
    /\ messages' = [i \in 1..Len(messages) |->
                      [messages[i] EXCEPT !.stale = @ \/ messages[i].of = t]]
    /\ UNCHANGED <<transferVars, handle, performVars, network, answers, reported>>

\* libcurl drops the completion as well, if there is one.
RemoveNetwork(t) ==
    /\ handle /\ used[t] /\ added[t] /\ ~local[t]
    /\ network' = [network EXCEPT ![t] = "out"]
    /\ added' = [added EXCEPT ![t] = FALSE]
    /\ UNCHANGED <<transferVars, multiVars, performVars, answers, reported>>

\* Mutant of perform: a single answer does not count.
perform_Several ==
    /\ handle /\ ~performing
    /\ \E S \in SUBSET {t \in Transfers : network[t] = "running"} :
          network' = [t \in Transfers |-> IF t \in S THEN "done" ELSE network[t]]
    /\ performing' = (answered > 1)
    /\ copied' = IF answered > 1 THEN list ELSE <<>>
    /\ UNCHANGED <<transferVars, multiVars, historyVars>>

\* curl_multi_perform completes some of libcurl's transfers; the answers are looked for
\* only when answered_ says that there are any.
perform ==
    /\ handle /\ ~performing
    /\ \E S \in SUBSET {t \in Transfers : network[t] = "running"} :
          network' = [t \in Transfers |-> IF t \in S THEN "done" ELSE network[t]]
    /\ performing' = (answered # 0)
    /\ copied' = IF answered # 0 THEN list ELSE <<>>
    /\ UNCHANGED <<transferVars, multiVars, historyVars>>

Deliver ==
    /\ performing /\ copied # <<>>
    /\ deliver(Head(copied))
    /\ copied' = Tail(copied)
    /\ UNCHANGED <<used, request, local, multiVars, performing, network, added, reported>>

\* Mutant of Collect1: a transfer whose completion found no room is taken off the list.
Collect1_Drops(s) ==
    IF s.i > Len(s.list) THEN s
    ELSE IF ~delivered[s.list[s.i]] THEN [s EXCEPT !.i = @ + 1]
    ELSE IF Len(s.ring) = Capacity THEN [s EXCEPT !.list = Without(@, s.i)]
    ELSE [s EXCEPT !.ring = Append(@, Done(s.list[s.i])), !.list = Without(@, s.i)]

\* One turn of answered()'s loop.
Collect1(s) ==
    IF s.i > Len(s.list) THEN s
    ELSE IF ~delivered[s.list[s.i]] \/ Len(s.ring) = Capacity THEN [s EXCEPT !.i = @ + 1]
    ELSE [s EXCEPT !.ring = Append(@, Done(s.list[s.i])), !.list = Without(@, s.i)]

\* Every turn passes over an element or takes one off: as many turns as there are elements.
Turns[n \in 0..Len(list)] ==
    IF n = 0 THEN [i |-> 1, list |-> list, ring |-> messages] ELSE Collect1(Turns[n - 1])

Collected == Turns[Len(list)]

Collect ==
    /\ performing /\ copied = <<>>
    /\ list' = Collected.list
    /\ messages' = Collected.ring
    /\ answered' = Len(list')
    /\ performing' = FALSE
    /\ UNCHANGED <<transferVars, handle, copied, network, historyVars>>

\* The ring first.
ReadLocal ==
    /\ handle /\ messages # <<>>
    /\ messages' = Tail(messages)
    /\ reported' = IF Head(messages).stale THEN reported
                   ELSE [reported EXCEPT ![Head(messages).of] = TRUE]
    /\ UNCHANGED <<transferVars, handle, list, answered, performVars, network, added, answers>>

\* libcurl's completion, translated by transfer_of.
ReadNetwork ==
    /\ handle /\ messages = <<>>
    /\ \E t \in Transfers :
          /\ network[t] = "done"
          /\ network' = [network EXCEPT ![t] = "told"]
          /\ reported' = [reported EXCEPT ![t] = TRUE]
    /\ UNCHANGED <<transferVars, multiVars, performVars, added, answers>>

Next ==
    \/ \E t \in Transfers :
          \/ easy_init(t) \/ easy_cleanup(t)
          \/ \E r \in {"local", "network"} : easy_setopt(t, r)
          \/ AddLocal(t) \/ AddRefused(t) \/ AddNetwork(t)
          \/ RemoveLocal(t) \/ RemoveNetwork(t)
    \/ multi_init \/ multi_cleanup
    \/ perform \/ Deliver \/ Collect \/ ReadLocal \/ ReadNetwork

Spec == Init /\ [][Next]_vars

\* The client's loop performs and reads, again and again; perform returns.
FairSpec ==
    /\ Spec
    /\ WF_vars(perform) /\ WF_vars(Deliver) /\ WF_vars(Collect) /\ WF_vars(ReadLocal)

-----------------------------------------------------------------------------
(* Properties                                                               *)

\* A transfer this client answers is on the list, in the ring or reported to the client
\* from the moment it is added until it is removed, through reentrant calls and a ring that
\* is full; and answered_ counts the list, so that poll never sleeps on a pending answer and
\* perform never passes one over (multi.cxx 135-177, 189, 248).
AnswersKept ==
    /\ answered = Len(list)
    /\ \A t \in Transfers : added[t] /\ local[t] =>
          Positions(list, t) # {} \/ Fresh(t) # {} \/ reported[t]

\* A completion in the ring is its transfer's only one, its answer was delivered, once, and
\* the transfer is off the list -- but for a stale one: remove leaves the completion of a
\* transfer it removes in the ring (multi.cxx 104-116).
ReportedAfterAnswer ==
    \A t \in Transfers : \A i \in Fresh(t) :
        /\ added[t] /\ ~reported[t] /\ answers[t] = 1
        /\ Fresh(t) = {i} /\ Positions(list, t) = {}

\* A client that keeps performing, and ever again reads until the ring is empty, learns of
\* the completion of every transfer this client answers, unless it gives it up.  (Reading
\* one completion for every perform is not enough when the ring is full: answered() moves
\* the list's last transfer to the front of the one that waits.)
AnswersReported ==
    []<>(~performing /\ messages = <<>>) =>
        \A t \in Transfers : (added[t] /\ local[t]) ~> (reported[t] \/ ~added[t])

=============================================================================
