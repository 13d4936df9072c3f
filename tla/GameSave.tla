------------------------------ MODULE GameSave ------------------------------
(***************************************************************************)
(* gdk::xgame_save: containers, updates and the operations that store and  *)
(* read blobs.  Handles to containers and updates come from fixed pools; an *)
(* update gathers writes and submit_update_async moves them into an        *)
(* operation, whose work() runs on a thread of the work port (see Async)   *)
(* and replaces the blobs one after the other: each is written to a file   *)
(* beside it, <blob>.part, which is then moved over the blob.  Operations   *)
(* run concurrently, share nothing but the file system, and any of their   *)
(* system calls may fail; the process may end between any two of them and  *)
(* is then started again on the files it left.  The containers of a        *)
(* process lie in the directory of the local user's identity (Identity).   *)
(*                                                                         *)
(* The file system is external: CreateFileW grants what the share modes of *)
(* file::open_read and file::open_write ask for, MoveFileExW needs both of *)
(* its files closed.  A blob's content is abstracted to a stamp that tells *)
(* the submit_blob_write it came from.                                     *)
(***************************************************************************)
EXTENDS Integers, Sequences, Identity

CONSTANTS Nowhere,       \* the empty path of a closed container
          Blobs,         \* blob names, none of which is another one's .part
          Torn,          \* a file that holds part of what was to be written
          Ops,           \* operations under way at a time
          MaxContainers, MaxUpdates, MaxBlobWrites, MaxBlobReads,
          MaxStamps      \* bound: calls of submit_blob_write

ASSUME SaveConstants ==
    /\ {MaxContainers, MaxUpdates, MaxBlobWrites, MaxBlobReads, MaxStamps} \subseteq Nat
    /\ Nowhere \notin Ids \cup {Cut}
    /\ {Absent, Empty, Torn} \cap Nat = {}
    /\ Absent # Empty /\ Absent # Torn /\ Empty # Torn

\* A container is found in the directory of the user it was created for.
Locations  == Users
Containers == 1..MaxContainers
Updates    == 1..MaxUpdates
Places     == (Locations \cup {Nowhere}) \X Blobs

VARIABLES disk,        \* the blobs: a content for each place
          part,        \* the .part beside each of them
          root,        \* save_provider::root, the directory of a user
          container,   \* handle_pool<save_container>
          update,      \* handle_pool<save_update>
          op,          \* the operations
          stamp,       \* history: the last content made
          home,        \* history: the directory an update was created for
          orphans,     \* history: updates whose container was closed since
          lost,        \* history: blobs whose pending data a refused submit dropped
          spoiled,     \* history: places where a write failed under another's move
          origin,      \* history: what each operation was submitted with
          ended,       \* history: the contents of the operations that ended
          superseded   \* history: contents a place must not hold again

fileVars    == <<disk, part>>
poolVars    == <<container, update, home, orphans>>
historyVars == <<stamp, lost, spoiled, origin, ended, superseded>>
vars == <<fileVars, poolVars, op, historyVars, root, idVars>>

NoContainer == [used |-> FALSE, location |-> Nowhere]
NoUpdate    == [used |-> FALSE, target |-> 0, writes |-> <<>>]
NoOp        == [kind |-> "none", at |-> "idle", location |-> Nowhere, todo |-> <<>>]
NoOrigin    == [home |-> Nowhere, orphan |-> FALSE, writes |-> <<>>, past |-> {}]

Init ==
    /\ disk = [p \in Places |-> Absent]
    /\ part = [p \in Places |-> Absent]
    /\ container = [c \in Containers |-> NoContainer]
    /\ update = [u \in Updates |-> NoUpdate]
    /\ op = [o \in Ops |-> NoOp]
    /\ home = [u \in Updates |-> Nowhere]
    /\ orphans = {}
    /\ stamp = 0 /\ lost = {} /\ spoiled = {} /\ ended = {}
    /\ origin = [o \in Ops |-> NoOrigin]
    /\ superseded = [p \in Places |-> {}]
    /\ root = Nowhere
    /\ IdInit

-----------------------------------------------------------------------------
(* The provider                                                             *)

\* xuid(), in whatever thread needs the identity first.
Identify ==
    /\ IdStep
    /\ UNCHANGED <<fileVars, poolVars, op, historyVars, root>>

\* initialize_operation::work, when the directories can be made.
initialize_provider ==
    /\ xuid # Nobody
    /\ root = Nowhere
    /\ root' = xuid
    /\ UNCHANGED <<fileVars, poolVars, op, historyVars, idVars>>

-----------------------------------------------------------------------------
(* Handles                                                                  *)

\* handle_pool::open takes the first item not in use, if there is one.
Vacant(pool) ==
    {i \in DOMAIN pool : ~pool[i].used /\ \A j \in 1..(i - 1) : pool[j].used}

create_container ==
    /\ root # Nowhere
    /\ \E c \in Vacant(container) :
          container' = [container EXCEPT ![c] = [used |-> TRUE, location |-> root]]
    /\ UNCHANGED <<fileVars, update, home, orphans, op, historyVars>>

\* The item is reset, whoever still points to it.
close_container(c) ==
    /\ container[c].used
    /\ container' = [container EXCEPT ![c] = NoContainer]
    /\ orphans' = orphans \cup {u \in Updates : update[u].used /\ update[u].target = c}
    /\ UNCHANGED <<fileVars, update, home, op, historyVars>>

\* Mutant of create_update: a closed handle is found as well.
create_update_Unchecked(c) ==
    /\ \E u \in Vacant(update) :
          /\ update' = [update EXCEPT ![u] = [used |-> TRUE, target |-> c, writes |-> <<>>]]
          /\ home' = [home EXCEPT ![u] = container[c].location]
          /\ orphans' = orphans \ {u}
    /\ UNCHANGED <<fileVars, container, op, historyVars>>

create_update(c) ==
    /\ container[c].used
    /\ \E u \in Vacant(update) :
          /\ update' = [update EXCEPT ![u] = [used |-> TRUE, target |-> c, writes |-> <<>>]]
          /\ home' = [home EXCEPT ![u] = container[c].location]
          /\ orphans' = orphans \ {u}
    /\ UNCHANGED <<fileVars, container, op, historyVars>>

close_update(u) ==
    /\ update[u].used
    /\ update' = [update EXCEPT ![u] = NoUpdate]
    /\ orphans' = orphans \ {u}
    /\ UNCHANGED <<fileVars, container, home, op, historyVars>>

submit_blob_write(u, b) ==
    /\ update[u].used
    /\ Len(update[u].writes) < MaxBlobWrites
    /\ stamp < MaxStamps
    /\ stamp' = stamp + 1
    /\ update' = [update EXCEPT ![u].writes = Append(@, [blob |-> b, data |-> stamp'])]
    /\ UNCHANGED <<fileVars, container, home, orphans, op, lost, spoiled, origin,
                   ended, superseded>>

-----------------------------------------------------------------------------
(* Submitting and reading                                                   *)

Start(o, kind, location, todo) ==
    op' = [op EXCEPT ![o] = [kind |-> kind, at |-> "open", location |-> location,
                             todo |-> todo]]

\* What is left of an update's writes once their data was moved from.
Emptied(writes) == [i \in 1..Len(writes) |-> [writes[i] EXCEPT !.data = Empty]]

\* Mutant of submit_update_async: the count is not reset.
submit_update_async_Counted(u, o) ==
    /\ update[u].used
    /\ op[o].kind = "none"
    /\ Start(o, "submit", container[update[u].target].location, update[u].writes)
    /\ update' = [update EXCEPT ![u].writes = Emptied(@)]
    /\ origin' = [origin EXCEPT ![o] = [home |-> home[u], orphan |-> u \in orphans,
                                        writes |-> update[u].writes, past |-> ended]]
    /\ UNCHANGED <<fileVars, container, home, orphans, stamp, lost, spoiled, ended,
                   superseded>>

\* The constructor of submit_operation moves the data out of the update; begin takes
\* the operation, and the update starts again from no writes.
submit_update_async(u, o) ==
    /\ update[u].used
    /\ op[o].kind = "none"
    /\ Start(o, "submit", container[update[u].target].location, update[u].writes)
    /\ update' = [update EXCEPT ![u].writes = <<>>]
    /\ origin' = [origin EXCEPT ![o] = [home |-> home[u], orphan |-> u \in orphans,
                                        writes |-> update[u].writes, past |-> ended]]
    /\ UNCHANGED <<fileVars, container, home, orphans, stamp, lost, spoiled, ended,
                   superseded>>

\* begin raises: no block, no room for an operation, or the queue is going down.  The
\* operation is destroyed with the data; the writes and their count stay.
submit_refused(u) ==
    /\ update[u].used
    /\ update[u].writes # <<>>
    /\ update' = [update EXCEPT ![u].writes = Emptied(@)]
    /\ lost' = lost \cup {update[u].writes[i].blob : i \in 1..Len(update[u].writes)}
    /\ UNCHANGED <<fileVars, container, home, orphans, op, stamp, spoiled, origin, ended,
                   superseded>>

NameLists == UNION {[1..n -> Blobs] : n \in 1..MaxBlobReads}

read_blob_data_async(c, names, o) ==
    /\ container[c].used
    /\ op[o].kind = "none"
    /\ Start(o, "read", container[c].location,
             [i \in 1..Len(names) |-> [blob |-> names[i], data |-> Empty]])
    /\ UNCHANGED <<fileVars, poolVars, historyVars>>

-----------------------------------------------------------------------------
(* work()                                                                   *)

Place(o) == <<op[o].location, Head(op[o].todo).blob>>

At(o, kind, at)  == op[o].kind = kind /\ op[o].at = at
Goto(o, at)      == op' = [op EXCEPT ![o].at = at]
Advance(o)       == op' = [op EXCEPT ![o].at = "open", ![o].todo = Tail(@)]

\* Some operation has the .part, or the blob, of a place open.
Writing(p) == \E q \in Ops : At(q, "submit", "write") /\ Place(q) = p
Reading(p) == \E q \in Ops : At(q, "read", "read") /\ Place(q) = p

Contents(o) == {origin[o].writes[i].data : i \in 1..Len(origin[o].writes)} \ {Empty}
Written(o)  == {<<op[o].location, origin[o].writes[i].blob>> :
                   i \in 1..Len(origin[o].writes)}

\* The operation is over, and whatever it had open is closed.
End(o) ==
    /\ op' = [op EXCEPT ![o] = NoOp]
    /\ ended' = ended \cup Contents(o)
    /\ origin' = [origin EXCEPT ![o] = NoOrigin]

\* Mutant of OpenPart: the blob itself is opened to be written.
OpenPart_InPlace(o) ==
    /\ At(o, "submit", "open") /\ op[o].todo # <<>>
    /\ ~Writing(Place(o))
    /\ part' = [part EXCEPT ![Place(o)] = Torn]
    /\ disk' = [disk EXCEPT ![Place(o)] = Torn]
    /\ Goto(o, "write")
    /\ UNCHANGED <<poolVars, historyVars>>

\* CREATE_ALWAYS, shared with nobody.
OpenPart(o) ==
    /\ At(o, "submit", "open") /\ op[o].todo # <<>>
    /\ ~Writing(Place(o))
    /\ part' = [part EXCEPT ![Place(o)] = Torn]
    /\ Goto(o, "write")
    /\ UNCHANGED <<disk, poolVars, historyVars>>

\* All of the data is written, and the destructor closes the file.
WritePart(o) ==
    /\ At(o, "submit", "write")
    /\ part' = [part EXCEPT ![Place(o)] = Head(op[o].todo).data]
    /\ Goto(o, "move")
    /\ UNCHANGED <<disk, poolVars, historyVars>>

\* The write fails, on a full disk say: raise_win32 leaves the .part as it is.
WriteFails(o) ==
    /\ At(o, "submit", "write")
    /\ spoiled' = spoiled \cup
          (IF \E q \in Ops : At(q, "submit", "move") /\ Place(q) = Place(o)
              THEN {Place(o)} ELSE {})
    /\ End(o)
    /\ UNCHANGED <<fileVars, poolVars, stamp, lost, superseded>>

\* MoveFileExW replaces the blob by whatever the .part now holds.
Move(o) ==
    /\ At(o, "submit", "move")
    /\ part[Place(o)] # Absent
    /\ ~Writing(Place(o)) /\ ~Reading(Place(o))
    /\ disk' = [disk EXCEPT ![Place(o)] = part[Place(o)]]
    /\ part' = [part EXCEPT ![Place(o)] = Absent]
    /\ Advance(o)
    /\ UNCHANGED <<poolVars, historyVars>>

\* Mutant of MoveFails: the blob that was not replaced is passed over.
MoveFails_Ignored(o) ==
    /\ At(o, "submit", "move")
    /\ part' = [part EXCEPT ![Place(o)] = Absent]
    /\ Advance(o)
    /\ UNCHANGED <<disk, poolVars, historyVars>>

\* Somebody has either file open, the .part is gone, or the system refuses; DeleteFileW
\* may fail as well, and does while the .part is open.
MoveFails(o) ==
    /\ At(o, "submit", "move")
    /\ \/ part' = part
       \/ ~Writing(Place(o)) /\ part' = [part EXCEPT ![Place(o)] = Absent]
    /\ End(o)
    /\ UNCHANGED <<disk, poolVars, stamp, lost, spoiled, superseded>>

OpenRead(o) ==
    /\ At(o, "read", "open") /\ op[o].todo # <<>>
    /\ disk[Place(o)] # Absent
    /\ Goto(o, "read")
    /\ UNCHANGED <<fileVars, poolVars, historyVars>>

\* The blob is sized and read through one handle, and closed.
ReadBlob(o) ==
    /\ At(o, "read", "read")
    /\ Advance(o)
    /\ UNCHANGED <<fileVars, poolVars, historyVars>>

\* The file cannot be sized or read, or there is no memory for it.
ReadFails(o) ==
    /\ At(o, "read", "read")
    /\ End(o)
    /\ UNCHANGED <<fileVars, poolVars, stamp, lost, spoiled, superseded>>

\* A file cannot be opened, or the operation is dismissed with its queue.
OpenFails(o) ==
    /\ op[o].at = "open" /\ op[o].todo # <<>>
    /\ End(o)
    /\ UNCHANGED <<fileVars, poolVars, stamp, lost, spoiled, superseded>>

\* work() returns.  From here on, what had ended before this operation was submitted is
\* older than what it stored.
Succeed(o) ==
    /\ op[o].at = "open" /\ op[o].todo = <<>>
    /\ superseded' = [p \in Places |->
          superseded[p] \cup IF p \in Written(o) THEN origin[o].past ELSE {}]
    /\ End(o)
    /\ UNCHANGED <<fileVars, poolVars, stamp, lost, spoiled>>

-----------------------------------------------------------------------------

\* The process ends, and is started again: the files are what it left.
Restart ==
    /\ container' = [c \in Containers |-> NoContainer]
    /\ update' = [u \in Updates |-> NoUpdate]
    /\ op' = [o \in Ops |-> NoOp]
    /\ home' = [u \in Updates |-> Nowhere]
    /\ orphans' = {}
    /\ origin' = [o \in Ops |-> NoOrigin]
    /\ ended' = ended \cup 1..stamp
    /\ root' = Nowhere
    /\ IdRestart
    /\ UNCHANGED <<fileVars, stamp, lost, spoiled, superseded>>

Call ==
    \/ create_container
    \/ \E c \in Containers : close_container(c) \/ create_update(c)
    \/ \E u \in Updates :
          \/ close_update(u)
          \/ \E b \in Blobs : submit_blob_write(u, b)
          \/ \E o \in Ops : submit_update_async(u, o)
          \/ submit_refused(u)
    \/ \E c \in Containers, names \in NameLists, o \in Ops : read_blob_data_async(c, names, o)

Work(o) ==
    \/ OpenPart(o) \/ WritePart(o) \/ WriteFails(o) \/ Move(o) \/ MoveFails(o)
    \/ OpenRead(o) \/ ReadBlob(o) \/ ReadFails(o) \/ OpenFails(o) \/ Succeed(o)

\* What the process does once it knows its user.
Use == (Call \/ \E o \in Ops : Work(o)) /\ UNCHANGED <<root, idVars>>

Next == Identify \/ initialize_provider \/ Use \/ Restart

Spec == Init /\ [][Next]_vars

-----------------------------------------------------------------------------
(* Properties                                                               *)

\* A blob is always whole, through failed writes, races for its .part and a process that
\* ends in the middle (submit_operation::work writes beside the blob and moves, save.cxx
\* 332-363) -- but for one case: an operation's write failed after another one had closed
\* the same .part and before it moved it, so that the move put the torn file in place.
TornOnlyByOverlap ==
    \A p \in Places : disk[p] = Torn => p \in spoiled

\* No blob is emptied that nobody meant to empty -- but for one case: submit_update_async
\* was refused after its argument had moved the data out of the update (save.cxx 683-690),
\* and the update, which still lists the blob, was submitted again.
EmptiedOnlyByRefusal ==
    \A p \in Places : disk[p] = Empty => p[2] \in lost

\* Once an update has succeeded, none of its blobs goes back to what an update that was
\* over before this one was submitted had written: neither a .part left behind by a failure
\* or by the end of the process nor another operation that moves late brings it back.
NewestKept ==
    \A p \in Places : disk[p] \notin superseded[p]

\* The blobs of an update are written where its container was when the update was created,
\* however handles are closed and items reused -- but for an update whose container was
\* closed before it was submitted: its target points to an item that is reset, or another
\* container's by now (save.cxx 615, 685).
WritesStayHome ==
    \A o \in Ops : op[o].kind = "submit" =>
        op[o].location = origin[o].home \/ origin[o].orphan

\* A process that knows its user finds what earlier processes have stored: the identity
\* outlives the end of the process in the middle of writing it, a write that fails and a
\* file cut short (identity.cxx 108, 145-166) -- but for one case: the file was there and
\* could not be read, which read_identity does not tell from no file (identity.cxx 44), so
\* that another identity was written over it.
SavesFound ==
    \A p \in Locations \X Blobs :
        disk[p] # Absent /\ xuid # Nobody => p[1] = xuid \/ misread

=============================================================================
