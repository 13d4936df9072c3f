--------------------------- MODULE GameSave_proofs ---------------------------
(***************************************************************************)
(* The invariants of GameSave for every number of users, containers,       *)
(* updates, operations, blobs, contents and restarts.                      *)
(*   SavesFound: everything a process works with lies in the directory of  *)
(* its own user or nowhere, the user is the one in the identity file, and  *)
(* the file is not touched while there are blobs, unless it could not be   *)
(* read (Inv).                                                             *)
(*   WritesStayHome: an update's target is the container it was created    *)
(* for, until that container is closed (HomeInv).                          *)
(*   TornOnlyByOverlap, EmptiedOnlyByRefusal, NewestKept: every content is *)
(* in one update, in one operation, or over; what an operation has still   *)
(* to write is the end of what it was submitted with; and what is beside a *)
(* blob is never worse than what may be put in its place (BlobInv).        *)
(***************************************************************************)
EXTENDS GameSave, TLAPS

\* Where a process may store: nowhere, or under its own user.
Own == {Nowhere} \cup ({xuid} \cap Users)

\* The shapes the steps rely on.
Shapes ==
    /\ DOMAIN disk = Places
    /\ DOMAIN op = Ops
    /\ \A o \in Ops : DOMAIN op[o] = {"kind", "at", "location", "todo"}
    /\ DOMAIN container = Containers
    /\ DOMAIN update = Updates
    /\ \A u \in Updates :
          /\ DOMAIN update[u] = {"used", "target", "writes"}
          /\ update[u].used => update[u].target \in Containers

\* The user of the process is the one of the file, once it is known.
UserKept ==
    /\ xuid \in Users \cup {Nobody}
    /\ minting # "no" => xuid = Nobody
    /\ xuid # Nobody => identity = xuid

\* The provider, the containers and the operations are the user's.
AllOwn ==
    /\ root \in Own
    /\ \A c \in Containers : container[c].location \in Own
    /\ \A o \in Ops : op[o].location \in Own

\* Nobody writes the identity file once something is stored under it.
Saved ==
    \A p \in Locations \X Blobs :
        disk[p] # Absent => misread \/ (identity = p[1] /\ minting = "no")

Inv == Shapes /\ UserKept /\ AllOwn /\ Saved

LEMMA InitInv == Init => Inv
BY IdentityConstants, SaveConstants
DEF Init, IdInit, Inv, Shapes, UserKept, AllOwn, Saved, Own, Users, Locations, Places,
    NoOp, NoContainer, NoUpdate

\* The steps of xuid() and of the provider leave the pools, the operations and the blobs.
LEMMA UserSteps ==
    ASSUME Inv, Identify \/ initialize_provider
    PROVE  Inv'
<1>1. Shapes'
  BY DEF Identify, initialize_provider, fileVars, poolVars, Inv, Shapes
<1>2. CASE Identify
  <2>1. CASE ReadIdentity
    BY <1>1, <1>2, <2>1, IdentityConstants
    DEF ReadIdentity, Identify, fileVars, poolVars, Inv, UserKept, AllOwn, Saved, Own, Users
  <2>2. CASE NoIdentity
    BY <1>1, <1>2, <2>2, IdentityConstants
    DEF NoIdentity, Identify, fileVars, poolVars, Inv, UserKept, AllOwn, Saved, Own, Users,
        Locations
  <2>3. CASE OpenIdentity
    BY <1>1, <1>2, <2>3, IdentityConstants
    DEF OpenIdentity, Identify, fileVars, poolVars, Inv, UserKept, AllOwn, Saved, Own, Users
  <2>4. CASE WriteIdentity
    BY <1>1, <1>2, <2>4, IdentityConstants
    DEF WriteIdentity, Identify, fileVars, poolVars, Inv, UserKept, AllOwn, Saved, Own, Users
  <2>5. CASE MintFails
    BY <1>1, <1>2, <2>5, IdentityConstants
    DEF MintFails, Identify, fileVars, poolVars, Inv, UserKept, AllOwn, Saved, Own, Users
  <2> QED
    BY <1>2, <2>1, <2>2, <2>3, <2>4, <2>5 DEF Identify, IdStep
<1>3. CASE initialize_provider
  BY <1>1, <1>3
  DEF initialize_provider, fileVars, poolVars, idVars, Inv, UserKept, AllOwn, Saved, Own
<1> QED
  BY <1>2, <1>3

\* The end of the process: nothing of it is left but the files.
LEMMA RestartKeeps ==
    ASSUME Inv, Restart
    PROVE  Inv'
<1>1. Shapes'
  BY DEF Restart, fileVars, Inv, Shapes, NoOp, NoUpdate
<1>2. UserKept' /\ AllOwn'
  BY DEF Restart, IdRestart, UserKept, AllOwn, Own, NoOp, NoContainer
<1>3. Saved'
  BY DEF Restart, IdRestart, fileVars, Inv, Saved
<1> QED
  BY <1>1, <1>2, <1>3 DEF Inv

\* What a step of the process must keep once its user is settled: shapes, places of its own
\* and blobs that appear under its own user only.
LEMMA UseKeeps ==
    ASSUME Inv, UNCHANGED <<root, idVars>>, Shapes',
           \A c \in Containers : container'[c].location \in Own,
           \A o \in Ops : op'[o].location \in Own,
           \A p \in Locations \X Blobs : disk'[p] # Absent => disk[p] # Absent \/ p[1] \in Own
    PROVE  Inv'
<1>1. UserKept' /\ AllOwn'
  BY DEF Inv, UserKept, AllOwn, Own, idVars
<1>2. Saved'
  <2> SUFFICES ASSUME NEW p \in Locations \X Blobs, disk'[p] # Absent
               PROVE  misread \/ (identity = p[1] /\ minting = "no")
    BY DEF Saved, idVars
  <2>1. CASE disk[p] # Absent
    BY <2>1 DEF Inv, Saved
  <2>2. CASE p[1] \in Own
    <3>1. p[1] # Nowhere
      BY SaveConstants DEF Locations, Users
    <3> QED
      BY <2>2, <3>1, IdentityConstants DEF Own, Inv, UserKept, Users
  <2> QED
    BY <2>1, <2>2
<1> QED
  BY <1>1, <1>2 DEF Inv

\* An operation that goes on or ends keeps its shape, and its place or none.
LEMMA OpSteps ==
    ASSUME Inv, NEW o \in Ops,
           (\E at \in {"open", "write", "move", "read"} : Goto(o, at)) \/ Advance(o) \/ End(o)
    PROVE  /\ DOMAIN op' = Ops
           /\ \A q \in Ops : DOMAIN op'[q] = {"kind", "at", "location", "todo"}
           /\ \A q \in Ops : op'[q].location \in Own
<1>1. /\ DOMAIN op = Ops
      /\ \A q \in Ops : DOMAIN op[q] = {"kind", "at", "location", "todo"}
      /\ \A q \in Ops : op[q].location \in Own
  BY DEF Inv, Shapes, AllOwn
<1>2. CASE \E at \in {"open", "write", "move", "read"} : Goto(o, at)
  BY <1>1, <1>2 DEF Goto
<1>3. CASE Advance(o)
  BY <1>1, <1>3 DEF Advance
<1>4. CASE End(o)
  BY <1>1, <1>4 DEF End, NoOp, Own
<1> QED
  BY <1>2, <1>3, <1>4

\* A new operation works in a place of the process.
LEMMA StartKeeps ==
    ASSUME Inv, NEW o \in Ops, NEW kind, NEW location \in Own, NEW todo,
           Start(o, kind, location, todo)
    PROVE  /\ DOMAIN op' = Ops
           /\ \A q \in Ops : DOMAIN op'[q] = {"kind", "at", "location", "todo"}
           /\ \A q \in Ops : op'[q].location \in Own
BY DEF Start, Inv, Shapes, AllOwn

\* The calls on handles.
LEMMA CallKeeps ==
    ASSUME Inv, Call, UNCHANGED <<root, idVars>>
    PROVE  Inv'
<1> USE DEF fileVars, poolVars, historyVars
<1>1. CASE create_container
  <2>1. Shapes'
    BY <1>1 DEF create_container, Vacant, Inv, Shapes
  <2>2. \A c \in Containers : container'[c].location \in Own
    BY <1>1 DEF create_container, Vacant, Inv, Shapes, AllOwn
  <2> QED
    BY <1>1, <2>1, <2>2, UseKeeps DEF create_container, Inv, AllOwn
<1>2. ASSUME NEW c \in Containers, close_container(c)
      PROVE  Inv'
  <2>1. Shapes'
    BY <1>2 DEF close_container, Inv, Shapes
  <2>2. \A d \in Containers : container'[d].location \in Own
    BY <1>2 DEF close_container, Inv, Shapes, AllOwn, NoContainer, Own
  <2> QED
    BY <1>2, <2>1, <2>2, UseKeeps DEF close_container, Inv, AllOwn
<1>3. ASSUME NEW c \in Containers, create_update(c)
      PROVE  Inv'
  <2>1. Shapes'
    BY <1>3 DEF create_update, Vacant, Inv, Shapes
  <2> QED
    BY <1>3, <2>1, UseKeeps DEF create_update, Inv, AllOwn
<1>4. ASSUME NEW u \in Updates, close_update(u)
      PROVE  Inv'
  <2>1. Shapes'
    BY <1>4 DEF close_update, Inv, Shapes, NoUpdate
  <2> QED
    BY <1>4, <2>1, UseKeeps DEF close_update, Inv, AllOwn
<1>5. ASSUME NEW u \in Updates, NEW b \in Blobs, submit_blob_write(u, b)
      PROVE  Inv'
  <2>1. Shapes'
    BY <1>5 DEF submit_blob_write, Inv, Shapes
  <2> QED
    BY <1>5, <2>1, UseKeeps DEF submit_blob_write, Inv, AllOwn
<1>6. ASSUME NEW u \in Updates, NEW o \in Ops, submit_update_async(u, o)
      PROVE  Inv'
  <2>1. container[update[u].target].location \in Own
    BY <1>6 DEF submit_update_async, Inv, Shapes, AllOwn
  <2>2. /\ DOMAIN op' = Ops
        /\ \A q \in Ops : DOMAIN op'[q] = {"kind", "at", "location", "todo"}
        /\ \A q \in Ops : op'[q].location \in Own
    BY <1>6, <2>1, StartKeeps DEF submit_update_async
  <2>3. Shapes'
    BY <1>6, <2>2 DEF submit_update_async, Inv, Shapes
  <2> QED
    BY <1>6, <2>2, <2>3, UseKeeps DEF submit_update_async, Inv, AllOwn
<1>7. ASSUME NEW u \in Updates, submit_refused(u)
      PROVE  Inv'
  <2>1. Shapes'
    BY <1>7 DEF submit_refused, Inv, Shapes
  <2> QED
    BY <1>7, <2>1, UseKeeps DEF submit_refused, Inv, AllOwn
<1>8. ASSUME NEW c \in Containers, NEW names \in NameLists, NEW o \in Ops,
             read_blob_data_async(c, names, o)
      PROVE  Inv'
  <2>1. container[c].location \in Own
    BY <1>8 DEF Inv, AllOwn
  <2>2. /\ DOMAIN op' = Ops
        /\ \A q \in Ops : DOMAIN op'[q] = {"kind", "at", "location", "todo"}
        /\ \A q \in Ops : op'[q].location \in Own
    BY <1>8, <2>1, StartKeeps DEF read_blob_data_async
  <2>3. Shapes'
    BY <1>8, <2>2 DEF read_blob_data_async, Inv, Shapes
  <2> QED
    BY <1>8, <2>2, <2>3, UseKeeps DEF read_blob_data_async, Inv, AllOwn
<1> QED
  BY <1>1, <1>2, <1>3, <1>4, <1>5, <1>6, <1>7, <1>8 DEF Call

\* The steps of an operation: only Move puts something in a place, and the place is its own.
LEMMA WorkKeeps ==
    ASSUME Inv, NEW o \in Ops, Work(o), UNCHANGED <<root, idVars>>
    PROVE  Inv'
<1> USE DEF fileVars, poolVars
<1>1. /\ DOMAIN op' = Ops
      /\ \A q \in Ops : DOMAIN op'[q] = {"kind", "at", "location", "todo"}
      /\ \A q \in Ops : op'[q].location \in Own
  BY OpSteps
  DEF Work, OpenPart, WritePart, WriteFails, Move, MoveFails, OpenRead, ReadBlob, ReadFails,
      OpenFails, Succeed
<1>2. UNCHANGED <<container, update>>
  BY DEF Work, OpenPart, WritePart, WriteFails, Move, MoveFails, OpenRead, ReadBlob,
         ReadFails, OpenFails, Succeed
<1>3. \/ disk' = disk
      \/ disk' = [disk EXCEPT ![Place(o)] = part[Place(o)]]
  BY DEF Work, OpenPart, WritePart, WriteFails, Move, MoveFails, OpenRead, ReadBlob,
         ReadFails, OpenFails, Succeed
<1>4. Shapes'
  BY <1>1, <1>2, <1>3 DEF Inv, Shapes
<1>5. ASSUME NEW p \in Locations \X Blobs, disk'[p] # Absent
      PROVE  disk[p] # Absent \/ p[1] \in Own
  <2>1. p \in DOMAIN disk
    BY DEF Inv, Shapes, Places
  <2>2. CASE p = Place(o)
    BY <2>2 DEF Place, Inv, AllOwn
  <2>3. CASE p # Place(o)
    BY <1>3, <1>5, <2>1, <2>3
  <2> QED
    BY <2>2, <2>3
<1> QED
  BY <1>1, <1>2, <1>4, <1>5, UseKeeps DEF Inv, AllOwn

\* Every step keeps the invariant.
LEMMA NextInv == Inv /\ [Next]_vars => Inv'
<1> SUFFICES ASSUME Inv, [Next]_vars
             PROVE  Inv'
  OBVIOUS
<1>1. CASE Identify \/ initialize_provider
  BY <1>1, UserSteps
<1>2. CASE Use
  BY <1>2, CallKeeps, WorkKeeps DEF Use
<1>3. CASE Restart
  BY <1>3, RestartKeeps
<1>4. CASE UNCHANGED vars
  BY <1>4
  DEF vars, fileVars, poolVars, idVars, Inv, Shapes, UserKept, AllOwn, Saved, Own
<1> QED
  BY <1>1, <1>2, <1>3, <1>4 DEF Next

\* For every value of the constants, a process that knows its user finds the blobs that
\* earlier processes have stored, unless the identity file could once not be read.
THEOREM SavesAreFound == Spec => []SavesFound
<1>1. Inv => SavesFound
  BY DEF Inv, UserKept, Saved, SavesFound
<1> QED
  BY InitInv, NextInv, <1>1, PTL DEF Spec

-----------------------------------------------------------------------------
(* WritesStayHome                                                           *)

\* An update whose container has not been closed since points to that container still.
TargetsHome ==
    /\ DOMAIN home = Updates /\ DOMAIN origin = Ops
    /\ \A u \in Updates : update[u].used /\ u \notin orphans =>
          /\ container[update[u].target].used
          /\ container[update[u].target].location = home[u]

HomeInv == TargetsHome /\ WritesStayHome

\* A step of an operation, unless it is over, changes neither its place nor its kind.
LEMMA OpsStayHome ==
    ASSUME Inv, HomeInv, NEW o \in Ops, Work(o)
    PROVE  HomeInv'
<1> USE DEF fileVars, poolVars, historyVars
<1>1. DOMAIN op = Ops /\ (\A q \in Ops : DOMAIN op[q] = {"kind", "at", "location", "todo"})
  BY DEF Inv, Shapes
<1>2. UNCHANGED <<container, update, home, orphans>>
  BY DEF Work, OpenPart, WritePart, WriteFails, Move, MoveFails, OpenRead, ReadBlob,
         ReadFails, OpenFails, Succeed
<1>3. \/ origin' = origin
         /\ ((\E at \in {"open", "write", "move", "read"} : Goto(o, at)) \/ Advance(o))
      \/ End(o)
  BY DEF Work, OpenPart, WritePart, WriteFails, Move, MoveFails, OpenRead, ReadBlob,
         ReadFails, OpenFails, Succeed
<1>4. CASE origin' = origin
           /\ ((\E at \in {"open", "write", "move", "read"} : Goto(o, at)) \/ Advance(o))
  <2>1. \A q \in Ops : op'[q].kind = op[q].kind /\ op'[q].location = op[q].location
    BY <1>1, <1>4 DEF Goto, Advance
  <2> QED
    BY <1>2, <1>4, <2>1 DEF HomeInv, TargetsHome, WritesStayHome
<1>5. CASE End(o)
  <2>1. WritesStayHome'
    BY <1>1, <1>5 DEF End, NoOp, HomeInv, TargetsHome, WritesStayHome
  <2> QED
    BY <1>2, <1>5, <2>1 DEF End, HomeInv, TargetsHome
<1> QED
  BY <1>3, <1>4, <1>5

\* The calls: close_container makes orphans of the updates that point to the item, and
\* create_container takes an item no other update points to.
LEMMA CallsStayHome ==
    ASSUME Inv, HomeInv, Call
    PROVE  HomeInv'
<1> USE DEF fileVars, poolVars, historyVars
<1>0. /\ Shapes /\ TargetsHome /\ WritesStayHome
  BY DEF Inv, HomeInv
<1>1. CASE create_container
  <2>1. PICK c \in Vacant(container) :
           container' = [container EXCEPT ![c] = [used |-> TRUE, location |-> root]]
    BY <1>1 DEF create_container
  <2>2. ~container[c].used
    BY <2>1 DEF Vacant
  <2> QED
    BY <1>0, <1>1, <2>1, <2>2
    DEF create_container, Shapes, HomeInv, TargetsHome, WritesStayHome
<1>2. ASSUME NEW c \in Containers, close_container(c)
      PROVE  HomeInv'
  BY <1>0, <1>2 DEF close_container, Shapes, HomeInv, TargetsHome, WritesStayHome
<1>3. ASSUME NEW c \in Containers, create_update(c)
      PROVE  HomeInv'
  BY <1>0, <1>3 DEF create_update, Vacant, Shapes, HomeInv, TargetsHome, WritesStayHome
<1>4. ASSUME NEW u \in Updates, close_update(u)
      PROVE  HomeInv'
  BY <1>0, <1>4 DEF close_update, NoUpdate, Shapes, HomeInv, TargetsHome, WritesStayHome
<1>5. ASSUME NEW u \in Updates, UNCHANGED <<container, home, orphans, op, origin>>,
             NEW ws, update' = [update EXCEPT ![u].writes = ws]
      PROVE  HomeInv'
  <2>1. \A v \in Updates : update'[v].used = update[v].used
                           /\ update'[v].target = update[v].target
    BY <1>0, <1>5 DEF Shapes
  <2> QED
    BY <1>0, <1>5, <2>1 DEF HomeInv, TargetsHome, WritesStayHome
<1>6. ASSUME NEW u \in Updates, NEW b \in Blobs, submit_blob_write(u, b)
      PROVE  HomeInv'
  BY <1>5, <1>6 DEF submit_blob_write
<1>7. ASSUME NEW u \in Updates, submit_refused(u)
      PROVE  HomeInv'
  BY <1>5, <1>7 DEF submit_refused
<1>8. ASSUME NEW u \in Updates, NEW o \in Ops, submit_update_async(u, o)
      PROVE  HomeInv'
  <2>1. \A v \in Updates : update'[v].used = update[v].used
                           /\ update'[v].target = update[v].target
    BY <1>0, <1>8 DEF submit_update_async, Shapes
  <2>2. TargetsHome'
    BY <1>0, <1>8, <2>1 DEF submit_update_async, TargetsHome
  <2>3. /\ op'[o].location = container[update[u].target].location
        /\ origin'[o].home = home[u] /\ origin'[o].orphan = (u \in orphans)
        /\ \A q \in Ops \ {o} : op'[q] = op[q] /\ origin'[q] = origin[q]
    BY <1>0, <1>8 DEF submit_update_async, Start, Shapes, TargetsHome
  <2>4. WritesStayHome'
    BY <1>0, <1>8, <2>3 DEF submit_update_async, TargetsHome, WritesStayHome
  <2> QED
    BY <2>2, <2>4 DEF HomeInv
<1>9. ASSUME NEW c \in Containers, NEW names \in NameLists, NEW o \in Ops,
             read_blob_data_async(c, names, o)
      PROVE  HomeInv'
  <2>1. /\ op'[o].kind = "read"
        /\ \A q \in Ops \ {o} : op'[q] = op[q]
    BY <1>0, <1>9 DEF read_blob_data_async, Start, Shapes
  <2> QED
    BY <1>0, <1>9, <2>1 DEF read_blob_data_async, HomeInv, TargetsHome, WritesStayHome
<1> QED
  BY <1>1, <1>2, <1>3, <1>4, <1>6, <1>7, <1>8, <1>9 DEF Call

\* For every value of the constants, the blobs of an update are written in the directory of
\* the container the update was created for, unless that container was closed before.
THEOREM WritesGoHome == Spec => []WritesStayHome
<1>1. Init => HomeInv
  BY DEF Init, NoOp, NoOrigin, NoUpdate, HomeInv, TargetsHome, WritesStayHome
<1>2. Inv /\ HomeInv /\ [Next]_vars => HomeInv'
  <2> SUFFICES ASSUME Inv, HomeInv, [Next]_vars
               PROVE  HomeInv'
    OBVIOUS
  <2>1. CASE Identify \/ initialize_provider
    BY <2>1
    DEF Identify, initialize_provider, poolVars, historyVars, HomeInv, TargetsHome,
        WritesStayHome
  <2>2. CASE Use
    BY <2>2, CallsStayHome, OpsStayHome DEF Use
  <2>3. CASE Restart
    BY <2>3 DEF Restart, NoOp, NoUpdate, HomeInv, TargetsHome, WritesStayHome
  <2>4. CASE UNCHANGED vars
    BY <2>4 DEF vars, poolVars, historyVars, HomeInv, TargetsHome, WritesStayHome
  <2> QED
    BY <2>1, <2>2, <2>3, <2>4 DEF Next
<1>3. HomeInv => WritesStayHome
  BY DEF HomeInv
<1> QED
  BY InitInv, NextInv, <1>1, <1>2, <1>3, PTL DEF Spec

-----------------------------------------------------------------------------
(* What the blobs hold: the inductive invariant                             *)

\* A write as updates and operations list it.
Stored == [blob : Blobs, data : (1..stamp) \cup {Empty}]

BlobTypes ==
    /\ DOMAIN part = Places /\ DOMAIN origin = Ops /\ DOMAIN superseded = Places
    /\ stamp \in Nat /\ ended \subseteq 1..stamp
    /\ \A u \in Updates : update[u].writes \in Seq(Stored)
    /\ \A o \in Ops :
          /\ op[o].todo \in Seq(Stored)
          /\ op[o].at \in {"write", "move", "read"} => op[o].todo # <<>>
          /\ origin[o].writes \in Seq(Stored) /\ origin[o].past \subseteq ended
          /\ op[o].kind # "submit" => origin[o] = NoOrigin

\* What an operation has still to write is the end of what it was submitted with.
Remaining ==
    \A o \in Ops : op[o].kind = "submit" =>
        /\ Len(op[o].todo) <= Len(origin[o].writes)
        /\ \A j \in 1..Len(op[o].todo) :
              op[o].todo[j] = origin[o].writes[Len(origin[o].writes) - Len(op[o].todo) + j]

\* A .part that is about to be moved is torn only under another's write, or spoiled.
TornInv ==
    /\ TornOnlyByOverlap
    /\ \A o \in Ops : At(o, "submit", "move") /\ part[Place(o)] = Torn =>
          Place(o) \in spoiled \/ Writing(Place(o))

\* No data is gone from a write, wherever it is listed, but by a refusal.
EmptyFiles ==
    /\ EmptiedOnlyByRefusal
    /\ \A p \in Places : part[p] = Empty => p[2] \in lost
EmptyLists ==
    /\ \A u \in Updates : \A i \in 1..Len(update[u].writes) :
          update[u].writes[i].data = Empty => update[u].writes[i].blob \in lost
    /\ \A o \in Ops : op[o].kind = "submit" => \A i \in 1..Len(op[o].todo) :
          op[o].todo[i].data = Empty => op[o].todo[i].blob \in lost

\* Every content is in one update or one operation, until it is over.
Pending(u) == {update[u].writes[i].data : i \in 1..Len(update[u].writes)} \ {Empty}
HolderInv ==
    /\ \A u, v \in Updates : u # v => Pending(u) \cap Pending(v) = {}
    /\ \A u \in Updates, o \in Ops : Pending(u) \cap Contents(o) = {}
    /\ \A o, q \in Ops : o # q => Contents(o) \cap Contents(q) = {}
    /\ \A u \in Updates : Pending(u) \cap ended = {}
    /\ \A o \in Ops : Contents(o) \cap ended = {}

\* Nothing old is at a place or beside it where an operation has succeeded, or has moved
\* its blob already; nor in the .part it is about to move.
Clean(p, past) == disk[p] \notin past /\ part[p] \notin past
NewInv ==
    /\ \A p \in Places : superseded[p] \subseteq ended /\ Clean(p, superseded[p])
    /\ \A o \in Ops : op[o].kind = "submit" =>
          \A i \in 1..(Len(origin[o].writes) - Len(op[o].todo)) :
             Clean(<<op[o].location, origin[o].writes[i].blob>>, origin[o].past)
    /\ \A o \in Ops : At(o, "submit", "move") => part[Place(o)] \notin origin[o].past

BlobInv == /\ BlobTypes /\ Remaining /\ TornInv /\ EmptyFiles /\ EmptyLists /\ HolderInv
           /\ NewInv

-----------------------------------------------------------------------------
(* How an operation moves                                                   *)

\* An operation goes on,
LEMMA GotoOp ==
    ASSUME Inv, NEW o \in Ops, NEW a, Goto(o, a)
    PROVE  /\ op'[o].kind = op[o].kind /\ op'[o].at = a
           /\ op'[o].location = op[o].location /\ op'[o].todo = op[o].todo
           /\ \A q \in Ops \ {o} : op'[q] = op[q]
BY DEF Goto, Inv, Shapes

\* turns to the next blob,
LEMMA AdvanceOp ==
    ASSUME Inv, NEW o \in Ops, Advance(o)
    PROVE  /\ op'[o].kind = op[o].kind /\ op'[o].at = "open"
           /\ op'[o].location = op[o].location /\ op'[o].todo = Tail(op[o].todo)
           /\ \A q \in Ops \ {o} : op'[q] = op[q]
BY DEF Advance, Inv, Shapes

\* or is over.
LEMMA EndOp ==
    ASSUME Inv, BlobTypes, NEW o \in Ops, End(o)
    PROVE  /\ op'[o] = NoOp /\ origin'[o] = NoOrigin /\ ended' = ended \cup Contents(o)
           /\ \A q \in Ops \ {o} : op'[q] = op[q] /\ origin'[q] = origin[q]
BY DEF End, Inv, Shapes, BlobTypes

\* The place an operation works at.
LEMMA PlaceOf ==
    ASSUME Inv, BlobTypes, NEW o \in Ops, op[o].todo # <<>>
    PROVE  /\ Place(o) \in Places /\ Place(o)[2] = op[o].todo[1].blob
           /\ Head(op[o].todo) = op[o].todo[1]
           /\ op[o].todo[1] \in Stored /\ Len(op[o].todo) \in Nat /\ Len(op[o].todo) >= 1
<1>1. op[o].todo \in Seq(Stored)
  BY DEF BlobTypes
<1>2. /\ Head(op[o].todo) = op[o].todo[1] /\ op[o].todo[1] \in Stored
      /\ Len(op[o].todo) \in Nat /\ Len(op[o].todo) >= 1
  BY <1>1
<1>3. op[o].todo[1].blob \in Blobs
  BY <1>2 DEF Stored
<1>4. op[o].location \in Locations \cup {Nowhere}
  BY DEF Inv, AllOwn, Own, Locations
<1>5. QED
  BY <1>2, <1>3, <1>4 DEF Place, Places

\* The contents of an operation are contents made.
LEMMA ContentsOf ==
    ASSUME BlobTypes, NEW o \in Ops
    PROVE  /\ Contents(o) \subseteq 1..stamp
           /\ op[o].kind # "submit" => Contents(o) = {} /\ Written(o) = {}
<1>1. origin[o].writes \in Seq(Stored)
  BY DEF BlobTypes
<1>2. \A i \in 1..Len(origin[o].writes) : origin[o].writes[i].data \in (1..stamp) \cup {Empty}
  <2>1. \A i \in 1..Len(origin[o].writes) : origin[o].writes[i] \in Stored
    BY <1>1
  <2>2. QED
    BY <2>1 DEF Stored
<1>3. Contents(o) \subseteq 1..stamp
  BY <1>2 DEF Contents
<1>4. ASSUME op[o].kind # "submit" PROVE Contents(o) = {} /\ Written(o) = {}
  BY <1>4 DEF BlobTypes, NoOrigin, Contents, Written
<1>5. QED
  BY <1>3, <1>4

\* The marks of a file are no contents.
LEMMA Marks ==
    /\ Absent \notin Nat /\ Empty \notin Nat /\ Torn \notin Nat
    /\ Absent # Empty /\ Absent # Torn /\ Empty # Torn
BY SaveConstants

\* What is over is a content made.
LEMMA EndedContents ==
    ASSUME BlobTypes
    PROVE  Absent \notin ended /\ Empty \notin ended /\ Torn \notin ended
<1>1. ended \subseteq Nat
  BY DEF BlobTypes
<1>2. QED
  BY <1>1, Marks

\* What an operation is about to write is not torn, not old, and empty after a refusal only.
LEMMA TodoData ==
    ASSUME Inv, BlobInv, NEW o \in Ops, op[o].kind = "submit", op[o].todo # <<>>
    PROVE  /\ op[o].todo[1].data # Torn /\ op[o].todo[1].data # Absent
           /\ op[o].todo[1].data \notin ended
           /\ op[o].todo[1].data = Empty => Place(o)[2] \in lost
<1> DEFINE d == op[o].todo[1].data
           n == Len(op[o].todo)
           m == Len(origin[o].writes)
<1>1. op[o].todo[1] \in Stored /\ n \in Nat /\ n >= 1 /\ Place(o)[2] = op[o].todo[1].blob
  BY PlaceOf DEF BlobInv
<1>2. d \in (1..stamp) \cup {Empty}
  BY <1>1 DEF Stored
<1>3. d \notin {Torn, Absent} /\ Empty \notin ended
  <2>1. ended \subseteq Nat /\ 1..stamp \subseteq Nat
    BY DEF BlobInv, BlobTypes
  <2>2. QED
    BY <1>2, <2>1, Marks
<1>4. m \in Nat /\ n <= m
  <2>1. origin[o].writes \in Seq(Stored)
    BY DEF BlobInv, BlobTypes
  <2>2. m \in Nat
    BY <2>1
  <2>3. n <= m
    BY DEF BlobInv, Remaining
  <2>4. QED
    BY <2>2, <2>3
<1>5. op[o].todo[1] = origin[o].writes[m - n + 1] /\ m - n + 1 \in 1..m
  <2>1. \A j \in 1..n : op[o].todo[j] = origin[o].writes[m - n + j]
    BY DEF BlobInv, Remaining
  <2>2. 1 \in 1..n
    BY <1>1
  <2> HIDE DEF n, m
  <2>3. QED
    BY <1>1, <1>4, <2>1, <2>2
<1>6. d # Empty => d \in Contents(o)
  BY <1>5 DEF Contents
<1>7. d \notin ended
  BY <1>3, <1>6 DEF BlobInv, HolderInv
<1>8. d = Empty => Place(o)[2] \in lost
  BY <1>1 DEF BlobInv, EmptyLists
<1>9. QED
  BY <1>3, <1>7, <1>8

-----------------------------------------------------------------------------
(* The steps of an operation                                                *)

\* Types, lists and holders, while the operation goes on.
LEMMA GoOnKeeps ==
    ASSUME Inv, BlobInv, NEW o \in Ops, op[o].todo # <<>>,
           (\E a \in {"open", "write", "move", "read"} : Goto(o, a)) \/ Advance(o),
           UNCHANGED <<update, historyVars>>, DOMAIN part' = Places
    PROVE  BlobTypes' /\ Remaining' /\ EmptyLists' /\ HolderInv'
<1> USE DEF BlobInv, historyVars
<1>1. /\ op'[o].kind = op[o].kind
      /\ \/ op'[o].todo = op[o].todo
         \/ op'[o].todo = Tail(op[o].todo) /\ op'[o].at = "open"
      /\ \A q \in Ops \ {o} : op'[q] = op[q]
  BY GotoOp, AdvanceOp
<1>2. /\ op[o].todo \in Seq(Stored) /\ Stored' = Stored
      /\ Len(op[o].todo) \in Nat /\ Len(op[o].todo) >= 1
      /\ Tail(op[o].todo) \in Seq(Stored) /\ Len(Tail(op[o].todo)) = Len(op[o].todo) - 1
      /\ \A j \in 1..(Len(op[o].todo) - 1) : Tail(op[o].todo)[j] = op[o].todo[j + 1]
  <2>1. op[o].todo \in Seq(Stored)
    BY DEF BlobTypes
  <2>2. QED
    BY <2>1 DEF Stored
<1>3. BlobTypes'
  <2>1. ASSUME NEW q \in Ops
        PROVE  op'[q].todo \in Seq(Stored) /\ (op'[q].at \in {"write", "move", "read"} => op'[q].todo # <<>>)
    BY <1>1, <1>2 DEF BlobTypes
  <2>2. \A q \in Ops : op'[q].kind = op[q].kind
    BY <1>1
  <2>3. QED
    BY <1>2, <2>1, <2>2 DEF BlobTypes
<1>4. Remaining'
  <2>1. ASSUME NEW q \in Ops, op'[q].kind = "submit"
        PROVE  /\ Len(op'[q].todo) <= Len(origin[q].writes)
               /\ \A j \in 1..Len(op'[q].todo) :
                     op'[q].todo[j] = origin[q].writes[Len(origin[q].writes) - Len(op'[q].todo) + j]
    <3>1. CASE q # o \/ op'[q].todo = op[q].todo
      <4>1. op'[q].todo = op[q].todo /\ op[q].kind = "submit"
        BY <1>1, <2>1, <3>1
      <4>2. QED
        BY <4>1 DEF Remaining
    <3>2. CASE q = o /\ op'[o].todo = Tail(op[o].todo)
      <4> DEFINE n == Len(op[o].todo)
                 m == Len(origin[o].writes)
      <4>1. n <= m /\ \A j \in 1..n : op[o].todo[j] = origin[o].writes[m - n + j]
        BY <1>1, <2>1, <3>2 DEF Remaining
      <4>2. m \in Nat
        <5>1. origin[o].writes \in Seq(Stored)
          BY DEF BlobTypes
        <5>2. QED
          BY <5>1
      <4>3. Len(op'[o].todo) = n - 1 /\ n \in Nat /\ n >= 1
        BY <1>2, <3>2
      <4>4. \A j \in 1..(n - 1) : op'[o].todo[j] = op[o].todo[j + 1]
        BY <1>2, <3>2
      <4> HIDE DEF n, m
      <4>5. ASSUME NEW j \in 1..(n - 1) PROVE op'[o].todo[j] = origin[o].writes[m - (n - 1) + j]
        <5>1. j + 1 \in 1..n /\ m - n + (j + 1) = m - (n - 1) + j
          BY <4>2, <4>3
        <5>2. QED
          BY <4>1, <4>4, <5>1
      <4>6. n - 1 <= m
        BY <4>1, <4>2, <4>3
      <4>7. QED
        BY <3>2, <4>3, <4>5, <4>6 DEF n, m
    <3>3. QED
      BY <1>1, <3>1, <3>2
  <2>2. QED
    BY <2>1 DEF Remaining
<1>5. EmptyLists'
  <2>1. ASSUME NEW q \in Ops, op'[q].kind = "submit", NEW i \in 1..Len(op'[q].todo),
               op'[q].todo[i].data = Empty
        PROVE  op'[q].todo[i].blob \in lost
    <3>1. CASE q # o \/ op'[q].todo = op[q].todo
      BY <1>1, <2>1, <3>1 DEF EmptyLists
    <3>2. CASE q = o /\ op'[o].todo = Tail(op[o].todo)
      <4>1. i + 1 \in 1..Len(op[o].todo) /\ op'[o].todo[i] = op[o].todo[i + 1]
        BY <1>2, <3>2
      <4>2. QED
        BY <1>1, <2>1, <3>2, <4>1 DEF EmptyLists
    <3>3. QED
      BY <1>1, <3>1, <3>2
  <2>2. QED
    BY <2>1 DEF EmptyLists
<1>6. HolderInv'
  <2>1. \A q \in Ops : Contents(q)' = Contents(q)
    BY DEF Contents
  <2>2. \A u \in Updates : Pending(u)' = Pending(u)
    BY DEF Pending
  <2>3. QED
    BY <2>1, <2>2 DEF HolderInv
<1>7. QED
  BY <1>3, <1>4, <1>5, <1>6

\* The same, when it is over: its contents are no longer in anybody's hands.
LEMMA EndKeeps ==
    ASSUME Inv, BlobInv, NEW o \in Ops, End(o), UNCHANGED <<update, stamp, lost>>,
           DOMAIN part' = Places, DOMAIN superseded' = Places
    PROVE  BlobTypes' /\ Remaining' /\ EmptyLists' /\ HolderInv'
<1> USE DEF BlobInv
<1>1. /\ op'[o] = NoOp /\ origin'[o] = NoOrigin /\ ended' = ended \cup Contents(o)
      /\ \A q \in Ops \ {o} : op'[q] = op[q] /\ origin'[q] = origin[q]
  BY EndOp
<1>2. /\ NoOp.kind = "none" /\ NoOp.at = "idle" /\ NoOp.todo = <<>>
      /\ NoOrigin.writes = <<>> /\ NoOrigin.past = {} /\ <<>> \in Seq(Stored)
  BY DEF NoOp, NoOrigin
<1>3. Contents(o) \subseteq 1..stamp /\ Stored' = Stored
  BY ContentsOf DEF Stored
<1>4. BlobTypes'
  <2>1. DOMAIN origin' = Ops
    BY DEF End, BlobTypes
  <2>2. stamp \in Nat /\ ended' \subseteq 1..stamp /\ ended \subseteq ended'
    BY <1>1, <1>3 DEF BlobTypes
  <2>3. ASSUME NEW q \in Ops
        PROVE  /\ op'[q].todo \in Seq(Stored)
               /\ op'[q].at \in {"write", "move", "read"} => op'[q].todo # <<>>
               /\ origin'[q].writes \in Seq(Stored) /\ origin'[q].past \subseteq ended'
               /\ op'[q].kind # "submit" => origin'[q] = NoOrigin
    <3>1. CASE q = o
      BY <1>1, <1>2, <3>1
    <3>2. CASE q # o
      BY <1>1, <2>2, <3>2 DEF BlobTypes
    <3>3. QED
      BY <3>1, <3>2
  <2>4. QED
    BY <1>3, <2>1, <2>2, <2>3 DEF BlobTypes
<1>5. Remaining' /\ EmptyLists'
  BY <1>1, <1>2 DEF Remaining, EmptyLists
<1>6. HolderInv'
  <2>1. Contents(o)' = {} /\ \A q \in Ops \ {o} : Contents(q)' = Contents(q)
    BY <1>1, <1>2 DEF Contents
  <2>2. \A u \in Updates : Pending(u)' = Pending(u)
    BY DEF Pending
  <2>3. QED
    BY <1>1, <2>1, <2>2 DEF HolderInv
<1>7. QED
  BY <1>4, <1>5, <1>6

\* Another operation that has the .part of a place open goes on to have it.
LEMMA WritingKept ==
    ASSUME NEW o \in Ops, \A q \in Ops \ {o} : op'[q] = op[q], NEW p, Writing(p),
           At(o, "submit", "write") => Place(o) # p
    PROVE  Writing(p)'
<1>1. PICK w \in Ops : At(w, "submit", "write") /\ Place(w) = p
  BY DEF Writing
<1>2. op'[w] = op[w]
  BY <1>1
<1>3. At(w, "submit", "write")' /\ Place(w)' = p
  BY <1>1, <1>2 DEF At, Place
<1>4. QED
  BY <1>3 DEF Writing

\* A place where an operation has a blob to store.
LEMMA WrittenPlace ==
    ASSUME Inv, BlobTypes, NEW o \in Ops, NEW i \in 1..Len(origin[o].writes)
    PROVE  <<op[o].location, origin[o].writes[i].blob>> \in Places
<1>1. op[o].location \in Locations \cup {Nowhere}
  BY DEF Inv, AllOwn, Own, Locations
<1>2. origin[o].writes[i] \in Stored
  <2>1. origin[o].writes \in Seq(Stored)
    BY DEF BlobTypes
  <2>2. QED
    BY <2>1
<1>3. QED
  BY <1>1, <1>2 DEF Stored, Places

\* The files of a place stay clean when something that is not old is put beside it, and
\* what is beside it in its place.
LEMMA CleanKept ==
    ASSUME Inv, BlobTypes, NEW x \in Places, NEW v, v \notin ended,
           part' = part \/ part' = [part EXCEPT ![x] = v],
           disk' = disk \/ disk' = [disk EXCEPT ![x] = part[x]],
           NEW y \in Places, NEW past, past \subseteq ended, Clean(y, past)
    PROVE  disk'[y] \notin past /\ part'[y] \notin past
BY DEF Inv, Shapes, BlobTypes, Clean

\* Nothing old comes back in a step of operation o at place x.
LEMMA NewStep ==
    ASSUME Inv, BlobInv, NEW o \in Ops, NEW x \in Places, NEW v, v \notin ended,
           part' = part \/ part' = [part EXCEPT ![x] = v],
           disk' = disk \/ disk' = [disk EXCEPT ![x] = part[x]],
           superseded' = superseded, ended \subseteq ended',
           \A q \in Ops \ {o} : op'[q] = op[q] /\ origin'[q] = origin[q],
           \/ op'[o].kind # "submit"
           \/ /\ origin'[o] = origin[o] /\ op'[o].kind = op[o].kind
              /\ op'[o].location = op[o].location
              /\ \/ /\ op'[o].todo = op[o].todo
                    /\ op'[o].at = "move" => op[o].todo # <<>> /\ Place(o) = x /\ part'[x] = v
                 \/ /\ op'[o].todo = Tail(op[o].todo) /\ op'[o].at # "move"
                    /\ At(o, "submit", "move") /\ Place(o) = x
                    /\ disk' = [disk EXCEPT ![x] = part[x]]
                    /\ part' = [part EXCEPT ![x] = v]
    PROVE  NewInv'
<1> USE DEF BlobInv
<1>1. \A y \in Places : superseded'[y] \subseteq ended' /\ disk'[y] \notin superseded'[y]
                        /\ part'[y] \notin superseded'[y]
  BY CleanKept DEF NewInv
<1>2. ASSUME NEW q \in Ops, op'[q].kind = "submit",
             NEW i \in 1..(Len(origin'[q].writes) - Len(op'[q].todo))
      PROVE  LET y == <<op'[q].location, origin'[q].writes[i].blob>> IN
             disk'[y] \notin origin'[q].past /\ part'[y] \notin origin'[q].past
  <2> DEFINE y == <<op[q].location, origin[q].writes[i].blob>>
             n == Len(op[q].todo)
             m == Len(origin[q].writes)
  <2>1. origin'[q] = origin[q] /\ op'[q].kind = op[q].kind /\ op'[q].location = op[q].location
    BY <1>2
  <2>2. op[q].kind = "submit" /\ origin[q].past \subseteq ended
    BY <1>2, <2>1 DEF BlobTypes
  <2>3. m \in Nat /\ n \in Nat /\ n <= m
    <3>1. origin[q].writes \in Seq(Stored) /\ op[q].todo \in Seq(Stored)
      BY DEF BlobTypes
    <3>2. m \in Nat /\ n \in Nat
      BY <3>1
    <3>3. n <= m
      BY <2>2 DEF Remaining
    <3>4. QED
      BY <3>2, <3>3
  <2>4. CASE op'[q].todo = op[q].todo
    <3>1. i \in 1..(m - n) /\ i \in 1..m
      <4>1. i \in 1..(m - n)
        BY <1>2, <2>1, <2>4
      <4> HIDE DEF m, n
      <4>2. QED
        BY <2>3, <4>1
    <3>2. y \in Places
      BY <3>1, WrittenPlace
    <3>3. Clean(y, origin[q].past)
      BY <2>2, <3>1 DEF NewInv
    <3>4. disk'[y] \notin origin[q].past /\ part'[y] \notin origin[q].past
      BY <2>2, <3>2, <3>3, CleanKept
    <3>5. QED
      BY <2>1, <3>4
  <2>5. CASE op'[q].todo # op[q].todo
    <3>1. /\ q = o /\ op'[o].todo = Tail(op[o].todo) /\ At(o, "submit", "move") /\ Place(o) = x
          /\ disk' = [disk EXCEPT ![x] = part[x]] /\ part' = [part EXCEPT ![x] = v]
      BY <1>2, <2>5
    <3>2. op[o].todo \in Seq(Stored) /\ op[o].todo # <<>>
      BY <3>1 DEF BlobTypes, At
    <3>3. Len(op'[o].todo) = n - 1 /\ n >= 1
      BY <3>1, <3>2
    <3>4. i \in 1..(m - n) \/ i = m - n + 1
      <4>1. i \in 1..(m - (n - 1))
        BY <1>2, <2>1, <3>1, <3>3
      <4> HIDE DEF m, n
      <4>2. QED
        BY <2>3, <3>3, <4>1
    <3>5. CASE i \in 1..(m - n)
      <4>1. i \in 1..m
        <5> HIDE DEF m, n
        <5>1. QED
          BY <2>3, <3>5
      <4>2. y \in Places
        BY <4>1, WrittenPlace
      <4>3. Clean(y, origin[q].past)
        BY <2>2, <3>5 DEF NewInv
      <4>4. disk'[y] \notin origin[q].past /\ part'[y] \notin origin[q].past
        BY <2>2, <4>2, <4>3, CleanKept
      <4>5. QED
        BY <2>1, <4>4
    <3>6. CASE i = m - n + 1
      <4>1. op[o].todo[1] = origin[o].writes[m - n + 1]
        <5>1. \A j \in 1..n : op[o].todo[j] = origin[o].writes[m - n + j]
          BY <2>2, <3>1 DEF Remaining
        <5>2. 1 \in 1..n
          BY <2>3, <3>3
        <5> HIDE DEF n, m
        <5>3. QED
          BY <5>1, <5>2
      <4>2. y = x
        <5>1. Head(op[o].todo).blob = origin[q].writes[i].blob
          <6>1. Head(op[o].todo) = op[o].todo[1]
            BY <3>2
          <6> HIDE DEF m, n
          <6>2. QED
            BY <3>1, <3>6, <4>1, <6>1
        <5>2. QED
          BY <3>1, <5>1 DEF Place
      <4>3. disk'[x] = part[x] /\ part'[x] = v
        BY <3>1 DEF Inv, Shapes, BlobTypes
      <4>4. part[x] \notin origin[o].past
        BY <3>1 DEF NewInv
      <4>5. QED
        BY <2>1, <2>2, <3>1, <4>2, <4>3, <4>4
    <3>7. QED
      BY <3>4, <3>5, <3>6
  <2>6. QED
    BY <2>4, <2>5
<1>3. ASSUME NEW q \in Ops, At(q, "submit", "move")'
      PROVE  part'[Place(q)'] \notin origin'[q].past
  <2>1. origin'[q] = origin[q] /\ op'[q].kind = op[q].kind /\ op'[q].location = op[q].location
        /\ op'[q].todo = op[q].todo
    BY <1>3 DEF At
  <2>2. Place(q)' = Place(q) /\ origin[q].past \subseteq ended
    BY <2>1 DEF Place, BlobTypes
  <2>3. CASE q = o
    <3>1. part'[x] = v /\ Place(o) = x
      BY <1>3, <2>3 DEF At
    <3>2. QED
      BY <2>1, <2>2, <2>3, <3>1
  <2>4. CASE q # o
    <3>1. At(q, "submit", "move")
      BY <1>3, <2>4 DEF At
    <3>2. op[q].todo # <<>>
      BY <3>1 DEF At, BlobTypes
    <3>3. Place(q) \in Places /\ part[Place(q)] \notin origin[q].past
      BY <3>1, <3>2, PlaceOf DEF NewInv
    <3>4. part'[Place(q)] = part[Place(q)] \/ part'[Place(q)] = v
      BY <3>3 DEF BlobTypes
    <3>5. QED
      BY <2>1, <2>2, <3>3, <3>4
  <2>5. QED
    BY <2>3, <2>4
<1>4. QED
  BY <1>1, <1>2, <1>3 DEF NewInv, Clean

\* A .part is created for an operation to write,
LEMMA OpenPartKeeps ==
    ASSUME Inv, BlobInv, NEW o \in Ops, OpenPart(o)
    PROVE  BlobInv'
<1> USE DEF BlobInv
<1>1. PICK x \in Places : x = Place(o)
  BY PlaceOf DEF OpenPart
<1>2. /\ At(o, "submit", "open") /\ op[o].todo # <<>> /\ Goto(o, "write") /\ disk' = disk
      /\ part' = [part EXCEPT ![x] = Torn] /\ UNCHANGED <<poolVars, historyVars>>
  BY <1>1 DEF OpenPart
<1>3. /\ op'[o].kind = "submit" /\ op'[o].at = "write" /\ op'[o].location = op[o].location
      /\ op'[o].todo = op[o].todo /\ \A q \in Ops \ {o} : op'[q] = op[q]
  BY <1>2, GotoOp DEF At
<1>4. DOMAIN part' = Places /\ part'[x] = Torn /\ \A y \in Places \ {x} : part'[y] = part[y]
  BY <1>2 DEF BlobTypes
<1>5. BlobTypes' /\ Remaining' /\ EmptyLists' /\ HolderInv'
  BY <1>2, <1>4, GoOnKeeps DEF poolVars
<1>6. TornInv'
  <2>1. TornOnlyByOverlap'
    BY <1>2 DEF TornInv, TornOnlyByOverlap, historyVars
  <2>2. Writing(x)'
    BY <1>1, <1>3 DEF Writing, At, Place
  <2>3. ASSUME NEW q \in Ops, At(q, "submit", "move")', part'[Place(q)'] = Torn
        PROVE  Place(q)' \in spoiled' \/ Writing(Place(q))'
    <3>1. q # o /\ At(q, "submit", "move") /\ Place(q)' = Place(q)
      BY <1>3, <2>3 DEF At, Place
    <3>2. Place(q) \in Places
      BY <3>1, PlaceOf DEF At, BlobTypes
    <3>3. CASE Place(q) = x
      BY <2>2, <3>1, <3>3 DEF Writing
    <3>4. CASE Place(q) # x
      <4>1. Place(q) \in spoiled \/ Writing(Place(q))
        BY <1>4, <2>3, <3>1, <3>2, <3>4 DEF TornInv
      <4>2. \A p : Writing(p) => Writing(p)'
        BY <1>2, <1>3, WritingKept DEF At
      <4>3. QED
        BY <1>2, <3>1, <4>1, <4>2 DEF historyVars, Writing
    <3>5. QED
      BY <3>3, <3>4
  <2>4. QED
    BY <2>1, <2>3 DEF TornInv
<1>7. EmptyFiles'
  BY <1>2, <1>4, Marks DEF EmptyFiles, EmptiedOnlyByRefusal, historyVars
<1>8. NewInv'
  <2>1. Torn \notin ended
    BY EndedContents
  <2>2. QED
    BY <1>1, <1>2, <1>3, <2>1, NewStep DEF historyVars, At
<1>9. QED
  BY <1>5, <1>6, <1>7, <1>8

\* its data is written and the .part closed,
LEMMA WritePartKeeps ==
    ASSUME Inv, BlobInv, NEW o \in Ops, WritePart(o)
    PROVE  BlobInv'
<1> USE DEF BlobInv
<1>1. At(o, "submit", "write") /\ op[o].todo # <<>> /\ op[o].kind = "submit"
  BY DEF WritePart, At, BlobTypes
<1>2. PICK x \in Places : x = Place(o)
  BY <1>1, PlaceOf
<1>3. PICK d : d = op[o].todo[1].data
  OBVIOUS
<1>4. /\ Goto(o, "move") /\ disk' = disk /\ part' = [part EXCEPT ![x] = d]
      /\ UNCHANGED <<poolVars, historyVars>>
  BY <1>1, <1>2, <1>3, PlaceOf DEF WritePart
<1>5. /\ op'[o].kind = "submit" /\ op'[o].at = "move" /\ op'[o].location = op[o].location
      /\ op'[o].todo = op[o].todo /\ \A q \in Ops \ {o} : op'[q] = op[q]
  BY <1>1, <1>4, GotoOp
<1>6. d # Torn /\ d # Absent /\ d \notin ended /\ (d = Empty => x[2] \in lost)
  BY <1>1, <1>2, <1>3, TodoData
<1>7. DOMAIN part' = Places /\ part'[x] = d /\ \A y \in Places \ {x} : part'[y] = part[y]
  BY <1>4 DEF BlobTypes
<1>8. BlobTypes' /\ Remaining' /\ EmptyLists' /\ HolderInv'
  BY <1>1, <1>4, <1>7, GoOnKeeps DEF poolVars
<1>9. TornInv'
  <2>1. TornOnlyByOverlap'
    BY <1>4 DEF TornInv, TornOnlyByOverlap, historyVars
  <2>2. Place(o)' = x
    BY <1>2, <1>5 DEF Place
  <2>3. ASSUME NEW q \in Ops, At(q, "submit", "move")', part'[Place(q)'] = Torn
        PROVE  Place(q)' \in spoiled' \/ Writing(Place(q))'
    <3>1. q # o
      BY <1>6, <1>7, <2>2, <2>3
    <3>2. At(q, "submit", "move") /\ Place(q)' = Place(q)
      BY <1>5, <2>3, <3>1 DEF At, Place
    <3>3. Place(q) \in Places
      BY <3>2, PlaceOf DEF At, BlobTypes
    <3>4. Place(q) # x
      BY <1>6, <1>7, <2>3, <3>2
    <3>5. Place(q) \in spoiled \/ Writing(Place(q))
      BY <1>7, <2>3, <3>2, <3>3, <3>4 DEF TornInv
    <3>6. \A p : p # x /\ Writing(p) => Writing(p)'
      BY <1>2, <1>5, WritingKept
    <3>7. QED
      BY <1>4, <3>2, <3>4, <3>5, <3>6 DEF historyVars, Writing
  <2>4. QED
    BY <2>1, <2>3 DEF TornInv
<1>10. EmptyFiles'
  BY <1>4, <1>6, <1>7 DEF EmptyFiles, EmptiedOnlyByRefusal, historyVars
<1>11. NewInv'
  BY <1>1, <1>2, <1>4, <1>5, <1>6, <1>7, NewStep DEF historyVars
<1>12. QED
  BY <1>8, <1>9, <1>10, <1>11

\* and it is moved over the blob.
LEMMA MoveKeeps ==
    ASSUME Inv, BlobInv, NEW o \in Ops, Move(o)
    PROVE  BlobInv'
<1> USE DEF BlobInv
<1>1. At(o, "submit", "move") /\ op[o].todo # <<>> /\ op[o].kind = "submit"
  BY DEF Move, At, BlobTypes
<1>2. PICK x \in Places : x = Place(o)
  BY <1>1, PlaceOf
<1>3. /\ Advance(o) /\ disk' = [disk EXCEPT ![x] = part[x]] /\ part' = [part EXCEPT ![x] = Absent]
      /\ ~Writing(x) /\ UNCHANGED <<poolVars, historyVars>>
  BY <1>2 DEF Move
<1>4. /\ op'[o].kind = "submit" /\ op'[o].at = "open" /\ op'[o].location = op[o].location
      /\ op'[o].todo = Tail(op[o].todo) /\ \A q \in Ops \ {o} : op'[q] = op[q]
  BY <1>1, <1>3, AdvanceOp
<1>5. /\ DOMAIN part' = Places /\ part'[x] = Absent /\ disk'[x] = part[x]
      /\ \A y \in Places \ {x} : part'[y] = part[y] /\ disk'[y] = disk[y]
  BY <1>3 DEF BlobTypes, Inv, Shapes
<1>6. BlobTypes' /\ Remaining' /\ EmptyLists' /\ HolderInv'
  BY <1>1, <1>3, <1>5, GoOnKeeps DEF poolVars
<1>7. TornInv'
  <2>1. part[x] = Torn => x \in spoiled
    BY <1>1, <1>2, <1>3 DEF TornInv, Writing
  <2>2. TornOnlyByOverlap'
    BY <1>3, <1>5, <2>1 DEF TornInv, TornOnlyByOverlap, historyVars
  <2>3. ASSUME NEW q \in Ops, At(q, "submit", "move")', part'[Place(q)'] = Torn
        PROVE  Place(q)' \in spoiled' \/ Writing(Place(q))'
    <3>1. q # o /\ At(q, "submit", "move") /\ Place(q)' = Place(q)
      BY <1>4, <2>3 DEF At, Place
    <3>2. Place(q) \in Places
      BY <3>1, PlaceOf DEF At, BlobTypes
    <3>3. Place(q) # x
      BY <1>5, <2>3, <3>1, Marks
    <3>4. Place(q) \in spoiled \/ Writing(Place(q))
      BY <1>5, <2>3, <3>1, <3>2, <3>3 DEF TornInv
    <3>5. \A p : Writing(p) => Writing(p)'
      BY <1>1, <1>4, WritingKept DEF At
    <3>6. QED
      BY <1>3, <3>1, <3>4, <3>5 DEF historyVars, Writing
  <2>4. QED
    BY <2>2, <2>3 DEF TornInv
<1>8. EmptyFiles'
  BY <1>3, <1>5, Marks DEF EmptyFiles, EmptiedOnlyByRefusal, historyVars
<1>9. NewInv'
  <2>1. Absent \notin ended
    BY EndedContents
  <2>2. QED
    BY <1>1, <1>2, <1>3, <1>4, <2>1, NewStep DEF historyVars
<1>10. QED
  BY <1>6, <1>7, <1>8, <1>9

\* An operation is over, and leaves the .part as it is or deletes it.
LEMMA OverKeeps ==
    ASSUME Inv, BlobInv, NEW o \in Ops, op[o].todo # <<>>, End(o),
           UNCHANGED <<disk, update, stamp, lost, superseded>>,
           part' = part \/ part' = [part EXCEPT ![Place(o)] = Absent],
           spoiled \subseteq spoiled',
           At(o, "submit", "write") =>
              \A q \in Ops : At(q, "submit", "move") /\ Place(q) = Place(o) => Place(o) \in spoiled'
    PROVE  BlobInv'
<1> USE DEF BlobInv
<1>1. /\ op'[o] = NoOp /\ ended \subseteq ended' /\ NoOp.kind = "none"
      /\ \A q \in Ops \ {o} : op'[q] = op[q] /\ origin'[q] = origin[q]
  BY EndOp DEF NoOp
<1>2. /\ DOMAIN part' = Places
      /\ \A y \in Places : part'[y] = part[y] \/ part'[y] = Absent
  BY DEF BlobTypes
<1>3. BlobTypes' /\ Remaining' /\ EmptyLists' /\ HolderInv'
  BY <1>2, EndKeeps DEF BlobTypes
<1>4. TornInv'
  <2>1. TornOnlyByOverlap'
    BY DEF TornInv, TornOnlyByOverlap
  <2>2. ASSUME NEW q \in Ops, At(q, "submit", "move")', part'[Place(q)'] = Torn
        PROVE  Place(q)' \in spoiled' \/ Writing(Place(q))'
    <3>1. q # o /\ At(q, "submit", "move") /\ Place(q)' = Place(q)
      BY <1>1, <2>2 DEF At, Place
    <3>2. Place(q) \in Places
      BY <3>1, PlaceOf DEF At, BlobTypes
    <3>3. Place(q) \in spoiled \/ Writing(Place(q))
      BY <1>2, <2>2, <3>1, <3>2, Marks DEF TornInv
    <3>4. CASE At(o, "submit", "write") /\ Place(o) = Place(q)
      BY <3>1, <3>4
    <3>5. CASE ~(At(o, "submit", "write") /\ Place(o) = Place(q))
      <4>1. Writing(Place(q)) => \E p : p = Place(q) /\ Writing(p)'
        BY <1>1, <3>5, WritingKept
      <4>2. QED
        BY <3>1, <3>3, <4>1 DEF Writing
    <3>6. QED
      BY <3>4, <3>5
  <2>3. QED
    BY <2>1, <2>2 DEF TornInv
<1>5. EmptyFiles'
  BY <1>2, Marks DEF EmptyFiles, EmptiedOnlyByRefusal
<1>6. NewInv'
  <2>1. Absent \notin ended
    BY EndedContents
  <2>2. PICK x \in Places : x = Place(o)
    BY PlaceOf
  <2>3. part' = part \/ part' = [part EXCEPT ![x] = Absent]
    BY <2>2
  <2>4. QED
    BY <1>1, <2>1, <2>3, NewStep
<1>7. QED
  BY <1>3, <1>4, <1>5, <1>6

\* work() returns: everything it was submitted with is in place, and nothing older.
LEMMA SucceedKeeps ==
    ASSUME Inv, BlobInv, NEW o \in Ops, Succeed(o)
    PROVE  BlobInv'
<1> USE DEF BlobInv
<1>1. /\ op[o].at = "open" /\ op[o].todo = <<>> /\ End(o) /\ part' = part /\ disk' = disk
      /\ UNCHANGED <<update, stamp, lost, spoiled>> /\ DOMAIN superseded' = Places
      /\ \A p \in Places :
            superseded'[p] = superseded[p] \cup IF p \in Written(o) THEN origin[o].past ELSE {}
  BY DEF Succeed, fileVars, poolVars
<1>2. /\ op'[o] = NoOp /\ ended \subseteq ended' /\ NoOp.kind = "none"
      /\ \A q \in Ops \ {o} : op'[q] = op[q] /\ origin'[q] = origin[q]
  BY <1>1, EndOp DEF NoOp
<1>3. BlobTypes' /\ Remaining' /\ EmptyLists' /\ HolderInv'
  BY <1>1, EndKeeps DEF BlobTypes
<1>4. TornInv'
  <2>1. TornOnlyByOverlap'
    BY <1>1 DEF TornInv, TornOnlyByOverlap
  <2>2. ASSUME NEW q \in Ops, At(q, "submit", "move")', part'[Place(q)'] = Torn
        PROVE  Place(q)' \in spoiled' \/ Writing(Place(q))'
    <3>1. q # o /\ At(q, "submit", "move") /\ Place(q)' = Place(q)
      BY <1>2, <2>2 DEF At, Place
    <3>2. Place(q) \in spoiled \/ Writing(Place(q))
      BY <1>1, <2>2, <3>1 DEF TornInv
    <3>3. \A p : Writing(p) => Writing(p)'
      BY <1>1, <1>2, WritingKept DEF At
    <3>4. QED
      BY <1>1, <3>1, <3>2, <3>3 DEF Writing
  <2>3. QED
    BY <2>1, <2>2 DEF TornInv
<1>5. EmptyFiles'
  BY <1>1 DEF EmptyFiles, EmptiedOnlyByRefusal
<1>6. NewInv'
  <2>1. ASSUME NEW p \in Places
        PROVE  /\ superseded'[p] \subseteq ended' /\ disk'[p] \notin superseded'[p]
               /\ part'[p] \notin superseded'[p]
    <3>1. superseded[p] \subseteq ended /\ Clean(p, superseded[p])
      BY DEF NewInv
    <3>2. origin[o].past \subseteq ended
      BY DEF BlobTypes
    <3>3. ASSUME p \in Written(o) PROVE Clean(p, origin[o].past)
      <4>1. PICK i \in 1..Len(origin[o].writes) : p = <<op[o].location, origin[o].writes[i].blob>>
        BY <3>3 DEF Written
      <4>2. op[o].kind = "submit"
        BY <3>3, ContentsOf
      <4>3. i \in 1..(Len(origin[o].writes) - Len(op[o].todo))
        <5>1. Len(op[o].todo) = 0
          BY <1>1
        <5>2. origin[o].writes \in Seq(Stored)
          BY DEF BlobTypes
        <5>3. Len(origin[o].writes) \in Nat
          BY <5>2
        <5>4. QED
          BY <5>1, <5>3
      <4>4. QED
        BY <4>1, <4>2, <4>3 DEF NewInv
    <3>4. QED
      BY <1>1, <1>2, <3>1, <3>2, <3>3 DEF Clean
  <2>2. ASSUME NEW q \in Ops, op'[q].kind = "submit"
        PROVE  q # o /\ op'[q] = op[q] /\ origin'[q] = origin[q]
    BY <1>2, <2>2
  <2>3. QED
    BY <1>1, <2>1, <2>2 DEF NewInv, Clean, At, Place
<1>7. QED
  BY <1>3, <1>4, <1>5, <1>6

\* Reading leaves every file.
LEMMA ReadKeeps ==
    ASSUME Inv, BlobInv, NEW o \in Ops, OpenRead(o) \/ ReadBlob(o)
    PROVE  BlobInv'
<1> USE DEF BlobInv
<1>1. /\ op[o].kind = "read" /\ op[o].todo # <<>> /\ (Goto(o, "read") \/ Advance(o))
      /\ part' = part /\ disk' = disk /\ UNCHANGED <<poolVars, historyVars>>
  BY DEF OpenRead, ReadBlob, At, fileVars, BlobTypes
<1>2. op'[o].kind = "read" /\ \A q \in Ops \ {o} : op'[q] = op[q]
  BY <1>1, GotoOp, AdvanceOp
<1>3. BlobTypes' /\ Remaining' /\ EmptyLists' /\ HolderInv'
  BY <1>1, GoOnKeeps DEF poolVars, BlobTypes
<1>4. TornInv'
  <2>1. TornOnlyByOverlap'
    BY <1>1 DEF TornInv, TornOnlyByOverlap, historyVars
  <2>2. ASSUME NEW q \in Ops, At(q, "submit", "move")', part'[Place(q)'] = Torn
        PROVE  Place(q)' \in spoiled' \/ Writing(Place(q))'
    <3>1. q # o /\ At(q, "submit", "move") /\ Place(q)' = Place(q)
      BY <1>2, <2>2 DEF At, Place
    <3>2. Place(q) \in spoiled \/ Writing(Place(q))
      BY <1>1, <2>2, <3>1 DEF TornInv
    <3>3. \A p : Writing(p) => Writing(p)'
      BY <1>1, <1>2, WritingKept DEF At
    <3>4. QED
      BY <1>1, <3>1, <3>2, <3>3 DEF Writing, historyVars
  <2>3. QED
    BY <2>1, <2>2 DEF TornInv
<1>5. EmptyFiles'
  BY <1>1 DEF EmptyFiles, EmptiedOnlyByRefusal, historyVars
<1>6. NewInv'
  <2>1. ASSUME NEW q \in Ops, op'[q].kind = "submit"
        PROVE  q # o /\ op'[q] = op[q] /\ origin'[q] = origin[q]
    BY <1>1, <1>2, <2>1 DEF historyVars
  <2>2. QED
    BY <1>1, <2>1 DEF NewInv, Clean, At, Place, historyVars
<1>7. QED
  BY <1>3, <1>4, <1>5, <1>6

\* Every step of work().
LEMMA WorkBlobs ==
    ASSUME Inv, BlobInv, NEW o \in Ops, Work(o)
    PROVE  BlobInv'
<1>1. op[o].at \in {"write", "move", "read"} => op[o].todo # <<>>
  BY DEF BlobInv, BlobTypes
<1>2. CASE OpenPart(o) \/ WritePart(o) \/ Move(o) \/ OpenRead(o) \/ ReadBlob(o) \/ Succeed(o)
  BY <1>2, OpenPartKeeps, WritePartKeeps, MoveKeeps, ReadKeeps, SucceedKeeps
<1>3. CASE WriteFails(o)
  <2>1. /\ op[o].todo # <<>> /\ End(o) /\ part' = part /\ spoiled \subseteq spoiled'
        /\ UNCHANGED <<disk, update, stamp, lost, superseded>>
        /\ (\E q \in Ops : At(q, "submit", "move") /\ Place(q) = Place(o)) => Place(o) \in spoiled'
    BY <1>1, <1>3 DEF WriteFails, At, fileVars, poolVars
  <2>2. QED
    BY <2>1, OverKeeps
<1>4. CASE MoveFails(o)
  BY <1>1, <1>4, OverKeeps DEF MoveFails, At, poolVars
<1>5. CASE ReadFails(o) \/ OpenFails(o)
  BY <1>1, <1>5, OverKeeps DEF ReadFails, OpenFails, At, fileVars, poolVars
<1>6. QED
  BY <1>2, <1>3, <1>4, <1>5 DEF Work

-----------------------------------------------------------------------------
(* The calls of the game                                                    *)

\* The files stay, and what operations were about to do: at most, one begins.
LEMMA FilesStay ==
    ASSUME BlobInv, UNCHANGED <<disk, part, spoiled, superseded, ended>>, lost \subseteq lost',
           \A q \in Ops :
              \/ op'[q] = op[q] /\ origin'[q] = origin[q]
              \/ /\ op[q].kind = "none" /\ op'[q].at = "open"
                 /\ op'[q].kind = "submit" =>
                       Len(origin'[q].writes) = Len(op'[q].todo) /\ Len(op'[q].todo) \in Nat
    PROVE  TornInv' /\ EmptyFiles' /\ NewInv'
<1> USE DEF BlobInv
<1>1. ASSUME NEW q \in Ops, At(q, "submit", "move")'
      PROVE  At(q, "submit", "move") /\ Place(q)' = Place(q) /\ origin'[q] = origin[q]
  BY <1>1 DEF At, Place
<1>2. \A p : Writing(p) => Writing(p)'
  BY DEF Writing, At, Place
<1>3. TornInv'
  <2>1. ASSUME NEW q \in Ops, At(q, "submit", "move")', part'[Place(q)'] = Torn
        PROVE  Place(q)' \in spoiled' \/ Writing(Place(q))'
    <3>1. Place(q) \in spoiled \/ Writing(Place(q))
      BY <1>1, <2>1 DEF TornInv
    <3>2. QED
      BY <1>1, <1>2, <2>1, <3>1 DEF Writing
  <2>2. QED
    BY <2>1 DEF TornInv, TornOnlyByOverlap
<1>4. EmptyFiles'
  BY DEF EmptyFiles, EmptiedOnlyByRefusal
<1>5. NewInv'
  <2>1. ASSUME NEW q \in Ops, op'[q].kind = "submit",
               NEW i \in 1..(Len(origin'[q].writes) - Len(op'[q].todo))
        PROVE  op'[q] = op[q] /\ origin'[q] = origin[q]
    BY <2>1
  <2>2. ASSUME NEW q \in Ops, op'[q].kind = "submit",
               NEW i \in 1..(Len(origin'[q].writes) - Len(op'[q].todo))
        PROVE  Clean(<<op'[q].location, origin'[q].writes[i].blob>>, origin'[q].past)
    <3>1. op'[q] = op[q] /\ origin'[q] = origin[q]
      BY <2>1, <2>2
    <3>2. QED
      BY <2>2, <3>1 DEF NewInv
  <2>3. QED
    BY <1>1, <2>2 DEF NewInv, Clean
<1>6. QED
  BY <1>3, <1>4, <1>5

\* The steps that leave everything the invariant is about.
LEMMA IdleBlobs ==
    ASSUME BlobInv, UNCHANGED <<fileVars, update, op, historyVars>>
    PROVE  BlobInv'
<1> USE DEF BlobInv
<1>1. TornInv' /\ EmptyFiles' /\ NewInv'
  BY FilesStay DEF fileVars, historyVars
<1>2. Stored' = Stored /\ (\A u \in Updates : Pending(u)' = Pending(u))
      /\ (\A o \in Ops : Contents(o)' = Contents(o))
  BY DEF Stored, Pending, Contents, historyVars
<1>3. BlobTypes'
  BY <1>2 DEF BlobTypes, fileVars, historyVars
<1>4. Remaining' /\ EmptyLists'
  BY DEF Remaining, EmptyLists, historyVars
<1>5. HolderInv'
  BY <1>2 DEF HolderInv, historyVars
<1>6. QED
  BY <1>1, <1>3, <1>4, <1>5

\* More contents are made, and those there were stay.
LEMMA StoredGrows ==
    ASSUME BlobTypes, stamp' \in Nat, stamp <= stamp', NEW s \in Seq(Stored)
    PROVE  s \in Seq(Stored')
<1>1. Stored \subseteq Stored'
  <2>1. 1..stamp \subseteq 1..stamp'
    BY DEF BlobTypes
  <2>2. QED
    BY <2>1 DEF Stored
<1>2. QED
  BY <1>1

\* The pending contents of an update are contents made.
LEMMA PendingOf ==
    ASSUME BlobTypes, NEW u \in Updates
    PROVE  Pending(u) \subseteq 1..stamp
<1>1. update[u].writes \in Seq(Stored)
  BY DEF BlobTypes
<1>2. \A i \in 1..Len(update[u].writes) : update[u].writes[i] \in Stored
  BY <1>1
<1>3. QED
  BY <1>2 DEF Pending, Stored

\* One update gathers, drops or loses writes.
LEMMA UpdateKeeps ==
    ASSUME BlobInv, NEW u \in Updates, UNCHANGED <<fileVars, op, origin, spoiled, ended, superseded>>,
           stamp' \in Nat, stamp <= stamp', lost \subseteq lost',
           \A v \in Updates \ {u} : update'[v].writes = update[v].writes,
           update'[u].writes \in Seq(Stored'),
           Pending(u)' \subseteq Pending(u) \cup ((stamp + 1)..stamp'),
           \A i \in 1..Len(update'[u].writes) :
              update'[u].writes[i].data = Empty => update'[u].writes[i].blob \in lost'
    PROVE  BlobInv'
<1> USE DEF BlobInv
<1>1. TornInv' /\ EmptyFiles' /\ NewInv'
  BY FilesStay DEF fileVars
<1>2. BlobTypes'
  <2>1. ended \subseteq 1..stamp'
    BY DEF BlobTypes
  <2>2. ASSUME NEW v \in Updates PROVE update'[v].writes \in Seq(Stored')
    <3>1. CASE v = u
      BY <3>1
    <3>2. CASE v # u
      BY <3>2, StoredGrows DEF BlobTypes
    <3>3. QED
      BY <3>1, <3>2
  <2>3. ASSUME NEW o \in Ops
        PROVE  op[o].todo \in Seq(Stored') /\ origin[o].writes \in Seq(Stored')
    BY StoredGrows DEF BlobTypes
  <2>4. QED
    BY <2>1, <2>2, <2>3 DEF BlobTypes, fileVars
<1>3. Remaining'
  BY DEF Remaining
<1>4. EmptyLists'
  <2>1. ASSUME NEW v \in Updates, NEW i \in 1..Len(update'[v].writes),
               update'[v].writes[i].data = Empty
        PROVE  update'[v].writes[i].blob \in lost'
    <3>1. CASE v = u
      BY <2>1, <3>1
    <3>2. CASE v # u
      BY <2>1, <3>2 DEF EmptyLists
    <3>3. QED
      BY <3>1, <3>2
  <2>2. QED
    BY <2>1 DEF EmptyLists
<1>5. HolderInv'
  <2>1. \A v \in Updates \ {u} : Pending(v)' = Pending(v)
    BY DEF Pending
  <2>2. \A o \in Ops : Contents(o)' = Contents(o) /\ Contents(o) \subseteq 1..stamp
    BY ContentsOf DEF Contents
  <2>3. \A v \in Updates : Pending(v) \subseteq 1..stamp
    BY PendingOf
  <2>4. ended \subseteq 1..stamp
    BY DEF BlobTypes
  <2>5. PICK F : F = (stamp + 1)..stamp' /\ F \cap 1..stamp = {}
    BY DEF BlobTypes
  <2>6. Pending(u)' \subseteq Pending(u) \cup F
    BY <2>5
  <2>7. QED
    BY <2>1, <2>2, <2>3, <2>4, <2>5, <2>6 DEF HolderInv
<1>6. QED
  BY <1>1, <1>2, <1>3, <1>4, <1>5

\* An update begins or is closed with no writes;
LEMMA CreateKeeps ==
    ASSUME Inv, BlobInv,
           create_container \/ (\E c \in Containers : close_container(c) \/ create_update(c))
              \/ (\E u \in Updates : close_update(u))
    PROVE  BlobInv'
<1> USE DEF BlobInv
<1>1. CASE update' = update
  BY <1>1, IdleBlobs DEF create_container, close_container, create_update, close_update
<1>2. CASE update' # update
  <2>1. PICK u \in Updates : /\ update'[u].writes = <<>>
                             /\ \A v \in Updates \ {u} : update'[v] = update[v]
    <3>1. CASE \E c \in Containers : create_update(c)
      <4>1. PICK c \in Containers, u \in Vacant(update) :
               update' = [update EXCEPT ![u] = [used |-> TRUE, target |-> c, writes |-> <<>>]]
        BY <3>1 DEF create_update
      <4>2. u \in Updates
        BY DEF Vacant, Inv, Shapes
      <4>3. QED
        BY <4>1, <4>2 DEF Inv, Shapes
    <3>2. CASE \E u \in Updates : close_update(u)
      BY <3>2 DEF close_update, NoUpdate, Inv, Shapes
    <3>3. QED
      BY <1>2, <3>1, <3>2 DEF create_container, close_container
  <2>2. UNCHANGED <<fileVars, op, historyVars>>
    BY <1>2 DEF create_container, close_container, create_update, close_update
  <2>3. Pending(u)' = {} /\ Len(update'[u].writes) = 0 /\ update'[u].writes \in Seq(Stored')
    BY <2>1 DEF Pending
  <2>4. stamp' \in Nat /\ stamp <= stamp' /\ lost \subseteq lost'
    BY <2>2 DEF historyVars, BlobTypes
  <2>5. \A i \in 1..Len(update'[u].writes) :
           update'[u].writes[i].data = Empty => update'[u].writes[i].blob \in lost'
    BY <2>3
  <2>6. UNCHANGED <<fileVars, op, origin, spoiled, ended, superseded>>
    BY <2>2 DEF historyVars
  <2>7. \A v \in Updates \ {u} : update'[v].writes = update[v].writes
    BY <2>1
  <2>8. Pending(u)' \subseteq Pending(u) \cup ((stamp + 1)..stamp')
    BY <2>3
  <2>9. QED
    BY <2>3, <2>4, <2>5, <2>6, <2>7, <2>8, UpdateKeeps
<1>3. QED
  BY <1>1, <1>2

\* gathers a write, whose content is new;
LEMMA GatherKeeps ==
    ASSUME Inv, BlobInv, NEW u \in Updates, NEW b \in Blobs, submit_blob_write(u, b)
    PROVE  BlobInv'
<1> USE DEF BlobInv
<1> DEFINE ws == update[u].writes
           w == [blob |-> b, data |-> stamp + 1]
<1>1. /\ stamp' = stamp + 1 /\ update'[u].writes = Append(ws, w)
      /\ \A v \in Updates \ {u} : update'[v].writes = update[v].writes
      /\ UNCHANGED <<fileVars, op, origin, spoiled, ended, superseded, lost>>
  BY DEF submit_blob_write, Inv, Shapes
<1>2. stamp \in Nat /\ stamp' \in Nat /\ stamp <= stamp' /\ lost \subseteq lost'
  BY <1>1 DEF BlobTypes
<1>3. ws \in Seq(Stored') /\ w \in Stored'
  <2>1. ws \in Seq(Stored')
    BY <1>2, StoredGrows DEF BlobTypes
  <2>2. stamp + 1 \in 1..stamp'
    BY <1>1, <1>2
  <2>3. QED
    BY <2>1, <2>2 DEF Stored
<1>4. /\ update'[u].writes \in Seq(Stored') /\ Len(ws) \in Nat
      /\ Len(update'[u].writes) = Len(ws) + 1 /\ update'[u].writes[Len(ws) + 1] = w
      /\ \A i \in 1..Len(ws) : update'[u].writes[i] = ws[i]
  <2> HIDE DEF ws, w
  <2>1. QED
    BY <1>1, <1>3
<1>5. stamp + 1 # Empty
  BY <1>2, Marks
<1>6. ASSUME NEW i \in 1..Len(update'[u].writes)
      PROVE  \/ i \in 1..Len(ws) /\ update'[u].writes[i] = ws[i]
             \/ update'[u].writes[i].data = stamp + 1
  <2>1. i \in 1..Len(ws) \/ i = Len(ws) + 1
    <3>1. i \in 1..(Len(ws) + 1)
      BY <1>4
    <3>2. QED
      BY <1>4, <3>1
  <2>2. QED
    BY <1>4, <2>1
<1>7. Pending(u)' \subseteq Pending(u) \cup ((stamp + 1)..stamp')
  <2>1. stamp + 1 \in (stamp + 1)..stamp'
    BY <1>1, <1>2
  <2>2. QED
    BY <1>6, <2>1 DEF Pending
<1>8. ASSUME NEW i \in 1..Len(update'[u].writes), update'[u].writes[i].data = Empty
      PROVE  update'[u].writes[i].blob \in lost'
  BY <1>2, <1>5, <1>6, <1>8 DEF EmptyLists
<1>9. QED
  BY <1>1, <1>2, <1>4, <1>7, <1>8, UpdateKeeps

\* loses the data of all of them, but not the list, in a refused call;
LEMMA RefusedKeeps ==
    ASSUME Inv, BlobInv, NEW u \in Updates, submit_refused(u)
    PROVE  BlobInv'
<1> USE DEF BlobInv
<1> DEFINE ws == update[u].writes
<1>1. /\ stamp' = stamp /\ update'[u].writes = Emptied(ws)
      /\ lost' = lost \cup {ws[i].blob : i \in 1..Len(ws)}
      /\ \A v \in Updates \ {u} : update'[v].writes = update[v].writes
      /\ UNCHANGED <<fileVars, op, origin, spoiled, ended, superseded>>
  BY DEF submit_refused, Inv, Shapes
<1>2. stamp' \in Nat /\ stamp <= stamp' /\ lost \subseteq lost' /\ Stored' = Stored
  BY <1>1 DEF BlobTypes, Stored
<1>3. ws \in Seq(Stored)
  BY DEF BlobTypes
<1>4. Len(ws) \in Nat /\ \A i \in 1..Len(ws) : ws[i] \in Stored
  BY <1>3
<1>5. \A i \in 1..Len(ws) : /\ [ws[i] EXCEPT !.data = Empty] \in Stored
                            /\ [ws[i] EXCEPT !.data = Empty].data = Empty
                            /\ [ws[i] EXCEPT !.data = Empty].blob = ws[i].blob
  BY <1>4 DEF Stored
<1>6. Emptied(ws) \in [1..Len(ws) -> Stored]
  BY <1>5 DEF Emptied
<1>7. /\ Emptied(ws) \in Seq(Stored) /\ Len(Emptied(ws)) = Len(ws)
      /\ \A i \in 1..Len(ws) : Emptied(ws)[i].data = Empty /\ Emptied(ws)[i].blob = ws[i].blob
  <2>1. \A i \in 1..Len(ws) : Emptied(ws)[i].data = Empty /\ Emptied(ws)[i].blob = ws[i].blob
    BY <1>5 DEF Emptied
  <2> HIDE DEF ws
  <2>2. Emptied(ws) \in Seq(Stored) /\ Len(Emptied(ws)) = Len(ws)
    BY <1>4, <1>6
  <2>3. QED
    BY <2>1, <2>2
<1>8. Pending(u)' = {}
  BY <1>1, <1>7 DEF Pending
<1>9. \A i \in 1..Len(update'[u].writes) : update'[u].writes[i].blob \in lost'
  BY <1>1, <1>7
<1>10. QED
  BY <1>1, <1>2, <1>7, <1>8, <1>9, UpdateKeeps

\* gives them to an operation,
LEMMA SubmitKeeps ==
    ASSUME Inv, BlobInv, NEW u \in Updates, NEW o \in Ops, submit_update_async(u, o)
    PROVE  BlobInv'
<1> USE DEF BlobInv
<1> DEFINE ws == update[u].writes
<1>1. /\ op[o].kind = "none" /\ op'[o].kind = "submit" /\ op'[o].at = "open" /\ op'[o].todo = ws
      /\ origin'[o].writes = ws /\ origin'[o].past = ended /\ update'[u].writes = <<>>
      /\ DOMAIN origin' = Ops
  BY DEF submit_update_async, Start, Inv, Shapes, BlobTypes
<1>2. /\ \A q \in Ops \ {o} : op'[q] = op[q] /\ origin'[q] = origin[q]
      /\ \A v \in Updates \ {u} : update'[v].writes = update[v].writes
      /\ UNCHANGED <<fileVars, spoiled, ended, superseded, lost, stamp>>
  BY DEF submit_update_async, Start, Inv, Shapes, BlobTypes
<1>3. ws \in Seq(Stored) /\ Len(ws) \in Nat /\ Stored' = Stored
  <2>1. ws \in Seq(Stored)
    BY DEF BlobTypes
  <2>2. QED
    BY <1>2, <2>1 DEF Stored
<1>4. TornInv' /\ EmptyFiles' /\ NewInv'
  <2>1. \A q \in Ops :
              \/ op'[q] = op[q] /\ origin'[q] = origin[q]
              \/ /\ op[q].kind = "none" /\ op'[q].at = "open"
                 /\ op'[q].kind = "submit" =>
                       Len(origin'[q].writes) = Len(op'[q].todo) /\ Len(op'[q].todo) \in Nat
    BY <1>1, <1>2, <1>3
  <2>2. QED
    BY <1>2, <2>1, FilesStay DEF fileVars
<1>5. BlobTypes'
  <2>1. ASSUME NEW v \in Updates PROVE update'[v].writes \in Seq(Stored)
    <3>1. CASE v = u
      <4>1. <<>> \in Seq(Stored)
        OBVIOUS
      <4>2. QED
        BY <1>1, <3>1, <4>1
    <3>2. CASE v # u
      BY <1>2, <3>2 DEF BlobTypes
    <3>3. QED
      BY <3>1, <3>2
  <2>2. ASSUME NEW q \in Ops
        PROVE  /\ op'[q].todo \in Seq(Stored)
               /\ op'[q].at \in {"write", "move", "read"} => op'[q].todo # <<>>
               /\ origin'[q].writes \in Seq(Stored) /\ origin'[q].past \subseteq ended
               /\ op'[q].kind # "submit" => origin'[q] = NoOrigin
    <3>1. CASE q = o
      BY <1>1, <1>3, <3>1
    <3>2. CASE q # o
      BY <1>2, <3>2 DEF BlobTypes
    <3>3. QED
      BY <3>1, <3>2
  <2>3. QED
    BY <1>1, <1>2, <1>3, <2>1, <2>2 DEF BlobTypes, fileVars
<1>6. Remaining'
  <2>1. ASSUME NEW q \in Ops, op'[q].kind = "submit"
        PROVE  /\ Len(op'[q].todo) <= Len(origin'[q].writes)
               /\ \A j \in 1..Len(op'[q].todo) :
                     op'[q].todo[j] = origin'[q].writes[Len(origin'[q].writes) - Len(op'[q].todo) + j]
    <3>1. CASE q = o
      <4>1. op'[q].todo = ws /\ origin'[q].writes = ws
        BY <1>1, <3>1
      <4> HIDE DEF ws
      <4>2. \A j \in 1..Len(ws) : Len(ws) - Len(ws) + j = j
        BY <1>3
      <4>3. QED
        BY <1>3, <4>1, <4>2
    <3>2. CASE q # o
      BY <1>2, <2>1, <3>2 DEF Remaining
    <3>3. QED
      BY <3>1, <3>2
  <2>2. QED
    BY <2>1 DEF Remaining
<1>7. EmptyLists'
  <2>1. \A v \in Updates : \A i \in 1..Len(update'[v].writes) :
           update'[v].writes[i].data = Empty => update'[v].writes[i].blob \in lost
    BY <1>1, <1>2 DEF EmptyLists
  <2>2. \A q \in Ops : op'[q].kind = "submit" => \A i \in 1..Len(op'[q].todo) :
           op'[q].todo[i].data = Empty => op'[q].todo[i].blob \in lost
    BY <1>1, <1>2 DEF EmptyLists
  <2>3. QED
    BY <1>2, <2>1, <2>2 DEF EmptyLists
<1>8. HolderInv'
  <2>1. Contents(o)' = Pending(u) /\ Pending(u)' = {}
    BY <1>1 DEF Contents, Pending
  <2>2. \A q \in Ops \ {o} : Contents(q)' = Contents(q)
    BY <1>2 DEF Contents
  <2>3. \A v \in Updates \ {u} : Pending(v)' = Pending(v)
    BY <1>2 DEF Pending
  <2>4. ended' = ended
    BY <1>2
  <2>5. QED
    BY <2>1, <2>2, <2>3, <2>4 DEF HolderInv
<1>9. QED
  BY <1>4, <1>5, <1>6, <1>7, <1>8

\* or stays out of an operation that reads.
LEMMA ReadCallKeeps ==
    ASSUME Inv, BlobInv, NEW c \in Containers, NEW names \in NameLists, NEW o \in Ops,
           read_blob_data_async(c, names, o)
    PROVE  BlobInv'
<1> USE DEF BlobInv
<1>1. PICK n \in Nat : names \in [1..n -> Blobs] /\ Len(names) = n
  <2>1. PICK n \in 1..MaxBlobReads : names \in [1..n -> Blobs]
    BY DEF NameLists
  <2>2. n \in Nat
    BY SaveConstants
  <2>3. QED
    BY <2>1, <2>2
<1>2. PICK ts : ts = [i \in 1..n |-> [blob |-> names[i], data |-> Empty]]
  OBVIOUS
<1>3. ts \in Seq(Stored)
  <2>1. \A i \in 1..n : [blob |-> names[i], data |-> Empty] \in Stored
    BY <1>1 DEF Stored
  <2>2. ts \in [1..n -> Stored]
    BY <1>2, <2>1
  <2>3. QED
    BY <2>2
<1>4. /\ op[o].kind = "none" /\ op'[o].kind = "read" /\ op'[o].at = "open" /\ op'[o].todo = ts
      /\ \A q \in Ops \ {o} : op'[q] = op[q]
      /\ UNCHANGED <<fileVars, update, historyVars>>
  BY <1>1, <1>2 DEF read_blob_data_async, Start, Inv, Shapes, poolVars
<1>5. TornInv' /\ EmptyFiles' /\ NewInv'
  BY <1>4, FilesStay DEF fileVars, historyVars
<1>6. BlobTypes'
  <2>1. Stored' = Stored
    BY <1>4 DEF Stored, historyVars
  <2>2. ASSUME NEW q \in Ops
        PROVE  /\ op'[q].todo \in Seq(Stored)
               /\ op'[q].at \in {"write", "move", "read"} => op'[q].todo # <<>>
               /\ op'[q].kind # "submit" => origin[q] = NoOrigin
    BY <1>3, <1>4 DEF BlobTypes
  <2>3. QED
    BY <1>4, <2>1, <2>2 DEF BlobTypes, fileVars, historyVars
<1>7. Remaining' /\ EmptyLists'
  BY <1>4 DEF Remaining, EmptyLists, historyVars
<1>8. HolderInv'
  <2>1. (\A u \in Updates : Pending(u)' = Pending(u)) /\ (\A q \in Ops : Contents(q)' = Contents(q))
    BY <1>4 DEF Pending, Contents, historyVars
  <2>2. QED
    BY <1>4, <2>1 DEF HolderInv, historyVars
<1>9. QED
  BY <1>5, <1>6, <1>7, <1>8

-----------------------------------------------------------------------------
(* The theorems                                                             *)

\* The files are what the last process left, and everything it made is over.
LEMMA RestartBlobs ==
    ASSUME BlobInv, Restart
    PROVE  BlobInv'
<1> USE DEF BlobInv
<1>1. /\ \A u \in Updates : update'[u] = NoUpdate
      /\ \A o \in Ops : op'[o] = NoOp /\ origin'[o] = NoOrigin
      /\ DOMAIN origin' = Ops /\ ended' = ended \cup 1..stamp
      /\ UNCHANGED <<fileVars, stamp, lost, spoiled, superseded>>
  BY DEF Restart
<1>2. /\ NoUpdate.writes = <<>> /\ NoOp.kind = "none" /\ NoOp.at = "idle" /\ NoOp.todo = <<>>
      /\ NoOrigin.writes = <<>> /\ NoOrigin.past = {} /\ <<>> \in Seq(Stored)
  BY DEF NoUpdate, NoOp, NoOrigin
<1>3. BlobTypes'
  <2>1. Stored' = Stored /\ ended' \subseteq 1..stamp
    BY <1>1 DEF Stored, BlobTypes
  <2>2. QED
    BY <1>1, <1>2, <2>1 DEF BlobTypes, fileVars
<1>4. Remaining' /\ EmptyLists'
  <2>1. \A u \in Updates : Len(update'[u].writes) = 0
    BY <1>1, <1>2
  <2>2. \A o \in Ops : op'[o].kind # "submit"
    BY <1>1, <1>2
  <2>3. \A u \in Updates : \A i \in 1..Len(update'[u].writes) : FALSE
    BY <2>1
  <2>4. QED
    BY <2>2, <2>3 DEF Remaining, EmptyLists
<1>5. TornInv' /\ EmptyFiles'
  BY <1>1, <1>2 DEF TornInv, TornOnlyByOverlap, EmptyFiles, EmptiedOnlyByRefusal, At, fileVars
<1>6. HolderInv'
  <2>1. (\A u \in Updates : Pending(u)' = {}) /\ (\A q \in Ops : Contents(q)' = {})
    BY <1>1, <1>2 DEF Pending, Contents
  <2>2. QED
    BY <2>1 DEF HolderInv
<1>7. NewInv'
  BY <1>1, <1>2 DEF NewInv, Clean, At, fileVars
<1>8. QED
  BY <1>3, <1>4, <1>5, <1>6, <1>7

LEMMA InitBlobs == Init => BlobInv
<1> SUFFICES ASSUME Init PROVE BlobInv
  OBVIOUS
<1>1. /\ NoUpdate.writes = <<>> /\ NoOp.kind = "none" /\ NoOp.at = "idle" /\ NoOp.todo = <<>>
      /\ NoOrigin.writes = <<>> /\ NoOrigin.past = {} /\ <<>> \in Seq(Stored)
  BY DEF NoUpdate, NoOp, NoOrigin
<1>2. /\ \A u \in Updates : update[u] = NoUpdate
      /\ \A o \in Ops : op[o] = NoOp /\ origin[o] = NoOrigin
      /\ \A p \in Places : disk[p] = Absent /\ part[p] = Absent /\ superseded[p] = {}
      /\ stamp = 0 /\ ended = {}
  BY DEF Init
<1>3. BlobTypes
  <2>1. DOMAIN part = Places /\ DOMAIN origin = Ops /\ DOMAIN superseded = Places
    BY DEF Init
  <2>2. stamp \in Nat /\ ended \subseteq 1..stamp
    BY <1>2
  <2>3. \A u \in Updates : update[u].writes \in Seq(Stored)
    BY <1>1, <1>2
  <2>4. ASSUME NEW o \in Ops
        PROVE  /\ op[o].todo \in Seq(Stored) /\ op[o].at = "idle"
               /\ origin[o].writes \in Seq(Stored) /\ origin[o].past \subseteq ended
               /\ origin[o] = NoOrigin
    BY <1>1, <1>2
  <2>5. QED
    BY <2>1, <2>2, <2>3, <2>4 DEF BlobTypes
<1>4. Remaining /\ EmptyLists
  <2>1. \A u \in Updates : Len(update[u].writes) = 0
    BY <1>1, <1>2
  <2>2. \A o \in Ops : op[o].kind # "submit"
    BY <1>1, <1>2
  <2>3. Remaining
    BY <2>2 DEF Remaining
  <2>4. EmptyLists
    BY <2>1, <2>2 DEF EmptyLists
  <2>5. QED
    BY <2>3, <2>4
<1>5. TornInv /\ EmptyFiles
  BY <1>1, <1>2, Marks DEF TornInv, TornOnlyByOverlap, EmptyFiles, EmptiedOnlyByRefusal, At
<1>6. HolderInv
  <2>1. (\A u \in Updates : Pending(u) = {}) /\ (\A q \in Ops : Contents(q) = {})
    BY <1>1, <1>2 DEF Pending, Contents
  <2>2. QED
    BY <2>1 DEF HolderInv
<1>7. NewInv
  BY <1>1, <1>2 DEF NewInv, Clean, At
<1>8. QED
  BY <1>3, <1>4, <1>5, <1>6, <1>7 DEF BlobInv

LEMMA NextBlobs == Inv /\ BlobInv /\ [Next]_vars => BlobInv'
<1> SUFFICES ASSUME Inv, BlobInv, [Next]_vars
             PROVE  BlobInv'
  OBVIOUS
<1>1. CASE Identify \/ initialize_provider
  BY <1>1, IdleBlobs DEF Identify, initialize_provider, poolVars
<1>2. CASE Call
  BY <1>2, CreateKeeps, GatherKeeps, RefusedKeeps, SubmitKeeps, ReadCallKeeps DEF Call
<1>3. CASE \E o \in Ops : Work(o)
  BY <1>3, WorkBlobs
<1>4. CASE Restart
  BY <1>4, RestartBlobs
<1>5. CASE UNCHANGED vars
  BY <1>5, IdleBlobs DEF vars, poolVars
<1>6. QED
  BY <1>1, <1>2, <1>3, <1>4, <1>5 DEF Next, Use

LEMMA BlobInvariant == Spec => []BlobInv
BY InitInv, NextInv, InitBlobs, NextBlobs, PTL DEF Spec

\* For every number of operations, blobs and restarts, a blob is torn only where a write
\* failed under the move of another operation.
THEOREM BlobsStayWhole == Spec => []TornOnlyByOverlap
<1>1. BlobInv => TornOnlyByOverlap
  BY DEF BlobInv, TornInv
<1>2. QED
  BY <1>1, BlobInvariant, PTL

\* For every value of the constants, a blob is emptied only after a refused call of
\* submit_update_async had dropped the data of a pending write of it.
THEOREM BlobsKeepTheirData == Spec => []EmptiedOnlyByRefusal
<1>1. BlobInv => EmptiedOnlyByRefusal
  BY DEF BlobInv, EmptyFiles
<1>2. QED
  BY <1>1, BlobInvariant, PTL

\* For every value of the constants, a blob an update has replaced does not go back to
\* what was over when that update was submitted.
THEOREM OldNeverReturns == Spec => []NewestKept
<1>1. BlobInv => NewestKept
  BY DEF BlobInv, NewInv, Clean, NewestKept
<1>2. QED
  BY <1>1, BlobInvariant, PTL

=============================================================================
