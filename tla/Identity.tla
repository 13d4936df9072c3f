------------------------------ MODULE Identity ------------------------------
(***************************************************************************)
(* gdk/identity.cxx: the identity of the local user, a number made once    *)
(* and kept in a file.  xuid() reads the file the first time it is called  *)
(* in a process and mints a new identity when it cannot; the answer stays  *)
(* for the life of the process, and the initialisation of a local static   *)
(* lets one thread in at a time and tries again after an exception.        *)
(*                                                                         *)
(* The file is rewritten in place.  What it holds is an identity, nothing  *)
(* (or less than a digit), or the first digits of one, which read back as  *)
(* another identity: Cut.  Random identities are taken to be distinct.     *)
(***************************************************************************)
CONSTANTS Ids,     \* what random_identity may return
          Cut,     \* the identity read from a file cut short
          Absent,  \* no such file
          Empty,   \* a file without a digit
          Nobody   \* no identity yet

ASSUME IdentityConstants ==
    /\ Cut \notin Ids
    /\ {Absent, Empty, Nobody} \cap (Ids \cup {Cut}) = {}

VARIABLES identity,  \* the file
          xuid,      \* the local static of xuid()
          minting,   \* "no", or how far the thread in xuid() has come
          minted,    \* history: the identities that random_identity has returned
          misread    \* history: a file with an identity could not be read

idVars == <<identity, xuid, minting, minted, misread>>

Users == Ids \cup {Cut}

IdInit ==
    /\ identity = Absent /\ xuid = Nobody
    /\ minting = "no" /\ minted = {} /\ misread = FALSE

\* read_identity finds a number in the file.
ReadIdentity ==
    /\ xuid = Nobody /\ minting = "no"
    /\ identity \in Users
    /\ xuid' = identity
    /\ UNCHANGED <<identity, minting, minted, misread>>

\* It finds none, or cannot open, size or read the file: the caller is not told which.
NoIdentity ==
    /\ xuid = Nobody /\ minting = "no"
    /\ minting' = "open"
    /\ misread' = (misread \/ identity \in Users)
    /\ UNCHANGED <<identity, xuid, minted>>

\* mint_identity: open_write truncates what is there,
OpenIdentity ==
    /\ minting = "open"
    /\ identity' = Empty
    /\ minting' = "write"
    /\ UNCHANGED <<xuid, minted, misread>>

\* and the number is written and becomes the user's.
WriteIdentity ==
    /\ minting = "write"
    /\ \E i \in Ids \ minted :
          identity' = i /\ xuid' = i /\ minted' = minted \cup {i}
    /\ minting' = "no"
    /\ UNCHANGED misread

\* Mutant of MintFails: the number is used although it was not written.
MintFails_Unnoticed ==
    /\ minting \in {"open", "write"}
    /\ \E i \in Ids \ minted : xuid' = i /\ minted' = minted \cup {i}
    /\ minting' = "no"
    /\ UNCHANGED <<identity, misread>>

\* No randomness, or the file cannot be opened or written to the end: an exception leaves
\* xuid(), and the next call tries again.
MintFails ==
    /\ minting \in {"open", "write"}
    /\ \/ UNCHANGED identity
       \/ minting = "write" /\ identity' = Cut
    /\ minting' = "no"
    /\ UNCHANGED <<xuid, minted, misread>>

IdStep == ReadIdentity \/ NoIdentity \/ OpenIdentity \/ WriteIdentity \/ MintFails

\* The process ends: a write that was under way has stored some of the digits, or none.
IdRestart ==
    /\ \/ UNCHANGED identity
       \/ minting = "write" /\ identity' = Cut
    /\ xuid' = Nobody /\ minting' = "no"
    /\ UNCHANGED <<minted, misread>>

=============================================================================
