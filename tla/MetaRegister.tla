---------------------------- MODULE MetaRegister -----------------------------
(***************************************************************************)
(* What core/include/bl_meta.h promises of the boot metadata, with no      *)
(* flash in sight: one authoritative record, which a commit replaces in a  *)
(* single step or not at all, whatever fails and whenever power is lost.   *)
(* Only bl_meta_erase_all may take a record away, and it is not atomic: an *)
(* interrupted one may expose an older record.                             *)
(***************************************************************************)
EXTENDS BlProto

CONSTANTS
    MetaRecord,   \* the records a commit can write
    None          \* no record, no request, no result yet

VARIABLES
    cur,          \* the authoritative record, what bl_meta_read returns
    request,      \* the record that the commit in progress is to install
    wiping,       \* bl_meta_erase_all is in progress
    outcome       \* what the last operation returned, None while it runs

regVars == <<cur, request, wiping, outcome>>

Init ==
    /\ cur = None
    /\ request = None
    /\ wiping = FALSE
    /\ outcome = None

Idle == request = None /\ ~wiping

\* A commit is called; the record follows the authoritative one.
Request ==
    /\ Idle
    /\ \E r \in MetaRecord :
          /\ r.seq = (IF cur = None THEN 1 ELSE cur.seq + 1)
          /\ request' = r
    /\ outcome' = None
    /\ UNCHANGED <<cur, wiping>>

\* A call that is refused before it touches anything.
Refuse ==
    /\ Idle
    /\ outcome' = "BL_ERR_INVALID_ARGUMENT"
    /\ UNCHANGED <<cur, request, wiping>>

\* The instant at which the new record becomes the authoritative one.
Install ==
    /\ request # None
    /\ cur' = request
    /\ UNCHANGED <<request, wiping, outcome>>

\* BL_OK is returned only for a record that is authoritative.
Succeed ==
    /\ request # None
    /\ cur = request
    /\ request' = None
    /\ outcome' = BL_OK
    /\ UNCHANGED <<cur, wiping>>

\* An error is returned only while the old record is still authoritative.
Fail ==
    /\ request # None
    /\ cur # request
    /\ request' = None
    /\ outcome' \in BL_ERR
    /\ UNCHANGED <<cur, wiping>>

\* Power is lost before, at or after the installation.
PowerLoss ==
    /\ request # None
    /\ request' = None
    /\ outcome' = None
    /\ UNCHANGED <<cur, wiping>>

BeginWipe ==
    /\ Idle
    /\ wiping' = TRUE
    /\ outcome' = None
    /\ UNCHANGED <<cur, request>>

\* A step of bl_meta_erase_all, its error return, or its interruption.
Wipe ==
    /\ wiping
    /\ \/ cur' = cur
       \/ cur' = None
       \/ cur # None /\ cur' \in MetaRecord /\ cur'.seq < cur.seq
    /\ wiping' \in BOOLEAN
    /\ outcome' \in {None} \cup Result
    /\ outcome' = BL_OK => cur' = None
    /\ UNCHANGED request

Next ==
    \/ Request \/ Refuse \/ Install \/ Succeed \/ Fail \/ PowerLoss
    \/ BeginWipe \/ Wipe

Spec == Init /\ [][Next]_regVars
=============================================================================
