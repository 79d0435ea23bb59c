------------------------------- MODULE BlBoot --------------------------------
(***************************************************************************)
(* The boot path and the trial bookkeeping of core/src/bl_core.c:          *)
(* bl_core_boot, bl_core_select_slot, bl_core_mark_pending and             *)
(* bl_core_confirm, on a device whose slots are updated, decay and lose    *)
(* power.                                                                  *)
(*                                                                         *)
(* A slot holds an image that bl_core_validate_slot accepts, or Invalid.   *)
(* bl_meta_commit is one step that happens or fails: BlMeta is shown to    *)
(* implement exactly that (MetaRegister), so power loss inside a commit is *)
(* power loss just before or just after it.  The sequence number is left   *)
(* out.  What decides between booting and staying in the update loop, and  *)
(* what resets a hanging application, is not in the repository: both are   *)
(* left to the environment.                                                *)
(***************************************************************************)
EXTENDS BlProto

CONSTANTS
    Image,                  \* firmware images
    Version,                \* fw_version of an image
    Refused,                \* images whose entry point the port refuses
    Invalid,                \* content that does not validate
    None,                   \* no record, no slot, no result
    BL_MAX_BOOT_ATTEMPTS,   \* boots granted to a trial image
    MaxFaults,              \* bound: failed commits between two nominations
    MaxUpdates              \* bound: images installed plus slots nominated

VARIABLES
    slot,          \* what each slot holds
    meta,          \* what bl_meta_read returns
    pc,            \* "reset": bl_core_boot begins; "select": trial state is
                   \* advanced; "app": an image runs; "loader": update loop
    running,       \* the slot control was transferred to, None in the loader
    result,        \* what bl_core_boot or bl_core_confirm last returned
    updates,       \* installations and nominations so far
    armed,         \* history: the slot last nominated and not confirmed since
    fallbackKept,  \* history: the other slot was valid ever since
    starts,        \* history: how often `armed' was started since
    faults         \* history: commits that failed since

history == <<armed, fallbackKept, starts, faults>>
vars == <<slot, meta, pc, running, result, updates, history>>

MetaRecord == [active_slot : Slot, state : BootState,
               boot_attempts : 0 .. BL_MAX_BOOT_ATTEMPTS]

ASSUME BootAssumption ==
    /\ BL_MAX_BOOT_ATTEMPTS \in Nat
    /\ MaxFaults \in Nat
    /\ MaxUpdates \in Nat
    /\ Version \in [Image -> Nat]
    /\ Refused \subseteq Image
    /\ Invalid \notin Image
    /\ None \notin Slot
    /\ None \notin MetaRecord
    /\ None \notin Result

\* bl_core_validate_slot(s) == BL_OK.
valid(s) == slot[s] # Invalid

-----------------------------------------------------------------------------
(* Boot selection *)

\* Without metadata the highest version wins, slot 0 on a tie; None when
\* neither slot validates.
select_by_version ==
    IF valid(0) /\ ~ (valid(1) /\ Version[slot[1]] > Version[slot[0]]) THEN 0
    ELSE IF valid(1) THEN 1 ELSE None

\* The slot to boot, None for BL_ERR_NO_VALID_IMAGE.
select_ignores_record == select_by_version    \* fault: the record is not used
bl_core_select_slot ==
    IF meta = None THEN select_by_version
    ELSE IF valid(meta.active_slot) THEN meta.active_slot
    ELSE IF valid(other(meta.active_slot)) THEN other(meta.active_slot)
    ELSE None

-----------------------------------------------------------------------------
(* Metadata commits *)

Rec(s, st, n) == [active_slot |-> s, state |-> st, boot_attempts |-> n]

\* bl_meta_commit as its callers see it: installed, or failed and unchanged.
CommitOk(rec) == meta' = rec /\ UNCHANGED faults
CommitFails ==
    /\ faults < MaxFaults
    /\ meta' = meta
    /\ faults' = faults + 1

OnTrial == meta # None /\ meta.state = BL_BOOT_TRIAL

Keep == meta' = meta /\ UNCHANGED faults

-----------------------------------------------------------------------------
(* bl_core_boot *)

attempts_left_late ==        \* fault: off by one in the attempt limit
    meta.boot_attempts <= BL_MAX_BOOT_ATTEMPTS
attempts_left == meta.boot_attempts < BL_MAX_BOOT_ATTEMPTS

fallback_is_valid_blind == meta.active_slot \in Slot   \* fault: not validated
fallback_is_valid == valid(other(meta.active_slot))

\* The attempt is recorded before the jump.
CountAttempt ==
    /\ OnTrial
    /\ attempts_left
    /\ \/ CommitOk(Rec(meta.active_slot, BL_BOOT_TRIAL, meta.boot_attempts + 1))
       \/ CommitFails

\* The attempts are used up and the other slot validates.
revert_dropped ==            \* fault: the exhausted image is kept
    OnTrial /\ ~ attempts_left /\ fallback_is_valid /\ Keep
Revert ==
    /\ OnTrial
    /\ ~ attempts_left
    /\ fallback_is_valid
    /\ \/ CommitOk(Rec(other(meta.active_slot), BL_BOOT_CONFIRMED, 0))
       \/ CommitFails

\* The attempts are used up and there is nothing to revert to.
KeepFailing ==
    /\ OnTrial
    /\ ~ attempts_left
    /\ ~ fallback_is_valid
    /\ Keep

\* advance_trial_state; a failed commit is not propagated.
AdvanceTrial ==
    /\ pc = "reset"
    /\ \/ ~ OnTrial /\ Keep
       \/ CountAttempt
       \/ Revert
       \/ KeepFailing
    /\ pc' = "select"
    /\ UNCHANGED <<slot, running, result, updates, armed, fallbackKept, starts>>

\* Saturates one above the largest count that AttemptBound allows.
StartsCap == BL_MAX_BOOT_ATTEMPTS + MaxFaults + 1
CountStart(s) ==
    starts' = IF s = armed /\ starts < StartsCap THEN starts + 1 ELSE starts

\* bl_jump_to_app accepts the vector table of the image.
entry_usable(s) == slot[s] \notin Refused

\* Selection and jump; the port returns only when it refuses.
SelectAndJump ==
    /\ pc = "select"
    /\ LET s == bl_core_select_slot IN
       \/ /\ s = None
          /\ pc' = "loader"
          /\ result' = "BL_ERR_NO_VALID_IMAGE"
          /\ UNCHANGED <<running, starts>>
       \/ /\ s # None
          /\ ~ entry_usable(s)
          /\ pc' = "loader"
          /\ result' = "BL_ERR_JUMP_REFUSED"
          /\ UNCHANGED <<running, starts>>
       \/ /\ s # None
          /\ entry_usable(s)
          /\ pc' = "app"
          /\ running' = s
          /\ result' = None
          /\ CountStart(s)
    /\ UNCHANGED <<slot, meta, updates, armed, fallbackKept, faults>>

-----------------------------------------------------------------------------
(* bl_core_confirm, called by an application that sees fit to, or never *)

Confirm ==
    /\ pc = "app"
    /\ \/ /\ meta = None
          /\ result' = "BL_ERR_NO_METADATA"
          /\ UNCHANGED <<meta, faults, armed>>
       \/ /\ meta # None /\ ~ OnTrial
          /\ result' = BL_OK
          /\ UNCHANGED <<meta, faults, armed>>
       \/ /\ OnTrial
          /\ CommitOk(Rec(meta.active_slot, BL_BOOT_CONFIRMED, 0))
          /\ result' = BL_OK
          /\ armed' = None
       \/ /\ OnTrial
          /\ CommitFails
          /\ result' \in CommitError
          /\ UNCHANGED armed
    /\ UNCHANGED <<slot, pc, running, updates, fallbackKept, starts>>

-----------------------------------------------------------------------------
(* The update loop.  ERASE_SLOT and the WRITEs that complete an image are  *)
(* seen here by what they do to the validity of a slot; BlSession has the  *)
(* handlers.                                                               *)

\* The history after a slot changes.
FallbackHistory(sl) ==
    fallbackKept' = (fallbackKept /\ armed # None /\ sl[other(armed)] # Invalid)

EraseSlot(s) ==
    /\ pc = "loader"
    /\ slot' = [slot EXCEPT ![s] = Invalid]
    /\ FallbackHistory(slot')
    /\ UNCHANGED <<meta, pc, running, result, updates, armed, starts, faults>>

CompleteImage(s, i) ==
    /\ pc = "loader"
    /\ slot[s] = Invalid
    /\ updates < MaxUpdates
    /\ slot' = [slot EXCEPT ![s] = i]
    /\ updates' = updates + 1
    /\ UNCHANGED <<meta, pc, running, result, history>>

\* handle_set_active, bl_core_mark_pending: the slot is validated first; a
\* refusal or a failed commit changes nothing here.
mark_pending_accepts(s) == valid(s)

SetActive(s) ==
    /\ pc = "loader"
    /\ mark_pending_accepts(s)
    /\ updates < MaxUpdates
    /\ meta' = Rec(s, BL_BOOT_TRIAL, 0)
    /\ updates' = updates + 1
    /\ armed' = s
    /\ fallbackKept' = valid(other(s))
    /\ starts' = 0
    /\ faults' = 0
    /\ UNCHANGED <<slot, pc, running, result>>

-----------------------------------------------------------------------------
(* The environment *)

\* The device stays in, or enters, the update loop instead of booting.
EnterLoader ==
    /\ pc = "reset"
    /\ pc' = "loader"
    /\ UNCHANGED <<slot, meta, running, result, updates, history>>

\* RESET, a watchdog, the application, or the supply: flash persists.
Restart ==
    /\ pc # "reset"
    /\ pc' = "reset"
    /\ running' = None
    /\ result' = None
    /\ UNCHANGED <<slot, meta, updates, history>>

\* Stored data changes underneath the bootloader (sim_corrupt).
Decay(s) ==
    /\ valid(s)
    /\ slot' = [slot EXCEPT ![s] = Invalid]
    /\ FallbackHistory(slot')
    /\ UNCHANGED <<meta, pc, running, result, updates, armed, starts, faults>>

\* Firmware programmed directly, no metadata.
Init ==
    /\ slot \in [Slot -> Image \cup {Invalid}]
    /\ meta = None
    /\ pc = "reset"
    /\ running = None
    /\ result = None
    /\ updates = 0
    /\ armed = None
    /\ fallbackKept = FALSE
    /\ starts = 0
    /\ faults = 0

Next ==
    \/ AdvanceTrial
    \/ SelectAndJump
    \/ Confirm
    \/ EnterLoader
    \/ Restart
    \/ \E s \in Slot :
          \/ EraseSlot(s)
          \/ SetActive(s)
          \/ Decay(s)
          \/ \E i \in Image : CompleteImage(s, i)

Spec == Init /\ [][Next]_vars

\* bl_core_boot is straight-line code: once entered it goes on.  Nothing is
\* assumed of the operator, the application or the supply.
FairSpec == Spec /\ WF_vars(SelectAndJump)

-----------------------------------------------------------------------------
(* Properties *)

\* Every variable keeps its type; the attempt counter stays within its limit.
TypeOK ==
    /\ slot \in [Slot -> Image \cup {Invalid}]
    /\ meta \in MetaRecord \cup {None}
    /\ pc \in {"reset", "select", "app", "loader"}
    /\ running \in Slot \cup {None}
    /\ result \in Result \cup {None}
    /\ updates \in 0 .. MaxUpdates
    /\ armed \in Slot \cup {None}
    /\ fallbackKept \in BOOLEAN
    /\ starts \in 0 .. StartsCap
    /\ faults \in 0 .. MaxFaults

\* A nominated slot with a fallback that stays valid.
TrialWithFallback == armed # None /\ fallbackKept

\* The inductive form of AttemptBound.  While the trial lasts, each start of
\* the image is paid for by an attempt in the record or by a failed commit,
\* and the next one is paid for before the jump (bl_core.c:303-336); after
\* the revert the record names the fallback.
TrialInv ==
    TrialWithFallback =>
        /\ valid(other(armed))
        /\ meta # None
        /\ \/ /\ meta.state = BL_BOOT_TRIAL
              /\ meta.active_slot = armed
              /\ starts <= meta.boot_attempts + faults
              /\ pc = "select" => starts < meta.boot_attempts + faults
           \/ /\ meta.state = BL_BOOT_CONFIRMED
              /\ meta.active_slot = other(armed)
              /\ starts <= BL_MAX_BOOT_ATTEMPTS + faults

\* A nominated image is started at most BL_MAX_BOOT_ATTEMPTS times without a
\* confirmation while there is an image to revert to, however often it
\* hangs, resets or loses power, plus once per commit that flash refused.
AttemptBound ==
    TrialWithFallback => starts <= BL_MAX_BOOT_ATTEMPTS + faults

\* The image that runs is in the slot the record nominates as long as that
\* slot validates, also when the record changed earlier in the same boot.
RunsNominated ==
    pc = "app" /\ meta # None =>
        running = meta.active_slot \/ ~ valid(meta.active_slot)

\* The record moves to another slot only when that slot validates, whether
\* by SET_ACTIVE or by a revert (bl_core.c:347, 396).
SwitchesToValid ==
    [][\A s \in Slot :
          /\ meta' # None /\ meta'.active_slot = s
          /\ meta # None => meta.active_slot # s
          => valid(s)]_vars

\* A trial ends: if the device keeps being booted, the record of a trial is
\* eventually confirmed or reverted, or there is nothing to revert to
\* (bl_core.c:338-349).
TrialEnds ==
    []<>(pc = "select") =>
        (OnTrial ~> (~ OnTrial \/ ~ valid(other(meta.active_slot))))

\* bl_core.h:119 says of bl_core_confirm: "Confirm the running image as
\* healthy."
ConfirmsRunning ==
    pc = "app" /\ result = BL_OK => meta.active_slot = running
=============================================================================
