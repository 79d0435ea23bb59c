------------------------------ MODULE BlDevice -------------------------------
(***************************************************************************)
(* The boot path of bl_core.c on the metadata store of bl_meta.c: the      *)
(* device of BlBoot, with bl_meta_commit as BlMeta has it, one action per  *)
(* flash operation.  Power can be lost between and inside the operations   *)
(* of the commits that count an attempt, revert, confirm and nominate, and *)
(* they can fail, aloud or silently.                                       *)
(*                                                                         *)
(* Both metadata regions start and end on an erase page, as on the host    *)
(* port.  Stored images do not change while a commit runs (sim_corrupt is  *)
(* called between operations of the device).                               *)
(***************************************************************************)
EXTENDS BlMeta

CONSTANTS
    Image, Version, Refused, Invalid,
    MaxFaults, MaxUpdates          \* as in BlBoot

VARIABLES
    slot, running, updates,
    armed, fallbackKept, starts, faults,      \* as in BlBoot
    returned,   \* `result' of BlBoot; `pc' and `result' are those of BlMeta
    where       \* `pc' of BlBoot, or the caller of the commit in progress:
                \* "advance", "confirm", "set_active"

storeVars == <<region, aligned, pc, record, target, result>>
history == <<armed, fallbackKept, starts, faults>>
deviceVars == <<slot, running, returned, updates, history, where, storeVars>>

\* A record without its sequence number, and what bl_meta_read returns.
Fields(r) == [active_slot |-> r.active_slot, state |-> r.state,
              boot_attempts |-> r.boot_attempts]
Meta == IF bl_meta_read(region) = None THEN None ELSE Fields(bl_meta_read(region))

ASSUME DeviceAssumption ==
    /\ None \notin {Fields(r) : r \in MetaRecord}
    /\ MaxFaults \in Nat
    /\ MaxUpdates \in Nat

InCommit == where \in {"advance", "confirm", "set_active"}

\* The record being committed is the authoritative one already.
Installed == InCommit /\ bl_meta_read(region) = record

\* Seen from BlBoot, a commit takes place when its record is installed; the
\* rest of the call is invisible.
BootPc ==
    CASE where = "advance"    -> IF Installed THEN "select" ELSE "reset"
      [] where = "confirm"    -> "app"
      [] where = "set_active" -> "loader"
      [] OTHER                -> where
BootResult == IF where = "confirm" /\ Installed THEN BL_OK ELSE returned

Boot == INSTANCE BlBoot WITH meta <- Meta, pc <- BootPc, result <- BootResult

-----------------------------------------------------------------------------
(* Calls of bl_meta_commit *)

Commit(caller, s, st, n) ==
    /\ CommitBegin(s, st, n)
    /\ where' = caller
    /\ UNCHANGED <<slot, running, returned, updates, history>>

\* advance_trial_state: an attempt is counted, the trial is reverted, or
\* there is nothing to do.
revert_to_trial ==           \* fault: the fallback is put on trial itself
    /\ where = "reset"
    /\ Boot!OnTrial
    /\ \/ /\ Boot!attempts_left
          /\ Commit("advance", Meta.active_slot, BL_BOOT_TRIAL, Meta.boot_attempts + 1)
       \/ /\ ~ Boot!attempts_left /\ Boot!fallback_is_valid
          /\ Commit("advance", other(Meta.active_slot), BL_BOOT_TRIAL, 0)
AdvanceCommits ==
    /\ where = "reset"
    /\ Boot!OnTrial
    /\ \/ /\ Boot!attempts_left
          /\ Commit("advance", Meta.active_slot, BL_BOOT_TRIAL, Meta.boot_attempts + 1)
       \/ /\ ~ Boot!attempts_left /\ Boot!fallback_is_valid
          /\ Commit("advance", other(Meta.active_slot), BL_BOOT_CONFIRMED, 0)

AdvanceReturns ==
    /\ where = "reset"
    /\ Boot!OnTrial => ~ Boot!attempts_left /\ ~ Boot!fallback_is_valid
    /\ where' = "select"
    /\ UNCHANGED <<slot, running, returned, updates, history, storeVars>>

\* bl_core_confirm, called by the application.
ConfirmCommits ==
    /\ where = "app"
    /\ Boot!OnTrial
    /\ Commit("confirm", Meta.active_slot, BL_BOOT_CONFIRMED, 0)

ConfirmReturns ==
    /\ where = "app"
    /\ ~ Boot!OnTrial
    /\ returned' = IF Meta = None THEN "BL_ERR_NO_METADATA" ELSE BL_OK
    /\ UNCHANGED <<slot, running, updates, history, where, storeVars>>

\* handle_set_active, bl_core_mark_pending: the slot is validated first.
SetActiveCommits(s) ==
    /\ where = "loader"
    /\ Boot!valid(s)
    /\ updates < MaxUpdates
    /\ Commit("set_active", s, BL_BOOT_TRIAL, 0)

-----------------------------------------------------------------------------
(* The commit *)

\* The history follows the record: it changes when a record is installed.
Follow ==
    IF ~ (Installed' /\ ~ Installed) THEN UNCHANGED <<updates, history>>
    ELSE CASE where = "set_active" ->
                /\ updates' = updates + 1
                /\ armed' = record.active_slot
                /\ fallbackKept' = Boot!valid(other(record.active_slot))
                /\ starts' = 0
                /\ faults' = 0
           [] where = "confirm" ->
                /\ armed' = None
                /\ UNCHANGED <<updates, fallbackKept, starts, faults>>
           [] OTHER -> UNCHANGED <<updates, history>>

\* A failing commit of the trial bookkeeping: at most MaxFaults of them
\* between two nominations.
MayFail == where = "set_active" \/ faults < MaxFaults

CommitStep ==
    /\ CommitErase \/ CommitBody \/ CommitCrc
    /\ Junk \in {region'[target].body, region'[target].crc} => MayFail
    /\ where' = where
    /\ Follow
    /\ UNCHANGED <<slot, running, returned>>

\* Where the caller goes on.  advance_trial_state ignores the result.
Caller ==
    CASE where = "advance" -> "select"
      [] where = "confirm" -> "app"
      [] where = "set_active" -> "loader"

CommitReturn ==
    /\ \/ CommitVerify
       \/ MayFail /\ (CommitEraseError \/ CommitProgramError)
    /\ where' = Caller
    /\ returned' = IF where = "confirm" THEN result' ELSE returned
    /\ faults' = IF result' = BL_OK \/ where = "set_active" THEN faults ELSE faults + 1
    /\ UNCHANGED <<slot, running, updates, armed, fallbackKept, starts>>

-----------------------------------------------------------------------------
(* Selection, and the environment *)

SelectAndJump ==
    /\ where = "select"
    /\ LET s == Boot!bl_core_select_slot IN
       \/ /\ s # None => ~ Boot!entry_usable(s)
          /\ where' = "loader"
          /\ returned' = IF s = None THEN "BL_ERR_NO_VALID_IMAGE" ELSE "BL_ERR_JUMP_REFUSED"
          /\ UNCHANGED <<running, starts>>
       \/ /\ s # None /\ Boot!entry_usable(s)
          /\ where' = "app"
          /\ running' = s
          /\ returned' = None
          /\ Boot!CountStart(s)
    /\ UNCHANGED <<slot, updates, armed, fallbackKept, faults, storeVars>>

EnterLoader ==
    /\ where = "reset"
    /\ where' = "loader"
    /\ UNCHANGED <<slot, running, returned, updates, history, storeVars>>

\* A reset between calls, or the supply fails inside a commit.
Restart ==
    /\ \/ where # "reset" /\ ~ InCommit /\ UNCHANGED storeVars
       \/ PowerLoss
    /\ where' = "reset"
    /\ running' = None
    /\ returned' = None
    /\ UNCHANGED <<slot, updates, history>>

\* ERASE_SLOT, or stored data that changes underneath the bootloader.
Destroy(s) ==
    /\ ~ InCommit
    /\ where = "loader" \/ Boot!valid(s)
    /\ slot' = [slot EXCEPT ![s] = Invalid]
    /\ Boot!FallbackHistory(slot')
    /\ UNCHANGED <<running, returned, updates, armed, starts, faults, where, storeVars>>

CompleteImage(s, i) ==
    /\ where = "loader"
    /\ slot[s] = Invalid
    /\ updates < MaxUpdates
    /\ slot' = [slot EXCEPT ![s] = i]
    /\ updates' = updates + 1
    /\ UNCHANGED <<running, returned, history, where, storeVars>>

DeviceInit ==
    /\ slot \in [Slot -> Image \cup {Invalid}]
    /\ where = "reset"
    /\ running = None /\ returned = None
    /\ updates = 0
    /\ armed = None /\ fallbackKept = FALSE /\ starts = 0 /\ faults = 0
    /\ region = [r \in Region |-> Erased]
    /\ aligned = Region
    /\ pc = "idle" /\ record = None /\ target = 0 /\ result = None

DeviceNext ==
    \/ AdvanceCommits \/ AdvanceReturns
    \/ ConfirmCommits \/ ConfirmReturns
    \/ CommitStep \/ CommitReturn
    \/ SelectAndJump \/ EnterLoader \/ Restart
    \/ \E s \in Slot :
          \/ SetActiveCommits(s)
          \/ Destroy(s)
          \/ \E i \in Image : CompleteImage(s, i)

DeviceSpec == DeviceInit /\ [][DeviceNext]_deviceVars

-----------------------------------------------------------------------------
(* Properties *)

\* The device over the two-region store implements the device over an
\* atomic record: whatever happens inside a commit, BlBoot allows it, and
\* what is proved of BlBoot (bounded trials, no switch to an invalid slot)
\* holds of the device.
RefinesBoot == Boot!Spec

\* A confirmation lasts: through resets, failing commits and power lost in
\* the middle of the next nomination, a CONFIRMED record is replaced by
\* nothing but the trial of a slot that validates (bl_core.c:321, 401, 414).
ConfirmationLasts ==
    [][Meta # None /\ Meta.state = BL_BOOT_CONFIRMED /\ Meta' # Meta =>
          /\ where = "set_active"
          /\ Meta' # None
          /\ Meta'.state = BL_BOOT_TRIAL /\ Meta'.boot_attempts = 0
          /\ Boot!valid(Meta'.active_slot)]_deviceVars
=============================================================================
