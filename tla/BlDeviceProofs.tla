---------------------------- MODULE BlDeviceProofs ---------------------------
(***************************************************************************)
(* Proofs about BlDevice: the boot path over the two-region store          *)
(* implements the boot path over an atomic record, for every attempt       *)
(* limit, every width of the sequence counter and all images.  The         *)
(* invariant of the store and the lemmas about its steps are those of      *)
(* BlMetaProofs.                                                           *)
(***************************************************************************)
EXTENDS BlDevice, BlMetaProofs

-----------------------------------------------------------------------------
(* The inductive invariant *)

\* A record that differs from what bl_meta_read returns is being committed.
Pending == InCommit /\ bl_meta_read(region) # record

\* advance_trial_state commits a counted attempt or a revert.
AdvancePending ==
    Pending /\ where = "advance" =>
        /\ Boot!OnTrial
        /\ \/ /\ Boot!attempts_left
              /\ Fields(record) = Boot!Rec(Meta.active_slot, BL_BOOT_TRIAL, Meta.boot_attempts + 1)
           \/ /\ ~ Boot!attempts_left /\ Boot!fallback_is_valid
              /\ Fields(record) = Boot!Rec(other(Meta.active_slot), BL_BOOT_CONFIRMED, 0)

\* bl_core_confirm commits the confirmation of a trial.
ConfirmPending ==
    Pending /\ where = "confirm" =>
        /\ Boot!OnTrial
        /\ Fields(record) = Boot!Rec(Meta.active_slot, BL_BOOT_CONFIRMED, 0)

\* bl_core_mark_pending commits the nomination of a slot that validates.
SetActivePending ==
    Pending /\ where = "set_active" =>
        /\ Boot!valid(record.active_slot)
        /\ updates < MaxUpdates
        /\ Fields(record) = Boot!Rec(record.active_slot, BL_BOOT_TRIAL, 0)

\* A write that did not persist is one that was allowed to fail.
LostWrite ==
    pc \in {"crc", "verify"} /\ Junk \in {region[target].body, region[target].crc} => MayFail

\* A commit is under way in the caller exactly when it is in the store, and
\* nothing has been started before the trial state is advanced.
CallInv ==
    /\ where \in {"reset", "select", "app", "loader", "advance", "confirm", "set_active"}
    /\ InCommit <=> Committing
    /\ pc # "wipe"
    /\ where \in {"reset", "advance"} => running = None /\ returned = None

DeviceInv ==
    IInv /\ CallInv /\ AdvancePending /\ ConfirmPending /\ SetActivePending /\ LostWrite

-----------------------------------------------------------------------------
(* What the steps of the store do, seen through bl_meta_read *)

\* A record in RAM is a record; None is not.
LEMMA RecordTypes ==
    /\ MetaRecord \subseteq RawRecord
    /\ None \notin MetaRecord
    /\ IInv /\ Committing => record \in MetaRecord
<1>1. MetaRecord \subseteq RawRecord
  BY DEF MetaRecord, RawRecord, Slot, BL_SLOT_COUNT
<1> QED
  BY <1>1, MetaAssumption DEF IInv, MetaInv, TargetIsSpare

\* A store that is left alone.
LEMMA StoreKept ==
    ASSUME IInv, UNCHANGED storeVars
    PROVE  IInv' /\ Meta' = Meta /\ Committing' = Committing
<1>1. UNCHANGED vars
  BY DEF storeVars, vars
<1> QED
  BY <1>1, NextInv DEF vars, Meta, Committing

\* A commit begins: its record is not yet the authoritative one.
LEMMA BeginSeen ==
    ASSUME IInv, NEW s \in Slot, NEW st \in BootState,
           NEW n \in 0 .. BL_MAX_BOOT_ATTEMPTS, CommitBegin(s, st, n)
    PROVE  /\ IInv'
           /\ pc = "idle" /\ pc' = "erase"
           /\ region' = region
           /\ bl_meta_read(region') # record'
           /\ Fields(record') = [active_slot |-> s, state |-> st, boot_attempts |-> n]
           /\ record'.active_slot = s
<1>1. IInv'
  BY BeginInv DEF Slot, BL_SLOT_COUNT
<1>2. region \in Content /\ region' = region /\ pc = "idle" /\ pc' = "erase"
  BY DEF IInv, TypeOK, Content, CommitBegin
<1>3. /\ record'.seq = next_seq(region)
      /\ record'.active_slot = s
      /\ Fields(record') = [active_slot |-> s, state |-> st, boot_attempts |-> n]
  BY DEF CommitBegin, Fields
<1>4. record' \in MetaRecord
  BY <1>1, <1>2 DEF IInv, MetaInv, TargetIsSpare, Committing
<1>5. bl_meta_read(region) # record'
  <2>1. CASE bl_meta_read(region) = None
    BY <1>4, <2>1, RecordTypes
  <2>2. CASE bl_meta_read(region) # None
    <3>1. bl_meta_read(region).seq \in 0 .. MaxSeq
      BY <1>2, <2>2, ReadType DEF MetaRecord
    <3>2. record'.seq = bl_meta_read(region).seq + 1
      BY <1>3, <2>2, <3>1, NoWrap DEF next_seq
    <3> QED
      BY <3>1, <3>2, MetaAssumption
  <2> QED
    BY <2>1, <2>2
<1> QED
  BY <1>1, <1>2, <1>3, <1>5

\* Erasing the spare region and programming the body are invisible.
LEMMA EraseBodySeen ==
    ASSUME IInv, CommitErase \/ CommitBody
    PROVE  /\ IInv'
           /\ Committing /\ Committing' /\ pc' \in {"body", "crc"}
           /\ record' = record /\ target' = target
           /\ bl_meta_read(region) # record
           /\ bl_meta_read(region') = bl_meta_read(region)
<1>1. IInv'
  BY EraseInv, BodyInv
<1>2. /\ Committing /\ Committing' /\ pc' \in {"body", "crc"} /\ pc' # "wipe"
      /\ record' = record /\ target' = target
  BY DEF CommitErase, CommitBody, Committing
<1>3. pc = "erase" \/ ~ read_region(region[target])
  BY SpareUnreadable DEF CommitErase, CommitBody
<1>4. bl_meta_read(region) # record
  BY <1>2, <1>3, OldRules
<1>5. PICK r \in [body : Unit, crc : Unit] :
         region' = [region EXCEPT ![target] = r] /\ ~ read_region(r)
  <2>1. CASE CommitErase
    <3>1. Erased \in [body : Unit, crc : Unit]
      BY DEF Erased, Unit
    <3> QED
      BY <2>1, <3>1, Unreadable DEF CommitErase
  <2>2. CASE CommitBody
    <3>1. PICK u \in {record, Junk} : ProgramBody(u)
      BY <2>2 DEF CommitBody
    <3>2. region[target].crc = Blank
      BY <2>2 DEF CommitBody, IInv, MetaInv, SpareContent, Erased
    <3>3. u \in RawRecord \cup {Junk}
      BY <1>2, RecordTypes
    <3> DEFINE x == [body |-> u, crc |-> Blank]
    <3>4. x \in [body : Unit, crc : Unit] /\ ~ read_region(x)
      BY <3>3, Unreadable DEF Unit
    <3>5. region' = [region EXCEPT ![target] = x]
      BY <3>1, <3>2 DEF ProgramBody
    <3> QED
      BY <3>4, <3>5
  <2> QED
    BY <2>1, <2>2
<1>6. bl_meta_read(region') = bl_meta_read(region)
  BY <1>2, <1>3, <1>5, SpareInvisible
<1> QED
  BY <1>1, <1>2, <1>4, <1>6

\* Programming the checksum installs the record, or one of its units was
\* lost and nothing is to be seen.
LEMMA CrcSeen ==
    ASSUME IInv, CommitCrc
    PROVE  /\ IInv'
           /\ Committing /\ Committing' /\ pc' = "verify"
           /\ record' = record /\ target' = target
           /\ bl_meta_read(region) # record
           /\ \/ bl_meta_read(region') = record
              \/ bl_meta_read(region') = bl_meta_read(region)
<1>1. IInv'
  BY CrcInv
<1>2. /\ Committing /\ Committing' /\ pc' = "verify"
      /\ record' = record /\ target' = target
  BY DEF CommitCrc, Committing
<1>3. ~ read_region(region[target])
  BY SpareUnreadable DEF CommitCrc
<1>4. bl_meta_read(region) # record
  BY <1>2, <1>3, OldRules
<1>5. PICK u \in {record, Junk} : ProgramCrc(u)
  BY DEF CommitCrc
<1> DEFINE b == region[target].body
           r == [body |-> b, crc |-> u]
<1>6. b \in {record, Junk}
  BY DEF CommitCrc, IInv, MetaInv, SpareContent
<1>7. record \in MetaRecord /\ record \in RawRecord
  BY <1>2, RecordTypes
<1>8. r \in [body : Unit, crc : Unit] /\ region' = [region EXCEPT ![target] = r]
  BY <1>5, <1>6, <1>7 DEF Unit, ProgramCrc
<1>9. region \in Content /\ target \in Region
  BY DEF IInv, TypeOK, Content
<1>10. CASE read_region(r)
  <2>1. b = record
    BY <1>6, <1>10, MetaAssumption DEF read_region
  <2>2. region' \in Content /\ region'[target] = r
        /\ region'[1 - target] = region[1 - target]
    BY <1>8, <1>9 DEF Content, Region, BL_META_COUNT
  <2>3. bl_meta_read(region') = record
    BY <1>2, <1>10, <2>1, <2>2, NewRules
  <2> QED
    BY <1>1, <1>2, <1>4, <2>3
<1>11. CASE ~ read_region(r)
  <2>1. bl_meta_read(region') = bl_meta_read(region)
    BY <1>2, <1>3, <1>8, <1>11, SpareInvisible
  <2> QED
    BY <1>1, <1>2, <1>4, <2>1
<1> QED
  BY <1>10, <1>11

\* The read-back reports what bl_meta_read would show; it fails only when a
\* unit was lost.
LEMMA VerifySeen ==
    ASSUME IInv, CommitVerify
    PROVE  /\ IInv'
           /\ Committing /\ ~ Committing' /\ pc' = "idle" /\ region' = region
           /\ \/ bl_meta_read(region) = record /\ result' = BL_OK
              \/ /\ bl_meta_read(region) # record
                 /\ result' = "BL_ERR_FLASH_VERIFY"
                 /\ pc = "verify"
                 /\ Junk \in {region[target].body, region[target].crc}
<1>1. IInv'
  BY NextInv DEF Next
<1>2. /\ Committing /\ ~ Committing' /\ pc = "verify" /\ pc' = "idle"
      /\ region' = region
  BY DEF CommitVerify, Return, Committing
<1>3. region \in Content
  BY DEF IInv, TypeOK, Content
<1>4. CASE verify_matches(region[target], record)
  <2>1. bl_meta_read(region) = record
    BY <1>2, <1>3, <1>4, NewRules DEF verify_matches
  <2>2. result' = BL_OK
    BY <1>4 DEF CommitVerify, Return
  <2> QED
    BY <1>1, <1>2, <2>1, <2>2
<1>5. CASE ~ verify_matches(region[target], record)
  <2>1. /\ region[target].body \in {record, Junk}
        /\ region[target].crc \in {record, Junk}
    BY DEF CommitVerify, IInv, MetaInv, SpareContent
  <2>2. record \in MetaRecord /\ record \in RawRecord
    BY <1>2, RecordTypes
  <2>3. Junk \in {region[target].body, region[target].crc}
    <3>1. SUFFICES ASSUME region[target].body = record, region[target].crc = record
                   PROVE  FALSE
      BY <2>1
    <3> QED
      BY <1>5, <2>2, <3>1 DEF verify_matches, read_region, MetaRecord, state_is_valid,
                              Slot, BL_SLOT_COUNT
  <2>4. ~ read_region(region[target])
    BY <1>5, <2>1, MetaAssumption DEF verify_matches, read_region
  <2>5. bl_meta_read(region) # record
    BY <1>2, <2>4, OldRules
  <2>6. result' = "BL_ERR_FLASH_VERIFY"
    BY <1>5 DEF CommitVerify, Return
  <2> QED
    BY <1>1, <1>2, <2>3, <2>5, <2>6
<1> QED
  BY <1>4, <1>5

\* A flash operation that fails, or is cut short, before the checksum is
\* programmed is invisible.
LEMMA AbandonSeen ==
    ASSUME IInv, pc \in {"erase", "body", "crc"},
           \/ /\ pc = "erase"
              /\ \E r \in {region[target], Disturbed} :
                    region' = [region EXCEPT ![target] = r]
           \/ /\ pc = "body"
              /\ \E u \in HalfProgrammed : ProgramBody(u)
           \/ /\ pc = "crc"
              /\ \E u \in HalfProgrammed : ProgramCrc(u)
    PROVE  /\ Committing
           /\ bl_meta_read(region) # record
           /\ bl_meta_read(region') = bl_meta_read(region)
<1>1. CASE pc = "erase"
  <2>1. PICK r \in {region[target], Disturbed} : region' = [region EXCEPT ![target] = r]
    BY <1>1
  <2>2. r \in [body : Unit, crc : Unit]
    BY DEF IInv, TypeOK, Disturbed, Unit
  <2>3. bl_meta_read(region') = bl_meta_read(region)
    BY <1>1, <2>1, <2>2, SpareInvisible, Unreadable DEF Committing
  <2> QED
    BY <1>1, <2>3, OldRules DEF Committing
<1>2. CASE pc \in {"body", "crc"}
  <2>1. PICK u \in HalfProgrammed : \/ pc = "body" /\ ProgramBody(u)
                                    \/ pc = "crc" /\ ProgramCrc(u)
    BY <1>2
  <2>2. bl_meta_read(region') = bl_meta_read(region)
    BY <1>2, <2>1, HalfKept, SpareUnreadable, SpareInvisible
  <2> QED
    BY <1>2, <2>2, SpareUnreadable, OldRules
<1> QED
  BY <1>1, <1>2

\* A commit that returns an error before the read-back changed nothing.
LEMMA ErrorSeen ==
    ASSUME IInv, CommitEraseError \/ CommitProgramError
    PROVE  /\ IInv'
           /\ Committing /\ ~ Committing' /\ pc' = "idle"
           /\ bl_meta_read(region) # record
           /\ bl_meta_read(region') = bl_meta_read(region)
           /\ result' \in {"BL_ERR_FLASH_ERASE", "BL_ERR_FLASH_PROGRAM"}
<1>1. IInv'
  BY NextInv DEF Next
<1>2. /\ pc' = "idle" /\ ~ Committing'
      /\ result' \in {"BL_ERR_FLASH_ERASE", "BL_ERR_FLASH_PROGRAM"}
  BY DEF CommitEraseError, CommitProgramError, Return, Committing
<1>3. /\ Committing
      /\ bl_meta_read(region) # record
      /\ bl_meta_read(region') = bl_meta_read(region)
  BY AbandonSeen DEF CommitEraseError, CommitProgramError
<1> QED
  BY <1>1, <1>2, <1>3

\* Power lost inside a commit leaves the record that was authoritative.
LEMMA PowerLossSeen ==
    ASSUME IInv, PowerLoss, pc # "wipe"
    PROVE  /\ IInv'
           /\ Committing /\ ~ Committing' /\ pc' = "idle"
           /\ bl_meta_read(region') = bl_meta_read(region)
<1>1. IInv'
  BY NextInv DEF Next
<1>2. pc' = "idle" /\ ~ Committing'
  BY DEF PowerLoss, Return, Committing
<1>3. CASE pc = "verify"
  <2>1. region' = region
    BY <1>3 DEF PowerLoss
  <2> QED
    BY <1>1, <1>2, <1>3, <2>1 DEF Committing
<1>4. CASE pc # "verify"
  <2>1. Committing /\ bl_meta_read(region') = bl_meta_read(region)
    BY <1>4, AbandonSeen DEF PowerLoss
  <2> QED
    BY <1>1, <1>2, <2>1
<1> QED
  BY <1>3, <1>4

\* The vocabulary is the same in BlBoot.
LEMMA Vocabulary ==
    /\ Boot!BL_BOOT_TRIAL = BL_BOOT_TRIAL /\ Boot!BL_BOOT_CONFIRMED = BL_BOOT_CONFIRMED
    /\ Boot!BL_OK = BL_OK /\ BL_BOOT_TRIAL # BL_BOOT_CONFIRMED
    /\ Boot!Slot = Slot /\ Slot = {0, 1}
    /\ Boot!CommitError = CommitError
    /\ \A s : Boot!other(s) = other(s)
    /\ \A s \in Slot : other(s) \in Slot
BY DEF Boot!BL_BOOT_TRIAL, BL_BOOT_TRIAL, Boot!BL_BOOT_CONFIRMED, BL_BOOT_CONFIRMED,
       Boot!BL_OK, BL_OK, Boot!Slot, Slot, Boot!BL_SLOT_COUNT, BL_SLOT_COUNT,
       Boot!CommitError, CommitError, Boot!other, other

\* What bl_meta_read returns, for a reader of the fields.
LEMMA MetaType ==
    ASSUME IInv
    PROVE  /\ Meta # None => /\ Meta.active_slot \in Slot
                             /\ Meta.state \in BootState
                             /\ Meta.boot_attempts \in 0 .. BL_MAX_BOOT_ATTEMPTS
           /\ Meta = None <=> bl_meta_read(region) = None
<1>1. bl_meta_read(region) \in MetaRecord \cup {None}
  BY ReadType DEF IInv, TypeOK, Content
<1>2. CASE bl_meta_read(region) = None
  BY <1>2 DEF Meta
<1>3. CASE bl_meta_read(region) # None
  <2>1. Meta = Fields(bl_meta_read(region)) /\ bl_meta_read(region) \in MetaRecord
    BY <1>1, <1>3 DEF Meta
  <2>2. /\ Meta.active_slot \in Slot
        /\ Meta.state \in BootState
        /\ Meta.boot_attempts \in 0 .. BL_MAX_BOOT_ATTEMPTS
    BY <2>1 DEF Fields, MetaRecord
  <2>3. Meta # None
    BY <2>1, DeviceAssumption
  <2> QED
    BY <1>3, <2>2, <2>3
<1> QED
  BY <1>2, <1>3

-----------------------------------------------------------------------------
(* Outside a commit *)

\* The device is programmed: the store is erased, and so it looks to BlBoot.
LEMMA DeviceInitInv == DeviceInit => DeviceInv /\ Boot!Init
<1> SUFFICES ASSUME DeviceInit PROVE DeviceInv /\ Boot!Init
  OBVIOUS
<1>1. IInv
  <2>1. Init
    BY DEF DeviceInit, Init
  <2> QED
    BY <2>1, InitInv
<1>2. where = "reset" /\ pc = "idle" /\ ~ InCommit /\ ~ Committing
  BY DEF DeviceInit, InCommit, Committing
<1>3. DeviceInv
  BY <1>1, <1>2 DEF DeviceInit, DeviceInv, CallInv, AdvancePending, ConfirmPending,
                    SetActivePending, LostWrite, Pending
<1>4. Meta = None
  <2>1. region \in Content
    BY <1>1 DEF IInv, TypeOK, Content
  <2>2. ~ read_region(region[0]) /\ ~ read_region(region[1])
    BY Unreadable DEF DeviceInit, Region, BL_META_COUNT
  <2>3. bl_meta_read(region) = None
    BY <2>2 DEF bl_meta_read, find_newest, BL_META_COUNT
  <2> QED
    BY <2>3 DEF Meta
<1>5. BootPc = "reset" /\ BootResult = None
  BY <1>2 DEF BootPc, BootResult, DeviceInit
<1>6. Boot!Init
  BY <1>4, <1>5, Vocabulary DEF DeviceInit, Boot!Init
<1> QED
  BY <1>3, <1>6

\* A step outside a commit that leaves the store alone keeps the invariant,
\* and BlBoot sees where the device is.
LEMMA IdleStep ==
    ASSUME DeviceInv, ~ InCommit, UNCHANGED storeVars,
           where' \in {"reset", "select", "app", "loader"},
           where' = "reset" => running' = None /\ returned' = None
    PROVE  /\ DeviceInv'
           /\ Meta' = Meta
           /\ BootPc = where /\ BootPc' = where'
           /\ BootResult = returned /\ BootResult' = returned'
<1>1. IInv' /\ Meta' = Meta /\ Committing' = Committing
  BY StoreKept DEF DeviceInv
<1>2. ~ InCommit' /\ pc' = pc /\ pc = "idle"
  BY DEF InCommit, storeVars, DeviceInv, CallInv, Committing, IInv, TypeOK
<1>3. where \in {"reset", "select", "app", "loader"}
  BY DEF DeviceInv, CallInv, InCommit
<1>4. DeviceInv'
  BY <1>1, <1>2, <1>3 DEF DeviceInv, CallInv, AdvancePending, ConfirmPending,
                          SetActivePending, LostWrite, Pending, InCommit
<1>5. BootPc = where /\ BootResult = returned
  BY <1>3 DEF BootPc, BootResult
<1>6. BootPc' = where' /\ BootResult' = returned'
  BY DEF BootPc, BootResult
<1> QED
  BY <1>1, <1>4, <1>5, <1>6

\* A reset with nothing to advance.
LEMMA AdvanceReturnsStep ==
    ASSUME DeviceInv, AdvanceReturns
    PROVE  DeviceInv' /\ Boot!Next /\ Meta' = Meta
<1>1. /\ ~ InCommit /\ UNCHANGED storeVars
      /\ where = "reset" /\ where' = "select"
      /\ UNCHANGED <<slot, running, returned, updates, armed, fallbackKept, starts, faults>>
      /\ Boot!OnTrial => ~ Boot!attempts_left /\ ~ Boot!fallback_is_valid
  BY DEF AdvanceReturns, InCommit, history
<1>2. /\ DeviceInv' /\ Meta' = Meta
      /\ BootPc = where /\ BootPc' = where'
      /\ BootResult = returned /\ BootResult' = returned'
  BY <1>1, IdleStep
<1>3. Boot!AdvanceTrial
  BY <1>1, <1>2 DEF Boot!AdvanceTrial, Boot!Keep, Boot!KeepFailing
<1> QED
  BY <1>2, <1>3 DEF Boot!Next

\* A confirmation with nothing to confirm.
LEMMA ConfirmReturnsStep ==
    ASSUME DeviceInv, ConfirmReturns
    PROVE  DeviceInv' /\ Boot!Next /\ Meta' = Meta
<1>1. /\ ~ InCommit /\ UNCHANGED storeVars
      /\ where = "app" /\ where' = "app"
      /\ UNCHANGED <<slot, running, updates, armed, fallbackKept, starts, faults>>
      /\ ~ Boot!OnTrial
      /\ returned' = IF Meta = None THEN "BL_ERR_NO_METADATA" ELSE BL_OK
  BY DEF ConfirmReturns, InCommit, history
<1>2. /\ DeviceInv' /\ Meta' = Meta
      /\ BootPc = where /\ BootPc' = where'
      /\ BootResult = returned /\ BootResult' = returned'
  BY <1>1, IdleStep
<1>3. Boot!Confirm
  BY <1>1, <1>2, Vocabulary DEF Boot!Confirm
<1> QED
  BY <1>2, <1>3 DEF Boot!Next

\* Selection reads the record through bl_meta_read.
LEMMA SelectAndJumpStep ==
    ASSUME DeviceInv, SelectAndJump
    PROVE  DeviceInv' /\ Boot!Next /\ Meta' = Meta
<1>1. /\ ~ InCommit /\ UNCHANGED storeVars
      /\ where = "select" /\ where' \in {"loader", "app"}
  BY DEF SelectAndJump, InCommit
<1>2. /\ DeviceInv' /\ Meta' = Meta
      /\ BootPc = where /\ BootPc' = where'
      /\ BootResult = returned /\ BootResult' = returned'
  BY <1>1, IdleStep
<1>3. Boot!SelectAndJump
  BY <1>1, <1>2 DEF SelectAndJump, Boot!SelectAndJump
<1> QED
  BY <1>2, <1>3 DEF Boot!Next

\* The update loop is entered.
LEMMA EnterLoaderStep ==
    ASSUME DeviceInv, EnterLoader
    PROVE  DeviceInv' /\ Boot!Next /\ Meta' = Meta
<1>1. ~ InCommit /\ UNCHANGED storeVars /\ where = "reset" /\ where' = "loader"
  BY DEF EnterLoader, InCommit
<1>2. /\ DeviceInv' /\ Meta' = Meta
      /\ BootPc = where /\ BootPc' = where'
      /\ BootResult = returned /\ BootResult' = returned'
  BY <1>1, IdleStep
<1>3. Boot!EnterLoader
  BY <1>1, <1>2 DEF EnterLoader, Boot!EnterLoader, history, Boot!history
<1> QED
  BY <1>2, <1>3 DEF Boot!Next

\* A slot is erased, or decays.
LEMMA DestroyStep ==
    ASSUME DeviceInv, NEW s \in Slot, Destroy(s)
    PROVE  DeviceInv' /\ Boot!Next /\ Meta' = Meta
<1>1. /\ ~ InCommit /\ UNCHANGED <<running, returned, where, storeVars>>
      /\ where \in {"reset", "select", "app", "loader"}
      /\ where = "reset" => running = None /\ returned = None
  BY DEF Destroy, DeviceInv, CallInv, InCommit
<1>2. /\ DeviceInv' /\ Meta' = Meta
      /\ BootPc = where /\ BootPc' = where'
      /\ BootResult = returned /\ BootResult' = returned'
  BY <1>1, IdleStep
<1>3. CASE where = "loader"
  <2>1. Boot!EraseSlot(s)
    BY <1>1, <1>2, <1>3 DEF Destroy, Boot!EraseSlot
  <2> QED
    BY <1>2, <2>1, Vocabulary DEF Boot!Next
<1>4. CASE Boot!valid(s)
  <2>1. Boot!Decay(s)
    BY <1>1, <1>2, <1>4 DEF Destroy, Boot!Decay
  <2> QED
    BY <1>2, <2>1, Vocabulary DEF Boot!Next
<1> QED
  BY <1>3, <1>4 DEF Destroy

\* An image is completed in the update loop.
LEMMA CompleteImageStep ==
    ASSUME DeviceInv, NEW s \in Slot, NEW i \in Image, CompleteImage(s, i)
    PROVE  DeviceInv' /\ Boot!Next /\ Meta' = Meta
<1>1. /\ ~ InCommit /\ UNCHANGED <<running, returned, where, storeVars>>
      /\ where = "loader"
  BY DEF CompleteImage, InCommit
<1>2. /\ DeviceInv' /\ Meta' = Meta
      /\ BootPc = where /\ BootPc' = where'
      /\ BootResult = returned /\ BootResult' = returned'
  BY <1>1, IdleStep
<1>3. Boot!CompleteImage(s, i)
  BY <1>1, <1>2 DEF CompleteImage, Boot!CompleteImage, history, Boot!history
<1> QED
  BY <1>2, <1>3, Vocabulary DEF Boot!Next

-----------------------------------------------------------------------------
(* A commit begins *)

\* The call is in progress, its record is pending, BlBoot sees nothing.
LEMMA CommitBegins ==
    ASSUME DeviceInv, NEW caller \in {"advance", "confirm", "set_active"},
           NEW s \in Slot, NEW st \in BootState, NEW n \in 0 .. BL_MAX_BOOT_ATTEMPTS,
           Commit(caller, s, st, n)
    PROVE  /\ IInv' /\ LostWrite' /\ pc' = "erase" /\ Committing' /\ ~ InCommit
           /\ Meta' = Meta
           /\ where' = caller /\ Pending' /\ ~ Installed'
           /\ Fields(record') = Boot!Rec(s, st, n)
           /\ record'.active_slot = s
           /\ BootPc = where /\ BootResult = returned /\ BootResult' = returned'
           /\ UNCHANGED <<slot, running, returned, updates, armed, fallbackKept, starts, faults>>
<1>1. /\ CommitBegin(s, st, n) /\ where' = caller
      /\ UNCHANGED <<slot, running, returned, updates, armed, fallbackKept, starts, faults>>
  BY DEF Commit, history
<1>2. /\ IInv' /\ pc = "idle" /\ pc' = "erase"
      /\ region' = region /\ bl_meta_read(region') # record'
      /\ Fields(record') = Boot!Rec(s, st, n)
      /\ record'.active_slot = s
  BY <1>1, BeginSeen DEF DeviceInv, Boot!Rec
<1>3. ~ InCommit /\ InCommit' /\ Committing'
  BY <1>1, <1>2 DEF DeviceInv, CallInv, InCommit, Committing
<1>4. Pending' /\ ~ Installed' /\ LostWrite'
  BY <1>2, <1>3 DEF Pending, Installed, LostWrite
<1>5. Meta' = Meta
  BY <1>2 DEF Meta
<1>6. BootPc = where /\ BootResult = returned /\ BootResult' = returned'
  BY <1>3, <1>4 DEF BootPc, BootResult, InCommit
<1> QED
  BY <1>1, <1>2, <1>3, <1>4, <1>5, <1>6

\* advance_trial_state enters bl_meta_commit.
LEMMA AdvanceCommitsStep ==
    ASSUME DeviceInv, AdvanceCommits
    PROVE  DeviceInv' /\ UNCHANGED Boot!vars /\ Meta' = Meta
<1>1. where = "reset" /\ Boot!OnTrial /\ running = None /\ returned = None
  BY DEF AdvanceCommits, DeviceInv, CallInv
<1>2. /\ Meta.active_slot \in Slot /\ other(Meta.active_slot) \in Slot
      /\ Meta.boot_attempts \in 0 .. BL_MAX_BOOT_ATTEMPTS
      /\ BL_BOOT_TRIAL \in BootState /\ BL_BOOT_CONFIRMED \in BootState
      /\ 0 \in 0 .. BL_MAX_BOOT_ATTEMPTS
  BY <1>1, MetaType, Vocabulary, MetaAssumption DEF DeviceInv, Boot!OnTrial, BootState
<1>3. Boot!attempts_left => Meta.boot_attempts + 1 \in 0 .. BL_MAX_BOOT_ATTEMPTS
  BY <1>2, MetaAssumption DEF Boot!attempts_left
<1>4. ASSUME NEW s \in Slot, NEW st \in BootState, NEW n \in 0 .. BL_MAX_BOOT_ATTEMPTS,
             Commit("advance", s, st, n),
             \/ Boot!attempts_left
                /\ Boot!Rec(s, st, n) = Boot!Rec(Meta.active_slot, BL_BOOT_TRIAL, Meta.boot_attempts + 1)
             \/ ~ Boot!attempts_left /\ Boot!fallback_is_valid
                /\ Boot!Rec(s, st, n) = Boot!Rec(other(Meta.active_slot), BL_BOOT_CONFIRMED, 0)
      PROVE  DeviceInv' /\ UNCHANGED Boot!vars /\ Meta' = Meta
  <2>1. /\ IInv' /\ LostWrite' /\ pc' = "erase" /\ Committing'
        /\ Meta' = Meta
        /\ where' = "advance" /\ ~ Installed'
        /\ Fields(record') = Boot!Rec(s, st, n)
        /\ BootPc = where /\ BootResult = returned /\ BootResult' = returned'
        /\ UNCHANGED <<slot, running, returned, updates, armed, fallbackKept, starts, faults>>
    BY <1>4, CommitBegins
  <2>2. CallInv' /\ ConfirmPending' /\ SetActivePending'
    BY <1>1, <2>1 DEF CallInv, InCommit, ConfirmPending, SetActivePending
  <2>3. (Boot!attempts_left)' = Boot!attempts_left
        /\ (Boot!fallback_is_valid)' = Boot!fallback_is_valid
        /\ (Boot!OnTrial)' = Boot!OnTrial
    BY <2>1 DEF Boot!attempts_left, Boot!fallback_is_valid, Boot!OnTrial, Boot!valid
  <2>4. AdvancePending'
    BY <1>1, <1>4, <2>1, <2>3 DEF AdvancePending
  <2>5. BootPc' = BootPc
    BY <1>1, <2>1 DEF BootPc
  <2>6. UNCHANGED Boot!vars
    BY <2>1, <2>5 DEF Boot!vars, Boot!history
  <2> QED
    BY <2>1, <2>2, <2>4, <2>6 DEF DeviceInv
<1>5. CASE /\ Boot!attempts_left
           /\ Commit("advance", Meta.active_slot, BL_BOOT_TRIAL, Meta.boot_attempts + 1)
  BY <1>2, <1>3, <1>4, <1>5
<1>6. CASE /\ ~ Boot!attempts_left /\ Boot!fallback_is_valid
           /\ Commit("advance", other(Meta.active_slot), BL_BOOT_CONFIRMED, 0)
  BY <1>2, <1>4, <1>6
<1> QED
  BY <1>5, <1>6 DEF AdvanceCommits

\* bl_core_confirm enters bl_meta_commit.
LEMMA ConfirmCommitsStep ==
    ASSUME DeviceInv, ConfirmCommits
    PROVE  DeviceInv' /\ UNCHANGED Boot!vars /\ Meta' = Meta
<1>1. /\ where = "app" /\ Boot!OnTrial
      /\ Commit("confirm", Meta.active_slot, BL_BOOT_CONFIRMED, 0)
  BY DEF ConfirmCommits
<1>2. /\ Meta.active_slot \in Slot
      /\ BL_BOOT_CONFIRMED \in BootState
      /\ 0 \in 0 .. BL_MAX_BOOT_ATTEMPTS
  BY <1>1, MetaType, Vocabulary, MetaAssumption DEF DeviceInv, Boot!OnTrial, BootState
<1>3. /\ IInv' /\ LostWrite' /\ pc' = "erase" /\ Committing'
      /\ Meta' = Meta
      /\ where' = "confirm" /\ ~ Installed'
      /\ Fields(record') = Boot!Rec(Meta.active_slot, BL_BOOT_CONFIRMED, 0)
      /\ BootPc = where /\ BootResult = returned /\ BootResult' = returned'
      /\ UNCHANGED <<slot, running, returned, updates, armed, fallbackKept, starts, faults>>
  BY <1>1, <1>2, CommitBegins
<1>4. CallInv' /\ AdvancePending' /\ SetActivePending'
  BY <1>1, <1>3 DEF CallInv, InCommit, AdvancePending, SetActivePending
<1>5. ConfirmPending'
  BY <1>1, <1>3 DEF ConfirmPending, Boot!OnTrial
<1>6. BootPc' = BootPc
  BY <1>1, <1>3 DEF BootPc
<1>7. UNCHANGED Boot!vars
  BY <1>3, <1>6 DEF Boot!vars, Boot!history
<1> QED
  BY <1>3, <1>4, <1>5, <1>7 DEF DeviceInv

\* bl_core_mark_pending enters bl_meta_commit.
LEMMA SetActiveCommitsStep ==
    ASSUME DeviceInv, NEW s \in Slot, SetActiveCommits(s)
    PROVE  DeviceInv' /\ UNCHANGED Boot!vars /\ Meta' = Meta
<1>1. /\ where = "loader" /\ Boot!valid(s) /\ updates < MaxUpdates
      /\ Commit("set_active", s, BL_BOOT_TRIAL, 0)
  BY DEF SetActiveCommits
<1>2. BL_BOOT_TRIAL \in BootState /\ 0 \in 0 .. BL_MAX_BOOT_ATTEMPTS
  BY MetaAssumption DEF BootState
<1>3. /\ IInv' /\ LostWrite' /\ pc' = "erase" /\ Committing'
      /\ Meta' = Meta
      /\ where' = "set_active" /\ ~ Installed'
      /\ Fields(record') = Boot!Rec(s, BL_BOOT_TRIAL, 0)
      /\ record'.active_slot = s
      /\ BootPc = where /\ BootResult = returned /\ BootResult' = returned'
      /\ UNCHANGED <<slot, running, returned, updates, armed, fallbackKept, starts, faults>>
  BY <1>1, <1>2, CommitBegins
<1>4. CallInv' /\ AdvancePending' /\ ConfirmPending'
  BY <1>1, <1>3 DEF CallInv, InCommit, AdvancePending, ConfirmPending
<1>5. SetActivePending'
  BY <1>1, <1>3 DEF SetActivePending, Boot!valid
<1>6. BootPc' = BootPc
  BY <1>1, <1>3 DEF BootPc
<1>7. UNCHANGED Boot!vars
  BY <1>3, <1>6 DEF Boot!vars, Boot!history
<1> QED
  BY <1>3, <1>4, <1>5, <1>7 DEF DeviceInv

-----------------------------------------------------------------------------
(* A commit goes on *)

\* What every step of a commit has in common, whether it installs or not.
LEMMA CommitStepSeen ==
    ASSUME DeviceInv, CommitStep
    PROVE  /\ IInv' /\ CallInv' /\ LostWrite'
           /\ InCommit /\ InCommit' /\ Pending
           /\ record' = record /\ record \in MetaRecord
           /\ UNCHANGED <<slot, running, returned, where>>
           /\ Follow
           /\ \/ bl_meta_read(region') = bl_meta_read(region)
              \/ CommitCrc /\ bl_meta_read(region') = record
<1>1. /\ IInv' /\ Committing /\ Committing' /\ pc' \in {"body", "crc", "verify"}
      /\ record' = record /\ target' = target
      /\ bl_meta_read(region) # record
      /\ \/ bl_meta_read(region') = bl_meta_read(region)
         \/ CommitCrc /\ bl_meta_read(region') = record
  BY EraseBodySeen, CrcSeen DEF CommitStep, DeviceInv
<1>2. /\ UNCHANGED <<slot, running, returned, where>>
      /\ Follow
      /\ Junk \in {region'[target].body, region'[target].crc} => MayFail
  BY DEF CommitStep
<1>3. InCommit /\ InCommit' /\ Pending
  BY <1>1, <1>2 DEF DeviceInv, CallInv, Pending, InCommit
<1>4. CallInv'
  BY <1>1, <1>2, <1>3 DEF DeviceInv, CallInv
<1>5. LostWrite'
  <2>1. MayFail => MayFail'
    <3>1. CASE where = "set_active"
      BY <1>2, <3>1 DEF MayFail
    <3>2. CASE where # "set_active"
      <4>1. faults' = faults
        BY <1>2, <1>3, <3>2 DEF Follow, InCommit, history
      <4> QED
        BY <1>2, <4>1 DEF MayFail
    <3> QED
      BY <3>1, <3>2
  <2> QED
    BY <1>1, <1>2, <2>1 DEF LostWrite
<1>6. record \in MetaRecord
  BY <1>1, RecordTypes DEF DeviceInv
<1> QED
  BY <1>1, <1>2, <1>3, <1>4, <1>5, <1>6

\* A step that installs nothing is invisible.
LEMMA InvisibleStep ==
    ASSUME DeviceInv, CommitStep, bl_meta_read(region') = bl_meta_read(region)
    PROVE  DeviceInv' /\ UNCHANGED Boot!vars /\ Meta' = Meta
<1>1. /\ IInv' /\ CallInv' /\ LostWrite'
      /\ InCommit /\ InCommit' /\ Pending
      /\ record' = record
      /\ UNCHANGED <<slot, running, returned, where>>
      /\ Follow
  BY CommitStepSeen
<1>2. Meta' = Meta /\ Pending' /\ ~ Installed /\ ~ Installed'
  BY <1>1 DEF Meta, Pending, Installed
<1>3. UNCHANGED <<updates, armed, fallbackKept, starts, faults>>
  BY <1>1, <1>2 DEF Follow, history
<1>4. AdvancePending' /\ ConfirmPending' /\ SetActivePending'
  BY <1>1, <1>2, <1>3 DEF DeviceInv, AdvancePending, ConfirmPending, SetActivePending,
     Boot!OnTrial, Boot!attempts_left, Boot!fallback_is_valid, Boot!valid
<1>5. BootPc' = BootPc /\ BootResult' = BootResult
  BY <1>1, <1>2 DEF BootPc, BootResult
<1>6. UNCHANGED Boot!vars
  BY <1>1, <1>2, <1>3, <1>5 DEF Boot!vars, Boot!history
<1> QED
  BY <1>1, <1>2, <1>4, <1>6 DEF DeviceInv

\* The step that installs the record is the commit of BlBoot: an attempt, a
\* revert, a confirmation or a nomination.
LEMMA InstallStep ==
    ASSUME DeviceInv, CommitStep, bl_meta_read(region') = record
    PROVE  /\ DeviceInv' /\ Boot!Next
           /\ Pending /\ Meta' = Fields(record) /\ slot' = slot
<1>1. /\ IInv' /\ CallInv' /\ LostWrite'
      /\ InCommit /\ InCommit' /\ Pending
      /\ record' = record /\ record \in MetaRecord
      /\ UNCHANGED <<slot, running, returned, where>>
      /\ Follow
  BY CommitStepSeen
<1>2. Meta' = Fields(record) /\ ~ Pending' /\ ~ Installed /\ Installed'
  BY <1>1, RecordTypes DEF Meta, Pending, Installed
<1>3. AdvancePending' /\ ConfirmPending' /\ SetActivePending'
  BY <1>1, <1>2 DEF DeviceInv, AdvancePending, ConfirmPending, SetActivePending
<1>4. DeviceInv'
  BY <1>1, <1>3 DEF DeviceInv
<1>5. CASE where = "advance"
  <2>1. UNCHANGED <<updates, armed, fallbackKept, starts, faults>>
    BY <1>1, <1>2, <1>5 DEF Follow, history
  <2>2. /\ BootPc = "reset" /\ BootPc' = "select"
        /\ BootResult = returned /\ BootResult' = returned'
    BY <1>1, <1>2, <1>5 DEF BootPc, BootResult
  <2>3. Boot!CountAttempt \/ Boot!Revert
    BY <1>1, <1>2, <1>5, <2>1, Vocabulary
    DEF DeviceInv, AdvancePending, Boot!CountAttempt, Boot!Revert, Boot!CommitOk
  <2>4. Boot!AdvanceTrial
    BY <1>1, <2>1, <2>2, <2>3 DEF Boot!AdvanceTrial
  <2> QED
    BY <1>1, <1>2, <1>4, <2>4 DEF Boot!Next
<1>6. CASE where = "confirm"
  <2>1. armed' = None /\ UNCHANGED <<updates, fallbackKept, starts, faults>>
    BY <1>1, <1>2, <1>6 DEF Follow
  <2>2. BootPc = "app" /\ BootPc' = "app" /\ BootResult' = BL_OK
    BY <1>1, <1>2, <1>6 DEF BootPc, BootResult
  <2>3. Boot!OnTrial /\ Boot!CommitOk(Boot!Rec(Meta.active_slot, Boot!BL_BOOT_CONFIRMED, 0))
    BY <1>1, <1>2, <1>6, <2>1, Vocabulary DEF DeviceInv, ConfirmPending, Boot!CommitOk
  <2>5. Boot!Confirm
    BY <1>1, <2>1, <2>2, <2>3, Vocabulary DEF Boot!Confirm
  <2> QED
    BY <1>1, <1>2, <1>4, <2>5 DEF Boot!Next
<1>7. CASE where = "set_active"
  <2> DEFINE s == record.active_slot
  <2>1. /\ updates' = updates + 1
        /\ armed' = s
        /\ fallbackKept' = Boot!valid(other(s))
        /\ starts' = 0 /\ faults' = 0
    BY <1>1, <1>2, <1>7 DEF Follow
  <2>2. /\ BootPc = "loader" /\ BootPc' = "loader"
        /\ BootResult = returned /\ BootResult' = returned'
    BY <1>1, <1>2, <1>7 DEF BootPc, BootResult
  <2>3. Boot!valid(s) /\ updates < MaxUpdates /\ Meta' = Boot!Rec(s, Boot!BL_BOOT_TRIAL, 0)
    BY <1>1, <1>2, <1>7, Vocabulary DEF DeviceInv, SetActivePending
  <2>4. s \in Slot
    BY <1>1 DEF MetaRecord
  <2>5. Boot!SetActive(s)
    BY <1>1, <2>1, <2>2, <2>3, Vocabulary DEF Boot!SetActive, Boot!mark_pending_accepts
  <2> QED
    BY <1>1, <1>2, <1>4, <2>4, <2>5, Vocabulary DEF Boot!Next
<1> QED
  BY <1>1, <1>5, <1>6, <1>7 DEF InCommit

\* Every step of a commit is one of the two.
LEMMA CommitStepStep ==
    ASSUME DeviceInv, CommitStep
    PROVE  DeviceInv' /\ [Boot!Next]_(Boot!vars)
BY CommitStepSeen, InvisibleStep, InstallStep

-----------------------------------------------------------------------------
(* A commit ends *)

\* What a commit that is over leaves behind, in the store and in its caller.
LEMMA CommitOver ==
    ASSUME DeviceInv, IInv', ~ Committing', pc' = "idle",
           where' \in {"reset", "select", "app", "loader"},
           where' = "reset" => running' = None /\ returned' = None
    PROVE  DeviceInv' /\ BootPc' = where' /\ BootResult' = returned'
<1>1. ~ InCommit'
  BY DEF InCommit
<1>2. DeviceInv'
  BY <1>1 DEF DeviceInv, CallInv, AdvancePending, ConfirmPending, SetActivePending,
              LostWrite, Pending
<1>3. BootPc' = where' /\ BootResult' = returned'
  BY DEF BootPc, BootResult
<1> QED
  BY <1>2, <1>3

\* bl_meta_commit returns: success was seen already, and a failure of the
\* trial bookkeeping is the failing commit of BlBoot.
LEMMA CommitReturnStep ==
    ASSUME DeviceInv, CommitReturn
    PROVE  DeviceInv' /\ [Boot!Next]_(Boot!vars) /\ Meta' = Meta
<1>1. /\ IInv' /\ Committing /\ ~ Committing' /\ pc' = "idle"
      /\ bl_meta_read(region') = bl_meta_read(region)
      /\ \/ bl_meta_read(region) = record /\ result' = BL_OK
         \/ bl_meta_read(region) # record /\ result' \in CommitError /\ MayFail
  <2>1. CASE CommitVerify
    BY <2>1, VerifySeen DEF DeviceInv, LostWrite, CommitError
  <2>2. CASE MayFail /\ (CommitEraseError \/ CommitProgramError)
    BY <2>2, ErrorSeen DEF DeviceInv, CommitError
  <2> QED
    BY <2>1, <2>2 DEF CommitReturn
<1>2. /\ where' = Caller
      /\ returned' = IF where = "confirm" THEN result' ELSE returned
      /\ faults' = IF result' = BL_OK \/ where = "set_active" THEN faults ELSE faults + 1
      /\ UNCHANGED <<slot, running, updates, armed, fallbackKept, starts>>
  BY DEF CommitReturn
<1>3. InCommit /\ where \in {"advance", "confirm", "set_active"}
  BY <1>1 DEF DeviceInv, CallInv, InCommit
<1>4. where' \in {"select", "app", "loader"}
  BY <1>2, <1>3 DEF Caller
<1>5. DeviceInv' /\ BootPc' = where' /\ BootResult' = returned'
  BY <1>1, <1>4, CommitOver
<1>6. Meta' = Meta
  BY <1>1 DEF Meta
<1>7. BL_OK \notin CommitError
  BY DEF BL_OK, CommitError
<1>8. CASE bl_meta_read(region) = record
  <2>1. result' = BL_OK /\ faults' = faults /\ Installed
    BY <1>1, <1>2, <1>3, <1>8 DEF Installed
  <2>2. BootPc' = BootPc
    BY <1>2, <1>3, <1>5, <2>1 DEF BootPc, Caller
  <2>3. BootResult' = BootResult
    BY <1>2, <1>3, <1>5, <2>1 DEF BootResult
  <2>4. UNCHANGED Boot!vars
    BY <1>2, <1>6, <2>1, <2>2, <2>3 DEF Boot!vars, Boot!history
  <2> QED
    BY <1>5, <1>6, <2>4
<1>9. CASE bl_meta_read(region) # record
  <2>1. /\ result' \in CommitError /\ result' # BL_OK /\ MayFail
        /\ ~ Installed /\ Pending
    BY <1>1, <1>3, <1>7, <1>9 DEF Installed, Pending
  <2>2. CASE where = "advance"
    <3>1. /\ BootPc = "reset" /\ BootPc' = "select"
          /\ BootResult = returned /\ returned' = returned
          /\ faults < MaxFaults /\ faults' = faults + 1
      BY <1>2, <1>5, <2>1, <2>2 DEF BootPc, BootResult, Caller, MayFail
    <3>2. Boot!CountAttempt \/ Boot!Revert
      BY <1>6, <2>1, <2>2, <3>1
      DEF DeviceInv, AdvancePending, Boot!CountAttempt, Boot!Revert, Boot!CommitFails
    <3>3. Boot!AdvanceTrial
      BY <1>2, <1>5, <3>1, <3>2 DEF Boot!AdvanceTrial
    <3> QED
      BY <1>5, <1>6, <3>3 DEF Boot!Next
  <2>3. CASE where = "confirm"
    <3>1. /\ BootPc = "app" /\ BootPc' = "app"
          /\ BootResult' \in Boot!CommitError
          /\ faults < MaxFaults /\ faults' = faults + 1
      BY <1>2, <1>5, <2>1, <2>3, Vocabulary DEF BootPc, Caller, MayFail
    <3>2. Boot!OnTrial
      BY <2>1, <2>3 DEF DeviceInv, ConfirmPending
    <3>3. Boot!CommitFails
      BY <1>6, <3>1 DEF Boot!CommitFails
    <3>4. Boot!Confirm
      BY <1>2, <3>1, <3>2, <3>3 DEF Boot!Confirm
    <3> QED
      BY <1>5, <1>6, <3>4 DEF Boot!Next
  <2>4. CASE where = "set_active"
    <3>1. /\ BootPc = "loader" /\ BootPc' = "loader"
          /\ BootResult = returned /\ returned' = returned
          /\ faults' = faults
      BY <1>2, <1>5, <2>4 DEF BootPc, BootResult, Caller
    <3>2. UNCHANGED Boot!vars
      BY <1>2, <1>5, <1>6, <3>1 DEF Boot!vars, Boot!history
    <3> QED
      BY <1>5, <1>6, <3>2
  <2> QED
    BY <1>3, <2>2, <2>3, <2>4
<1> QED
  BY <1>8, <1>9

\* A reset, or power lost inside a commit: before the record is installed
\* an unfinished advance_trial_state never began.
LEMMA RestartStep ==
    ASSUME DeviceInv, Restart
    PROVE  DeviceInv' /\ [Boot!Next]_(Boot!vars) /\ Meta' = Meta
<1>1. /\ where' = "reset" /\ running' = None /\ returned' = None
      /\ UNCHANGED <<slot, updates, armed, fallbackKept, starts, faults>>
  BY DEF Restart, history
<1>2. CASE where # "reset" /\ ~ InCommit /\ UNCHANGED storeVars
  <2>1. /\ DeviceInv' /\ Meta' = Meta
        /\ BootPc = where /\ BootPc' = where'
        /\ BootResult' = returned'
    BY <1>1, <1>2, IdleStep
  <2>2. Boot!Restart
    BY <1>1, <1>2, <2>1 DEF Boot!Restart, Boot!history
  <2> QED
    BY <2>1, <2>2 DEF Boot!Next
<1>3. CASE PowerLoss
  <2>1. /\ IInv' /\ Committing /\ ~ Committing' /\ pc' = "idle"
        /\ bl_meta_read(region') = bl_meta_read(region)
    BY <1>3, PowerLossSeen DEF DeviceInv, CallInv
  <2>2. DeviceInv' /\ BootPc' = "reset" /\ BootResult' = None
    BY <1>1, <2>1, CommitOver
  <2>3. Meta' = Meta
    BY <2>1 DEF Meta
  <2>4. InCommit
    BY <2>1 DEF DeviceInv, CallInv
  <2>5. CASE where = "advance" /\ ~ Installed
    <3>1. running = None /\ returned = None /\ BootPc = "reset" /\ BootResult = None
      BY <2>5 DEF DeviceInv, CallInv, BootPc, BootResult
    <3>2. UNCHANGED Boot!vars
      BY <1>1, <2>2, <2>3, <3>1 DEF Boot!vars, Boot!history
    <3> QED
      BY <2>2, <2>3, <3>2
  <2>6. CASE ~ (where = "advance" /\ ~ Installed)
    <3>1. BootPc # "reset"
      BY <2>4, <2>6 DEF BootPc, InCommit
    <3>2. Boot!Restart
      BY <1>1, <2>2, <2>3, <3>1 DEF Boot!Restart, Boot!history
    <3> QED
      BY <2>2, <2>3, <3>2 DEF Boot!Next
  <2> QED
    BY <2>5, <2>6
<1> QED
  BY <1>2, <1>3 DEF Restart

-----------------------------------------------------------------------------
(* The theorems *)

\* A step of the device is a step of BlBoot, or invisible.
LEMMA DeviceStep ==
    ASSUME DeviceInv, [DeviceNext]_deviceVars
    PROVE  DeviceInv' /\ [Boot!Next]_(Boot!vars)
<1>1. CASE UNCHANGED deviceVars
  <2>1. UNCHANGED <<slot, running, returned, updates, armed, fallbackKept, starts, faults,
                    where, region, aligned, pc, record, target, result>>
    BY <1>1 DEF deviceVars, history, storeVars
  <2>2. IInv' /\ Meta' = Meta /\ Committing' = Committing
    BY <2>1, StoreKept DEF DeviceInv, storeVars
  <2>3. InCommit' = InCommit /\ Installed' = Installed /\ Pending' = Pending
    BY <2>1 DEF InCommit, Installed, Pending
  <2>4. BootPc' = BootPc /\ BootResult' = BootResult
    BY <2>1, <2>3 DEF BootPc, BootResult
  <2>5. CallInv' /\ LostWrite'
    BY <2>1, <2>2, <2>3 DEF DeviceInv, CallInv, LostWrite, MayFail
  <2>6. AdvancePending' /\ ConfirmPending' /\ SetActivePending'
    BY <2>1, <2>2, <2>3 DEF DeviceInv, AdvancePending, ConfirmPending, SetActivePending,
       Boot!OnTrial, Boot!attempts_left, Boot!fallback_is_valid, Boot!valid
  <2>7. UNCHANGED Boot!vars
    BY <2>1, <2>2, <2>4 DEF Boot!vars, Boot!history
  <2> QED
    BY <2>2, <2>5, <2>6, <2>7 DEF DeviceInv
<1>2. CASE DeviceNext
  BY <1>2, AdvanceCommitsStep, AdvanceReturnsStep, ConfirmCommitsStep, ConfirmReturnsStep,
     CommitStepStep, CommitReturnStep, SelectAndJumpStep, EnterLoaderStep, RestartStep,
     SetActiveCommitsStep, DestroyStep, CompleteImageStep DEF DeviceNext
<1> QED
  BY <1>1, <1>2

\* A CONFIRMED record is replaced by the nomination of a valid slot only.
ConfirmedStep ==
    Meta # None /\ Meta.state = BL_BOOT_CONFIRMED /\ Meta' # Meta =>
        /\ where = "set_active"
        /\ Meta' # None
        /\ Meta'.state = BL_BOOT_TRIAL /\ Meta'.boot_attempts = 0
        /\ Boot!valid(Meta'.active_slot)

\* The record changes in the installing step alone, and there it belongs to
\* a trial or to a nomination.
LEMMA ConfirmedKept ==
    ASSUME DeviceInv, [DeviceNext]_deviceVars
    PROVE  ConfirmedStep
<1>1. CASE UNCHANGED deviceVars
  BY <1>1 DEF deviceVars, storeVars, Meta, ConfirmedStep
<1>2. CASE CommitStep /\ bl_meta_read(region') = record
  <2>1. /\ DeviceInv' /\ Pending /\ Meta' = Fields(record)
    BY <1>2, InstallStep
  <2>2. CASE where \in {"advance", "confirm"}
    BY <2>1, <2>2, Vocabulary
    DEF DeviceInv, AdvancePending, ConfirmPending, ConfirmedStep, Boot!OnTrial
  <2>3. CASE where = "set_active"
    <3>1. /\ Meta' = Boot!Rec(record.active_slot, BL_BOOT_TRIAL, 0)
          /\ Boot!valid(record.active_slot)
      BY <2>1, <2>3 DEF DeviceInv, SetActivePending
    <3>2. record \in MetaRecord
      BY <1>2, CommitStepSeen
    <3>3. Meta' # None
      BY <2>1, <3>2, DeviceAssumption
    <3>4. /\ Meta'.state = BL_BOOT_TRIAL /\ Meta'.boot_attempts = 0
          /\ Meta'.active_slot = record.active_slot
      BY <3>1 DEF Boot!Rec
    <3> QED
      BY <2>3, <3>1, <3>3, <3>4 DEF ConfirmedStep
  <2> QED
    BY <2>1, <2>2, <2>3 DEF Pending, InCommit
<1>3. CASE CommitStep /\ bl_meta_read(region') # record
  <2>1. Meta' = Meta
    BY <1>3, CommitStepSeen, InvisibleStep
  <2> QED
    BY <2>1 DEF ConfirmedStep
<1>4. CASE DeviceNext /\ ~ CommitStep
  <2>1. Meta' = Meta
    BY <1>4, AdvanceCommitsStep, AdvanceReturnsStep, ConfirmCommitsStep, ConfirmReturnsStep,
       CommitReturnStep, SelectAndJumpStep, EnterLoaderStep, RestartStep,
       SetActiveCommitsStep, DestroyStep, CompleteImageStep DEF DeviceNext
  <2> QED
    BY <2>1 DEF ConfirmedStep
<1> QED
  BY <1>1, <1>2, <1>3, <1>4

\* Whatever interrupts or fails inside bl_meta_commit, the commit that is
\* pending is the one its caller asked for, and the store keeps its
\* invariant (bl_core.c:311-350, 384-419, bl_meta.c:110-191).
THEOREM DeviceInvariant == DeviceSpec => []DeviceInv
<1>1. DeviceInit => DeviceInv
  BY DeviceInitInv
<1>2. DeviceInv /\ [DeviceNext]_deviceVars => DeviceInv'
  BY DeviceStep
<1> QED
  BY <1>1, <1>2, PTL DEF DeviceSpec

\* The boot path over two flash regions implements the boot path over an
\* atomic record: power loss and failing flash operations at any point of a
\* commit show the callers nothing that BlBoot does not allow.
THEOREM DeviceRefinesBoot == DeviceSpec => RefinesBoot
<1>1. DeviceInit => DeviceInv /\ Boot!Init
  BY DeviceInitInv
<1>2. DeviceInv /\ [DeviceNext]_deviceVars => DeviceInv' /\ [Boot!Next]_(Boot!vars)
  BY DeviceStep
<1> QED
  BY <1>1, <1>2, PTL DEF DeviceSpec, RefinesBoot, Boot!Spec

\* A confirmation lasts until a slot that validates is nominated
\* (bl_core.c:321, 401, 414).
THEOREM ConfirmationIsKept == DeviceSpec => ConfirmationLasts
<1>1. DeviceInit => DeviceInv
  BY DeviceInitInv
<1>2. DeviceInv /\ [DeviceNext]_deviceVars => DeviceInv' /\ ConfirmedStep
  BY DeviceStep, ConfirmedKept
<1> QED
  BY <1>1, <1>2, PTL DEF DeviceSpec, ConfirmationLasts, ConfirmedStep
=============================================================================
