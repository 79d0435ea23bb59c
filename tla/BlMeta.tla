------------------------------- MODULE BlMeta --------------------------------
(***************************************************************************)
(* core/src/bl_meta.c: the boot metadata, kept in two flash regions that   *)
(* are written alternately.  bl_meta_commit is one action per flash        *)
(* operation, so that power can be lost, and a flash operation can fail,   *)
(* between any two of them.                                                *)
(*                                                                         *)
(* A record is 16 bytes, that is two 64-bit programming units: `body'      *)
(* stands for the fields and `crc' for the unit that ends in crc32.  The   *)
(* checksum of a record is the record itself (no two records collide).     *)
(***************************************************************************)
EXTENDS BlProto

CONSTANTS
    None,                   \* no record, no result yet
    Blank,                  \* an erased programming unit
    Junk,                   \* a unit left undefined by an interruption
    BL_MAX_BOOT_ATTEMPTS,   \* largest attempt count committed
    SeqMod,                 \* the counter `seq' is taken modulo SeqMod (2^32)
    MaxSeq                  \* bound: no commit goes beyond this number

VARIABLES
    region,    \* the flash content of the two metadata regions
    aligned,   \* regions that start and end on an erase page: the layout is
               \* the port's and never changes
    pc,        \* the flash operation that comes next, "idle" outside a call
    record,    \* local `record' of bl_meta_commit
    target,    \* local `target_index' of bl_meta_commit, `i' of erase_all
    result     \* what the last call returned

vars == <<region, aligned, pc, record, target, result>>

Region == 0 .. BL_META_COUNT - 1

\* A state byte that is neither of the two enumerators, and a slot that
\* does not exist: arguments and stored fields are bytes, not enumerators.
OtherState == "0x55"
RawRecord == [seq : 0 .. MaxSeq, active_slot : 0 .. BL_SLOT_COUNT,
              state : BootState \cup {OtherState},
              boot_attempts : 0 .. BL_MAX_BOOT_ATTEMPTS]

MetaRecord == [seq : 0 .. MaxSeq, active_slot : Slot, state : BootState,
               boot_attempts : 0 .. BL_MAX_BOOT_ATTEMPTS]

Unit == RawRecord \cup {Blank, Junk}

ASSUME MetaAssumption ==
    /\ BL_MAX_BOOT_ATTEMPTS \in Nat
    /\ SeqMod \in Nat
    /\ MaxSeq \in Nat \ {0}
    /\ MaxSeq + 1 < SeqMod
    /\ None \notin RawRecord
    /\ None \notin Result
    /\ Blank \notin RawRecord
    /\ Junk \notin RawRecord

Erased    == [body |-> Blank, crc |-> Blank]
Disturbed == [body |-> Junk, crc |-> Junk]

-----------------------------------------------------------------------------
(* The pure helpers of bl_meta.c *)

state_is_valid_any(s) == TRUE \/ s = OtherState   \* fault: accepts any byte
state_is_valid(s) == s \in BootState

\* Whether a region holds a record: checksum first, then the ranges.  That a
\* read fails is left out: no port of the repository fails one.
read_region(r) ==
    /\ r.body \in RawRecord
    /\ r.crc = r.body
    /\ r.body.active_slot < BL_SLOT_COUNT
    /\ state_is_valid(r.body.state)

\* The region of the authoritative record, BL_META_COUNT when there is none.
find_newest(rg) ==
    IF read_region(rg[0])
    THEN IF read_region(rg[1]) /\ rg[1].body.seq > rg[0].body.seq THEN 1 ELSE 0
    ELSE IF read_region(rg[1]) THEN 1 ELSE BL_META_COUNT

bl_meta_read(rg) ==
    IF find_newest(rg) = BL_META_COUNT THEN None ELSE rg[find_newest(rg)].body

next_seq_reused(rg) ==       \* fault: the number does not advance
    IF bl_meta_read(rg) = None THEN 1 ELSE bl_meta_read(rg).seq
next_seq(rg) ==
    IF bl_meta_read(rg) = None THEN 1 ELSE (bl_meta_read(rg).seq + 1) % SeqMod

target_index_newest(rg) ==   \* fault: the authoritative record is overwritten
    IF find_newest(rg) = BL_META_COUNT THEN 0 ELSE find_newest(rg)
target_index(rg) ==
    IF find_newest(rg) = BL_META_COUNT
    THEN 0 ELSE (find_newest(rg) + 1) % BL_META_COUNT

region_aligned_any(i) == i \in Region    \* fault: the layout is trusted
region_aligned(i) == i \in aligned

-----------------------------------------------------------------------------
(* Regions left by whatever programmed the device before the bootloader:   *)
(* erased, or a checksummed record with a field out of range.              *)
Foreign ==
    {[body |-> r, crc |-> r] : r \in
        {x \in RawRecord : /\ x.seq = MaxSeq /\ x.boot_attempts = 0
                           /\ x.active_slot = BL_SLOT_COUNT \/ x.state = OtherState}}

Init ==
    /\ region \in [Region -> {Erased} \cup Foreign]
    /\ aligned \in SUBSET Region
    /\ pc = "idle"
    /\ record = None
    /\ target = 0
    /\ result = None

Return(res) ==
    /\ pc' = "idle"
    /\ record' = None
    /\ target' = 0
    /\ result' = res
    /\ UNCHANGED aligned

-----------------------------------------------------------------------------
(* bl_meta_commit *)

\* Argument checks, the choice of region and number, the layout check.
CommitBegin(slot, state, attempts) ==
    /\ pc = "idle"
    /\ slot < BL_SLOT_COUNT
    /\ state_is_valid(state)
    /\ next_seq(region) <= MaxSeq
    /\ region_aligned(target_index(region))
    /\ pc' = "erase"
    /\ target' = target_index(region)
    /\ record' = [seq |-> next_seq(region), active_slot |-> slot,
                  state |-> state, boot_attempts |-> attempts]
    /\ result' = None
    /\ UNCHANGED <<region, aligned>>

CommitRefuse(slot, state) ==
    /\ pc = "idle"
    /\ \/ slot >= BL_SLOT_COUNT
       \/ ~ state_is_valid(state)
       \/ ~ region_aligned(target_index(region))
    /\ Return("BL_ERR_INVALID_ARGUMENT")
    /\ UNCHANGED region

\* The content of region `target' after one programming unit is written.
ProgramBody(u) ==
    region' = [region EXCEPT ![target] = [body |-> u, crc |-> region[target].crc]]
ProgramCrc(u) ==
    region' = [region EXCEPT ![target] = [body |-> region[target].body, crc |-> u]]

CommitErase ==
    /\ pc = "erase"
    /\ region' = [region EXCEPT ![target] = Erased]
    /\ pc' = "body"
    /\ UNCHANGED <<record, target, result, aligned>>

\* The first unit of the record is programmed; Junk: the write reports
\* success and does not persist.
CommitBody ==
    /\ pc = "body"
    /\ \E u \in {record, Junk} : ProgramBody(u)
    /\ pc' = "crc"
    /\ UNCHANGED <<record, target, result, aligned>>

CommitCrc ==
    /\ pc = "crc"
    /\ \E u \in {record, Junk} : ProgramCrc(u)
    /\ pc' = "verify"
    /\ UNCHANGED <<record, target, result, aligned>>

verify_trusting(r, rec) == TRUE \/ r.body = rec   \* fault: no read-back
verify_matches(r, rec) == read_region(r) /\ r.body = rec

\* The record is read back and compared before the commit is reported.
CommitVerify ==
    /\ pc = "verify"
    /\ Return(IF verify_matches(region[target], record)
              THEN BL_OK ELSE "BL_ERR_FLASH_VERIFY")
    /\ UNCHANGED region

\* bl_flash_erase returns an error: the region is as it was, or disturbed.
CommitEraseError ==
    /\ pc = "erase"
    /\ \E r \in {region[target], Disturbed} :
          region' = [region EXCEPT ![target] = r]
    /\ Return("BL_ERR_FLASH_ERASE")

\* What a unit holds when programming it failed or was cut short.
HalfProgrammed == {Blank, Junk}

\* bl_flash_write returns an error at either unit.
CommitProgramError ==
    /\ \/ /\ pc = "body"
          /\ \E u \in HalfProgrammed : ProgramBody(u)
       \/ /\ pc = "crc"
          /\ \E u \in HalfProgrammed : ProgramCrc(u)
    /\ Return("BL_ERR_FLASH_PROGRAM")

-----------------------------------------------------------------------------
(* bl_meta_erase_all: region 0, then region 1, with no layout check *)

EraseAllBegin ==
    /\ pc = "idle"
    /\ pc' = "wipe"
    /\ target' = 0
    /\ result' = None
    /\ UNCHANGED <<region, record, aligned>>

EraseAllStep ==
    /\ pc = "wipe"
    /\ region' = [region EXCEPT ![target] = Erased]
    /\ \/ /\ target + 1 < BL_META_COUNT
          /\ target' = target + 1
          /\ UNCHANGED <<pc, record, result, aligned>>
       \/ /\ target + 1 = BL_META_COUNT
          /\ Return(BL_OK)

EraseAllError ==
    /\ pc = "wipe"
    /\ \E r \in {region[target], Disturbed} :
          region' = [region EXCEPT ![target] = r]
    /\ Return("BL_ERR_FLASH_ERASE")

-----------------------------------------------------------------------------
(* The supply fails during a call.  The locals are lost; the unit or the   *)
(* region that the interrupted operation was changing is undefined.        *)
PowerLoss ==
    /\ \/ /\ pc \in {"erase", "wipe"}
          /\ \E r \in {region[target], Disturbed} :
                region' = [region EXCEPT ![target] = r]
       \/ /\ pc = "body"
          /\ \E u \in HalfProgrammed : ProgramBody(u)
       \/ /\ pc = "crc"
          /\ \E u \in HalfProgrammed : ProgramCrc(u)
       \/ pc = "verify" /\ UNCHANGED region
    /\ Return(None)

Call ==
    \E slot \in 0 .. BL_SLOT_COUNT, state \in BootState \cup {OtherState} :
       \/ CommitRefuse(slot, state)
       \/ \E attempts \in 0 .. BL_MAX_BOOT_ATTEMPTS :
             CommitBegin(slot, state, attempts)

Next ==
    \/ Call
    \/ CommitErase \/ CommitBody \/ CommitCrc \/ CommitVerify
    \/ CommitEraseError \/ CommitProgramError
    \/ EraseAllBegin \/ EraseAllStep \/ EraseAllError
    \/ PowerLoss

Spec == Init /\ [][Next]_vars

-----------------------------------------------------------------------------
(* Properties *)

\* Every variable keeps its type; a record in RAM is one read_region accepts.
TypeOK ==
    /\ region \in [Region -> [body : Unit, crc : Unit]]
    /\ pc \in {"idle", "erase", "body", "crc", "verify", "wipe"}
    /\ record \in MetaRecord \cup {None}
    /\ target \in Region
    /\ result \in Result \cup {None}

Committing == pc \in {"erase", "body", "crc", "verify"}

\* A commit in progress never works on the region it would destroy the
\* authoritative record in: the other region holds the predecessor of the
\* record being written, or there was no record at all (bl_meta.c:125-133).
TargetIsSpare ==
    Committing =>
        /\ record \in MetaRecord
        /\ IF read_region(region[1 - target])
           THEN record.seq = region[1 - target].body.seq + 1
           ELSE target = 0 /\ record.seq = 1
        /\ pc = "erase" /\ read_region(region[target]) =>
              /\ read_region(region[1 - target])
              /\ region[target].body.seq < region[1 - target].body.seq

\* The spare region holds nothing but what this commit has programmed.
SpareContent ==
    /\ pc = "body" => region[target] = Erased
    /\ pc = "crc" => /\ region[target].body \in {record, Junk}
                     /\ region[target].crc = Blank
    /\ pc = "verify" => /\ region[target].body \in {record, Junk}
                        /\ region[target].crc \in {record, Junk}

\* Two readable records never carry the same number, so the authoritative
\* one is unambiguous (find_newest compares numbers, bl_meta.c:80).
SeqDistinct ==
    read_region(region[0]) /\ read_region(region[1]) =>
        region[0].body.seq # region[1].body.seq

\* bl_meta_erase_all reaches region 1 only when region 0 is erased.
WipeOrder ==
    pc = "wipe" => /\ target # 0 => region[0] = Erased
                   /\ result = None

\* The inductive invariant of the store.
MetaInv == TargetIsSpare /\ SpareContent /\ SeqDistinct /\ WipeOrder

\* A commit, whatever interrupts it, changes no region that shares an erase
\* page with a neighbour: the layout is verified before the first flash
\* operation (bl_meta.c:148-160).  bl_meta_erase_all has no such check.
CommitKeepsNeighbours ==
    [][pc # "wipe" =>
          \A i \in Region \ aligned : region'[i] = region[i]]_vars

\* The store implements the register that bl_meta.h promises: a commit is
\* atomic under power loss and flash errors, BL_OK means installed, an
\* error means the previous record still rules.
Register ==
    INSTANCE MetaRegister WITH
        cur     <- bl_meta_read(region),
        request <- IF Committing THEN record ELSE None,
        wiping  <- pc = "wipe",
        outcome <- result

RefinesRegister == Register!Spec
=============================================================================
