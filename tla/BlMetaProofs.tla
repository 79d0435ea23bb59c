---------------------------- MODULE BlMetaProofs -----------------------------
(***************************************************************************)
(* Proofs about BlMeta, for every attempt limit, every width of the        *)
(* sequence counter and every layout.  TypeOK /\ MetaInv is inductive; the *)
(* refinement of MetaRegister follows from it action by action.            *)
(***************************************************************************)
EXTENDS BlMeta, TLAPS

\* The flash content of the two regions, whatever wrote it.
Content == [Region -> [body : Unit, crc : Unit]]

\* A readable region holds a record with every field in range.
LEMMA ReadableIsRecord ==
    ASSUME NEW r \in [body : Unit, crc : Unit], read_region(r)
    PROVE  r.body \in MetaRecord /\ r.crc = r.body
BY DEF read_region, state_is_valid, RawRecord, MetaRecord, Slot, BL_SLOT_COUNT

\* What bl_meta_read and the choices of bl_meta_commit return.
LEMMA ReadType ==
    ASSUME NEW rg \in Content
    PROVE  /\ find_newest(rg) \in Region \cup {BL_META_COUNT}
           /\ bl_meta_read(rg) \in MetaRecord \cup {None}
           /\ bl_meta_read(rg) = None <=> find_newest(rg) = BL_META_COUNT
           /\ target_index(rg) \in Region
           /\ next_seq(rg) \in Nat
<1>1. find_newest(rg) \in {0, 1, 2}
  BY DEF find_newest, BL_META_COUNT
<1>2. ASSUME NEW i \in Region, find_newest(rg) = i
      PROVE  read_region(rg[i])
  BY <1>2 DEF find_newest, Region, BL_META_COUNT
<1>3. ASSUME NEW i \in Region, find_newest(rg) = i
      PROVE  rg[i].body \in MetaRecord
  BY <1>2, <1>3, ReadableIsRecord DEF Content
<1>4. MetaRecord \subseteq RawRecord
  BY DEF MetaRecord, RawRecord, Slot, BL_SLOT_COUNT
<1>5. None \notin MetaRecord
  BY <1>4, MetaAssumption
<1>6. /\ bl_meta_read(rg) \in MetaRecord \cup {None}
      /\ bl_meta_read(rg) = None <=> find_newest(rg) = BL_META_COUNT
  BY <1>1, <1>3, <1>5 DEF bl_meta_read, Region, BL_META_COUNT
<1>7. target_index(rg) \in Region
  BY <1>1 DEF target_index, Region, BL_META_COUNT
<1>8. next_seq(rg) \in Nat
  <2>1. CASE bl_meta_read(rg) = None
    BY <2>1 DEF next_seq
  <2>2. CASE bl_meta_read(rg) # None
    <3>1. bl_meta_read(rg).seq \in Nat
      BY <2>2, <1>6, MetaAssumption DEF MetaRecord
    <3>2. SeqMod \in Nat \ {0}
      BY MetaAssumption
    <3>3. (bl_meta_read(rg).seq + 1) % SeqMod \in Nat
      BY <3>1, <3>2
    <3> QED BY <2>2, <3>3 DEF next_seq
  <2> QED BY <2>1, <2>2
<1> QED BY <1>1, <1>6, <1>7, <1>8 DEF Region, BL_META_COUNT

\* The case analysis behind every choice of bl_meta_commit.
LEMMA NewestFacts ==
    ASSUME NEW rg \in Content
    PROVE  \/ /\ ~ read_region(rg[0]) /\ ~ read_region(rg[1])
              /\ bl_meta_read(rg) = None
              /\ next_seq(rg) = 1
              /\ target_index(rg) = 0
           \/ \E i \in Region :
                 /\ read_region(rg[i])
                 /\ bl_meta_read(rg) = rg[i].body
                 /\ bl_meta_read(rg) # None
                 /\ next_seq(rg) = (rg[i].body.seq + 1) % SeqMod
                 /\ target_index(rg) = 1 - i
                 /\ read_region(rg[1 - i]) => rg[1 - i].body.seq <= rg[i].body.seq
<1>1. CASE find_newest(rg) = BL_META_COUNT
  <2>1. ~ read_region(rg[0]) /\ ~ read_region(rg[1])
    BY <1>1 DEF find_newest, BL_META_COUNT
  <2> QED BY <1>1, <2>1 DEF bl_meta_read, next_seq, target_index
<1>2. CASE find_newest(rg) # BL_META_COUNT
  <2> DEFINE i == find_newest(rg)
  <2>1. i \in {0, 1}
    BY <1>2, ReadType DEF Region, BL_META_COUNT
  <2>2. read_region(rg[i])
    BY <2>1 DEF find_newest, BL_META_COUNT
  <2>3. bl_meta_read(rg) = rg[i].body /\ bl_meta_read(rg) # None
    BY <1>2, ReadType DEF bl_meta_read
  <2>4. target_index(rg) = 1 - i
    BY <1>2, <2>1 DEF target_index, BL_META_COUNT
  <2>5. ASSUME read_region(rg[1 - i])
        PROVE  rg[1 - i].body.seq <= rg[i].body.seq
    <3>1. rg[0].body.seq \in Int /\ rg[1].body.seq \in Int
      <4>1. read_region(rg[0]) /\ read_region(rg[1])
        BY <2>1, <2>2, <2>5
      <4>2. rg[0].body \in MetaRecord /\ rg[1].body \in MetaRecord
        BY <4>1, ReadableIsRecord DEF Content, Region, BL_META_COUNT
      <4> QED BY <4>2, MetaAssumption DEF MetaRecord
    <3> HIDE DEF i
    <3>2. CASE i = 0
      BY <3>1, <3>2, <2>2, <2>5 DEF find_newest, i
    <3>3. CASE i = 1
      BY <3>1, <3>3, <2>2, <2>5 DEF find_newest, i
    <3> QED BY <3>2, <3>3, <2>1
  <2>6. next_seq(rg) = (rg[i].body.seq + 1) % SeqMod
    BY <2>3 DEF next_seq
  <2>7. i \in Region
    BY <2>1 DEF Region, BL_META_COUNT
  <2> HIDE DEF i
  <2> QED BY <2>2, <2>3, <2>4, <2>5, <2>6, <2>7
<1> QED BY <1>1, <1>2

\* A number that has not reached the width of the counter does not wrap.
LEMMA NoWrap ==
    ASSUME NEW s \in 0 .. MaxSeq
    PROVE  (s + 1) % SeqMod = s + 1
BY MetaAssumption

-----------------------------------------------------------------------------
(* What one flash operation does to the two regions *)

\* Erased, disturbed and half-programmed regions do not read as a record.
LEMMA Unreadable ==
    /\ ~ read_region(Erased)
    /\ ~ read_region(Disturbed)
    /\ \A b, c : b \in {Blank, Junk} \/ (b \in RawRecord /\ c \in {Blank, Junk})
                => ~ read_region([body |-> b, crc |-> c])
BY MetaAssumption DEF read_region, Erased, Disturbed

\* The two records that bl_meta_read chooses from, seen from one region.
LEMMA ReadFrom ==
    ASSUME NEW rg \in Content, NEW t \in Region
    PROVE  /\ ~ read_region(rg[t]) =>
                 bl_meta_read(rg) = IF read_region(rg[1 - t])
                                    THEN rg[1 - t].body ELSE None
           /\ /\ read_region(rg[t])
              /\ read_region(rg[1 - t]) => rg[1 - t].body.seq < rg[t].body.seq
              => bl_meta_read(rg) = rg[t].body
<1>1. \A i \in {0, 1} : read_region(rg[i]) => rg[i].body.seq \in Int
  BY ReadableIsRecord, MetaAssumption DEF Content, Region, BL_META_COUNT, MetaRecord
<1>2. CASE t = 0
  BY <1>1, <1>2 DEF bl_meta_read, find_newest, BL_META_COUNT
<1>3. CASE t = 1
  BY <1>1, <1>3 DEF bl_meta_read, find_newest, BL_META_COUNT
<1> QED BY <1>2, <1>3 DEF Region, BL_META_COUNT

-----------------------------------------------------------------------------
(* The inductive invariant *)

IInv == TypeOK /\ MetaInv

LEMMA InitInv == Init => IInv
<1> SUFFICES ASSUME Init PROVE IInv
  OBVIOUS
<1>1. Foreign \subseteq [body : Unit, crc : Unit]
  BY DEF Foreign, Unit
<1>2. Erased \in [body : Unit, crc : Unit]
  BY DEF Erased, Unit
<1>3. target \in Region
  BY DEF Init, Region, BL_META_COUNT
<1>4. TypeOK
  BY <1>1, <1>2, <1>3 DEF Init, TypeOK
<1>5. \A r \in {Erased} \cup Foreign : ~ read_region(r)
  <2>1. \A r \in Foreign : ~ read_region(r)
    BY DEF Foreign, read_region, state_is_valid, RawRecord, OtherState,
           BootState, BL_BOOT_CONFIRMED, BL_BOOT_TRIAL, BL_SLOT_COUNT
  <2> QED BY <2>1, Unreadable
<1>6. \A i \in Region : ~ read_region(region[i])
  BY <1>5 DEF Init
<1>7. MetaInv
  BY <1>6 DEF Init, MetaInv, TargetIsSpare, SpareContent, SeqDistinct, WipeOrder,
              Committing, Region, BL_META_COUNT
<1> QED BY <1>4, <1>7 DEF IInv

\* After a return the invariant only asks for distinct numbers.
LEMMA ReturnInv ==
    ASSUME IInv, NEW res \in Result \cup {None}, Return(res),
           region' \in Content, SeqDistinct'
    PROVE  IInv'
<1>1. 0 \in Region
  BY DEF Region, BL_META_COUNT
<1>2. TypeOK'
  BY <1>1 DEF Return, TypeOK, Content
<1>3. MetaInv'
  BY DEF Return, MetaInv, TargetIsSpare, SpareContent, WipeOrder, Committing
<1> QED BY <1>2, <1>3 DEF IInv

\* Taking a record away from a region keeps the numbers distinct.
LEMMA DistinctKept ==
    ASSUME IInv, NEW t \in Region, NEW r \in [body : Unit, crc : Unit],
           region' = [region EXCEPT ![t] = r],
           ~ read_region(r) \/ r = region[t]
    PROVE  region' \in Content /\ SeqDistinct'
<1>1. region \in Content /\ SeqDistinct
  BY DEF IInv, TypeOK, MetaInv, Content
<1>2. region' \in Content
  BY <1>1 DEF Content
<1>3. SeqDistinct'
  BY <1>1 DEF SeqDistinct, Content, Region, BL_META_COUNT
<1> QED BY <1>2, <1>3

LEMMA BeginInv ==
    ASSUME IInv,
           NEW slot \in 0 .. BL_SLOT_COUNT,
           NEW state \in BootState \cup {OtherState},
           NEW attempts \in 0 .. BL_MAX_BOOT_ATTEMPTS,
           CommitBegin(slot, state, attempts)
    PROVE  IInv'
<1>0. region \in Content /\ region' = region
  BY DEF IInv, TypeOK, Content, CommitBegin
<1>1. record' \in MetaRecord
  <2>1. next_seq(region) \in 0 .. MaxSeq
    BY <1>0, ReadType, MetaAssumption DEF CommitBegin
  <2>2. slot \in Slot /\ state \in BootState
    BY DEF CommitBegin, state_is_valid, Slot, BL_SLOT_COUNT
  <2> QED BY <2>1, <2>2 DEF CommitBegin, MetaRecord
<1>2. TypeOK'
  <2>1. target' \in Region
    BY <1>0, ReadType DEF CommitBegin
  <2> QED BY <1>0, <1>1, <2>1 DEF CommitBegin, TypeOK, IInv
<1>3. TargetIsSpare'
  <2>1. CASE ~ read_region(region[0]) /\ ~ read_region(region[1])
    <3>1. target_index(region) = 0 /\ next_seq(region) = 1
      BY <1>0, <2>1, NewestFacts DEF Region, BL_META_COUNT
    <3> QED BY <1>0, <1>1, <2>1, <3>1 DEF CommitBegin, TargetIsSpare
  <2>2. CASE read_region(region[0]) \/ read_region(region[1])
    <3>1. PICK i \in Region :
             /\ read_region(region[i])
             /\ next_seq(region) = (region[i].body.seq + 1) % SeqMod
             /\ target_index(region) = 1 - i
             /\ read_region(region[1 - i]) =>
                   region[1 - i].body.seq <= region[i].body.seq
      BY <1>0, <2>2, NewestFacts
    <3>2. region[i].body \in MetaRecord
      BY <1>0, <3>1, ReadableIsRecord DEF Content
    <3>3. next_seq(region) = region[i].body.seq + 1
      <4>1. region[i].body.seq \in 0 .. MaxSeq
        BY <3>2 DEF MetaRecord
      <4> QED BY <3>1, <4>1, NoWrap
    <3>4. i = 1 - target' /\ target' = 1 - i
      BY <3>1 DEF CommitBegin, Region, BL_META_COUNT
    <3>5. read_region(region[1 - i]) =>
             region[1 - i].body.seq < region[i].body.seq
      <4> SUFFICES ASSUME read_region(region[1 - i])
                   PROVE  region[1 - i].body.seq < region[i].body.seq
        OBVIOUS
      <4>1. region[1 - i].body \in MetaRecord
        BY <1>0, ReadableIsRecord DEF Content, Region, BL_META_COUNT
      <4>2. region[1 - i].body.seq # region[i].body.seq
        BY <3>1 DEF IInv, MetaInv, SeqDistinct, Region, BL_META_COUNT
      <4> QED BY <3>1, <3>2, <4>1, <4>2, MetaAssumption DEF MetaRecord
    <3> QED BY <1>0, <1>1, <3>1, <3>3, <3>4, <3>5 DEF CommitBegin, TargetIsSpare
  <2> QED BY <2>1, <2>2
<1>4. SpareContent' /\ SeqDistinct' /\ WipeOrder'
  BY <1>0 DEF CommitBegin, IInv, MetaInv, SpareContent, SeqDistinct, WipeOrder
<1> QED BY <1>2, <1>3, <1>4 DEF IInv, MetaInv

\* A step of a commit leaves the region with the old record alone.
LEMMA SpareKept ==
    ASSUME IInv, Committing, Committing', pc' # "erase",
           NEW r, region' = [region EXCEPT ![target] = r],
           record' = record, target' = target
    PROVE  TargetIsSpare'
<1>1. region'[1 - target] = region[1 - target]
  BY DEF IInv, TypeOK, Region, BL_META_COUNT
<1> QED BY <1>1 DEF IInv, MetaInv, TargetIsSpare

LEMMA EraseInv == ASSUME IInv, CommitErase PROVE IInv'
<1>1. Erased \in [body : Unit, crc : Unit]
  BY DEF Erased, Unit
<1>2. region' \in Content /\ SeqDistinct'
  BY <1>1, DistinctKept, Unreadable DEF CommitErase, IInv, TypeOK
<1>3. TargetIsSpare'
  BY SpareKept DEF CommitErase, Committing
<1>4. region'[target] = Erased
  BY DEF CommitErase, IInv, TypeOK
<1> QED BY <1>2, <1>3, <1>4 DEF CommitErase, IInv, TypeOK, MetaInv, SpareContent,
                               WipeOrder, Content

LEMMA BodyInv == ASSUME IInv, CommitBody PROVE IInv'
<1>0. region \in Content /\ target \in Region /\ record \in MetaRecord
  BY DEF IInv, TypeOK, MetaInv, TargetIsSpare, Committing, CommitBody, Content
<1>1. PICK u \in {record, Junk} : ProgramBody(u)
  BY DEF CommitBody
<1> DEFINE r == [body |-> u, crc |-> Blank]
<1>2. region[target].crc = Blank
  BY DEF CommitBody, IInv, MetaInv, SpareContent, Erased
<1>3. region' = [region EXCEPT ![target] = r]
  BY <1>1, <1>2 DEF ProgramBody
<1>4. u \in RawRecord \cup {Junk}
  BY <1>0 DEF MetaRecord, RawRecord, Slot, BL_SLOT_COUNT
<1>5. r \in [body : Unit, crc : Unit] /\ ~ read_region(r)
  BY <1>4, Unreadable DEF Unit
<1>6. region' \in Content /\ SeqDistinct'
  BY <1>0, <1>3, <1>5, DistinctKept
<1>7. TargetIsSpare'
  BY <1>3, SpareKept DEF CommitBody, Committing
<1>8. region'[target] = r
  BY <1>0, <1>3 DEF Content
<1> QED BY <1>6, <1>7, <1>8 DEF CommitBody, IInv, TypeOK, MetaInv, SpareContent,
                               WipeOrder, Content

LEMMA CrcInv == ASSUME IInv, CommitCrc PROVE IInv'
<1>0. region \in Content /\ target \in Region /\ record \in MetaRecord
  BY DEF IInv, TypeOK, MetaInv, TargetIsSpare, Committing, CommitCrc, Content
<1>1. PICK u \in {record, Junk} : ProgramCrc(u)
  BY DEF CommitCrc
<1> DEFINE b == region[target].body
           r == [body |-> b, crc |-> u]
<1>2. b \in {record, Junk}
  BY DEF CommitCrc, IInv, MetaInv, SpareContent
<1>3. region' = [region EXCEPT ![target] = r]
  BY <1>1 DEF ProgramCrc
<1>4. b \in Unit /\ u \in Unit
  BY <1>0, <1>2 DEF Unit, MetaRecord, RawRecord, Slot, BL_SLOT_COUNT
<1>5. region' \in Content
  BY <1>0, <1>3, <1>4 DEF Content
<1>6. region'[target] = r /\ region'[1 - target] = region[1 - target]
  BY <1>0, <1>3 DEF Content, Region, BL_META_COUNT
<1>7. SeqDistinct'
  <2> SUFFICES ASSUME read_region(region'[target]), read_region(region'[1 - target])
               PROVE  region'[target].body.seq # region'[1 - target].body.seq
    BY <1>0 DEF SeqDistinct, Region, BL_META_COUNT
  <2>1. b = record
    BY <1>2, <1>6, MetaAssumption DEF read_region
  <2>2. record.seq = region[1 - target].body.seq + 1
    BY <1>6 DEF IInv, MetaInv, TargetIsSpare, Committing, CommitCrc
  <2>3. region[1 - target].body \in MetaRecord
    BY <1>0, <1>6, ReadableIsRecord DEF Content, Region, BL_META_COUNT
  <2> QED BY <1>6, <2>1, <2>2, <2>3, MetaAssumption DEF MetaRecord
<1>8. TargetIsSpare'
  BY <1>3, SpareKept DEF CommitCrc, Committing
<1> HIDE DEF b
<1> QED BY <1>2, <1>5, <1>6, <1>7, <1>8
        DEF CommitCrc, IInv, TypeOK, MetaInv, SpareContent, WipeOrder, Content

\* What a failed or interrupted erase leaves keeps the numbers distinct.
LEMMA DisturbKept ==
    ASSUME IInv, NEW r \in {region[target], Disturbed},
           region' = [region EXCEPT ![target] = r]
    PROVE  region' \in Content /\ SeqDistinct'
<1>1. r \in [body : Unit, crc : Unit] /\ target \in Region
  BY DEF IInv, TypeOK, Disturbed, Unit
<1> QED BY <1>1, DistinctKept, Unreadable

\* So does what a failed or interrupted programming of a unit leaves.
LEMMA HalfKept ==
    ASSUME IInv, NEW u \in HalfProgrammed,
           \/ pc = "body" /\ ProgramBody(u)
           \/ pc = "crc" /\ ProgramCrc(u)
    PROVE  /\ region' \in Content
           /\ SeqDistinct'
           /\ \E r \in [body : Unit, crc : Unit] :
                 region' = [region EXCEPT ![target] = r] /\ ~ read_region(r)
<1>0. region \in Content /\ target \in Region /\ record \in RawRecord
  <2>1. record \in MetaRecord
    BY DEF IInv, MetaInv, TargetIsSpare, Committing
  <2> QED BY <2>1 DEF IInv, TypeOK, Content, MetaRecord, RawRecord, Slot, BL_SLOT_COUNT
<1>1. PICK r \in [body : Unit, crc : Unit] :
         region' = [region EXCEPT ![target] = r] /\ ~ read_region(r)
  <2>1. CASE pc = "body" /\ ProgramBody(u)
    <3> DEFINE x == [body |-> u, crc |-> Blank]
    <3>0. region[target].crc = Blank
      BY <2>1 DEF IInv, MetaInv, SpareContent, Erased
    <3>1. region' = [region EXCEPT ![target] = x]
      BY <2>1, <3>0 DEF ProgramBody
    <3>2. x \in [body : Unit, crc : Unit] /\ ~ read_region(x)
      BY Unreadable DEF HalfProgrammed, Unit
    <3> QED BY <3>1, <3>2
  <2>2. CASE pc = "crc" /\ ProgramCrc(u)
    <3> DEFINE x == [body |-> region[target].body, crc |-> u]
    <3>1. region' = [region EXCEPT ![target] = x]
      BY <2>2 DEF ProgramCrc
    <3>2. region[target].body \in RawRecord \cup {Junk}
      BY <1>0, <2>2 DEF IInv, MetaInv, SpareContent
    <3>3. x \in [body : Unit, crc : Unit] /\ ~ read_region(x)
      BY <3>2, Unreadable DEF HalfProgrammed, Unit
    <3> QED BY <3>1, <3>3
  <2> QED BY <2>1, <2>2
<1> QED BY <1>0, <1>1, DistinctKept

\* An erase, completed or not, inside bl_meta_erase_all.
LEMMA WipeInv == ASSUME IInv, EraseAllStep PROVE IInv'
<1>0. Erased \in [body : Unit, crc : Unit] /\ target \in Region
  BY DEF Erased, Unit, IInv, TypeOK
<1>1. region' \in Content /\ SeqDistinct'
  BY <1>0, DistinctKept, Unreadable DEF EraseAllStep
<1>2. CASE target + 1 < BL_META_COUNT /\ target' = target + 1
           /\ UNCHANGED <<pc, record, result>>
  <2>1. target = 0 /\ region'[0] = Erased
    BY <1>0, <1>2 DEF EraseAllStep, Region, BL_META_COUNT, IInv, TypeOK
  <2>2. TypeOK'
    BY <1>1, <1>2, <2>1 DEF IInv, TypeOK, Content, Region, BL_META_COUNT
  <2>3. MetaInv'
    BY <1>1, <1>2, <2>1 DEF EraseAllStep, IInv, MetaInv, TargetIsSpare,
                            SpareContent, WipeOrder, Committing
  <2> QED BY <2>2, <2>3 DEF IInv
<1>3. CASE Return(BL_OK)
  BY <1>1, <1>3, ReturnInv DEF Result
<1> QED BY <1>2, <1>3 DEF EraseAllStep

\* Every step preserves the invariant, one case per action of Next.
LEMMA NextInv == IInv /\ [Next]_vars => IInv'
<1> SUFFICES ASSUME IInv, [Next]_vars PROVE IInv'
  OBVIOUS
<1>e. /\ {BL_OK, None} \subseteq Result \cup {None}
      /\ {"BL_ERR_INVALID_ARGUMENT", "BL_ERR_FLASH_ERASE",
           "BL_ERR_FLASH_PROGRAM", "BL_ERR_FLASH_VERIFY"} \subseteq Result
  BY DEF Result, BL_ERR
<1>u. UNCHANGED region => region' \in Content /\ SeqDistinct'
  BY DEF IInv, TypeOK, MetaInv, SeqDistinct, Content
<1>1. ASSUME NEW slot \in 0 .. BL_SLOT_COUNT,
             NEW state \in BootState \cup {OtherState},
             NEW attempts \in 0 .. BL_MAX_BOOT_ATTEMPTS,
             CommitBegin(slot, state, attempts)
      PROVE  IInv'
  BY <1>1, BeginInv
<1>2. ASSUME NEW slot, NEW state, CommitRefuse(slot, state) PROVE IInv'
  BY <1>2, <1>e, <1>u, ReturnInv DEF CommitRefuse
<1>3. CASE CommitErase
  BY <1>3, EraseInv
<1>4. CASE CommitBody
  BY <1>4, BodyInv
<1>5. CASE CommitCrc
  BY <1>5, CrcInv
<1>6. CASE CommitVerify
  BY <1>6, <1>e, <1>u, ReturnInv DEF CommitVerify
<1>7. CASE CommitEraseError
  BY <1>7, <1>e, DisturbKept, ReturnInv DEF CommitEraseError
<1>8. CASE CommitProgramError
  BY <1>8, <1>e, HalfKept, ReturnInv DEF CommitProgramError
<1>9. CASE EraseAllBegin
  BY <1>9 DEF EraseAllBegin, IInv, TypeOK, MetaInv, TargetIsSpare, SpareContent,
              SeqDistinct, WipeOrder, Committing, Region, BL_META_COUNT
<1>10. CASE EraseAllStep
  BY <1>10, WipeInv
<1>11. CASE EraseAllError
  BY <1>11, <1>e, DisturbKept, ReturnInv DEF EraseAllError
<1>12. CASE PowerLoss
  BY <1>12, <1>e, <1>u, DisturbKept, HalfKept, ReturnInv DEF PowerLoss
<1>13. CASE UNCHANGED vars
  BY <1>13 DEF vars, IInv, TypeOK, MetaInv, TargetIsSpare, SpareContent,
               SeqDistinct, WipeOrder, Committing
<1> QED BY <1>1, <1>2, <1>3, <1>4, <1>5, <1>6, <1>7, <1>8, <1>9, <1>10, <1>11,
           <1>12, <1>13 DEF Next, Call

\* Every behaviour of the metadata store is type correct: in particular no
\* step leaves a record in RAM that read_region would reject.
THEOREM TypeCorrect == Spec => []TypeOK
<1>1. IInv => TypeOK
  BY DEF IInv
<1> QED BY <1>1, InitInv, NextInv, PTL DEF Spec

\* A commit works on the spare region only, the spare region holds nothing
\* but that commit's record, and the authoritative record is unambiguous
\* (bl_meta.c:70-88, 120-190), whatever fails and whenever power is lost.
THEOREM StoreInvariant == Spec => []MetaInv
<1>1. IInv => MetaInv
  BY DEF IInv
<1> QED BY <1>1, InitInv, NextInv, PTL DEF Spec

-----------------------------------------------------------------------------
(* Refinement of the register *)

\* While a commit runs and its record is not yet readable, bl_meta_read
\* returns the record of the other region, or nothing.
LEMMA OldRules ==
    ASSUME IInv, Committing, pc = "erase" \/ ~ read_region(region[target])
    PROVE  /\ bl_meta_read(region) = IF read_region(region[1 - target])
                                     THEN region[1 - target].body ELSE None
           /\ bl_meta_read(region) # record
<1>0. region \in Content /\ target \in Region /\ 1 - target \in Region
      /\ 1 - (1 - target) = target
  BY DEF IInv, TypeOK, Content, Region, BL_META_COUNT
<1>1. record \in MetaRecord
  BY DEF IInv, MetaInv, TargetIsSpare
<1>2. bl_meta_read(region) = IF read_region(region[1 - target])
                             THEN region[1 - target].body ELSE None
  <2>1. CASE ~ read_region(region[target])
    BY <1>0, <2>1, ReadFrom
  <2>2. CASE read_region(region[target])
    <3>1. /\ read_region(region[1 - target])
          /\ region[target].body.seq < region[1 - target].body.seq
      BY <2>2 DEF IInv, MetaInv, TargetIsSpare
    <3>2. bl_meta_read(region) = region[1 - target].body
      BY <1>0, <3>1, ReadFrom
    <3> QED BY <3>1, <3>2
  <2> QED BY <2>1, <2>2
<1>3. CASE read_region(region[1 - target])
  <2>1. record.seq = region[1 - target].body.seq + 1
    BY <1>3 DEF IInv, MetaInv, TargetIsSpare
  <2>2. region[1 - target].body \in MetaRecord
    BY <1>0, <1>3, ReadableIsRecord DEF Content
  <2> QED BY <1>2, <1>3, <2>1, <2>2, MetaAssumption DEF MetaRecord
<1>4. CASE ~ read_region(region[1 - target])
  <2>1. None \notin MetaRecord
    BY MetaAssumption DEF MetaRecord, RawRecord, Slot, BL_SLOT_COUNT
  <2> QED BY <1>1, <1>2, <1>4, <2>1
<1> QED BY <1>2, <1>3, <1>4

\* A change of the spare region to something unreadable is invisible.
LEMMA SpareInvisible ==
    ASSUME IInv, Committing, pc = "erase" \/ ~ read_region(region[target]),
           NEW r \in [body : Unit, crc : Unit],
           region' = [region EXCEPT ![target] = r],
           ~ read_region(r) \/ r = region[target]
    PROVE  bl_meta_read(region') = bl_meta_read(region)
<1>0. region \in Content /\ target \in Region
  BY DEF IInv, TypeOK, Content
<1>1. CASE r = region[target]
  <2>1. region' = region
    BY <1>0, <1>1 DEF Content
  <2> QED BY <2>1
<1>2. CASE ~ read_region(r)
  <2>1. region' \in Content /\ region'[target] = r
        /\ region'[1 - target] = region[1 - target]
    BY <1>0 DEF Content, Region, BL_META_COUNT
  <2>2. bl_meta_read(region') = IF read_region(region[1 - target])
                                THEN region[1 - target].body ELSE None
    BY <1>0, <1>2, <2>1, ReadFrom
  <2> QED BY <2>2, OldRules
<1> QED BY <1>1, <1>2

\* Once the last unit is programmed, the new record rules.
LEMMA NewRules ==
    ASSUME IInv, Committing, NEW rg \in Content,
           rg[1 - target] = region[1 - target],
           read_region(rg[target]), rg[target].body = record
    PROVE  bl_meta_read(rg) = record
<1>0. target \in Region /\ region \in Content /\ 1 - target \in Region
  BY DEF IInv, TypeOK, Content, Region, BL_META_COUNT
<1>1. read_region(region[1 - target]) => region[1 - target].body.seq < record.seq
  <2> SUFFICES ASSUME read_region(region[1 - target])
               PROVE  region[1 - target].body.seq < record.seq
    OBVIOUS
  <2>1. region[1 - target].body \in MetaRecord
    BY <1>0, ReadableIsRecord DEF Content
  <2>2. record.seq = region[1 - target].body.seq + 1
    BY DEF IInv, MetaInv, TargetIsSpare
  <2> QED BY <2>1, <2>2, MetaAssumption DEF MetaRecord
<1> QED BY <1>0, <1>1, ReadFrom

\* Before the checksum is programmed the spare region is unreadable.
LEMMA SpareUnreadable ==
    ASSUME IInv, pc \in {"body", "crc"}
    PROVE  Committing /\ ~ read_region(region[target])
<1>1. record \in MetaRecord
  BY DEF IInv, MetaInv, TargetIsSpare, Committing
<1>2. CASE pc = "body"
  BY <1>2, Unreadable DEF IInv, MetaInv, SpareContent, Committing
<1>3. CASE pc = "crc"
  <2>1. region[target].crc = Blank
    BY <1>3 DEF IInv, MetaInv, SpareContent
  <2> QED BY <1>3, <2>1, MetaAssumption DEF read_region, Committing
<1> QED BY <1>2, <1>3

\* A step that ends an unfinished commit with the old record in place.
LEMMA AbandonRefines ==
    ASSUME IInv, Committing, bl_meta_read(region) # record,
           bl_meta_read(region') = bl_meta_read(region),
           NEW res \in BL_ERR \cup {None}, Return(res)
    PROVE  Register!Next
<1>1. record \in MetaRecord /\ record # None
  <2>1. record \in MetaRecord
    BY DEF IInv, MetaInv, TargetIsSpare
  <2> QED BY <2>1, MetaAssumption DEF MetaRecord, RawRecord, Slot, BL_SLOT_COUNT
<1>2. ~ Committing' /\ pc # "wipe" /\ pc' # "wipe" /\ result' = res
  BY DEF Return, Committing
<1>3. CASE res = None
  <2>1. Register!PowerLoss
    BY <1>1, <1>2, <1>3 DEF Register!PowerLoss
  <2> QED BY <2>1 DEF Register!Next
<1>4. CASE res \in BL_ERR
  <2>1. Register!Fail
    BY <1>1, <1>2, <1>4 DEF Register!Fail, Register!BL_ERR, BL_ERR
  <2> QED BY <2>1 DEF Register!Next
<1> QED BY <1>3, <1>4

\* A step of bl_meta_erase_all on one region.
LEMMA WipeRefines ==
    ASSUME IInv, pc = "wipe", NEW r \in [body : Unit, crc : Unit],
           region' = [region EXCEPT ![target] = r],
           ~ read_region(r) \/ r = region[target],
           pc' \in {"wipe", "idle"}, result' \in {None} \cup Result,
           result' = BL_OK => bl_meta_read(region') = None
    PROVE  Register!Next
<1>0. region \in Content /\ target \in Region
  BY DEF IInv, TypeOK, Content
<1>1. \/ bl_meta_read(region') = bl_meta_read(region)
      \/ bl_meta_read(region') = None
      \/ /\ bl_meta_read(region) # None
         /\ bl_meta_read(region') \in MetaRecord
         /\ bl_meta_read(region').seq < bl_meta_read(region).seq
  <2>1. CASE r = region[target]
    <3>1. region' = region
      BY <1>0, <2>1 DEF Content
    <3> QED BY <3>1
  <2>2. CASE ~ read_region(r)
    <3>0. region' \in Content /\ region'[target] = r
          /\ region'[1 - target] = region[1 - target] /\ 1 - target \in Region
          /\ 1 - (1 - target) = target
      BY <1>0 DEF Content, Region, BL_META_COUNT
    <3>1. bl_meta_read(region') = IF read_region(region[1 - target])
                                  THEN region[1 - target].body ELSE None
      BY <1>0, <2>2, <3>0, ReadFrom
    <3>2. CASE ~ read_region(region[1 - target])
      BY <3>1, <3>2
    <3>3. CASE read_region(region[1 - target])
      <4>1. region[1 - target].body \in MetaRecord
        BY <1>0, <3>0, <3>3, ReadableIsRecord DEF Content
      <4>2. CASE ~ read_region(region[target])
        BY <1>0, <3>1, <4>2, ReadFrom
      <4>3. CASE read_region(region[target])
        <5>1. region[target].body \in MetaRecord
          BY <1>0, <4>3, ReadableIsRecord DEF Content
        <5>2. region[target].body.seq # region[1 - target].body.seq
          BY <1>0, <3>3, <4>3 DEF IInv, MetaInv, SeqDistinct, Region, BL_META_COUNT
        <5>3. CASE region[target].body.seq < region[1 - target].body.seq
          <6>1. bl_meta_read(region) = region[1 - target].body
            BY <1>0, <3>0, <3>3, <4>3, <5>3, ReadFrom
          <6> QED BY <3>1, <3>3, <6>1
        <5>4. CASE region[1 - target].body.seq < region[target].body.seq
          <6>1. bl_meta_read(region) = region[target].body
            BY <1>0, <3>0, <3>3, <4>3, <5>4, ReadFrom
          <6>2. None \notin MetaRecord
            BY MetaAssumption DEF MetaRecord, RawRecord, Slot, BL_SLOT_COUNT
          <6> QED BY <3>1, <3>3, <4>1, <5>1, <5>4, <6>1, <6>2
        <5> QED BY <4>1, <5>1, <5>2, <5>3, <5>4, MetaAssumption DEF MetaRecord
      <4> QED BY <4>2, <4>3
    <3> QED BY <3>2, <3>3
  <2> QED BY <2>1, <2>2
<1>2. ~ Committing /\ ~ Committing'
  BY DEF Committing
<1>3. (pc' = "wipe") \in BOOLEAN
  OBVIOUS
<1>4. Register!Result = Result
  BY DEF Register!Result, Result, Register!BL_OK, BL_OK, Register!BL_ERR, BL_ERR
<1>5. Register!Wipe
  BY <1>1, <1>2, <1>3, <1>4 DEF Register!Wipe, Register!BL_OK, BL_OK
<1> QED BY <1>5 DEF Register!Next

LEMMA BeginRefines ==
    ASSUME IInv,
           NEW slot \in 0 .. BL_SLOT_COUNT,
           NEW state \in BootState \cup {OtherState},
           NEW attempts \in 0 .. BL_MAX_BOOT_ATTEMPTS,
           CommitBegin(slot, state, attempts)
    PROVE  Register!Next
<1>0. region \in Content /\ region' = region
  BY DEF IInv, TypeOK, Content, CommitBegin
<1>1. record' \in MetaRecord
  BY BeginInv DEF IInv, MetaInv, TargetIsSpare, Committing, CommitBegin
<1>2. record'.seq = IF bl_meta_read(region) = None THEN 1
                    ELSE bl_meta_read(region).seq + 1
  <2>1. record'.seq = next_seq(region)
    BY DEF CommitBegin
  <2>2. CASE bl_meta_read(region) = None
    BY <2>1, <2>2 DEF next_seq
  <2>3. CASE bl_meta_read(region) # None
    <3>1. bl_meta_read(region).seq \in 0 .. MaxSeq
      BY <1>0, <2>3, ReadType DEF MetaRecord
    <3> QED BY <2>1, <2>3, <3>1, NoWrap DEF next_seq
  <2> QED BY <2>2, <2>3
<1>3. ~ Committing /\ Committing' /\ pc # "wipe" /\ pc' # "wipe" /\ result' = None
  BY DEF CommitBegin, Committing
<1>4. Register!Request
  BY <1>0, <1>1, <1>2, <1>3 DEF Register!Request, Register!Idle
<1> QED BY <1>4 DEF Register!Next

LEMMA CrcRefines ==
    ASSUME IInv, CommitCrc
    PROVE  Register!Next \/ UNCHANGED Register!regVars
<1>0. region \in Content /\ target \in Region
  BY DEF IInv, TypeOK, Content
<1>1. record \in MetaRecord /\ record \in RawRecord /\ record # None
  <2>1. record \in MetaRecord
    BY DEF IInv, MetaInv, TargetIsSpare, Committing, CommitCrc
  <2> QED BY <2>1, MetaAssumption DEF MetaRecord, RawRecord, Slot, BL_SLOT_COUNT
<1>2. Committing /\ Committing' /\ pc # "wipe" /\ pc' # "wipe"
      /\ UNCHANGED <<record, target, result>>
  BY DEF CommitCrc, Committing
<1>3. PICK u \in {record, Junk} : ProgramCrc(u)
  BY DEF CommitCrc
<1> DEFINE b == region[target].body
           r == [body |-> b, crc |-> u]
<1>4. b \in {record, Junk}
  BY DEF CommitCrc, IInv, MetaInv, SpareContent
<1>5. r \in [body : Unit, crc : Unit]
  BY <1>1, <1>4 DEF Unit
<1>6. region' = [region EXCEPT ![target] = r]
  BY <1>3 DEF ProgramCrc
<1>7. ~ read_region(region[target])
  BY SpareUnreadable DEF CommitCrc
<1>8. CASE b = record /\ u = record
  <2>1. read_region(r)
    BY <1>1, <1>8 DEF read_region, MetaRecord, state_is_valid, Slot, BL_SLOT_COUNT
  <2>2. region' \in Content /\ region'[target] = r
        /\ region'[1 - target] = region[1 - target]
    BY <1>0, <1>5, <1>6 DEF Content, Region, BL_META_COUNT
  <2>3. bl_meta_read(region') = record
    BY <1>2, <1>8, <2>1, <2>2, NewRules
  <2>4. Register!Install
    BY <1>1, <1>2, <2>3 DEF Register!Install
  <2> QED BY <2>4 DEF Register!Next
<1>9. CASE ~ (b = record /\ u = record)
  <2>1. ~ read_region(r)
    BY <1>1, <1>4, <1>9, MetaAssumption DEF read_region
  <2>2. bl_meta_read(region') = bl_meta_read(region)
    BY <1>2, <1>5, <1>6, <1>7, <2>1, SpareInvisible
  <2> QED BY <1>2, <2>2 DEF Register!regVars
<1> QED BY <1>8, <1>9

LEMMA VerifyRefines == ASSUME IInv, CommitVerify PROVE Register!Next
<1>0. region \in Content /\ region' = region /\ Committing
  BY DEF IInv, TypeOK, Content, CommitVerify, Committing
<1>1. record \in MetaRecord /\ record # None
  <2>1. record \in MetaRecord
    BY <1>0 DEF IInv, MetaInv, TargetIsSpare
  <2> QED BY <2>1, MetaAssumption DEF MetaRecord, RawRecord, Slot, BL_SLOT_COUNT
<1>2. CASE verify_matches(region[target], record)
  <2>1. bl_meta_read(region) = record
    BY <1>0, <1>2, NewRules DEF verify_matches
  <2>2. ~ Committing' /\ pc # "wipe" /\ pc' # "wipe" /\ result' = BL_OK
    BY <1>2 DEF CommitVerify, Return, Committing
  <2>3. Register!Succeed
    BY <1>0, <1>1, <2>1, <2>2 DEF Register!Succeed, Register!BL_OK, BL_OK
  <2> QED BY <2>3 DEF Register!Next
<1>3. CASE ~ verify_matches(region[target], record)
  <2>1. ~ read_region(region[target])
    <3>1. region[target].body \in {record, Junk}
      BY DEF CommitVerify, IInv, MetaInv, SpareContent
    <3> QED BY <1>3, <3>1, MetaAssumption DEF verify_matches, read_region
  <2>2. bl_meta_read(region) # record
    BY <1>0, <2>1, OldRules
  <2>3. Return("BL_ERR_FLASH_VERIFY")
    BY <1>3 DEF CommitVerify
  <2> QED BY <1>0, <2>2, <2>3, AbandonRefines DEF BL_ERR
<1> QED BY <1>2, <1>3

LEMMA PowerLossRefines == ASSUME IInv, PowerLoss PROVE Register!Next
<1>0. region \in Content /\ target \in Region /\ Return(None)
  BY DEF IInv, TypeOK, Content, PowerLoss
<1>1. CASE pc = "erase"
  <2>1. PICK r \in {region[target], Disturbed} : region' = [region EXCEPT ![target] = r]
    BY <1>1 DEF PowerLoss
  <2>2. r \in [body : Unit, crc : Unit]
    BY <1>0 DEF Content, Disturbed, Unit
  <2>3. bl_meta_read(region') = bl_meta_read(region)
    BY <1>1, <2>1, <2>2, SpareInvisible, Unreadable DEF Committing
  <2> QED BY <1>0, <1>1, <2>3, OldRules, AbandonRefines DEF Committing
<1>2. CASE pc \in {"body", "crc"}
  <2>1. PICK u \in HalfProgrammed : \/ pc = "body" /\ ProgramBody(u)
                                    \/ pc = "crc" /\ ProgramCrc(u)
    BY <1>2 DEF PowerLoss
  <2>2. bl_meta_read(region') = bl_meta_read(region)
    BY <1>2, <2>1, HalfKept, SpareUnreadable, SpareInvisible
  <2> QED BY <1>0, <1>2, <2>2, SpareUnreadable, OldRules, AbandonRefines
<1>3. CASE pc = "verify"
  <2>1. record \in MetaRecord /\ record # None
    <3>1. record \in MetaRecord
      BY <1>3 DEF IInv, MetaInv, TargetIsSpare, Committing
    <3> QED BY <3>1, MetaAssumption DEF MetaRecord, RawRecord, Slot, BL_SLOT_COUNT
  <2>2. Register!PowerLoss
    BY <1>3, <2>1 DEF Register!PowerLoss, PowerLoss, Return, Committing
  <2> QED BY <2>2 DEF Register!Next
<1>4. CASE pc = "wipe"
  <2>1. PICK r \in {region[target], Disturbed} : region' = [region EXCEPT ![target] = r]
    BY <1>4 DEF PowerLoss
  <2>2. r \in [body : Unit, crc : Unit]
    BY <1>0 DEF Content, Disturbed, Unit
  <2>3. result' = None /\ pc' = "idle"
    BY <1>0 DEF Return
  <2>4. None # BL_OK
    BY MetaAssumption DEF Result
  <2> QED BY <1>4, <2>1, <2>2, <2>3, <2>4, WipeRefines, Unreadable
<1> QED BY <1>1, <1>2, <1>3, <1>4 DEF PowerLoss

\* Every step of the store is a step of the register, or invisible to it.
LEMMA StepRefines ==
    ASSUME IInv, [Next]_vars
    PROVE  [Register!Next]_(Register!regVars)
<1>0. region \in Content /\ target \in Region
  BY DEF IInv, TypeOK, Content
<1>t. Erased \in [body : Unit, crc : Unit] /\ Disturbed \in [body : Unit, crc : Unit]
      /\ region[target] \in [body : Unit, crc : Unit]
  BY <1>0 DEF Erased, Disturbed, Unit, Content
<1>e. /\ {"BL_ERR_INVALID_ARGUMENT", "BL_ERR_FLASH_ERASE",
           "BL_ERR_FLASH_PROGRAM"} \subseteq BL_ERR
      /\ BL_OK \notin BL_ERR /\ BL_OK \in Result /\ BL_ERR \subseteq Result
  BY DEF BL_ERR, BL_OK, Result
<1>1. ASSUME NEW slot \in 0 .. BL_SLOT_COUNT,
             NEW state \in BootState \cup {OtherState},
             NEW attempts \in 0 .. BL_MAX_BOOT_ATTEMPTS,
             CommitBegin(slot, state, attempts)
      PROVE  Register!Next
  BY <1>1, BeginRefines
<1>2. ASSUME NEW slot, NEW state, CommitRefuse(slot, state)
      PROVE  Register!Next
  <2>1. Register!Refuse
    BY <1>2 DEF CommitRefuse, Return, Register!Refuse, Register!Idle, Committing
  <2> QED BY <2>1 DEF Register!Next
<1>3. CASE CommitErase
  <2>1. bl_meta_read(region') = bl_meta_read(region)
    BY <1>3, <1>t, SpareInvisible, Unreadable DEF CommitErase, Committing
  <2> QED BY <1>3, <2>1 DEF CommitErase, Committing, Register!regVars
<1>4. CASE CommitBody
  <2>1. PICK u \in {record, Junk} : ProgramBody(u)
    BY <1>4 DEF CommitBody
  <2> DEFINE r == [body |-> u, crc |-> Blank]
  <2>2. region[target].crc = Blank
    BY <1>4 DEF CommitBody, IInv, MetaInv, SpareContent, Erased
  <2>3. region' = [region EXCEPT ![target] = r]
    BY <2>1, <2>2 DEF ProgramBody
  <2>4. u \in RawRecord \cup {Junk}
    <3>1. record \in MetaRecord
      BY <1>4 DEF IInv, MetaInv, TargetIsSpare, Committing, CommitBody
    <3> QED BY <3>1 DEF MetaRecord, RawRecord, Slot, BL_SLOT_COUNT
  <2>5. r \in [body : Unit, crc : Unit] /\ ~ read_region(r)
    BY <2>4, Unreadable DEF Unit
  <2>6. Committing /\ ~ read_region(region[target])
    BY <1>4, SpareUnreadable DEF CommitBody
  <2>7. bl_meta_read(region') = bl_meta_read(region)
    BY <2>3, <2>5, <2>6, SpareInvisible
  <2> QED BY <1>4, <2>7 DEF CommitBody, Committing, Register!regVars
<1>5. CASE CommitCrc
  BY <1>5, CrcRefines
<1>6. CASE CommitVerify
  BY <1>6, VerifyRefines
<1>7. CASE CommitEraseError
  <2>1. PICK r \in {region[target], Disturbed} : region' = [region EXCEPT ![target] = r]
    BY <1>7 DEF CommitEraseError
  <2>2. pc = "erase" /\ Committing /\ Return("BL_ERR_FLASH_ERASE")
    BY <1>7 DEF CommitEraseError, Committing
  <2>3. bl_meta_read(region') = bl_meta_read(region)
    BY <1>t, <2>1, <2>2, SpareInvisible, Unreadable
  <2> QED BY <1>e, <2>2, <2>3, OldRules, AbandonRefines
<1>8. CASE CommitProgramError
  <2>1. PICK u \in HalfProgrammed : \/ pc = "body" /\ ProgramBody(u)
                                    \/ pc = "crc" /\ ProgramCrc(u)
    BY <1>8 DEF CommitProgramError
  <2>2. pc \in {"body", "crc"} /\ Return("BL_ERR_FLASH_PROGRAM")
    BY <1>8 DEF CommitProgramError
  <2>3. bl_meta_read(region') = bl_meta_read(region)
    BY <2>1, <2>2, HalfKept, SpareUnreadable, SpareInvisible
  <2> QED BY <1>e, <2>2, <2>3, SpareUnreadable, OldRules, AbandonRefines
<1>9. CASE EraseAllBegin
  <2>1. Register!BeginWipe
    BY <1>9 DEF EraseAllBegin, Register!BeginWipe, Register!Idle, Committing
  <2> QED BY <2>1 DEF Register!Next
<1>10. CASE EraseAllStep
  <2>1. CASE Return(BL_OK) /\ target + 1 = BL_META_COUNT
    <3>1. target = 1 /\ region[0] = Erased
      BY <1>0, <1>10, <2>1 DEF EraseAllStep, Region, BL_META_COUNT, IInv, MetaInv,
                               WipeOrder
    <3>2. region'[0] = Erased /\ region'[1] = Erased
      BY <1>0, <1>10, <3>1 DEF EraseAllStep, Content, Region, BL_META_COUNT
    <3>3. bl_meta_read(region') = None
      BY <3>2, Unreadable DEF bl_meta_read, find_newest
    <3>4. pc' = "idle" /\ result' = BL_OK
      BY <2>1 DEF Return
    <3> QED BY <1>10, <1>t, <1>e, <3>3, <3>4, Unreadable, WipeRefines DEF EraseAllStep
  <2>2. CASE target + 1 < BL_META_COUNT /\ UNCHANGED <<pc, record, result>>
    <3>1. result \in Result \cup {None}
      BY DEF IInv, TypeOK
    <3>2. result # BL_OK
      BY <1>10, MetaAssumption DEF EraseAllStep, IInv, MetaInv, WipeOrder, Result
    <3> QED BY <1>10, <1>t, <2>2, <3>1, <3>2, Unreadable, WipeRefines DEF EraseAllStep
  <2> QED BY <1>10, <2>1, <2>2 DEF EraseAllStep
<1>11. CASE EraseAllError
  <2>1. PICK r \in {region[target], Disturbed} : region' = [region EXCEPT ![target] = r]
    BY <1>11 DEF EraseAllError
  <2>2. pc = "wipe" /\ pc' = "idle" /\ result' = "BL_ERR_FLASH_ERASE"
    BY <1>11 DEF EraseAllError, Return
  <2> QED BY <1>t, <1>e, <2>1, <2>2, Unreadable, WipeRefines
<1>12. CASE PowerLoss
  BY <1>12, PowerLossRefines
<1>13. CASE UNCHANGED vars
  BY <1>13 DEF vars, Register!regVars, Committing
<1> QED BY <1>1, <1>2, <1>3, <1>4, <1>5, <1>6, <1>7, <1>8, <1>9, <1>10, <1>11,
           <1>12, <1>13 DEF Next, Call

\* The store that bl_meta.c keeps in two flash regions implements the
\* atomic register that bl_meta.h promises: for every interruption and
\* every flash error, a commit happens entirely or not at all, BL_OK is
\* returned only when it happened, an error only when it did not.
THEOREM StoreImplementsRegister == Spec => RefinesRegister
<1>1. Init => Register!Init
  <2> SUFFICES ASSUME Init PROVE Register!Init
    OBVIOUS
  <2>1. region \in Content
    BY InitInv DEF IInv, TypeOK, Content
  <2>2. \A r \in {Erased} \cup Foreign : ~ read_region(r)
    <3>1. \A r \in Foreign : ~ read_region(r)
      BY DEF Foreign, read_region, state_is_valid, RawRecord, OtherState,
             BootState, BL_BOOT_CONFIRMED, BL_BOOT_TRIAL, BL_SLOT_COUNT
    <3> QED BY <3>1, Unreadable
  <2>3. bl_meta_read(region) = None
    BY <2>2 DEF Init, bl_meta_read, find_newest, Region, BL_META_COUNT
  <2> QED BY <2>3 DEF Init, Register!Init, Committing
<1>2. IInv /\ [Next]_vars => [Register!Next]_(Register!regVars)
  BY StepRefines
<1> QED BY <1>1, <1>2, InitInv, NextInv, PTL DEF Spec, RefinesRegister, Register!Spec

\* The layout check of CommitBegin holds until the commit ends.
AlignedTarget == Committing => target \in aligned

\* A commit never changes a region that shares an erase page with a
\* neighbour (bl_meta.c:148-160), on any layout.
THEOREM NeighboursKept == Spec => CommitKeepsNeighbours
<1>1. Init => AlignedTarget
  BY DEF Init, AlignedTarget, Committing
<1>2. AlignedTarget /\ [Next]_vars => AlignedTarget'
  BY DEF AlignedTarget, Committing, Next, Call, vars, Return, region_aligned,
         CommitBegin, CommitRefuse, CommitErase, CommitBody, CommitCrc, CommitVerify,
         CommitEraseError, CommitProgramError, EraseAllBegin, EraseAllStep,
         EraseAllError, PowerLoss
<1>3. ASSUME IInv, AlignedTarget, [Next]_vars, pc # "wipe",
             NEW i \in Region \ aligned
      PROVE  region'[i] = region[i]
  <2>1. region' = region \/ (Committing /\ \E r : region' = [region EXCEPT ![target] = r])
    BY <1>3 DEF Committing, Next, Call, vars, ProgramBody, ProgramCrc,
         CommitBegin, CommitRefuse, CommitErase, CommitBody, CommitCrc, CommitVerify,
         CommitEraseError, CommitProgramError, EraseAllBegin, EraseAllStep,
         EraseAllError, PowerLoss
  <2> QED BY <1>3, <2>1 DEF AlignedTarget, IInv, TypeOK
<1>4. IInv /\ AlignedTarget /\ [Next]_vars =>
         [pc # "wipe" => \A i \in Region \ aligned : region'[i] = region[i]]_vars
  BY <1>3
<1> QED BY <1>1, <1>2, <1>4, InitInv, NextInv, PTL DEF Spec, CommitKeepsNeighbours
=============================================================================
