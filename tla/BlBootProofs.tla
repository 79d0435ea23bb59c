---------------------------- MODULE BlBootProofs -----------------------------
(***************************************************************************)
(* Proofs about BlBoot, for every attempt limit, every set of images and   *)
(* every number of failing commits.  TypeOK is inductive, and TrialInv is  *)
(* inductive relative to it; the bound on unconfirmed starts follows.  So  *)
(* is RunsNominated; the property of SET_ACTIVE and revert is per step.    *)
(***************************************************************************)
EXTENDS BlBoot, TLAPS

LEMMA OtherSlot ==
    ASSUME NEW s \in Slot
    PROVE  other(s) \in Slot /\ other(s) # s /\ other(other(s)) = s
BY DEF other, Slot, BL_SLOT_COUNT

LEMMA SelectType ==
    ASSUME TypeOK
    PROVE  /\ bl_core_select_slot \in Slot \cup {None}
           /\ bl_core_select_slot # None => valid(bl_core_select_slot)
<1>1. select_by_version \in Slot \cup {None}
      /\ (select_by_version # None => valid(select_by_version))
  BY DEF select_by_version, Slot, BL_SLOT_COUNT
<1>2. meta # None => meta.active_slot \in Slot
  BY DEF TypeOK, MetaRecord
<1> QED BY <1>1, <1>2, OtherSlot DEF bl_core_select_slot

-----------------------------------------------------------------------------
(* Type correctness *)

LEMMA RecType ==
    ASSUME NEW s \in Slot, NEW st \in BootState, NEW n \in 0 .. BL_MAX_BOOT_ATTEMPTS
    PROVE  Rec(s, st, n) \in MetaRecord
BY DEF Rec, MetaRecord

\* What a commit can leave in the record and in the count of failures.
LEMMA AdvanceType ==
    ASSUME TypeOK, AdvanceTrial
    PROVE  meta' \in MetaRecord \cup {None} /\ faults' \in 0 .. MaxFaults
<1>0. faults \in 0 .. MaxFaults /\ meta \in MetaRecord \cup {None}
  BY DEF TypeOK
<1>k. Keep => meta' \in MetaRecord \cup {None} /\ faults' \in 0 .. MaxFaults
  BY <1>0 DEF Keep
<1>f. CommitFails => meta' \in MetaRecord \cup {None} /\ faults' \in 0 .. MaxFaults
  BY <1>0, BootAssumption DEF CommitFails
<1>b. BL_BOOT_TRIAL \in BootState /\ BL_BOOT_CONFIRMED \in BootState
  BY DEF BootState
<1>1. CASE ~ OnTrial /\ Keep
  BY <1>1, <1>k
<1>2. CASE CountAttempt
  <2>1. meta.active_slot \in Slot /\ meta.boot_attempts + 1 \in 0 .. BL_MAX_BOOT_ATTEMPTS
    BY <1>0, <1>2, BootAssumption DEF CountAttempt, OnTrial, attempts_left, MetaRecord
  <2> QED BY <1>0, <1>2, <1>b, <1>f, <2>1, RecType DEF CountAttempt, CommitOk
<1>3. CASE Revert
  <2>1. other(meta.active_slot) \in Slot /\ 0 \in 0 .. BL_MAX_BOOT_ATTEMPTS
    BY <1>0, <1>3, OtherSlot, BootAssumption DEF Revert, OnTrial, MetaRecord
  <2> QED BY <1>0, <1>3, <1>b, <1>f, <2>1, RecType DEF Revert, CommitOk
<1>4. CASE KeepFailing
  BY <1>4, <1>k DEF KeepFailing
<1> QED BY <1>1, <1>2, <1>3, <1>4 DEF AdvanceTrial

LEMMA InitType == Init => TypeOK
<1> SUFFICES ASSUME Init PROVE TypeOK
  OBVIOUS
<1>1. starts \in 0 .. StartsCap /\ faults \in 0 .. MaxFaults /\ updates \in 0 .. MaxUpdates
  BY BootAssumption DEF Init, StartsCap
<1>2. fallbackKept \in BOOLEAN
  BY Zenon DEF Init
<1> QED BY <1>1, <1>2 DEF Init, TypeOK

LEMMA NextType == TypeOK /\ [Next]_vars => TypeOK'
<1> SUFFICES ASSUME TypeOK, [Next]_vars PROVE TypeOK'
  OBVIOUS
<1>e. {BL_OK, "BL_ERR_NO_VALID_IMAGE", "BL_ERR_JUMP_REFUSED", "BL_ERR_NO_METADATA",
       "BL_ERR_FLASH_PROGRAM"} \cup CommitError \subseteq Result
  BY DEF Result, BL_ERR, CommitError
<1>1. CASE AdvanceTrial
  BY <1>1, AdvanceType DEF AdvanceTrial, TypeOK
<1>2. CASE SelectAndJump
  <2>1. StartsCap \in Nat
    BY BootAssumption DEF StartsCap
  <2>2. \A s : CountStart(s) => starts' \in 0 .. StartsCap
    BY <2>1 DEF CountStart, TypeOK
  <2>3. running' \in Slot \cup {None}
    BY <1>2, SelectType DEF SelectAndJump, TypeOK
  <2>4. starts' \in 0 .. StartsCap
    BY <1>2, <2>2 DEF SelectAndJump, TypeOK
  <2> QED BY <1>2, <1>e, <2>3, <2>4 DEF SelectAndJump, TypeOK
<1>3. CASE Confirm
  <2>1. meta' \in MetaRecord \cup {None}
    <3>1. CASE OnTrial
      <4>1. Rec(meta.active_slot, BL_BOOT_CONFIRMED, 0) \in MetaRecord
        <5>1. meta.active_slot \in Slot
          BY <3>1 DEF OnTrial, TypeOK, MetaRecord
        <5>2. BL_BOOT_CONFIRMED \in BootState /\ 0 \in 0 .. BL_MAX_BOOT_ATTEMPTS
          BY BootAssumption DEF BootState
        <5> QED BY <5>1, <5>2, RecType
      <4> QED BY <1>3, <4>1 DEF Confirm, CommitOk, CommitFails, TypeOK
    <3>2. CASE ~ OnTrial
      BY <1>3, <3>2 DEF Confirm, TypeOK
    <3> QED BY <3>1, <3>2
  <2>2. faults' \in 0 .. MaxFaults
    BY <1>3, BootAssumption DEF Confirm, CommitOk, CommitFails, TypeOK
  <2> QED BY <1>3, <1>e, <2>1, <2>2 DEF Confirm, TypeOK
<1>4. CASE EnterLoader
  BY <1>4 DEF EnterLoader, TypeOK, history
<1>5. CASE Restart
  BY <1>5 DEF Restart, TypeOK, history
<1>6. ASSUME NEW s \in Slot, EraseSlot(s) PROVE TypeOK'
  BY <1>6 DEF EraseSlot, FallbackHistory, TypeOK
<1>7. ASSUME NEW s \in Slot, SetActive(s) PROVE TypeOK'
  <2>1. meta' \in MetaRecord
    BY <1>7, RecType, BootAssumption DEF SetActive, BootState
  <2>2. starts' \in 0 .. StartsCap /\ faults' \in 0 .. MaxFaults
    BY <1>7, BootAssumption DEF SetActive, StartsCap
  <2>3. updates' \in 0 .. MaxUpdates
    BY <1>7, BootAssumption DEF SetActive, TypeOK
  <2>4. fallbackKept' \in BOOLEAN
    BY <1>7, Zenon DEF SetActive, valid
  <2> QED BY <1>7, <2>1, <2>2, <2>3, <2>4 DEF SetActive, TypeOK
<1>8. ASSUME NEW s \in Slot, Decay(s) PROVE TypeOK'
  BY <1>8 DEF Decay, FallbackHistory, TypeOK
<1>9. ASSUME NEW s \in Slot, NEW i \in Image, CompleteImage(s, i) PROVE TypeOK'
  BY <1>9, BootAssumption DEF CompleteImage, TypeOK, history
<1>10. CASE UNCHANGED vars
  BY <1>10 DEF vars, history, TypeOK
<1> QED BY <1>1, <1>2, <1>3, <1>4, <1>5, <1>6, <1>7, <1>8, <1>9, <1>10 DEF Next

\* Every behaviour of the boot path is type correct; the attempt counter
\* never leaves 0 .. BL_MAX_BOOT_ATTEMPTS.
THEOREM BootTypeCorrect == Spec => []TypeOK
BY InitType, NextType, PTL DEF Spec

-----------------------------------------------------------------------------
(* The bound on unconfirmed starts *)

\* The part of TrialInv under its hypothesis.
Paid ==
    \/ /\ meta.state = BL_BOOT_TRIAL
       /\ meta.active_slot = armed
       /\ starts <= meta.boot_attempts + faults
       /\ pc = "select" => starts < meta.boot_attempts + faults
    \/ /\ meta.state = BL_BOOT_CONFIRMED
       /\ meta.active_slot = other(armed)
       /\ starts <= BL_MAX_BOOT_ATTEMPTS + faults

\* A step that leaves the record and the counts alone and does not end in
\* "select" keeps the account.
LEMMA QuietTrial ==
    ASSUME TrialInv, meta' = meta, armed' = armed, starts' = starts, faults' = faults,
           pc' # "select" \/ pc' = pc,
           TrialWithFallback' => TrialWithFallback /\ valid(other(armed))'
    PROVE  TrialInv'
BY DEF TrialInv, TrialWithFallback

\* After a change of a slot the history still tells whether the fallback
\* has been valid throughout.
LEMMA FallbackKeeps ==
    ASSUME TypeOK, armed' = armed, FallbackHistory(slot')
    PROVE  TrialWithFallback' => TrialWithFallback /\ valid(other(armed))'
BY Zenon DEF TrialWithFallback, FallbackHistory, valid

LEMMA AdvanceTrialInv == ASSUME TypeOK, TrialInv, AdvanceTrial PROVE TrialInv'
<1> SUFFICES ASSUME TrialWithFallback'
             PROVE  valid(other(armed))' /\ meta' # None /\ Paid'
  BY DEF TrialInv, Paid
<1>0. /\ UNCHANGED <<slot, armed, fallbackKept, starts>>
      /\ pc = "reset" /\ pc' = "select"
  BY DEF AdvanceTrial
<1>1. TrialWithFallback /\ armed \in Slot
  BY <1>0 DEF TrialWithFallback, TypeOK
<1>2. valid(other(armed)) /\ meta # None /\ Paid
  BY <1>1 DEF TrialInv, Paid
<1>3. valid(other(armed))'
  BY <1>0, <1>2 DEF valid
<1>4. /\ meta \in MetaRecord /\ meta.boot_attempts \in Nat
      /\ meta.boot_attempts <= BL_MAX_BOOT_ATTEMPTS
      /\ faults \in Nat /\ starts \in Nat /\ BL_MAX_BOOT_ATTEMPTS \in Nat
      /\ BL_BOOT_TRIAL # BL_BOOT_CONFIRMED
  BY <1>2, BootAssumption DEF TypeOK, MetaRecord, StartsCap, BL_BOOT_TRIAL,
                              BL_BOOT_CONFIRMED
<1>r. \A s, st, n : /\ Rec(s, st, n).active_slot = s
                    /\ Rec(s, st, n).state = st
                    /\ Rec(s, st, n).boot_attempts = n
  BY DEF Rec
<1>n. \A n \in 0 .. BL_MAX_BOOT_ATTEMPTS, s \in Slot, st \in BootState :
         Rec(s, st, n) # None
  BY RecType, BootAssumption
<1>5. CASE ~ OnTrial /\ Keep
  BY <1>0, <1>2, <1>3, <1>5 DEF OnTrial, Keep, Paid
<1>6. CASE CountAttempt
  <2>1. meta.state = BL_BOOT_TRIAL /\ meta.active_slot = armed
        /\ starts <= meta.boot_attempts + faults
        /\ meta.boot_attempts + 1 \in 0 .. BL_MAX_BOOT_ATTEMPTS
    BY <1>2, <1>4, <1>6 DEF CountAttempt, OnTrial, Paid, attempts_left
  <2>2. CASE CommitFails
    BY <1>0, <1>2, <1>3, <1>4, <2>1, <2>2 DEF CommitFails, Paid
  <2>3. CASE CommitOk(Rec(meta.active_slot, BL_BOOT_TRIAL, meta.boot_attempts + 1))
    <3>1. meta' # None
      BY <1>1, <1>n, <2>1, <2>3 DEF CommitOk, BootState
    <3>2. /\ meta'.state = BL_BOOT_TRIAL /\ meta'.active_slot = armed
          /\ meta'.boot_attempts = meta.boot_attempts + 1 /\ faults' = faults
      BY <1>r, <2>1, <2>3 DEF CommitOk
    <3> QED BY <1>0, <1>3, <1>4, <2>1, <3>1, <3>2 DEF Paid
  <2> QED BY <1>6, <2>2, <2>3 DEF CountAttempt
<1>7. CASE Revert
  <2>1. meta.state = BL_BOOT_TRIAL /\ meta.active_slot = armed
        /\ starts <= meta.boot_attempts + faults
        /\ meta.boot_attempts = BL_MAX_BOOT_ATTEMPTS
    BY <1>2, <1>4, <1>7 DEF Revert, OnTrial, Paid, attempts_left
  <2>2. CASE CommitFails
    BY <1>0, <1>2, <1>3, <1>4, <2>1, <2>2 DEF CommitFails, Paid
  <2>3. CASE CommitOk(Rec(other(meta.active_slot), BL_BOOT_CONFIRMED, 0))
    <3>1. meta' # None
      <4>1. 0 \in 0 .. BL_MAX_BOOT_ATTEMPTS
        BY <1>4
      <4> QED BY <1>1, <1>n, <2>1, <2>3, <4>1, OtherSlot DEF CommitOk, BootState
    <3>2. /\ meta'.state = BL_BOOT_CONFIRMED /\ meta'.active_slot = other(armed)
          /\ faults' = faults
      BY <1>r, <2>1, <2>3 DEF CommitOk
    <3> QED BY <1>0, <1>3, <1>4, <2>1, <3>1, <3>2 DEF Paid
  <2> QED BY <1>7, <2>2, <2>3 DEF Revert
<1>8. CASE KeepFailing
  <2>1. meta.active_slot = armed
    BY <1>2, <1>4, <1>8 DEF KeepFailing, OnTrial, Paid
  <2> QED BY <1>2, <1>8, <2>1 DEF KeepFailing, fallback_is_valid
<1> QED BY <1>5, <1>6, <1>7, <1>8 DEF AdvanceTrial

LEMMA JumpTrialInv == ASSUME TypeOK, TrialInv, SelectAndJump PROVE TrialInv'
<1>0. /\ UNCHANGED <<slot, meta, armed, fallbackKept, faults>>
      /\ pc = "select" /\ pc' # "select"
  BY DEF SelectAndJump
<1>1. CASE starts' = starts
  BY <1>0, <1>1, QuietTrial DEF TrialWithFallback, TrialInv, valid
<1>2. CASE starts' # starts
  <2> SUFFICES ASSUME TrialWithFallback'
               PROVE  valid(other(armed))' /\ meta' # None /\ Paid'
    BY DEF TrialInv, Paid
  <2>1. /\ bl_core_select_slot = armed /\ starts' = starts + 1
        /\ starts \in Nat /\ faults \in Nat
    BY <1>2, BootAssumption DEF SelectAndJump, CountStart, TypeOK, StartsCap
  <2>2. TrialWithFallback /\ armed \in Slot
    BY <1>0 DEF TrialWithFallback, TypeOK
  <2>3. valid(other(armed)) /\ meta # None /\ Paid
    BY <2>2 DEF TrialInv, Paid
  <2>4. CASE meta.state = BL_BOOT_TRIAL
    <3>1. /\ meta.active_slot = armed
          /\ starts < meta.boot_attempts + faults
          /\ meta.boot_attempts \in Nat
      BY <1>0, <2>3, <2>4 DEF Paid, TypeOK, MetaRecord, BL_BOOT_TRIAL,
                              BL_BOOT_CONFIRMED
    <3> QED BY <1>0, <2>1, <2>3, <2>4, <3>1 DEF Paid, valid
  <2>5. CASE meta.state # BL_BOOT_TRIAL
    <3>1. meta.active_slot = other(armed)
      BY <2>3, <2>5 DEF Paid
    <3>2. bl_core_select_slot = other(armed)
      BY <2>3, <3>1 DEF bl_core_select_slot
    <3> QED BY <2>1, <2>2, <3>2, OtherSlot
  <2> QED BY <2>4, <2>5
<1> QED BY <1>1, <1>2

LEMMA ConfirmTrialInv == ASSUME TypeOK, TrialInv, Confirm PROVE TrialInv'
<1>0. /\ UNCHANGED <<slot, pc, fallbackKept, starts>> /\ pc = "app"
  BY DEF Confirm
<1>1. CASE armed' = None
  BY <1>1 DEF TrialInv, TrialWithFallback
<1>2. CASE armed' = armed /\ meta' = meta /\ faults' = faults
  BY <1>0, <1>2, QuietTrial DEF TrialWithFallback, TrialInv, valid
<1>3. CASE armed' = armed /\ CommitFails
  <2> SUFFICES ASSUME TrialWithFallback'
               PROVE  valid(other(armed))' /\ meta' # None /\ Paid'
    BY DEF TrialInv, Paid
  <2>1. valid(other(armed)) /\ meta # None /\ Paid
    BY <1>0, <1>3 DEF TrialInv, TrialWithFallback, Paid
  <2>2. /\ meta' = meta /\ faults' = faults + 1 /\ faults \in Nat /\ starts \in Nat
        /\ meta.boot_attempts \in Nat /\ BL_MAX_BOOT_ATTEMPTS \in Nat
    BY <1>3, <2>1, BootAssumption DEF CommitFails, TypeOK, MetaRecord, StartsCap
  <2> QED BY <1>0, <1>3, <2>1, <2>2 DEF Paid, valid
<1> QED BY <1>1, <1>2, <1>3 DEF Confirm

LEMMA SetActiveTrialInv ==
    ASSUME TypeOK, TrialInv, NEW s \in Slot, SetActive(s) PROVE TrialInv'
<1> SUFFICES ASSUME TrialWithFallback'
             PROVE  valid(other(armed))' /\ meta' # None /\ Paid'
  BY DEF TrialInv, Paid
<1>1. /\ meta' = Rec(s, BL_BOOT_TRIAL, 0) /\ armed' = s /\ starts' = 0 /\ faults' = 0
      /\ slot' = slot /\ pc' = "loader"
  BY DEF SetActive
<1>2. fallbackKept' = valid(other(s)) /\ fallbackKept'
  BY DEF SetActive, TrialWithFallback
<1>3. valid(other(armed))'
  BY <1>1, <1>2, Zenon DEF valid
<1>4. meta' # None
  BY <1>1, RecType, BootAssumption DEF BootState
<1>5. meta'.state = BL_BOOT_TRIAL /\ meta'.active_slot = s /\ meta'.boot_attempts = 0
  BY <1>1 DEF Rec
<1> QED BY <1>1, <1>3, <1>4, <1>5 DEF Paid

LEMMA NextTrialInv == TypeOK /\ TrialInv /\ [Next]_vars => TrialInv'
<1> SUFFICES ASSUME TypeOK, TrialInv, [Next]_vars PROVE TrialInv'
  OBVIOUS
<1>1. CASE AdvanceTrial
  BY <1>1, AdvanceTrialInv
<1>2. CASE SelectAndJump
  BY <1>2, JumpTrialInv
<1>3. CASE Confirm
  BY <1>3, ConfirmTrialInv
<1>4. CASE EnterLoader \/ Restart \/ UNCHANGED vars
  <2>1. UNCHANGED <<slot, meta, armed, fallbackKept, starts, faults>>
        /\ (pc' # "select" \/ pc' = pc)
    BY <1>4 DEF EnterLoader, Restart, vars, history
  <2> QED BY <2>1, QuietTrial DEF TrialWithFallback, TrialInv, valid
<1>5. ASSUME NEW s \in Slot, EraseSlot(s) \/ Decay(s) PROVE TrialInv'
  <2>1. /\ UNCHANGED <<meta, armed, starts, faults, pc>> /\ FallbackHistory(slot')
    BY <1>5 DEF EraseSlot, Decay
  <2> QED BY <2>1, FallbackKeeps, QuietTrial
<1>6. ASSUME NEW s \in Slot, SetActive(s) PROVE TrialInv'
  BY <1>6, SetActiveTrialInv
<1>7. ASSUME NEW s \in Slot, NEW i \in Image, CompleteImage(s, i) PROVE TrialInv'
  <2>1. UNCHANGED <<meta, armed, starts, faults, pc, fallbackKept>>
    BY <1>7 DEF CompleteImage, history
  <2>2. \A t \in Slot : valid(t) => valid(t)'
    BY <1>7, BootAssumption DEF CompleteImage, valid, TypeOK
  <2>3. TrialWithFallback => valid(other(armed)) /\ other(armed) \in Slot
    BY OtherSlot DEF TrialInv, TrialWithFallback, TypeOK
  <2>4. TrialWithFallback' => TrialWithFallback /\ valid(other(armed))'
    BY <2>1, <2>2, <2>3 DEF TrialWithFallback, valid
  <2> QED BY <2>1, <2>4, QuietTrial
<1> QED BY <1>1, <1>2, <1>3, <1>4, <1>5, <1>6, <1>7 DEF Next

LEMMA InitTrialInv == Init => TrialInv
BY DEF Init, TrialInv, TrialWithFallback

\* The account of the trial is kept in every state.
THEOREM TrialAccounting == Spec => []TrialInv
BY InitType, NextType, InitTrialInv, NextTrialInv, PTL DEF Spec

\* A nominated image is never started more than BL_MAX_BOOT_ATTEMPTS times
\* without confirming while a fallback stays valid, plus once per failed
\* commit: for every limit, every set of images, every order of resets.
THEOREM TrialBounded == Spec => []AttemptBound
<1>1. TypeOK /\ TrialInv => AttemptBound
  <2> SUFFICES ASSUME TypeOK, TrialInv, TrialWithFallback
               PROVE  starts <= BL_MAX_BOOT_ATTEMPTS + faults
    BY DEF AttemptBound
  <2>1. meta # None /\ Paid
    BY DEF TrialInv, Paid
  <2>2. /\ meta.boot_attempts \in 0 .. BL_MAX_BOOT_ATTEMPTS
        /\ starts \in Nat /\ faults \in Nat /\ BL_MAX_BOOT_ATTEMPTS \in Nat
    BY <2>1, BootAssumption DEF TypeOK, MetaRecord, StartsCap
  <2> QED BY <2>1, <2>2 DEF Paid
<1> QED BY <1>1, InitType, NextType, InitTrialInv, NextTrialInv, PTL DEF Spec
-----------------------------------------------------------------------------
(* What runs and what is nominated *)

LEMMA InitRuns == Init => RunsNominated
  BY DEF Init, RunsNominated

\* Selection takes the nominated slot whenever it validates; afterwards a
\* running image keeps the nomination unless the slot decays.
LEMMA NextRuns == TypeOK /\ RunsNominated /\ [Next]_vars => RunsNominated'
<1> SUFFICES ASSUME TypeOK, RunsNominated, [Next]_vars PROVE RunsNominated'
  OBVIOUS
<1>1. CASE SelectAndJump
  BY <1>1, BootAssumption DEF SelectAndJump, RunsNominated, bl_core_select_slot, valid,
                              TypeOK, MetaRecord
<1>2. CASE Confirm
  <2>1. /\ UNCHANGED <<slot, pc, running>>
        /\ meta' # None => meta # None /\ meta'.active_slot = meta.active_slot
    BY <1>2, BootAssumption DEF Confirm, CommitOk, CommitFails, Rec, OnTrial
  <2> QED BY <2>1 DEF RunsNominated, valid
<1>3. ASSUME NEW s \in Slot, Decay(s) PROVE RunsNominated'
  <2>1. \A t : valid(t)' /\ t \in Slot => valid(t)
    BY <1>3 DEF Decay, valid, TypeOK
  <2>2. meta # None => meta.active_slot \in Slot
    BY DEF TypeOK, MetaRecord
  <2> QED BY <1>3, <2>1, <2>2 DEF Decay, RunsNominated
<1>4. CASE UNCHANGED vars
  BY <1>4 DEF vars, RunsNominated, valid
<1>5. CASE AdvanceTrial \/ EnterLoader \/ Restart \/
           \E s \in Slot : EraseSlot(s) \/ SetActive(s) \/
                          \E i \in Image : CompleteImage(s, i)
  <2>1. pc' # "app"
    BY <1>5 DEF AdvanceTrial, EnterLoader, Restart, EraseSlot, SetActive, CompleteImage
  <2> QED BY <2>1 DEF RunsNominated
<1> QED BY <1>1, <1>2, <1>3, <1>4, <1>5 DEF Next

\* The image that bl_core_boot started is the one the record nominates, as
\* long as that one validates, although the record may have changed earlier
\* in the same boot (bl_core.c:353-377).
THEOREM NominatedRuns == Spec => []RunsNominated
<1>1. Spec => []TypeOK
  BY BootTypeCorrect
<1> QED BY <1>1, InitRuns, NextRuns, PTL DEF Spec

\* A step that moves the record to another slot moves it to a valid one.
LEMMA StepSwitches ==
    ASSUME TypeOK, Next, NEW s \in Slot,
           meta' # None, meta'.active_slot = s,
           meta # None => meta.active_slot # s
    PROVE  valid(s)
<1>1. CASE AdvanceTrial
  <2>1. ~ (meta' = meta)
    OBVIOUS
  <2>2. CASE CountAttempt
    <3>1. meta'.active_slot = meta.active_slot /\ meta # None
      BY <2>1, <2>2 DEF CountAttempt, OnTrial, CommitOk, CommitFails, Rec
    <3> QED BY <3>1
  <2>3. CASE Revert
    <3>1. meta'.active_slot = other(meta.active_slot) /\ fallback_is_valid
      BY <2>1, <2>3 DEF Revert, CommitOk, CommitFails, Rec
    <3> QED BY <3>1 DEF fallback_is_valid
  <2>4. CASE Keep
    BY <2>1, <2>4 DEF Keep
  <2> QED BY <1>1, <2>2, <2>3, <2>4 DEF AdvanceTrial, KeepFailing
<1>2. CASE Confirm
  BY <1>2 DEF Confirm, CommitOk, CommitFails, Rec, OnTrial
<1>3. ASSUME NEW t \in Slot, SetActive(t) PROVE valid(s)
  BY <1>3 DEF SetActive, mark_pending_accepts, Rec
<1>4. CASE UNCHANGED meta
  BY <1>4
<1>5. AdvanceTrial \/ Confirm \/ UNCHANGED meta \/ \E t \in Slot : SetActive(t)
  BY DEF Next, SelectAndJump, EnterLoader, Restart, EraseSlot, CompleteImage, Decay
<1> QED BY <1>1, <1>2, <1>3, <1>4, <1>5

\* The record never moves to a slot that does not validate at that moment,
\* by SET_ACTIVE or by a revert (bl_core.c:347, 396).
THEOREM SwitchesOnlyToValid == Spec => SwitchesToValid
<1>1. TypeOK /\ [Next]_vars =>
         [\A s \in Slot : /\ meta' # None /\ meta'.active_slot = s
                          /\ meta # None => meta.active_slot # s
                          => valid(s)]_vars
  BY StepSwitches
<1> QED BY <1>1, BootTypeCorrect, PTL DEF Spec, SwitchesToValid
=============================================================================
