--------------------------- MODULE BlSessionProofs ---------------------------
(***************************************************************************)
(* Proofs about BlSession, for every slot size, header size, granularity   *)
(* and set of images.                                                      *)
(***************************************************************************)
EXTENDS BlSession, TLAPS

-----------------------------------------------------------------------------
(* Arithmetic of granules, and what the checks of handle_write establish *)

\* The offsets of granules are numbers, and the first one is zero.
LEMMA Granules ==
    /\ \A g \in Nat : at(g) \in Nat
    /\ at(0) = 0
    /\ slot_size \in Nat
<1>1. \A g \in Nat : g * Gran \in Nat
  BY SessionAssumption
<1>2. 0 * Gran = 0 /\ Cells \in Nat
  BY SessionAssumption
<1> QED
  BY <1>1, <1>2 DEF at, slot_size

\* Slot numbers as a set.
LEMMA Slots == Slot = {0, 1}
BY DEF Slot, BL_SLOT_COUNT

\* The requests carry numbers.
LEMMA Numbers == \A w \in Writes : w[1] \in Nat /\ w[2] \in Nat
BY SessionAssumption

\* A write that passes the checks of handle_write has a session, is not a
\* repetition and ends inside the slot (bl_core.c:540-594).
LEMMA WriteChecked ==
    ASSUME TypeOK, NEW offset \in Nat, NEW data_len \in Nat,
           write_check(offset, data_len) = BL_OK
    PROVE  /\ session.erased
           /\ offset \in Nat /\ data_len \in Nat
           /\ offset = 0 => ~ session.header_written
           /\ offset # 0 => offset >= session.highest_offset
           /\ offset + data_len <= slot_size
<1>1. offset \in Nat /\ data_len \in Nat
  BY SessionAssumption
<1>2. /\ session.erased
      /\ ~ repeats(offset)
      /\ ~ beyond_slot(offset, data_len)
  BY DEF write_check, BL_OK
<1>3. offset + data_len <= slot_size
  BY <1>1, <1>2, Granules DEF beyond_slot
<1>4. /\ offset = 0 => ~ session.header_written
      /\ offset # 0 => offset >= session.highest_offset
  BY <1>1, <1>2, Granules DEF repeats, TypeOK
<1> QED
  BY <1>1, <1>2, <1>3, <1>4

\* Every check of handle_write ends in a result code.
LEMMA WriteCheckResult ==
    \A offset, data_len : write_check(offset, data_len) \in Result
BY DEF write_check, Result, BL_ERR, BL_OK

\* And so does every verdict on a slot.
LEMMA CheckSlotResult ==
    \A s : check_slot(s) \in Result
BY DEF check_slot, validate_slot, Result, BL_ERR, BL_OK

\* Programming keeps the type of a slot's content.
LEMMA ProgramType ==
    ASSUME NEW content \in Content, NEW offset, NEW len, NEW i \in Image
    PROVE  Program(content, offset, len, i) \in Content
BY DEF Program, Content

\* A write that was cut short touched no other granule than the whole one.
LEMMA PrefixTouches ==
    ASSUME NEW offset \in Nat, NEW data_len \in Nat, NEW k \in Prefix(data_len)
    PROVE  Touched(offset, k) \subseteq Touched(offset, data_len)
<1>1. PICK h \in Cell : k = at(h) /\ at(h) <= data_len
  BY DEF Prefix
<1>2. k \in Nat /\ k <= data_len
  BY <1>1, Granules, SessionAssumption DEF Cell
<1>3. \A g \in Cell : at(g) \in Nat
  BY Granules, SessionAssumption DEF Cell
<1> QED
  BY <1>2, <1>3 DEF Touched

\* The granules of a payload write were blank (bl_core.c:577-585).
LEMMA PayloadBlank ==
    ASSUME TypeOK, SessionInv, NEW offset \in Nat, NEW data_len \in Nat,
           write_check(offset, data_len) = BL_OK, offset # 0
    PROVE  \A g \in Touched(offset, data_len) : flash[session.target_slot][g] = Blank
<1>1. session.erased /\ offset >= session.highest_offset /\ offset \in Nat
  BY WriteChecked
<1>2. \A g \in Cell : at(g) \in Nat
  BY Granules, SessionAssumption DEF Cell
<1>3. \A g \in Touched(offset, data_len) : g \in Cell /\ at(g) >= session.highest_offset
  BY <1>1, <1>2, Granules DEF Touched, TypeOK
<1> QED
  BY <1>1, <1>3 DEF SessionInv

-----------------------------------------------------------------------------
(* Types *)

\* The initial states have the right types.
LEMMA InitType == Init => TypeOK
<1> SUFFICES ASSUME Init PROVE TypeOK
  OBVIOUS
<1>1. flash \in [Slot -> Content]
  BY DEF Init, Content, ErasedContent, UndefinedContent
<1>2. session \in [target_slot : Slot, erased : BOOLEAN,
                   highest_offset : 0 .. slot_size,
                   header_written : BOOLEAN, reset_requested : BOOLEAN]
  BY Granules, Slots DEF Init, NoSession
<1> QED
  BY <1>1, <1>2 DEF Init, TypeOK

\* A response has the type of a response.
LEMMA ReplyType ==
    ASSUME NEW cmd \in Command, NEW st \in Result, Respond(cmd, st)
    PROVE  reply' \in [cmd : Command, status : Result] \cup {None}
BY DEF Respond

\* Losing the session gives a session of the right type.
LEMMA NoSessionType ==
    NoSession \in [target_slot : Slot, erased : BOOLEAN,
                   highest_offset : 0 .. slot_size,
                   header_written : BOOLEAN, reset_requested : BOOLEAN]
BY Granules, Slots DEF NoSession

\* The session after an erase and after a write.
LEMMA SessionTypes ==
    ASSUME TypeOK
    PROVE  /\ \A s \in Slot : FreshSession(s) \in
                 [target_slot : Slot, erased : BOOLEAN,
                  highest_offset : 0 .. slot_size,
                  header_written : BOOLEAN, reset_requested : BOOLEAN]
           /\ \A offset \in Nat, data_len \in Nat :
                 write_check(offset, data_len) = BL_OK =>
                 AfterWrite(offset, data_len) \in
                 [target_slot : Slot, erased : BOOLEAN,
                  highest_offset : 0 .. slot_size,
                  header_written : BOOLEAN, reset_requested : BOOLEAN]
<1>1. ASSUME NEW s \in Slot
      PROVE  FreshSession(s) \in
                 [target_slot : Slot, erased : BOOLEAN,
                  highest_offset : 0 .. slot_size,
                  header_written : BOOLEAN, reset_requested : BOOLEAN]
  <2>1. 0 \in 0 .. slot_size
    BY Granules
  <2> QED
    BY <2>1 DEF FreshSession, TypeOK
<1>2. ASSUME NEW offset \in Nat, NEW data_len \in Nat,
             write_check(offset, data_len) = BL_OK
      PROVE  AfterWrite(offset, data_len) \in
                 [target_slot : Slot, erased : BOOLEAN,
                  highest_offset : 0 .. slot_size,
                  header_written : BOOLEAN, reset_requested : BOOLEAN]
  <2>1. offset + data_len \in 0 .. slot_size
    BY <1>2, WriteChecked, Granules
  <2>2. session.header_written \in BOOLEAN
    BY DEF TypeOK
  <2>3. (offset = 0 \/ session.header_written) \in BOOLEAN
    OBVIOUS
  <2> QED
    BY <2>1, <2>2, <2>3 DEF AfterWrite, TypeOK
<1> QED
  BY <1>1, <1>2

\* Every step keeps the types.
LEMMA NextType == TypeOK /\ [Next]_vars => TypeOK'
<1> SUFFICES ASSUME TypeOK, [Next]_vars PROVE TypeOK'
  OBVIOUS
<1> DEFINE S == [target_slot : Slot, erased : BOOLEAN,
                 highest_offset : 0 .. slot_size,
                 header_written : BOOLEAN, reset_requested : BOOLEAN]
           R == [cmd : Command, status : Result] \cup {None}
<1>0. /\ flash \in [Slot -> Content] /\ session \in S
      /\ nominated \in Slot \cup {None} /\ reply \in R
  BY DEF TypeOK
<1>a. ErasedContent \in Content /\ UndefinedContent \in Content
  BY DEF ErasedContent, UndefinedContent, Content
<1>b. /\ BL_OK \in Result /\ "BL_ERR_FLASH_ERASE" \in Result
      /\ "BL_ERR_INVALID_ARGUMENT" \in Result /\ "BL_ERR_FLASH_PROGRAM" \in Result
      /\ "BL_ERR_INVALID_PACKET" \in Result /\ CommitError \subseteq Result
  BY DEF Result, BL_ERR, CommitError
<1>c. Command = {"HELLO", "ERASE_SLOT", "WRITE", "VERIFY", "SET_ACTIVE", "RESET", "OTHER"}
  BY DEF Command
<1> SUFFICES /\ flash' \in [Slot -> Content] /\ session' \in S
             /\ nominated' \in Slot \cup {None} /\ reply' \in R
  BY DEF TypeOK
<1>1. CASE handle_hello
  BY <1>0, <1>1, <1>b, <1>c, ReplyType DEF handle_hello
<1>2. CASE handle_reset
  BY <1>0, <1>2, <1>b, <1>c, ReplyType DEF handle_reset
<1>3. CASE Malformed
  BY <1>0, <1>3, <1>b, <1>c, ReplyType DEF Malformed
<1>4. ASSUME NEW s \in 0 .. BL_SLOT_COUNT, handle_erase_slot(s)
      PROVE  /\ flash' \in [Slot -> Content] /\ session' \in S
             /\ nominated' \in Slot \cup {None} /\ reply' \in R
  <2>1. reply' \in R
    BY <1>4, <1>b, <1>c, ReplyType DEF handle_erase_slot
  <2>2. s \in Erasable => s \in Slot
    BY SessionAssumption
  <2>3. session' \in S
    BY <1>0, <1>4, <2>2, SessionTypes DEF handle_erase_slot
  <2> QED
    BY <1>0, <1>4, <1>a, <2>1, <2>2, <2>3 DEF handle_erase_slot
<1>5. ASSUME NEW s \in 0 .. BL_SLOT_COUNT, handle_verify(s)
      PROVE  /\ flash' \in [Slot -> Content] /\ session' \in S
             /\ nominated' \in Slot \cup {None} /\ reply' \in R
  BY <1>0, <1>5, <1>c, CheckSlotResult, ReplyType DEF handle_verify
<1>6. ASSUME NEW s \in 0 .. BL_SLOT_COUNT, handle_set_active(s)
      PROVE  /\ flash' \in [Slot -> Content] /\ session' \in S
             /\ nominated' \in Slot \cup {None} /\ reply' \in R
  <2>1. reply' \in R
    BY <1>6, <1>b, <1>c, CheckSlotResult, ReplyType DEF handle_set_active
  <2>2. check_slot(s) = BL_OK => s \in Slot
    BY DEF check_slot, BL_OK
  <2> QED
    BY <1>0, <1>6, <2>1, <2>2 DEF handle_set_active
<1>7. ASSUME NEW offset \in Nat, NEW data_len \in Nat, NEW i \in Image,
             handle_write(offset, data_len, i)
      PROVE  /\ flash' \in [Slot -> Content] /\ session' \in S
             /\ nominated' \in Slot \cup {None} /\ reply' \in R
  <2>1. reply' \in R
    BY <1>7, <1>b, <1>c, WriteCheckResult, ReplyType DEF handle_write
  <2>2. session' \in S
    BY <1>0, <1>7, SessionTypes DEF handle_write
  <2>3. session.target_slot \in Slot
    BY <1>0
  <2>4. flash' \in [Slot -> Content]
    BY <1>0, <1>7, <2>3, ProgramType DEF handle_write
  <2> QED
    BY <1>0, <1>7, <2>1, <2>2, <2>4 DEF handle_write
<1>8. CASE Restart
  BY <1>0, <1>8, NoSessionType DEF Restart, LoseSession
<1>9. ASSUME NEW s \in Slot, PowerLossInErase(s)
      PROVE  /\ flash' \in [Slot -> Content] /\ session' \in S
             /\ nominated' \in Slot \cup {None} /\ reply' \in R
  BY <1>0, <1>9, <1>a, NoSessionType DEF PowerLossInErase, LoseSession
<1>10. ASSUME NEW offset \in Nat, NEW data_len \in Nat, NEW i \in Image,
              PowerLossInWrite(offset, data_len, i)
       PROVE  /\ flash' \in [Slot -> Content] /\ session' \in S
              /\ nominated' \in Slot \cup {None} /\ reply' \in R
  <2>1. session.target_slot \in Slot
    BY <1>0
  <2>2. flash' \in [Slot -> Content]
    BY <1>0, <1>10, <2>1, ProgramType DEF PowerLossInWrite
  <2> QED
    BY <1>0, <1>10, <2>2, NoSessionType DEF PowerLossInWrite, LoseSession
<1>11. CASE UNCHANGED vars
  BY <1>0, <1>11 DEF vars
<1> QED
  BY <1>1, <1>2, <1>3, <1>4, <1>5, <1>6, <1>7, <1>8, <1>9, <1>10, <1>11,
     Numbers DEF Next, bl_core_handle_frame

\* Every variable of the command handler keeps its type; in particular no
\* WRITE is accepted that would end behind its slot.
THEOREM SessionTypeCorrect == Spec => []TypeOK
<1> QED
  BY InitType, NextType, PTL DEF Spec

-----------------------------------------------------------------------------
(* What the session knows of flash *)

\* SessionInv is inductive, given the types: a step either starts or loses
\* the session, leaves slot and session alone, or is a write.
LEMMA NextSession == TypeOK /\ SessionInv /\ [Next]_vars => SessionInv'
<1> SUFFICES ASSUME TypeOK, SessionInv, [Next]_vars PROVE SessionInv'
  OBVIOUS
<1>0. /\ session.target_slot \in Slot /\ session.highest_offset \in Nat
      /\ flash \in [Slot -> Content]
      /\ \A g \in Cell : at(g) \in Nat
  BY Granules, SessionAssumption DEF TypeOK, Cell
<1>1. CASE UNCHANGED <<flash, session>>
  BY <1>1 DEF SessionInv
<1>2. CASE session' = NoSession
  BY <1>2 DEF SessionInv, NoSession
<1>3. CASE handle_reset
  <2>1. /\ flash' = flash
        /\ session'.erased = session.erased
        /\ session'.target_slot = session.target_slot
        /\ session'.highest_offset = session.highest_offset
        /\ session'.header_written = session.header_written
    BY <1>3 DEF handle_reset, TypeOK
  <2> QED
    BY <2>1 DEF SessionInv
<1>4. ASSUME NEW s \in 0 .. BL_SLOT_COUNT, handle_erase_slot(s)
      PROVE  SessionInv'
  <2>1. CASE UNCHANGED <<flash, session>>
    BY <1>1, <2>1
  <2>2. CASE /\ s \in Erasable
             /\ flash' = [flash EXCEPT ![s] = ErasedContent]
             /\ session' = FreshSession(s)
    <3>1. s \in Slot
      BY <2>2, SessionAssumption
    <3>2. flash'[s] = ErasedContent
      BY <1>0, <2>2, <3>1
    <3>3. session'.target_slot = s
      BY <2>2 DEF FreshSession, TypeOK
    <3> QED
      BY <3>2, <3>3 DEF SessionInv, ErasedContent
  <2> QED
    BY <1>4, <2>1, <2>2 DEF handle_erase_slot
<1>5. ASSUME NEW offset \in Nat, NEW data_len \in Nat, NEW i \in Image,
             handle_write(offset, data_len, i)
      PROVE  SessionInv'
  <2>1. CASE UNCHANGED <<flash, session>>
    BY <1>1, <2>1
  <2> DEFINE t == session.target_slot
  <2>2. CASE /\ write_check(offset, data_len) = BL_OK
             /\ flash' = [flash EXCEPT ![t] = Program(flash[t], offset, data_len, i)]
             /\ session' = AfterWrite(offset, data_len)
    <3>1. /\ session.erased /\ offset \in Nat /\ data_len \in Nat
          /\ offset = 0 => ~ session.header_written
          /\ offset # 0 => offset >= session.highest_offset
      BY <2>2, WriteChecked
    <3>2. /\ session'.target_slot = t
          /\ offset = 0 => session'.header_written
          /\ session.header_written => session'.header_written
          /\ session'.highest_offset = IF offset + data_len > session.highest_offset
                           THEN offset + data_len ELSE session.highest_offset
      BY <2>2 DEF AfterWrite, TypeOK
    <3>a. /\ session'.highest_offset \in Nat
          /\ session'.highest_offset >= session.highest_offset
          /\ session'.highest_offset >= offset + data_len
      BY <1>0, <3>1, <3>2
    <3>3. flash'[t] = Program(flash[t], offset, data_len, i)
      BY <1>0, <2>2
    <3>4. ASSUME NEW g \in Cell,
                 \/ at(g) >= session'.highest_offset
                 \/ g = 0 /\ ~ session'.header_written
          PROVE  flash'[t][g] = Blank
      <4>0. at(g) \in Nat
        BY <1>0
      <4>1. g \notin Touched(offset, data_len)
        <5>1. CASE at(g) >= session'.highest_offset
          BY <3>1, <3>a, <4>0, <5>1 DEF Touched
        <5>2. CASE g = 0 /\ ~ session'.header_written
          <6>1. offset # 0 /\ at(g) = 0
            BY <3>2, <5>2, Granules
          <6> QED
            BY <3>1, <4>0, <6>1 DEF Touched
        <5> QED
          BY <3>4, <5>1, <5>2
      <4>2. flash'[t][g] = flash[t][g]
        BY <3>3, <4>1 DEF Program
      <4>3. \/ at(g) >= session.highest_offset
            \/ g = 0 /\ ~ session.header_written
        <5>1. CASE at(g) >= session'.highest_offset
          BY <1>0, <3>a, <4>0, <5>1
        <5>2. CASE g = 0 /\ ~ session'.header_written
          BY <3>2, <5>2
        <5> QED
          BY <3>4, <5>1, <5>2
      <4> QED
        BY <3>1, <4>2, <4>3 DEF SessionInv
    <3> QED
      BY <3>2, <3>4 DEF SessionInv
  <2> QED
    BY <1>5, <2>1, <2>2 DEF handle_write
<1>6. CASE handle_hello \/ Malformed
  BY <1>1, <1>6 DEF handle_hello, Malformed
<1>7. ASSUME NEW s \in 0 .. BL_SLOT_COUNT, handle_verify(s) \/ handle_set_active(s)
      PROVE  SessionInv'
  BY <1>1, <1>7 DEF handle_verify, handle_set_active
<1>8. CASE \/ Restart
           \/ \E s \in Slot : PowerLossInErase(s)
           \/ \E w \in Writes, i \in Image : PowerLossInWrite(w[1], w[2], i)
  BY <1>2, <1>8 DEF Restart, PowerLossInErase, PowerLossInWrite, LoseSession
<1>9. CASE UNCHANGED vars
  BY <1>1, <1>9 DEF vars
<1> QED
  BY <1>3, <1>4, <1>5, <1>6, <1>7, <1>8, <1>9,
     Numbers DEF Next, bl_core_handle_frame

\* The session never believes of its slot what is not so: whatever requests
\* arrive and wherever the device is interrupted, granules it takes for
\* blank are blank.
THEOREM SessionKnowsFlash == Spec => []SessionInv
<1>1. Init => SessionInv
  BY DEF Init, SessionInv, NoSession
<1> QED
  BY <1>1, InitType, NextType, NextSession, PTL DEF Spec

-----------------------------------------------------------------------------
(* A complete image is destroyed by nothing but an erase *)

\* A slot that holds an image has no blank granule where the image is.
LEMMA CoveredNotBlank ==
    ASSUME NEW content, NEW i \in Image, holds(content, i)
    PROVE  /\ \A g \in Covered(i) : content[g] # Blank
           /\ content[0] # Blank
<1>1. 0 \in Covered(i)
  BY SessionAssumption DEF Covered, Header, Cell
<1> QED
  BY <1>1, SessionAssumption DEF holds

\* A write, whole or cut short, that passes the checks leaves a complete
\* image alone: its granules are not blank, those of the write are.
LEMMA WriteKeepsImage ==
    ASSUME TypeOK, SessionInv, NEW offset \in Nat, NEW data_len \in Nat,
           write_check(offset, data_len) = BL_OK,
           NEW len, Touched(offset, len) \subseteq Touched(offset, data_len),
           NEW j \in Image, NEW i \in Image,
           holds(flash[session.target_slot], i)
    PROVE  holds(Program(flash[session.target_slot], offset, len, j), i)
<1> DEFINE c == flash[session.target_slot]
<1>1. offset # 0
  <2>1. SUFFICES ASSUME offset = 0 PROVE FALSE
    OBVIOUS
  <2>2. session.erased /\ ~ session.header_written
    BY <2>1, WriteChecked
  <2>3. 0 \in Cell
    BY SessionAssumption DEF Cell
  <2>4. c[0] = Blank
    BY <2>2, <2>3 DEF SessionInv
  <2> QED
    BY <2>4, CoveredNotBlank
<1>2. \A g \in Touched(offset, data_len) : c[g] = Blank
  BY <1>1, PayloadBlank
<1>3. \A g \in Covered(i) : g \in Cell /\ g \notin Touched(offset, len)
  BY <1>2, CoveredNotBlank DEF Covered, Header
<1> QED
  BY <1>3 DEF holds, Program

\* IntactUntilErased, for one step.
LEMMA StepKeepsImages ==
    ASSUME TypeOK, SessionInv, [Next]_vars, NEW s \in Slot, NEW i \in Image,
           holds(flash[s], i), ~ holds(flash'[s], i)
    PROVE  flash'[s] \in {ErasedContent, UndefinedContent}
<1>0. session.target_slot \in Slot /\ flash \in [Slot -> Content]
  BY DEF TypeOK
<1>1. flash' # flash
  OBVIOUS
<1>2. ASSUME NEW r \in 0 .. BL_SLOT_COUNT, handle_erase_slot(r)
      PROVE  flash'[s] \in {ErasedContent, UndefinedContent}
  <2>1. r \in Erasable /\ flash' = [flash EXCEPT ![r] = ErasedContent]
    BY <1>1, <1>2 DEF handle_erase_slot
  <2>2. r = s
    BY <1>0, <2>1
  <2> QED
    BY <1>0, <2>1, <2>2
<1>3. ASSUME NEW r \in Slot, PowerLossInErase(r)
      PROVE  flash'[s] \in {ErasedContent, UndefinedContent}
  <2>1. flash' = [flash EXCEPT ![r] = UndefinedContent]
    BY <1>3 DEF PowerLossInErase
  <2>2. r = s
    BY <1>0, <2>1
  <2> QED
    BY <1>0, <2>1, <2>2
<1>4. ASSUME NEW offset \in Nat, NEW data_len \in Nat, NEW j \in Image,
             \/ handle_write(offset, data_len, j)
             \/ PowerLossInWrite(offset, data_len, j)
      PROVE  FALSE
  <2> DEFINE t == session.target_slot
  <2>1. /\ write_check(offset, data_len) = BL_OK
        /\ \E len : /\ Touched(offset, len) \subseteq Touched(offset, data_len)
                    /\ flash' = [flash EXCEPT ![t] = Program(flash[t], offset, len, j)]
    <3>1. CASE handle_write(offset, data_len, j)
      BY <1>1, <3>1 DEF handle_write
    <3>2. CASE PowerLossInWrite(offset, data_len, j)
      <4>1. write_check(offset, data_len) = BL_OK
        BY <3>2 DEF PowerLossInWrite
      <4>2. PICK k \in Prefix(data_len) :
                flash' = [flash EXCEPT ![t] = Program(flash[t], offset, k, j)]
        BY <3>2 DEF PowerLossInWrite
      <4>3. Touched(offset, k) \subseteq Touched(offset, data_len)
        BY <4>1, WriteChecked, PrefixTouches
      <4> QED
        BY <4>1, <4>2, <4>3
    <3> QED
      BY <1>4, <3>1, <3>2
  <2>2. PICK len : /\ Touched(offset, len) \subseteq Touched(offset, data_len)
                   /\ flash' = [flash EXCEPT ![t] = Program(flash[t], offset, len, j)]
    BY <2>1
  <2>3. s = t
    BY <1>0, <2>2
  <2>4. flash'[s] = Program(flash[s], offset, len, j)
    BY <1>0, <2>2, <2>3
  <2> QED
    BY <2>1, <2>2, <2>3, <2>4, WriteKeepsImage
<1>5. ASSUME NEW r \in 0 .. BL_SLOT_COUNT, handle_verify(r) \/ handle_set_active(r)
      PROVE  FALSE
  BY <1>1, <1>5 DEF handle_verify, handle_set_active
<1>6. CASE handle_hello \/ handle_reset \/ Malformed \/ Restart \/ UNCHANGED vars
  BY <1>1, <1>6 DEF handle_hello, handle_reset, Malformed, Restart, vars
<1> QED
  BY <1>2, <1>3, <1>4, <1>5, <1>6,
     Numbers DEF Next, bl_core_handle_frame

\* Whatever the host sends and whenever power fails, a complete image stays
\* in its slot until that slot is erased: what the boot path assumes of the
\* command handler.  It does not depend on a well-behaved host.
THEOREM ImagesStay == Spec => IntactUntilErased
<1>1. Init => TypeOK /\ SessionInv
  BY InitType DEF Init, SessionInv, NoSession
<1>2. TypeOK /\ SessionInv /\ [Next]_vars => (TypeOK /\ SessionInv)'
  BY NextType, NextSession
<1>3. TypeOK /\ SessionInv /\ [Next]_vars =>
        [\A s \in Slot, i \in Image :
            holds(flash[s], i) /\ ~ holds(flash'[s], i) =>
                flash'[s] \in {ErasedContent, UndefinedContent}]_vars
  BY StepKeepsImages
<1> QED
  BY <1>1, <1>2, <1>3, PTL DEF Spec, IntactUntilErased

-----------------------------------------------------------------------------
(* Nothing is programmed twice *)

\* The missing part of the argument: until the header is written, the whole
\* header region is blank, for a host that starts the payload behind it.
HeaderRegionBlank ==
    session.erased /\ ~ session.header_written =>
        \A g \in Cell : at(g) < at(RegionCells) =>
            flash[session.target_slot][g] = Blank

\* A write that passes the checks, of such a host, finds its granules blank.
LEMMA WriteFindsBlank ==
    ASSUME TypeOK, SessionInv, HeaderRegionBlank,
           NEW offset \in Nat, NEW data_len \in Nat, Disciplined(offset, data_len),
           write_check(offset, data_len) = BL_OK
    PROVE  \A g \in Touched(offset, data_len) : flash[session.target_slot][g] = Blank
<1>1. CASE offset # 0
  BY <1>1, PayloadBlank
<1>2. CASE offset = 0
  <2>1. session.erased /\ ~ session.header_written /\ data_len \in Nat
    BY <1>2, WriteChecked
  <2>2. data_len <= at(RegionCells)
    BY <1>2 DEF Disciplined
  <2>3. at(RegionCells) \in Nat /\ \A g \in Cell : at(g) \in Nat
    BY Granules, SessionAssumption DEF Cell
  <2>4. \A g \in Touched(offset, data_len) : g \in Cell /\ at(g) < at(RegionCells)
    BY <1>2, <2>1, <2>2, <2>3 DEF Touched
  <2> QED
    BY <2>1, <2>4 DEF HeaderRegionBlank
<1> QED
  BY <1>1, <1>2

\* HeaderRegionBlank is kept by every step.
LEMMA NextHeaderRegion ==
    ASSUME HostDiscipline, TypeOK, HeaderRegionBlank, [Next]_vars
    PROVE  HeaderRegionBlank'
<1>0. session.target_slot \in Slot /\ flash \in [Slot -> Content]
  BY DEF TypeOK
<1>1. CASE UNCHANGED <<flash, session>>
  BY <1>1 DEF HeaderRegionBlank
<1>2. CASE session' = NoSession
  BY <1>2 DEF HeaderRegionBlank, NoSession
<1>3. CASE handle_reset
  <2>1. /\ flash' = flash
        /\ session'.erased = session.erased
        /\ session'.target_slot = session.target_slot
        /\ session'.header_written = session.header_written
    BY <1>3 DEF handle_reset, TypeOK
  <2> QED
    BY <2>1 DEF HeaderRegionBlank
<1>4. ASSUME NEW s \in 0 .. BL_SLOT_COUNT, handle_erase_slot(s)
      PROVE  HeaderRegionBlank'
  <2>1. CASE UNCHANGED <<flash, session>>
    BY <1>1, <2>1
  <2>2. CASE /\ s \in Erasable
             /\ flash' = [flash EXCEPT ![s] = ErasedContent]
             /\ session' = FreshSession(s)
    <3>1. s \in Slot
      BY <2>2, SessionAssumption
    <3>2. flash'[s] = ErasedContent
      BY <1>0, <2>2, <3>1
    <3>3. session'.target_slot = s
      BY <2>2 DEF FreshSession, TypeOK
    <3> QED
      BY <3>2, <3>3 DEF HeaderRegionBlank, ErasedContent
  <2> QED
    BY <1>4, <2>1, <2>2 DEF handle_erase_slot
<1>5. ASSUME NEW offset \in Nat, NEW data_len \in Nat, NEW i \in Image,
             Disciplined(offset, data_len),
             handle_write(offset, data_len, i)
      PROVE  HeaderRegionBlank'
  <2>1. CASE UNCHANGED <<flash, session>>
    BY <1>1, <2>1
  <2> DEFINE t == session.target_slot
  <2>2. CASE /\ write_check(offset, data_len) = BL_OK
             /\ flash' = [flash EXCEPT ![t] = Program(flash[t], offset, data_len, i)]
             /\ session' = AfterWrite(offset, data_len)
    <3>1. session.erased /\ offset \in Nat /\ data_len \in Nat
      BY <2>2, WriteChecked
    <3>2. /\ session'.target_slot = t
          /\ offset = 0 => session'.header_written
          /\ session.header_written => session'.header_written
      BY <2>2 DEF AfterWrite, TypeOK
    <3>3. flash'[t] = Program(flash[t], offset, data_len, i)
      BY <1>0, <2>2
    <3>4. ASSUME ~ session'.header_written, NEW g \in Cell, at(g) < at(RegionCells)
          PROVE  flash'[t][g] = Blank
      <4>1. offset >= at(RegionCells) /\ ~ session.header_written
        BY <1>5, <3>2, <3>4 DEF Disciplined
      <4>2. at(g) \in Nat /\ at(RegionCells) \in Nat
        BY Granules, SessionAssumption DEF Cell
      <4>3. g \notin Touched(offset, data_len)
        BY <3>1, <3>4, <4>1, <4>2 DEF Touched
      <4>4. flash'[t][g] = flash[t][g]
        BY <3>3, <4>3 DEF Program
      <4> QED
        BY <3>1, <3>4, <4>1, <4>4 DEF HeaderRegionBlank
    <3> QED
      BY <3>2, <3>4 DEF HeaderRegionBlank
  <2> QED
    BY <1>5, <2>1, <2>2 DEF handle_write
<1>6. CASE handle_hello \/ Malformed
  BY <1>1, <1>6 DEF handle_hello, Malformed
<1>7. ASSUME NEW s \in 0 .. BL_SLOT_COUNT, handle_verify(s) \/ handle_set_active(s)
      PROVE  HeaderRegionBlank'
  BY <1>1, <1>7 DEF handle_verify, handle_set_active
<1>8. CASE \/ Restart
           \/ \E s \in Slot : PowerLossInErase(s)
           \/ \E w \in Writes, i \in Image : PowerLossInWrite(w[1], w[2], i)
  BY <1>2, <1>8 DEF Restart, PowerLossInErase, PowerLossInWrite, LoseSession
<1>9. CASE UNCHANGED vars
  BY <1>1, <1>9 DEF vars
<1> QED
  BY <1>3, <1>4, <1>5, <1>6, <1>7, <1>8, <1>9,
     Numbers DEF HostDiscipline, Next, bl_core_handle_frame

\* No step programs a granule that is not blank.
LEMMA NextNoDouble ==
    ASSUME HostDiscipline, TypeOK, SessionInv, HeaderRegionBlank,
           NoDoubleProgram, [Next]_vars
    PROVE  NoDoubleProgram'
<1>0. session.target_slot \in Slot /\ flash \in [Slot -> Content]
  BY DEF TypeOK
<1>1. CASE UNCHANGED flash
  BY <1>1 DEF NoDoubleProgram
<1>2. ASSUME NEW s, NEW c, \A g \in Cell : c[g] # Conflict,
             flash' = [flash EXCEPT ![s] = c]
      PROVE  NoDoubleProgram'
  BY <1>0, <1>2 DEF NoDoubleProgram
<1>3. ASSUME NEW s \in 0 .. BL_SLOT_COUNT, handle_erase_slot(s)
      PROVE  NoDoubleProgram'
  <2>1. \A g \in Cell : ErasedContent[g] # Conflict
    BY SessionAssumption DEF ErasedContent
  <2> QED
    BY <1>1, <1>2, <1>3, <2>1 DEF handle_erase_slot
<1>4. ASSUME NEW s \in Slot, PowerLossInErase(s)
      PROVE  NoDoubleProgram'
  <2>1. \A g \in Cell : UndefinedContent[g] # Conflict
    BY SessionAssumption DEF UndefinedContent
  <2> QED
    BY <1>2, <1>4, <2>1 DEF PowerLossInErase
<1>5. ASSUME NEW offset \in Nat, NEW data_len \in Nat, NEW i \in Image,
             Disciplined(offset, data_len),
             write_check(offset, data_len) = BL_OK,
             NEW len, Touched(offset, len) \subseteq Touched(offset, data_len)
      PROVE  \A g \in Cell :
                Program(flash[session.target_slot], offset, len, i)[g] # Conflict
  <2>1. \A g \in Touched(offset, len) : flash[session.target_slot][g] = Blank
    BY <1>5, WriteFindsBlank
  <2>2. i # Conflict
    BY SessionAssumption
  <2>3. \A g \in Cell : flash[session.target_slot][g] # Conflict
    BY <1>0 DEF NoDoubleProgram
  <2> QED
    BY <2>1, <2>2, <2>3 DEF Program
<1>6. ASSUME NEW offset \in Nat, NEW data_len \in Nat, NEW i \in Image,
             Disciplined(offset, data_len),
             handle_write(offset, data_len, i)
      PROVE  NoDoubleProgram'
  <2>1. CASE UNCHANGED flash
    BY <1>1, <2>1
  <2>2. CASE /\ write_check(offset, data_len) = BL_OK
             /\ flash' = [flash EXCEPT ![session.target_slot] =
                             Program(flash[session.target_slot], offset, data_len, i)]
    <3>1. \A g \in Cell :
              Program(flash[session.target_slot], offset, data_len, i)[g] # Conflict
      BY <1>5, <1>6, <2>2
    <3> QED
      BY <1>2, <2>2, <3>1
  <2> QED
    BY <1>6, <2>1, <2>2 DEF handle_write
<1>7. ASSUME NEW offset \in Nat, NEW data_len \in Nat, NEW i \in Image,
             Disciplined(offset, data_len),
             PowerLossInWrite(offset, data_len, i)
      PROVE  NoDoubleProgram'
  <2>1. write_check(offset, data_len) = BL_OK
    BY <1>7 DEF PowerLossInWrite
  <2>2. PICK k \in Prefix(data_len) :
            flash' = [flash EXCEPT ![session.target_slot] =
                         Program(flash[session.target_slot], offset, k, i)]
    BY <1>7 DEF PowerLossInWrite
  <2>3. Touched(offset, k) \subseteq Touched(offset, data_len)
    BY <2>1, WriteChecked, PrefixTouches
  <2> QED
    BY <1>2, <1>5, <1>7, <2>1, <2>2, <2>3
<1>8. ASSUME NEW s \in 0 .. BL_SLOT_COUNT, handle_verify(s) \/ handle_set_active(s)
      PROVE  NoDoubleProgram'
  BY <1>1, <1>8 DEF handle_verify, handle_set_active
<1>9. CASE handle_hello \/ handle_reset \/ Malformed \/ Restart \/ UNCHANGED vars
  BY <1>1, <1>9 DEF handle_hello, handle_reset, Malformed, Restart, vars
<1> QED
  BY <1>3, <1>4, <1>6, <1>7, <1>8, <1>9,
     Numbers DEF HostDiscipline, Next, bl_core_handle_frame

\* With a host that sends at most the header region at offset zero and the
\* payload behind it, as tools/blflash.py does, no granule is programmed
\* twice between erases, in whatever order, however often and however late
\* its requests arrive.  The run session_twice shows that the premise is
\* needed.
THEOREM NothingTwice ==
    ASSUME HostDiscipline
    PROVE  Spec => []NoDoubleProgram
<1> DEFINE IInv == TypeOK /\ SessionInv /\ HeaderRegionBlank /\ NoDoubleProgram
<1>1. Init => IInv
  <2> SUFFICES ASSUME Init PROVE IInv
    OBVIOUS
  <2>1. SessionInv /\ HeaderRegionBlank
    BY DEF Init, SessionInv, HeaderRegionBlank, NoSession
  <2>2. NoDoubleProgram
    BY SessionAssumption DEF Init, NoDoubleProgram, ErasedContent, UndefinedContent
  <2> QED
    BY <2>1, <2>2, InitType
<1>2. IInv /\ [Next]_vars => IInv'
  BY NextType, NextSession, NextHeaderRegion, NextNoDouble
<1> QED
  BY <1>1, <1>2, PTL DEF Spec
=============================================================================
