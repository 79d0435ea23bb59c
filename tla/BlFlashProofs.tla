---------------------------- MODULE BlFlashProofs ----------------------------
(***************************************************************************)
(* Proofs about BlFlash: the safety of the `flash' command of the host     *)
(* tool, for every slot size, image, chunk size, number of attempts, of    *)
(* restarts and of commands, from every state in which SafeStart holds.    *)
(* The device keeps what BlSessionProofs shows of its handlers.            *)
(***************************************************************************)
EXTENDS BlFlash, BlSessionProofs

-----------------------------------------------------------------------------
(* The inductive invariant *)

Cmd == {"HELLO", "ERASE_SLOT", "WRITE", "VERIFY", "SET_ACTIVE", "RESET"}
RequestFrame == [cmd : Cmd, slot : Slot \cup {None}, offset : Nat, len : Nat]
ResponseFrame == [cmd : Cmd, status : Result, data : Slot \cup {None} \cup Nat \cup Image]

Deciding == step \in {"status_a", "status_b"}

\* The order in which update() sends its commands, VERIFY being the one
\* behind the last write.
Rank(cmd) == IF cmd = "HELLO" THEN 0
             ELSE IF cmd = "ERASE_SLOT" THEN 1
             ELSE IF cmd = "WRITE" THEN 2
             ELSE IF cmd = "VERIFY" THEN 3
             ELSE IF cmd = "SET_ACTIVE" THEN 4 ELSE 5
StepRank == IF step = "hello" THEN 0
            ELSE IF step = "erase" THEN 1
            ELSE IF step \in {"payload", "header"} THEN 2
            ELSE IF step = "verify" THEN 3
            ELSE IF step = "set_active" THEN 4 ELSE 5

Mutates(f) == f.cmd \in {"ERASE_SLOT", "WRITE"}
NoMutation == \A i \in 1 .. Len(toDev) : ~ Mutates(toDev[i])

\* A content validates, and the image that is found in it.
Valid(content) == \E i \in Image : holds(content, i)
Found(content) == CHOOSE i \in Image : holds(content, i)
Untied(fl) == \A i, j \in Image : holds(fl[0], i) /\ holds(fl[1], j) => Version[i] # Version[j]

\* would_boot, as an operator of flash and record.
SelectSlot(fl, active) ==
    IF active # None
    THEN IF Valid(fl[active]) THEN active
         ELSE IF Valid(fl[other(active)]) THEN other(active) ELSE None
    ELSE IF Valid(fl[0]) /\ ~ (Valid(fl[1]) /\ Version[Found(fl[1])] > Version[Found(fl[0])]) THEN 0
    ELSE IF Valid(fl[1]) THEN 1 ELSE None

LinkTypes ==
    /\ FlashTypeOK
    /\ toDev \in Seq(RequestFrame)
    /\ toHost \in Seq(ResponseFrame)
    /\ restarts \in Nat
    /\ ~ Running => ~ waiting

\* What the frames on their way to the device ask for.
RequestsInv ==
    \A i \in 1 .. Len(toDev) :
        LET f == toDev[i] IN
        /\ f.cmd = "WRITE" => <<f.offset, f.len>> \in UpdateWrites
        /\ f.cmd \in {"ERASE_SLOT", "SET_ACTIVE"} => f.slot = target
        /\ f.cmd = "VERIFY" => f.slot \in Slot /\ (setup.late => f.slot = target)

\* A late link: requests are handled in the order of the command, and what
\* has been answered is not behind what has not.
LateInv ==
    setup.late =>
        /\ \A i, j \in 1 .. Len(toDev) : i < j => Rank(toDev[i].cmd) <= Rank(toDev[j].cmd)
        /\ \A i \in 1 .. Len(toHost), j \in 1 .. Len(toDev) :
              Rank(toHost[i].cmd) <= Rank(toDev[j].cmd)
        /\ \A i \in 1 .. Len(toDev) : Rank(toDev[i].cmd) <= StepRank
        /\ \A i \in 1 .. Len(toHost) : Rank(toHost[i].cmd) <= StepRank

\* A prompt link: at most the current request is under way, or its answer.
PromptInv ==
    ~ setup.late =>
        /\ ~ waiting => toDev = <<>> /\ toHost = <<>>
        /\ Len(toDev) + Len(toHost) <= 1
        /\ \A i \in 1 .. Len(toDev) : toDev[i] = request
        /\ \A i \in 1 .. Len(toHost) : toHost[i].cmd = request.cmd

\* When the tool decides by itself, and when the command is given again.
ModeInv ==
    /\ setup.late => commands = 1 /\ nominated # None
    /\ nominated = None => commands = 1 /\ setup.arg = None
    /\ Deciding => nominated = None

\* The session is that of the target slot once writes may arrive.
Own == session.erased => session.target_slot = target
OwnInv ==
    /\ setup.late \/ step \in {"payload", "header"} => Own
    /\ setup.late /\ step = "hello" => ~ session.erased

\* What the answers on their way to the host say is still so.
Truthful(r, st, own, fl, active, t) ==
    /\ r.cmd = "HELLO" => r.data \in Slot \cup {None}
    /\ r.cmd = "HELLO" /\ st = "hello" => r.data = active
    /\ r.cmd = "VERIFY" /\ r.status = BL_OK => r.data \in Image
    /\ r.cmd = "VERIFY" /\ st \in {"status_a", "status_b"} =>
          LET content == fl[IF st = "status_a" THEN 0 ELSE 1] IN
          /\ r.status = BL_OK <=> Valid(content)
          /\ r.status = BL_OK => r.data = Found(content)
    /\ r.cmd = "ERASE_SLOT" /\ r.status = BL_OK /\ st = "erase" =>
          own /\ (active = None => fl[t][0] = Blank)
    /\ r.cmd = "VERIFY" /\ r.status = BL_OK /\ r.data = New /\ st = "verify" =>
          holds(fl[t], New)
    /\ r.cmd = "SET_ACTIVE" /\ r.status = BL_OK /\ st = "set_active" => active = t
AnswersInv ==
    \A i \in 1 .. Len(toHost) : Truthful(toHost[i], step, Own, flash, nominated, target)

\* A device with a record boots the slot of the record, and that slot is
\* not the target while anything that changes it may arrive.
RecordedInv ==
    /\ nominated # None => Valid(flash[nominated])
    /\ nominated = target => step \notin {"erase", "payload", "header"} /\ NoMutation

\* A device without a record boots the slot that the tool does not choose,
\* until the header makes the target complete.
UnrecordedInv ==
    nominated = None =>
        /\ would_boot # None
        /\ step \in {"hello", "status_a", "status_b"} => Untied(flash)
        /\ step = "status_b" => statuses[0] = IF Valid(flash[0]) THEN Found(flash[0]) ELSE None
        /\ step = "erase" => would_boot = other(target)
        /\ step = "payload" => flash[target][0] = Blank
        /\ step = "header" => \/ flash[target][0] = Blank
                              \/ session.erased => session.header_written

\* From the successful VERIFY on, the image is in the target slot.
InstalledInv ==
    step \in {"set_active", "reset", "done"} =>
        /\ holds(flash[target], New) /\ NoMutation
        /\ step # "set_active" => nominated = target

DeviceKeeps == TypeOK /\ SessionInv /\ HeaderRegionBlank /\ NoDoubleProgram

FlashInv ==
    /\ DeviceKeeps /\ LinkTypes /\ RequestsInv /\ LateInv /\ PromptInv /\ ModeInv
    /\ OwnInv /\ AnswersInv /\ RecordedInv /\ UnrecordedInv /\ InstalledInv

-----------------------------------------------------------------------------
(* Queues *)

\* q is what is left of p when its d oldest members are gone.
Drops(q, p, d) ==
    /\ d \in 0 .. Len(p)
    /\ Len(q) = Len(p) - d
    /\ \A i \in 1 .. Len(q) : q[i] = p[i + d]

\* Taking the head of a queue.
LEMMA TailDrops ==
    ASSUME NEW S, NEW q \in Seq(S), q # <<>>
    PROVE  /\ Tail(q) \in Seq(S) /\ Drops(Tail(q), q, 1)
           /\ Head(q) = q[1] /\ q[1] \in S /\ Len(q) \in Nat /\ Len(q) > 0
<1>1. /\ Tail(q) \in Seq(S) /\ Len(Tail(q)) = Len(q) - 1 /\ Len(q) > 0 /\ Len(q) \in Nat
      /\ Head(q) = q[1] /\ q[1] \in S
  OBVIOUS
<1>2. \A i \in 1 .. Len(q) - 1 : Tail(q)[i] = q[i + 1]
  OBVIOUS
<1> QED
  BY <1>1, <1>2 DEF Drops

\* A queue keeps its type when it is cut, and an empty one is left of any.
LEMMA SuffixDrops ==
    ASSUME NEW S, NEW p \in Seq(S)
    PROVE  /\ \A q \in Suffixes(p) : q \in Seq(S) /\ \E d \in 0 .. Len(p) : Drops(q, p, d)
           /\ <<>> \in Seq(S) /\ Len(p) \in Nat /\ Drops(<<>>, p, Len(p)) /\ Drops(p, p, 0)
<1>1. ASSUME NEW q \in Suffixes(p)
      PROVE  q \in Seq(S) /\ \E d \in 0 .. Len(p) : Drops(q, p, d)
  <2>1. PICK k \in 0 .. Len(p) : q = SubSeq(p, k + 1, Len(p))
    BY <1>1 DEF Suffixes
  <2>2. k \in Nat /\ Len(p) \in Nat /\ k <= Len(p)
    OBVIOUS
  <2>3. q \in Seq(S) /\ Len(q) = Len(p) - k
    BY <2>1, <2>2
  <2>4. \A i \in 1 .. Len(p) - k : q[i] = p[i + k]
    BY <2>1, <2>2
  <2> QED
    BY <2>3, <2>4 DEF Drops
<1>2. <<>> \in Seq(S) /\ Len(p) \in Nat /\ Drops(<<>>, p, Len(p)) /\ Drops(p, p, 0)
  BY DEF Drops
<1> QED
  BY <1>1, <1>2

\* Putting a member behind a queue.
LEMMA Appends ==
    ASSUME NEW S, NEW q \in Seq(S), NEW x \in S
    PROVE  /\ Append(q, x) \in Seq(S) /\ Len(q) \in Nat /\ Len(Append(q, x)) = Len(q) + 1
           /\ \A i \in 1 .. Len(q) : Append(q, x)[i] = q[i]
           /\ Append(q, x)[Len(q) + 1] = x
OBVIOUS

\* A member of what is left was a member.
LEMMA Left ==
    ASSUME NEW p, NEW q, NEW d, Len(p) \in Nat, Len(q) \in Nat, Drops(q, p, d)
    PROVE  /\ d \in Nat
           /\ \A i \in 1 .. Len(q) : i + d \in 1 .. Len(p) /\ q[i] = p[i + d]
           /\ Len(q) <= Len(p)
BY DEF Drops

-----------------------------------------------------------------------------
(* Which slot boots *)

\* A slot validates exactly when it holds an image.
LEMMA ValidSlot ==
    /\ \A content : validate_slot(content) = BL_OK <=> Valid(content)
    /\ \A content : Valid(content) => Found(content) \in Image /\ holds(content, Found(content))
<1>1. \A content : validate_slot(content) = BL_OK <=> Valid(content)
  BY DEF validate_slot, Valid, BL_OK
<1>2. ASSUME NEW content, Valid(content)
      PROVE  Found(content) \in Image /\ holds(content, Found(content))
  BY <1>2 DEF Found, Valid
<1> QED
  BY <1>1, <1>2

\* would_boot is SelectSlot, before and after a step.
LEMMA WouldBoot ==
    would_boot = SelectSlot(flash, nominated) /\ would_boot' = SelectSlot(flash', nominated')
BY ValidSlot DEF would_boot, SelectSlot, Found

\* The slots and their neighbours.
LEMMA Neighbours ==
    /\ other(0) = 1 /\ other(1) = 0
    /\ \A s \in Slot : other(s) \in Slot /\ other(s) # s /\ other(other(s)) = s
    /\ \A s, t \in Slot : s # t => s = other(t)
    /\ None \notin Slot /\ 0 \in Slot /\ 1 \in Slot
BY Slots, SessionAssumption DEF other, BL_SLOT_COUNT

\* What selection amounts to.
LEMMA Selected ==
    ASSUME NEW fl, NEW active \in Slot \cup {None}
    PROVE  /\ active # None /\ Valid(fl[active]) => SelectSlot(fl, active) = active
           /\ SelectSlot(fl, active) # None =>
                 SelectSlot(fl, active) \in Slot /\ Valid(fl[SelectSlot(fl, active)])
           /\ active = None /\ (\E s \in Slot : Valid(fl[s])) => SelectSlot(fl, active) # None
           /\ \A s \in Slot : active = None /\ Valid(fl[s]) /\ ~ Valid(fl[other(s)]) =>
                 SelectSlot(fl, active) = s
<1>1. active # None => active \in Slot /\ other(active) \in Slot
  BY Neighbours
<1>2. active # None /\ Valid(fl[active]) => SelectSlot(fl, active) = active
  BY DEF SelectSlot
<1>3. SelectSlot(fl, active) # None =>
         SelectSlot(fl, active) \in Slot /\ Valid(fl[SelectSlot(fl, active)])
  BY <1>1, Neighbours DEF SelectSlot
<1>4. active = None /\ (\E s \in Slot : Valid(fl[s])) => SelectSlot(fl, active) # None
  BY Slots, Neighbours DEF SelectSlot
<1>5. \A s \in Slot : active = None /\ Valid(fl[s]) /\ ~ Valid(fl[other(s)]) =>
         SelectSlot(fl, active) = s
  BY Slots, Neighbours DEF SelectSlot
<1> QED
  BY <1>2, <1>3, <1>4, <1>5

\* With what VERIFY says of both slots, the tool chooses the one that does
\* not boot (blflash.py:313-335).
LEMMA ChoosesOther ==
    ASSUME NEW fl, NEW st, \E s \in Slot : Valid(fl[s]), Untied(fl),
           st[0] = IF Valid(fl[0]) THEN Found(fl[0]) ELSE None,
           st[1] = IF Valid(fl[1]) THEN Found(fl[1]) ELSE None
    PROVE  ChooseTarget(st) \in Slot /\ SelectSlot(fl, None) = other(ChooseTarget(st))
<1> DEFINE valid == {s \in Slot : st[s] # None}
<1>1. \A s \in Slot : s \in valid <=> Valid(fl[s])
  BY Slots, ValidSlot, FlashAssumption
<1>2. CASE Valid(fl[0]) /\ Valid(fl[1])
  <2>1. valid = Slot /\ valid # {}
    BY <1>1, <1>2, Slots
  <2>2. st[0] = Found(fl[0]) /\ st[1] = Found(fl[1])
    BY <1>2
  <2>3. /\ Version[Found(fl[0])] \in Nat /\ Version[Found(fl[1])] \in Nat
        /\ Version[Found(fl[0])] # Version[Found(fl[1])]
    BY <1>2, ValidSlot, FlashAssumption DEF Untied
  <2>4. ChooseTarget(st) = IF Version[Found(fl[1])] < Version[Found(fl[0])] THEN 1 ELSE 0
    BY <2>1, <2>2 DEF ChooseTarget
  <2>5. SelectSlot(fl, None) = IF Version[Found(fl[1])] > Version[Found(fl[0])] THEN 1 ELSE 0
    BY <1>2 DEF SelectSlot
  <2> QED
    BY <2>3, <2>4, <2>5, Neighbours
<1>3. ASSUME NEW s \in Slot, Valid(fl[s]), ~ Valid(fl[other(s)])
      PROVE  ChooseTarget(st) \in Slot /\ SelectSlot(fl, None) = other(ChooseTarget(st))
  <2>1. valid = {s}
    BY <1>1, <1>3, Neighbours
  <2>2. valid # {} /\ valid # Slot /\ (CHOOSE x \in valid : TRUE) = s
    BY <1>3, <2>1, Neighbours
  <2>3. ChooseTarget(st) = other(s)
    BY <2>2 DEF ChooseTarget
  <2>4. SelectSlot(fl, None) = s
    BY <1>3, Selected
  <2> QED
    BY <2>3, <2>4, Neighbours
<1> QED
  BY <1>2, <1>3, Slots, Neighbours

-----------------------------------------------------------------------------
(* The requests of update() *)

\* Offsets grow with the granules, and only the first one is zero.
LEMMA AtGrows ==
    \A a, b \in Nat : a <= b => at(a) <= at(b) /\ (b > 0 => at(b) > 0)
<1> SUFFICES ASSUME NEW a \in Nat, NEW b \in Nat, a <= b
             PROVE  a * Gran <= b * Gran /\ (b > 0 => b * Gran > 0)
  BY DEF at
<1>1. Gran \in Nat /\ Gran > 0
  BY SessionAssumption
<1>2. b * Gran = a * Gran + (b - a) * Gran /\ (b - a) * Gran >= 0
  BY <1>1
<1>3. b > 0 => b * Gran > 0
  BY <1>1
<1>4. a * Gran \in Nat /\ (b - a) * Gran \in Int
  BY <1>1
<1> QED
  BY <1>2, <1>3, <1>4

\* The sizes that update() works with.
LEMMA Sizes ==
    /\ RegionCells \in Nat /\ RegionCells > 0
    /\ HdrCells \in Nat /\ HdrCells > 0 /\ HdrCells <= RegionCells
    /\ PayloadCells \in Nat /\ ChunkCells \in Nat
    /\ New \in Image /\ Cells \in Nat /\ 0 \in Cell
<1>1. New \in Image /\ ChunkCells \in Nat
  BY FlashAssumption
<1>2. ImgCells[New] \in RegionCells + 1 .. Cells
  BY <1>1, SessionAssumption
<1> QED
  BY <1>1, <1>2, SessionAssumption DEF PayloadCells, Cell

\* A write of update() is the header, or lies behind the header region.
LEMMA WritesOfUpdate ==
    \A w \in UpdateWrites :
        /\ w[1] \in Nat /\ w[2] \in Nat
        /\ w \in Writes
        /\ Disciplined(w[1], w[2])
<1> SUFFICES ASSUME NEW w \in UpdateWrites
             PROVE  w[1] \in Nat /\ w[2] \in Nat /\ w \in Writes /\ Disciplined(w[1], w[2])
  OBVIOUS
<1>1. w \in Writes
  BY FlashAssumption
<1>2. CASE w = <<0, at(HdrCells)>>
  <2>1. at(HdrCells) \in Nat /\ at(HdrCells) <= at(RegionCells)
    BY Sizes, Granules, AtGrows
  <2> QED
    BY <1>1, <1>2, <2>1 DEF Disciplined
<1>3. ASSUME NEW n \in 0 .. PayloadCells, NEW m \in 0 .. ChunkCells,
             w = <<at(RegionCells + n), at(m)>>
      PROVE  w[1] \in Nat /\ w[2] \in Nat /\ Disciplined(w[1], w[2])
  <2>1. RegionCells + n \in Nat /\ m \in Nat /\ RegionCells <= RegionCells + n /\ RegionCells + n > 0
    BY Sizes
  <2>2. /\ at(RegionCells + n) \in Nat /\ at(m) \in Nat
        /\ at(RegionCells) <= at(RegionCells + n) /\ at(RegionCells + n) > 0
    BY <2>1, Sizes, Granules, AtGrows
  <2>3. at(RegionCells + n) # 0 /\ at(RegionCells + n) >= at(RegionCells)
    BY <2>2, Sizes, Granules
  <2> QED
    BY <1>3, <2>2, <2>3 DEF Disciplined
<1> QED
  BY <1>1, <1>2, <1>3 DEF UpdateWrites

\* The tool is a disciplined host.
LEMMA ToolIsDisciplined == HostDiscipline
BY WritesOfUpdate, FlashAssumption DEF HostDiscipline

\* What a step of the device does to flash, session and record is a step of
\* BlSession, and keeps what BlSessionProofs shows of those.
LEMMA SessionStepKeeps ==
    ASSUME DeviceKeeps, [Next]_vars
    PROVE  DeviceKeeps'
BY NextType, NextSession, NextHeaderRegion, NextNoDouble, ToolIsDisciplined DEF DeviceKeeps

\* The request of each step of the command.
LEMMA RequestOfStep ==
    ASSUME FlashTypeOK, Running
    PROVE  /\ request \in RequestFrame
           /\ request.cmd = "WRITE" => /\ step \in {"payload", "header"}
                                       /\ <<request.offset, request.len>> \in UpdateWrites
                                       /\ step = "payload" => request.offset # 0
           /\ request.cmd \in {"ERASE_SLOT", "SET_ACTIVE"} => request.slot = target
           /\ request.cmd = "ERASE_SLOT" <=> step = "erase"
           /\ request.cmd = "SET_ACTIVE" <=> step = "set_active"
           /\ request.cmd = "HELLO" <=> step = "hello"
           /\ request.cmd = "VERIFY" =>
                 \/ step = "status_a" /\ request.slot = 0
                 \/ step = "status_b" /\ request.slot = 1
                 \/ step = "verify" /\ request.slot = target
           /\ Deciding \/ step = "verify" => request.cmd = "VERIFY"
           /\ ~ Deciding => Rank(request.cmd) = StepRank
<1>1. target \in Slot /\ 0 \in Slot /\ 1 \in Slot /\ sent \in 0 .. PayloadCells
  BY Neighbours DEF FlashTypeOK
<1>2. Chunk \in 0 .. ChunkCells
  BY <1>1, Sizes DEF Chunk
<1>3. sent \in Nat /\ Chunk \in Nat /\ RegionCells + sent \in Nat /\ RegionCells + sent > 0
  BY <1>1, <1>2, Sizes
<1>4. at(RegionCells + sent) \in Nat /\ at(Chunk) \in Nat /\ at(HdrCells) \in Nat /\ 0 \in Nat
  BY <1>3, Sizes, Granules
<1>5. <<at(RegionCells + sent), at(Chunk)>> \in UpdateWrites /\ <<0, at(HdrCells)>> \in UpdateWrites
  BY <1>1, <1>2 DEF UpdateWrites
<1>6. at(RegionCells + sent) # 0
  BY <1>3, <1>4, AtGrows
<1> HIDE DEF Chunk
<1>7. step \in {"hello", "status_a", "status_b", "erase", "payload", "header", "verify",
                "set_active", "reset"}
  BY DEF FlashTypeOK, Step, Running
<1>8. CASE step = "hello"
  BY <1>4, <1>8 DEF request, Request, RequestFrame, Cmd, Deciding, Rank, StepRank
<1>9. CASE step = "status_a"
  BY <1>1, <1>4, <1>9 DEF request, Request, RequestFrame, Cmd, Deciding, Rank, StepRank
<1>10. CASE step = "status_b"
  BY <1>1, <1>4, <1>10 DEF request, Request, RequestFrame, Cmd, Deciding, Rank, StepRank
<1>11. CASE step = "erase"
  BY <1>1, <1>4, <1>11 DEF request, Request, RequestFrame, Cmd, Deciding, Rank, StepRank
<1>12. CASE step = "payload"
  BY <1>4, <1>5, <1>6, <1>12 DEF request, Request, RequestFrame, Cmd, Deciding, Rank, StepRank
<1>13. CASE step = "header"
  BY <1>4, <1>5, <1>13 DEF request, Request, RequestFrame, Cmd, Deciding, Rank, StepRank
<1>14. CASE step = "verify"
  BY <1>1, <1>4, <1>14 DEF request, Request, RequestFrame, Cmd, Deciding, Rank, StepRank
<1>15. CASE step = "set_active"
  BY <1>1, <1>4, <1>15 DEF request, Request, RequestFrame, Cmd, Deciding, Rank, StepRank
<1>16. CASE step = "reset"
  BY <1>4, <1>16 DEF request, Request, RequestFrame, Cmd, Deciding, Rank, StepRank
<1> QED
  BY <1>7, <1>8, <1>9, <1>10, <1>11, <1>12, <1>13, <1>14, <1>15, <1>16

-----------------------------------------------------------------------------
(* The link *)

LinkInv == LinkTypes /\ RequestsInv /\ LateInv /\ PromptInv

\* The lengths of the queues, and what is in them.
LEMMA QueueTypes ==
    ASSUME LinkTypes
    PROVE  /\ toDev \in Seq(RequestFrame) /\ toHost \in Seq(ResponseFrame)
           /\ Len(toDev) \in Nat /\ Len(toHost) \in Nat
           /\ toDev # <<>> <=> Len(toDev) > 0
           /\ toHost # <<>> <=> Len(toHost) > 0
           /\ \A i \in 1 .. Len(toDev) : toDev[i] \in RequestFrame
           /\ \A i \in 1 .. Len(toHost) : toHost[i] \in ResponseFrame
<1>1. toDev \in Seq(RequestFrame) /\ toHost \in Seq(ResponseFrame)
  BY DEF LinkTypes
<1> QED
  BY <1>1

\* Ranks are numbers.
LEMMA Ranks == StepRank \in 0 .. 5 /\ StepRank' \in 0 .. 5 /\ \A cmd : Rank(cmd) \in 0 .. 5
BY DEF Rank, StepRank

\* Frames are lost, discarded or read, and the command stays where it is or
\* fails.
LEMMA LinkShrinks ==
    ASSUME LinkInv, NEW d, NEW e,
           toDev' \in Seq(RequestFrame), Drops(toDev', toDev, d),
           toHost' \in Seq(ResponseFrame), Drops(toHost', toHost, e),
           UNCHANGED <<setup, target, sent, statuses, commands>>,
           step' = step \/ step' = "failed", waiting' \in BOOLEAN, ~ Running' => ~ waiting',
           attempt' \in 0 .. Retries, restarts' \in Nat,
           ~ setup.late /\ ~ waiting' => toDev' = <<>> /\ toHost' = <<>>
    PROVE  LinkInv'
<1>1. Len(toDev) \in Nat /\ Len(toDev') \in Nat /\ Len(toHost) \in Nat /\ Len(toHost') \in Nat
  BY QueueTypes DEF LinkInv
<1>2. /\ d \in Nat /\ Len(toDev') <= Len(toDev)
      /\ \A i \in 1 .. Len(toDev') : i + d \in 1 .. Len(toDev) /\ toDev'[i] = toDev[i + d]
  BY <1>1, Left
<1>3. /\ e \in Nat /\ Len(toHost') <= Len(toHost)
      /\ \A i \in 1 .. Len(toHost') : i + e \in 1 .. Len(toHost) /\ toHost'[i] = toHost[i + e]
  BY <1>1, Left
<1>4. LinkTypes'
  BY DEF LinkInv, LinkTypes, FlashTypeOK, Step, PayloadCells
<1>5. RequestsInv'
  <2> SUFFICES ASSUME NEW i \in 1 .. Len(toDev')
               PROVE  LET f == toDev'[i] IN
                      /\ f.cmd = "WRITE" => <<f.offset, f.len>> \in UpdateWrites
                      /\ f.cmd \in {"ERASE_SLOT", "SET_ACTIVE"} => f.slot = target'
                      /\ f.cmd = "VERIFY" => f.slot \in Slot /\ (setup'.late => f.slot = target')
    BY DEF RequestsInv, UpdateWrites, PayloadCells, at
  <2>1. i + d \in 1 .. Len(toDev) /\ toDev'[i] = toDev[i + d]
    BY <1>2
  <2> QED
    BY <2>1 DEF LinkInv, RequestsInv
<1>6. LateInv'
  <2> SUFFICES ASSUME setup.late PROVE LateInv'
    BY DEF LateInv
  <2>1. StepRank <= StepRank'
    BY DEF StepRank
  <2>2. ASSUME NEW i \in 1 .. Len(toDev'), NEW j \in 1 .. Len(toDev'), i < j
        PROVE  Rank(toDev'[i].cmd) <= Rank(toDev'[j].cmd)
    <3>1. i + d < j + d /\ i + d \in 1 .. Len(toDev) /\ j + d \in 1 .. Len(toDev)
      BY <1>2, <2>2
    <3> QED
      BY <1>2, <3>1 DEF LinkInv, LateInv
  <2>3. \A i \in 1 .. Len(toHost'), j \in 1 .. Len(toDev') :
            Rank(toHost'[i].cmd) <= Rank(toDev'[j].cmd)
    BY <1>2, <1>3 DEF LinkInv, LateInv
  <2>4. /\ \A i \in 1 .. Len(toDev') : Rank(toDev'[i].cmd) <= StepRank
        /\ \A i \in 1 .. Len(toHost') : Rank(toHost'[i].cmd) <= StepRank
    BY <1>2, <1>3 DEF LinkInv, LateInv
  <2>5. /\ \A i \in 1 .. Len(toDev') : Rank(toDev'[i].cmd) <= StepRank'
        /\ \A i \in 1 .. Len(toHost') : Rank(toHost'[i].cmd) <= StepRank'
    <3>1. /\ StepRank \in Int /\ StepRank' \in Int
          /\ \A i \in 1 .. Len(toDev') : Rank(toDev'[i].cmd) \in Int
          /\ \A i \in 1 .. Len(toHost') : Rank(toHost'[i].cmd) \in Int
      BY Ranks
    <3> HIDE DEF StepRank
    <3> QED
      BY <2>1, <2>4, <3>1
  <2> QED
    BY <2>2, <2>3, <2>5 DEF LateInv
<1>7. PromptInv'
  <2> SUFFICES ASSUME ~ setup.late PROVE PromptInv'
    BY DEF PromptInv
  <2>1. CASE ~ waiting'
    <3>1. toDev' = <<>> /\ toHost' = <<>>
      BY <2>1
    <3>2. Len(toDev') = 0 /\ Len(toHost') = 0
      BY <3>1
    <3> QED
      BY <3>1, <3>2 DEF PromptInv
  <2>2. CASE waiting'
    <3>1. step' = step
      BY <2>2 DEF Running
    <3>2. request' = request
      BY <3>1 DEF request, Request, Chunk, PayloadCells, at
    <3>3. Len(toDev) + Len(toHost) <= 1
      BY DEF LinkInv, PromptInv
    <3>4. Len(toDev') + Len(toHost') <= 1
      BY <1>1, <1>2, <1>3, <3>3
    <3>5. /\ \A i \in 1 .. Len(toDev') : toDev'[i] = request'
          /\ \A i \in 1 .. Len(toHost') : toHost'[i].cmd = request'.cmd
      BY <1>2, <1>3, <3>2 DEF LinkInv, PromptInv
    <3> QED
      BY <2>2, <3>4, <3>5 DEF PromptInv
  <2> QED
    BY <2>1, <2>2
<1> QED
  BY <1>4, <1>5, <1>6, <1>7 DEF LinkInv

\* Nothing that changes flash is left of a queue without such frames.
LEMMA StillNoMutation ==
    ASSUME LinkTypes, toDev' \in Seq(RequestFrame), NEW d, Drops(toDev', toDev, d), NoMutation
    PROVE  NoMutation'
<1>1. Len(toDev) \in Nat /\ Len(toDev') \in Nat
  BY QueueTypes
<1>2. \A i \in 1 .. Len(toDev') : i + d \in 1 .. Len(toDev) /\ toDev'[i] = toDev[i + d]
  BY <1>1, Left
<1> QED
  BY <1>2 DEF NoMutation, Mutates

\* The same for what the answers say, while flash, record and command stay.
LEMMA AnswersShrink ==
    ASSUME LinkTypes, AnswersInv, NEW e,
           toHost' \in Seq(ResponseFrame), Drops(toHost', toHost, e),
           flash' = flash, nominated' = nominated, target' = target,
           session' = session \/ session' = NoSession,
           step' = step \/ step' = "failed"
    PROVE  AnswersInv'
<1>1. Len(toHost) \in Nat /\ Len(toHost') \in Nat
  BY QueueTypes
<1>2. \A i \in 1 .. Len(toHost') : i + e \in 1 .. Len(toHost) /\ toHost'[i] = toHost[i + e]
  BY <1>1, Left
<1>3. Own => Own'
  BY DEF Own, NoSession
<1>4. ASSUME NEW i \in 1 .. Len(toHost')
      PROVE  Truthful(toHost'[i], step', Own', flash', nominated', target')
  <2>1. i + e \in 1 .. Len(toHost) /\ toHost'[i] = toHost[i + e]
    BY <1>2
  <2>2. Truthful(toHost'[i], step, Own, flash, nominated, target)
    BY <2>1 DEF AnswersInv
  <2> QED
    BY <1>3, <2>2 DEF Truthful
<1> QED
  BY <1>4 DEF AnswersInv

\* Frames are lost, discarded or read, the session may be lost: the command
\* stays where it is or fails, and flash and record stay as they are.
LEMMA ShrinkKeeps ==
    ASSUME FlashInv, NEW d, NEW e,
           toDev' \in Seq(RequestFrame), Drops(toDev', toDev, d),
           toHost' \in Seq(ResponseFrame), Drops(toHost', toHost, e),
           UNCHANGED <<setup, target, sent, statuses, commands, flash, nominated>>,
           session' = session \/ session' = NoSession, DeviceKeeps',
           step' = step \/ step' = "failed", waiting' \in BOOLEAN, ~ Running' => ~ waiting',
           attempt' \in 0 .. Retries, restarts' \in Nat,
           ~ setup.late /\ ~ waiting' => toDev' = <<>> /\ toHost' = <<>>
    PROVE  FlashInv'
<1>1. LinkInv'
  BY LinkShrinks DEF FlashInv, LinkInv
<1>2. AnswersInv'
  BY AnswersShrink DEF FlashInv
<1>3. ModeInv'
  BY DEF FlashInv, ModeInv, Deciding
<1>4. OwnInv'
  BY DEF FlashInv, OwnInv, Own, NoSession
<1>5. NoMutation => NoMutation'
  BY StillNoMutation DEF FlashInv
<1>6. RecordedInv'
  BY <1>5 DEF FlashInv, RecordedInv
<1>7. would_boot' = would_boot
  BY WouldBoot
<1>8. UnrecordedInv'
  BY <1>7 DEF FlashInv, UnrecordedInv, NoSession
<1>9. InstalledInv'
  BY <1>5 DEF FlashInv, InstalledInv
<1> QED
  BY <1>1, <1>2, <1>3, <1>4, <1>6, <1>8, <1>9 DEF FlashInv, LinkInv

\* On a prompt link the frame that is under way is alone.
LEMMA Alone ==
    ASSUME LinkInv, ~ setup.late
    PROVE  /\ toHost # <<>> => toDev = <<>> /\ Tail(toHost) = <<>> /\ Len(toHost) = 1
           /\ toDev # <<>> => toHost = <<>> /\ Tail(toDev) = <<>> /\ Len(toDev) = 1
<1>1. /\ Len(toDev) \in Nat /\ Len(toHost) \in Nat
      /\ toDev # <<>> <=> Len(toDev) > 0
      /\ toHost # <<>> <=> Len(toHost) > 0
      /\ toDev \in Seq(RequestFrame) /\ toHost \in Seq(ResponseFrame)
  BY QueueTypes DEF LinkInv
<1>2. Len(toDev) + Len(toHost) <= 1
  BY DEF LinkInv, PromptInv
<1>3. ASSUME NEW m \in Nat, NEW n \in Nat, m + n <= 1
      PROVE  m > 0 => m = 1 /\ ~ n > 0
  BY <1>3
<1>4. toHost # <<>> => ~ Len(toDev) > 0 /\ Len(toHost) = 1
  <2>1. Len(toHost) + Len(toDev) <= 1
    BY <1>1, <1>2
  <2> QED
    BY <1>1, <1>3, <2>1
<1>5. toDev # <<>> => ~ Len(toHost) > 0 /\ Len(toDev) = 1
  BY <1>1, <1>2, <1>3
<1>6. ASSUME NEW S, NEW q \in Seq(S), Len(q) = 1
      PROVE  Tail(q) = <<>>
  <2>1. ASSUME NEW t \in Seq(S), Len(t) = 0 PROVE t = <<>>
    BY <2>1
  <2>2. q # <<>>
    BY <1>6
  <2>3. Tail(q) \in Seq(S) /\ Len(Tail(q)) = Len(q) - 1
    BY <2>2
  <2>4. Len(Tail(q)) = 0
    BY <1>6, <2>3
  <2> QED
    BY <2>1, <2>3, <2>4
<1> QED
  BY <1>1, <1>4, <1>5, <1>6

-----------------------------------------------------------------------------
(* Steps of the host *)

\* What every step of the host takes for granted.
LEMMA HostTypes ==
    ASSUME FlashInv
    PROVE  /\ LinkInv /\ FlashTypeOK /\ (waiting => Running)
           /\ attempt \in 0 .. Retries /\ waiting \in BOOLEAN /\ restarts \in Nat
           /\ toDev \in Seq(RequestFrame) /\ toHost \in Seq(ResponseFrame)
           /\ Drops(toDev, toDev, 0) /\ Drops(toHost, toHost, 0)
           /\ UNCHANGED vars => DeviceKeeps' /\ UNCHANGED <<flash, nominated, session>>
<1>1. LinkInv /\ FlashTypeOK /\ DeviceKeeps
  BY DEF FlashInv, LinkInv, LinkTypes
<1>2. toDev \in Seq(RequestFrame) /\ toHost \in Seq(ResponseFrame)
  BY <1>1 DEF LinkInv, LinkTypes
<1>3. UNCHANGED vars => DeviceKeeps'
  BY <1>1, SessionStepKeeps
<1>4. UNCHANGED vars => UNCHANGED <<flash, nominated, session>>
  BY DEF vars
<1> QED
  BY <1>1, <1>2, <1>3, <1>4, SuffixDrops DEF LinkInv, LinkTypes, FlashTypeOK

\* An attempt that ends without a response keeps the invariant.
LEMMA AttemptKeeps ==
    ASSUME FlashInv, Timeout \/ Garbled \/ Discard
    PROVE  FlashInv'
<1>1. /\ LinkInv /\ FlashTypeOK /\ Running /\ waiting
      /\ attempt \in 0 .. Retries /\ waiting \in BOOLEAN /\ restarts \in Nat
      /\ toDev \in Seq(RequestFrame) /\ toHost \in Seq(ResponseFrame)
      /\ Drops(toDev, toDev, 0) /\ Drops(toHost, toHost, 0)
  BY HostTypes DEF Timeout, Garbled, Discard
<1>2. UNCHANGED <<setup, target, sent, statuses, commands, vars, toDev, restarts>>
  BY DEF Timeout, Garbled, Discard, AttemptFails, hostVars
<1>3. DeviceKeeps' /\ UNCHANGED <<flash, nominated, session>>
  BY <1>2, HostTypes
<1>4. CASE Timeout
  BY <1>1, <1>2, <1>3, <1>4, ShrinkKeeps DEF Timeout, AttemptFails
<1>5. ASSUME toHost # <<>>
      PROVE  /\ Tail(toHost) \in Seq(ResponseFrame) /\ Drops(Tail(toHost), toHost, 1)
             /\ ~ setup.late => toDev = <<>> /\ Tail(toHost) = <<>>
  BY <1>1, <1>5, TailDrops, Alone
<1>6. CASE Garbled
  BY <1>1, <1>2, <1>3, <1>5, <1>6, ShrinkKeeps DEF Garbled, AttemptFails
<1>7. CASE Discard
  BY <1>1, <1>2, <1>3, <1>5, <1>7, ShrinkKeeps DEF Discard, hostVars, Running
<1> QED
  BY <1>4, <1>6, <1>7

\* So does a frame that is lost on the link.
LEMMA LoseKeeps ==
    ASSUME FlashInv, Lose
    PROVE  FlashInv'
<1>1. /\ LinkInv /\ FlashTypeOK /\ (waiting => Running)
      /\ attempt \in 0 .. Retries /\ waiting \in BOOLEAN /\ restarts \in Nat
      /\ toDev \in Seq(RequestFrame) /\ toHost \in Seq(ResponseFrame)
      /\ Drops(toDev, toDev, 0) /\ Drops(toHost, toHost, 0)
  BY HostTypes
<1>2. UNCHANGED <<setup, target, sent, statuses, commands, vars, step, attempt, waiting, restarts>>
  BY DEF Lose, hostVars
<1>3. DeviceKeeps' /\ UNCHANGED <<flash, nominated, session>>
  BY <1>2, HostTypes
<1>4. ~ Running' => ~ waiting'
  BY <1>1, <1>2 DEF Running
<1>5. ~ setup.late /\ ~ waiting => toDev = <<>> /\ toHost = <<>>
  BY <1>1 DEF LinkInv, PromptInv
<1>6. CASE toDev # <<>> /\ toDev' = Tail(toDev) /\ UNCHANGED toHost
  <2>1. Tail(toDev) \in Seq(RequestFrame) /\ Drops(Tail(toDev), toDev, 1)
    BY <1>1, <1>6, TailDrops
  <2> QED
    BY <1>1, <1>2, <1>3, <1>4, <1>5, <1>6, <2>1, ShrinkKeeps
<1>7. CASE toHost # <<>> /\ toHost' = Tail(toHost) /\ UNCHANGED toDev
  <2>1. Tail(toHost) \in Seq(ResponseFrame) /\ Drops(Tail(toHost), toHost, 1)
    BY <1>1, <1>7, TailDrops
  <2> QED
    BY <1>1, <1>2, <1>3, <1>4, <1>5, <1>7, <2>1, ShrinkKeeps
<1> QED
  BY <1>6, <1>7 DEF Lose

\* Sending the request of the step keeps the invariant.
LEMMA TransmitKeeps ==
    ASSUME FlashInv, Transmit
    PROVE  FlashInv'
<1>1. /\ LinkInv /\ FlashTypeOK /\ Running /\ ~ waiting /\ attempt < Retries
      /\ attempt \in 0 .. Retries /\ restarts \in Nat
      /\ toDev \in Seq(RequestFrame) /\ toHost \in Seq(ResponseFrame)
      /\ Drops(toDev, toDev, 0) /\ Drops(toHost, toHost, 0)
  BY HostTypes DEF Transmit
<1>2. /\ UNCHANGED <<vars, step, setup, target, sent, statuses, commands, restarts>>
      /\ attempt' = attempt + 1 /\ waiting' = TRUE
      /\ toDev' = Append(toDev, request)
      /\ toHost' \in IF setup.late THEN Suffixes(toHost) ELSE {<<>>}
  BY DEF Transmit
<1>3. DeviceKeeps' /\ UNCHANGED <<flash, nominated, session>>
  BY <1>2, HostTypes
<1>4. PICK e : toHost' \in Seq(ResponseFrame) /\ Drops(toHost', toHost, e)
  BY <1>1, <1>2, SuffixDrops
<1>5. /\ request \in RequestFrame
      /\ request.cmd = "WRITE" => <<request.offset, request.len>> \in UpdateWrites
      /\ request.cmd \in {"ERASE_SLOT", "SET_ACTIVE"} => request.slot = target
      /\ request.cmd = "VERIFY" => request.slot \in Slot /\ (setup.late => request.slot = target)
      /\ setup.late => Rank(request.cmd) = StepRank
      /\ request.cmd = "ERASE_SLOT" => step = "erase"
      /\ request.cmd = "WRITE" => step \in {"payload", "header"}
  <2>1. setup.late => ~ Deciding
    BY DEF FlashInv, ModeInv
  <2>2. target \in Slot
    BY <1>1 DEF FlashTypeOK
  <2> QED
    BY <1>1, <2>1, <2>2, RequestOfStep, Neighbours DEF Deciding
<1> HIDE DEF request
<1> DEFINE n == Len(toDev)
<1>6. /\ toDev' \in Seq(RequestFrame) /\ n \in Nat /\ Len(toDev') = n + 1
      /\ \A i \in 1 .. n : toDev'[i] = toDev[i]
      /\ toDev'[n + 1] = request
  BY <1>1, <1>2, <1>5, Appends
<1>7. \A i \in 1 .. Len(toDev') : i \in 1 .. n \/ i = n + 1
  BY <1>6
<1> HIDE DEF n
<1>8. Len(toHost) \in Nat /\ Len(toHost') \in Nat
  BY <1>1, <1>4, QueueTypes DEF LinkInv
<1>9. /\ Len(toHost') <= Len(toHost)
      /\ \A i \in 1 .. Len(toHost') : i + e \in 1 .. Len(toHost) /\ toHost'[i] = toHost[i + e]
  BY <1>4, <1>8, Left
<1>10. LinkTypes'
  <2>1. attempt' \in 0 .. Retries
    BY <1>1, <1>2, FlashAssumption
  <2>2. Running'
    BY <1>1, <1>2 DEF Running
  <2> QED
    BY <1>1, <1>2, <1>4, <1>6, <2>1, <2>2 DEF LinkTypes, FlashTypeOK, PayloadCells
<1>11. RequestsInv'
  <2>1. \A i \in 1 .. n :
            LET f == toDev[i] IN
            /\ f.cmd = "WRITE" => <<f.offset, f.len>> \in UpdateWrites
            /\ f.cmd \in {"ERASE_SLOT", "SET_ACTIVE"} => f.slot = target
            /\ f.cmd = "VERIFY" => f.slot \in Slot /\ (setup.late => f.slot = target)
    BY <1>1 DEF LinkInv, RequestsInv, n
  <2>2. \A i \in 1 .. Len(toDev') :
            LET f == toDev'[i] IN
            /\ f.cmd = "WRITE" => <<f.offset, f.len>> \in UpdateWrites
            /\ f.cmd \in {"ERASE_SLOT", "SET_ACTIVE"} => f.slot = target
            /\ f.cmd = "VERIFY" => f.slot \in Slot /\ (setup.late => f.slot = target)
    BY <1>5, <1>6, <1>7, <2>1
  <2> QED
    BY <1>2, <2>2 DEF RequestsInv, UpdateWrites, PayloadCells, at
<1>12. LateInv'
  <2> SUFFICES ASSUME setup.late PROVE LateInv'
    BY <1>2 DEF LateInv
  <2>1. StepRank' = StepRank /\ Rank(request.cmd) = StepRank /\ StepRank \in Int
    BY <1>2, <1>5, Ranks DEF StepRank
  <2>2. /\ \A i, j \in 1 .. n : i < j => Rank(toDev[i].cmd) <= Rank(toDev[j].cmd)
        /\ \A i \in 1 .. Len(toHost), j \in 1 .. n : Rank(toHost[i].cmd) <= Rank(toDev[j].cmd)
        /\ \A i \in 1 .. n : Rank(toDev[i].cmd) <= StepRank
        /\ \A i \in 1 .. Len(toHost) : Rank(toHost[i].cmd) <= StepRank
    BY <1>1 DEF LinkInv, LateInv, n
  <2>3. /\ \A i \in 1 .. Len(toHost') : Rank(toHost'[i].cmd) <= StepRank
        /\ \A i \in 1 .. Len(toHost'), j \in 1 .. n : Rank(toHost'[i].cmd) <= Rank(toDev[j].cmd)
    BY <1>9, <2>2
  <2>4. \A i \in 1 .. Len(toDev') : Rank(toDev'[i].cmd) <= StepRank
    BY <1>6, <1>7, <2>1, <2>2
  <2>5. \A i \in 1 .. Len(toHost'), j \in 1 .. Len(toDev') :
            Rank(toHost'[i].cmd) <= Rank(toDev'[j].cmd)
    BY <1>6, <1>7, <2>1, <2>3
  <2>6. ASSUME NEW i \in 1 .. Len(toDev'), NEW j \in 1 .. Len(toDev'), i < j
        PROVE  Rank(toDev'[i].cmd) <= Rank(toDev'[j].cmd)
    <3>1. i \in 1 .. n
      BY <1>6, <2>6
    <3>2. CASE j \in 1 .. n
      BY <1>6, <2>2, <2>6, <3>1, <3>2
    <3>3. CASE j = n + 1
      BY <1>6, <2>1, <2>4, <3>3
    <3> QED
      BY <1>7, <3>2, <3>3
  <2> QED
    BY <2>1, <2>3, <2>4, <2>5, <2>6 DEF LateInv
<1>13. PromptInv'
  <2> SUFFICES ASSUME ~ setup.late PROVE PromptInv'
    BY <1>2 DEF PromptInv
  <2>1. toDev = <<>> /\ toHost' = <<>>
    BY <1>1, <1>2 DEF LinkInv, PromptInv
  <2>2. n = 0 /\ Len(toHost') = 0
    BY <2>1 DEF n
  <2>3. request' = request
    BY <1>2 DEF request, Request, Chunk, PayloadCells, at
  <2>4. Len(toDev') + Len(toHost') <= 1
    BY <1>6, <2>2
  <2>5. \A i \in 1 .. Len(toDev') : toDev'[i] = request'
    BY <1>6, <1>7, <2>2, <2>3
  <2> QED
    BY <1>2, <2>2, <2>4, <2>5 DEF PromptInv
<1>14. AnswersInv'
  BY <1>2, <1>3, <1>4, AnswersShrink DEF FlashInv
<1>15. NoMutation /\ step \notin {"erase", "payload", "header"} => NoMutation'
  BY <1>5, <1>6, <1>7 DEF NoMutation, Mutates, n
<1>16. would_boot' = would_boot
  BY <1>3, WouldBoot
<1>17. ModeInv' /\ OwnInv'
  BY <1>2, <1>3 DEF FlashInv, ModeInv, Deciding, OwnInv, Own
<1>18. RecordedInv' /\ InstalledInv'
  BY <1>2, <1>3, <1>15 DEF FlashInv, RecordedInv, InstalledInv
<1>19. UnrecordedInv'
  BY <1>2, <1>3, <1>16 DEF FlashInv, UnrecordedInv
<1> QED
  BY <1>3, <1>10, <1>11, <1>12, <1>13, <1>14, <1>17, <1>18, <1>19 DEF FlashInv

\* The next command starts with nothing under way.
LEMMA AgainKeeps ==
    ASSUME FlashInv, Again
    PROVE  FlashInv'
<1>1. /\ LinkInv /\ FlashTypeOK /\ ~ waiting /\ commands > 1 /\ commands \in Nat
      /\ restarts \in Nat
  BY HostTypes DEF Again, FlashTypeOK
<1>2. /\ UNCHANGED <<vars, setup, waiting, toDev, toHost, restarts>>
      /\ commands' = commands - 1 /\ step' = "hello" /\ target' = 0 /\ sent' = 0
      /\ statuses' = [s \in Slot |-> None] /\ attempt' = 0
  BY DEF Again
<1>3. DeviceKeeps' /\ UNCHANGED <<flash, nominated, session>>
  BY <1>2, HostTypes
<1>4. ~ setup.late /\ nominated # None
  BY <1>1 DEF FlashInv, ModeInv
<1>5. toDev' = <<>> /\ toHost' = <<>> /\ ~ waiting'
  BY <1>1, <1>2, <1>4 DEF LinkInv, PromptInv
<1>6. Len(toDev') = 0 /\ Len(toHost') = 0
  BY <1>5
<1>7. LinkTypes'
  <2>1. commands' \in Nat \ {0} /\ 0 \in 0 .. PayloadCells /\ 0 \in 0 .. Retries /\ 0 \in Slot
    BY <1>1, <1>2, Sizes, FlashAssumption, Neighbours
  <2>2. toDev' \in Seq(RequestFrame) /\ toHost' \in Seq(ResponseFrame)
    BY <1>5
  <2> QED
    BY <1>1, <1>2, <1>5, <2>1, <2>2 DEF LinkTypes, FlashTypeOK, Step, PayloadCells
<1>8. RequestsInv' /\ LateInv' /\ PromptInv' /\ AnswersInv' /\ NoMutation'
  BY <1>2, <1>4, <1>5, <1>6 DEF RequestsInv, LateInv, PromptInv, AnswersInv, Truthful, NoMutation, Deciding
<1>9. ModeInv' /\ OwnInv' /\ RecordedInv' /\ UnrecordedInv' /\ InstalledInv'
  BY <1>2, <1>3, <1>4, <1>8
  DEF FlashInv, ModeInv, Deciding, OwnInv, RecordedInv, UnrecordedInv, InstalledInv
<1> QED
  BY <1>3, <1>7, <1>8, <1>9 DEF FlashInv

\* What the command does with a response, seen from the link: the step goes
\* forward, and what is still under way belongs to earlier ones.
LEMMA TakeLink ==
    ASSUME FlashInv, waiting, toHost # <<>>, toHost' = Tail(toHost), toDev' = toDev,
           attempt' = 0, waiting' = FALSE, UNCHANGED <<vars, setup, commands, restarts>>,
           FlashTypeOK', step' # "hello",
           setup.late => /\ step' \notin {"status_a", "status_b"} /\ StepRank <= StepRank'
                         /\ step' \in {"erase", "verify", "set_active"} => StepRank < StepRank'
                         /\ target' = target \/ step = "hello"
    PROVE  /\ LinkInv' /\ AnswersInv' /\ DeviceKeeps'
           /\ UNCHANGED <<flash, nominated, session>>
           /\ NoMutation => NoMutation'
           /\ step = "hello" => NoMutation'
           /\ toHost[1].cmd = "VERIFY" => NoMutation'
<1>1. /\ LinkInv /\ FlashTypeOK /\ restarts \in Nat
      /\ toDev \in Seq(RequestFrame) /\ toHost \in Seq(ResponseFrame)
  BY HostTypes
<1>2. DeviceKeeps' /\ UNCHANGED <<flash, nominated, session>>
  BY HostTypes
<1>3. /\ toHost' \in Seq(ResponseFrame) /\ Drops(toHost', toHost, 1)
      /\ Len(toHost) \in Nat /\ Len(toHost) > 0 /\ Len(toHost') \in Nat
  BY <1>1, TailDrops
<1>4. \A i \in 1 .. Len(toHost') : i + 1 \in 1 .. Len(toHost) /\ toHost'[i] = toHost[i + 1]
  BY <1>3, Left
<1>5. ~ setup.late => toDev = <<>> /\ toHost' = <<>> /\ Len(toDev) = 0 /\ Len(toHost') = 0
  BY <1>1, Alone
<1>6. setup.late => /\ \A i \in 1 .. Len(toDev) : Rank(toDev[i].cmd) <= StepRank
                    /\ \A i \in 1 .. Len(toHost') : Rank(toHost'[i].cmd) <= StepRank
  BY <1>1, <1>4 DEF LinkInv, LateInv
<1>7. setup.late /\ step = "hello" => \A i \in 1 .. Len(toDev) : toDev[i].cmd = "HELLO"
  BY <1>6 DEF StepRank, Rank
<1>8. LinkTypes'
  BY <1>1, <1>3 DEF LinkTypes
<1>9. RequestsInv'
  <2>1. CASE setup.late /\ target' = target
    BY <1>1, <2>1 DEF LinkInv, RequestsInv, UpdateWrites, PayloadCells, at
  <2>2. CASE setup.late /\ step = "hello"
    BY <1>7, <2>2 DEF RequestsInv
  <2>3. CASE ~ setup.late
    BY <1>5, <2>3 DEF RequestsInv
  <2> QED
    BY <2>1, <2>2, <2>3
<1>10. LateInv'
  <2> SUFFICES ASSUME setup.late PROVE LateInv'
    BY DEF LateInv
  <2>1. StepRank \in Int /\ StepRank' \in Int /\ StepRank <= StepRank'
    BY Ranks
  <2>2. /\ \A i \in 1 .. Len(toDev) : Rank(toDev[i].cmd) \in Int
        /\ \A i \in 1 .. Len(toHost') : Rank(toHost'[i].cmd) \in Int
    BY Ranks
  <2>3. /\ \A i \in 1 .. Len(toDev) : Rank(toDev[i].cmd) <= StepRank'
        /\ \A i \in 1 .. Len(toHost') : Rank(toHost'[i].cmd) <= StepRank'
    BY <1>6, <2>1, <2>2
  <2>4. \A i \in 1 .. Len(toHost'), j \in 1 .. Len(toDev) :
            Rank(toHost'[i].cmd) <= Rank(toDev[j].cmd)
    BY <1>1, <1>4 DEF LinkInv, LateInv
  <2>5. \A i, j \in 1 .. Len(toDev) : i < j => Rank(toDev[i].cmd) <= Rank(toDev[j].cmd)
    BY <1>1 DEF LinkInv, LateInv
  <2> QED
    BY <2>3, <2>4, <2>5 DEF LateInv
<1>11. PromptInv'
  BY <1>5 DEF PromptInv
<1>12. AnswersInv'
  <2>1. CASE ~ setup.late
    BY <1>5, <2>1 DEF AnswersInv, Truthful, Deciding
  <2>2. CASE setup.late
    <3>1. StepRank \in Int /\ StepRank' \in Int
      BY Ranks
    <3>2. /\ step' = "erase" => StepRank < 1
          /\ step' = "verify" => StepRank < 3
          /\ step' = "set_active" => StepRank < 4
      <4>1. /\ step' = "erase" => StepRank' = 1
            /\ step' = "verify" => StepRank' = 3
            /\ step' = "set_active" => StepRank' = 4
        BY DEF StepRank
      <4> QED
        BY <2>2, <4>1
    <3>3. ASSUME NEW i \in 1 .. Len(toHost')
          PROVE  /\ toHost'[i].cmd = "ERASE_SLOT" => step' # "erase"
                 /\ toHost'[i].cmd = "VERIFY" => step' # "verify"
                 /\ toHost'[i].cmd = "SET_ACTIVE" => step' # "set_active"
      <4>1. Rank(toHost'[i].cmd) <= StepRank
        BY <1>6, <2>2
      <4>2. /\ toHost'[i].cmd = "ERASE_SLOT" => Rank(toHost'[i].cmd) = 1
            /\ toHost'[i].cmd = "VERIFY" => Rank(toHost'[i].cmd) = 3
            /\ toHost'[i].cmd = "SET_ACTIVE" => Rank(toHost'[i].cmd) = 4
        BY DEF Rank
      <4> QED
        BY <3>1, <3>2, <4>1, <4>2
    <3>4. \A i \in 1 .. Len(toHost') :
              /\ toHost'[i].cmd = "HELLO" => toHost'[i].data \in Slot \cup {None}
              /\ toHost'[i].cmd = "VERIFY" /\ toHost'[i].status = BL_OK => toHost'[i].data \in Image
      BY <1>4 DEF FlashInv, AnswersInv, Truthful, Deciding
    <3>5. ~ Deciding' /\ step' # "hello"
      BY <2>2 DEF Deciding
    <3> QED
      BY <3>3, <3>4, <3>5 DEF AnswersInv, Truthful, Deciding
  <2> QED
    BY <2>1, <2>2
<1>13. NoMutation => NoMutation'
  BY DEF NoMutation
<1>14. step = "hello" => NoMutation'
  BY <1>5, <1>7 DEF NoMutation, Mutates
<1>15. toHost[1].cmd = "VERIFY" => NoMutation'
  <2>1. CASE ~ setup.late
    BY <1>5, <2>1 DEF NoMutation
  <2>2. CASE setup.late
    <3>1. \A j \in 1 .. Len(toDev) : Rank(toHost[1].cmd) <= Rank(toDev[j].cmd)
      BY <1>1, <1>3, <2>2 DEF LinkInv, LateInv
    <3> QED
      BY <3>1 DEF NoMutation, Mutates, Rank
  <2> QED
    BY <2>1, <2>2
<1> QED
  BY <1>2, <1>8, <1>9, <1>10, <1>11, <1>12, <1>13, <1>14, <1>15 DEF LinkInv

\* What a step that takes the response r has in common.
Taken(r) ==
    /\ waiting /\ toHost # <<>> /\ r = Head(toHost) /\ r.cmd = request.cmd
    /\ toHost' = Tail(toHost) /\ toDev' = toDev /\ attempt' = 0 /\ waiting' = FALSE
    /\ UNCHANGED <<vars, setup, commands, restarts>>

\* The response is the first frame, and says what the answers say.
LEMMA FirstAnswer ==
    ASSUME FlashInv, NEW r, Taken(r)
    PROVE  /\ r = toHost[1] /\ r \in ResponseFrame /\ 1 \in 1 .. Len(toHost)
           /\ Running /\ FlashTypeOK /\ LinkInv
           /\ UNCHANGED <<flash, nominated, session>> /\ would_boot' = would_boot
           /\ 0 \in 0 .. Retries /\ FALSE \in BOOLEAN
<1>1. /\ LinkInv /\ FlashTypeOK /\ Running /\ toHost \in Seq(ResponseFrame)
  BY HostTypes DEF Taken
<1>2. r = toHost[1] /\ r \in ResponseFrame /\ 1 \in 1 .. Len(toHost)
  BY <1>1, TailDrops DEF Taken
<1>3. UNCHANGED <<flash, nominated, session>>
  BY DEF Taken, vars
<1>4. would_boot' = would_boot
  BY <1>3, WouldBoot
<1> QED
  BY <1>1, <1>2, <1>3, <1>4, FlashAssumption

\* HELLO answered: the target is chosen by the operator or by the record,
\* and is never the slot that the record names (blflash.py:341-352).
LEMMA GotHelloKeeps ==
    ASSUME FlashInv, NEW r, Taken(r), GotHello(r)
    PROVE  FlashInv'
<1>1. /\ r = toHost[1] /\ 1 \in 1 .. Len(toHost) /\ Running /\ FlashTypeOK
      /\ UNCHANGED <<flash, nominated, session>> /\ would_boot' = would_boot
      /\ 0 \in 0 .. Retries /\ FALSE \in BOOLEAN
  BY FirstAnswer
<1>2. step = "hello" /\ r.cmd = "HELLO"
  BY <1>1, RequestOfStep DEF GotHello, Taken
<1>3. r.data = nominated /\ nominated \in Slot \cup {None}
  BY <1>1, <1>2 DEF FlashInv, AnswersInv, Truthful, Deciding
<1>4. /\ UNCHANGED <<sent, statuses, setup, commands>> /\ attempt' = 0 /\ waiting' = FALSE
      /\ toHost # <<>> /\ waiting /\ toHost' = Tail(toHost) /\ toDev' = toDev
      /\ UNCHANGED <<vars, restarts>>
  BY DEF GotHello, Taken
<1>5. StepRank = 0
  BY <1>2 DEF StepRank
<1>6. CASE setup.arg = None /\ r.data = None /\ step' = "status_a" /\ UNCHANGED target
  <2>1. nominated = None /\ ~ setup.late
    BY <1>3, <1>6 DEF FlashInv, ModeInv
  <2>2. FlashTypeOK'
    BY <1>1, <1>4, <1>6 DEF FlashTypeOK, Step, PayloadCells
  <2>3. LinkInv' /\ AnswersInv' /\ DeviceKeeps'
    BY <1>4, <1>6, <2>1, <2>2, TakeLink
  <2>4. ModeInv' /\ OwnInv' /\ InstalledInv'
    BY <1>1, <1>4, <1>6, <2>1 DEF FlashInv, ModeInv, OwnInv, InstalledInv
  <2>5. RecordedInv'
    BY <1>1, <1>6, <2>1, Neighbours DEF RecordedInv, FlashTypeOK
  <2>6. UnrecordedInv'
    BY <1>1, <1>2, <1>6 DEF FlashInv, UnrecordedInv
  <2> QED
    BY <2>3, <2>4, <2>5, <2>6 DEF FlashInv, LinkInv
<1>7. CASE /\ setup.arg # None \/ r.data # None
           /\ target' = IF setup.arg # None THEN setup.arg ELSE other(r.data)
           /\ step' = IF refuses(target', r.data) THEN "failed" ELSE "erase"
  <2>1. nominated # None /\ nominated \in Slot
    BY <1>3, <1>7 DEF FlashInv, ModeInv
  <2>2. target' \in Slot
    BY <1>1, <1>3, <1>7, <2>1, Neighbours DEF FlashTypeOK
  <2>3. step' \in {"failed", "erase"} /\ (target' = nominated => step' = "failed")
    BY <1>3, <1>7 DEF refuses
  <2>4. FlashTypeOK'
    BY <1>1, <1>4, <2>2, <2>3 DEF FlashTypeOK, Step, PayloadCells
  <2>5. StepRank < StepRank' /\ StepRank <= StepRank'
    BY <1>5, <2>3 DEF StepRank
  <2>6. LinkInv' /\ AnswersInv' /\ DeviceKeeps' /\ NoMutation'
    BY <1>2, <1>4, <2>3, <2>4, <2>5, TakeLink
  <2>7. ModeInv'
    BY <1>1, <1>4, <2>1, <2>3 DEF FlashInv, ModeInv, Deciding
  <2>8. OwnInv'
    BY <1>1, <1>2, <1>4, <2>3 DEF FlashInv, OwnInv, Own
  <2>9. RecordedInv'
    BY <1>1, <2>3, <2>6 DEF FlashInv, RecordedInv
  <2>10. UnrecordedInv' /\ InstalledInv'
    BY <1>1, <2>1, <2>3 DEF UnrecordedInv, InstalledInv
  <2> QED
    BY <2>6, <2>7, <2>8, <2>9, <2>10 DEF FlashInv, LinkInv
<1> QED
  BY <1>6, <1>7 DEF GotHello

\* VERIFY answered for the choice of the target: the tool knows what the
\* slots hold, and chooses the one that does not boot.
LEMMA GotStatusKeeps ==
    ASSUME FlashInv, NEW r, Taken(r), GotStatus(r)
    PROVE  FlashInv'
<1>1. /\ r = toHost[1] /\ 1 \in 1 .. Len(toHost) /\ Running /\ FlashTypeOK
      /\ UNCHANGED <<flash, nominated, session>> /\ would_boot' = would_boot
      /\ 0 \in 0 .. Retries /\ FALSE \in BOOLEAN
  BY FirstAnswer
<1>2. Deciding /\ nominated = None /\ ~ setup.late
  BY DEF GotStatus, Deciding, FlashInv, ModeInv
<1>3. r.cmd = "VERIFY" /\ request.slot = IF step = "status_a" THEN 0 ELSE 1
  BY <1>1, <1>2, RequestOfStep DEF Taken, Deciding
<1> DEFINE s == IF step = "status_a" THEN 0 ELSE 1
           found == IF Valid(flash[s]) THEN Found(flash[s]) ELSE None
<1>4. /\ r.status = BL_OK <=> Valid(flash[s])
      /\ r.status = BL_OK => r.data = Found(flash[s])
  BY <1>1, <1>2, <1>3 DEF FlashInv, AnswersInv, Truthful, Deciding
<1>5. statuses' = [statuses EXCEPT ![s] = found]
  BY <1>3, <1>4 DEF GotStatus
<1>6. statuses \in [Slot -> Image \cup {None}] /\ s \in Slot /\ found \in Image \cup {None}
  BY <1>1, Neighbours, ValidSlot DEF FlashTypeOK
<1>7. /\ statuses' \in [Slot -> Image \cup {None}]
      /\ statuses'[s] = found
      /\ \A t \in Slot : t # s => statuses'[t] = statuses[t]
  BY <1>5, <1>6
<1>8. /\ UNCHANGED <<sent, setup, commands>> /\ attempt' = 0 /\ waiting' = FALSE
      /\ toHost # <<>> /\ waiting /\ toHost' = Tail(toHost) /\ toDev' = toDev
      /\ UNCHANGED <<vars, restarts>>
  BY DEF GotStatus, Taken
<1>9. /\ would_boot # None /\ Untied(flash)
      /\ step = "status_b" => statuses[0] = IF Valid(flash[0]) THEN Found(flash[0]) ELSE None
  BY <1>2 DEF FlashInv, UnrecordedInv, Deciding
<1>10. CASE step = "status_a" /\ step' = "status_b" /\ UNCHANGED target
  <2>1. FlashTypeOK'
    BY <1>1, <1>7, <1>8, <1>10 DEF FlashTypeOK, Step, PayloadCells
  <2>2. LinkInv' /\ AnswersInv' /\ DeviceKeeps'
    BY <1>2, <1>8, <1>10, <2>1, TakeLink
  <2>3. ModeInv' /\ OwnInv' /\ InstalledInv'
    BY <1>1, <1>2, <1>8, <1>10 DEF FlashInv, ModeInv, OwnInv, InstalledInv
  <2>4. RecordedInv'
    BY <1>1, <1>2, <1>10, Neighbours DEF RecordedInv, FlashTypeOK
  <2>5. statuses'[0] = IF Valid(flash[0]) THEN Found(flash[0]) ELSE None
    BY <1>7, <1>10
  <2>6. UnrecordedInv'
    BY <1>1, <1>9, <1>10, <2>5 DEF UnrecordedInv
  <2> QED
    BY <2>2, <2>3, <2>4, <2>6 DEF FlashInv, LinkInv
<1>11. CASE step = "status_b" /\ step' = "erase" /\ target' = ChooseTarget(statuses')
  <2>1. /\ statuses'[0] = IF Valid(flash[0]) THEN Found(flash[0]) ELSE None
        /\ statuses'[1] = IF Valid(flash[1]) THEN Found(flash[1]) ELSE None
    BY <1>7, <1>9, <1>11, Neighbours
  <2>2. would_boot = SelectSlot(flash, None)
    BY <1>2, WouldBoot
  <2>3. \E t \in Slot : Valid(flash[t])
    BY <1>9, <2>2, Selected
  <2>4. target' \in Slot /\ would_boot = other(target')
    BY <1>9, <1>11, <2>1, <2>2, <2>3, ChoosesOther
  <2>5. FlashTypeOK'
    BY <1>1, <1>7, <1>8, <1>11, <2>4 DEF FlashTypeOK, Step, PayloadCells
  <2>6. LinkInv' /\ AnswersInv' /\ DeviceKeeps'
    BY <1>2, <1>8, <1>11, <2>5, TakeLink
  <2>7. ModeInv' /\ OwnInv' /\ InstalledInv'
    BY <1>1, <1>2, <1>8, <1>11 DEF FlashInv, ModeInv, Deciding, OwnInv, InstalledInv
  <2>8. RecordedInv'
    BY <1>1, <1>2, <2>4, Neighbours DEF RecordedInv
  <2>9. UnrecordedInv'
    BY <1>1, <1>9, <1>11, <2>4 DEF UnrecordedInv
  <2> QED
    BY <2>6, <2>7, <2>8, <2>9 DEF FlashInv, LinkInv
<1> QED
  BY <1>10, <1>11 DEF GotStatus

\* From the erase on, the command goes forward or fails, with its target.
Forward ==
    \/ step' = "failed"
    \/ step = "erase" /\ step' = "payload"
    \/ step = "payload" /\ step' \in {"payload", "header"}
    \/ step = "header" /\ step' = "verify"
    \/ step = "verify" /\ step' = "set_active"
    \/ step = "set_active" /\ step' \in {"reset", "done"}
    \/ step = "reset" /\ step' = "done"

\* Such a step keeps the invariant, if what the next step relies on is so.
LEMMA ForwardKeeps ==
    ASSUME FlashInv, NEW r, Taken(r), Forward,
           UNCHANGED <<target, statuses>>, sent' \in 0 .. PayloadCells,
           step' \in {"payload", "header"} => Own /\ nominated # target,
           step' = "failed" => nominated # target \/ NoMutation,
           step' \in {"payload", "header"} /\ nominated = None => flash[target][0] = Blank,
           step' = "set_active" => r.cmd = "VERIFY" /\ holds(flash[target], New),
           step' \in {"reset", "done"} => nominated = target
    PROVE  FlashInv'
<1>1. /\ r = toHost[1] /\ FlashTypeOK /\ 0 \in 0 .. Retries /\ FALSE \in BOOLEAN
      /\ UNCHANGED <<flash, nominated, session>> /\ would_boot' = would_boot
  BY FirstAnswer
<1>2. /\ UNCHANGED <<setup, commands>> /\ attempt' = 0 /\ waiting' = FALSE
      /\ toHost # <<>> /\ waiting /\ toHost' = Tail(toHost) /\ toDev' = toDev
      /\ UNCHANGED <<vars, restarts>>
  BY DEF Taken
<1>3. FlashTypeOK'
  BY <1>1, <1>2 DEF FlashTypeOK, Forward, Step, PayloadCells
<1>4. /\ step' \notin {"hello", "status_a", "status_b", "erase"} /\ StepRank <= StepRank'
      /\ step' \in {"verify", "set_active"} => StepRank < StepRank'
  BY DEF Forward, StepRank
<1>5. /\ LinkInv' /\ AnswersInv' /\ DeviceKeeps'
      /\ NoMutation => NoMutation'
      /\ toHost[1].cmd = "VERIFY" => NoMutation'
  BY <1>2, <1>3, <1>4, TakeLink
<1>6. ModeInv'
  BY <1>1, <1>2, <1>4 DEF FlashInv, ModeInv, Deciding
<1>7. OwnInv'
  BY <1>1, <1>2, <1>4 DEF FlashInv, OwnInv, Own
<1>8. RecordedInv'
  BY <1>1, <1>4, <1>5 DEF FlashInv, RecordedInv
<1>9. UnrecordedInv'
  BY <1>1, <1>4 DEF FlashInv, UnrecordedInv
<1>10. InstalledInv'
  <2>1. CASE step' = "set_active"
    BY <1>1, <1>5, <2>1 DEF InstalledInv
  <2>2. CASE step' \in {"reset", "done"}
    <3>1. holds(flash[target], New) /\ NoMutation
      BY <2>2 DEF FlashInv, InstalledInv, Forward
    <3> QED
      BY <1>1, <1>5, <2>2, <3>1 DEF InstalledInv
  <2> QED
    BY <2>1, <2>2 DEF InstalledInv
<1> QED
  BY <1>5, <1>6, <1>7, <1>8, <1>9, <1>10 DEF FlashInv, LinkInv

\* The responses to the erase, the writes and what follows them.
LEMMA GotLaterKeeps ==
    ASSUME FlashInv, NEW r, Taken(r),
           GotErase(r) \/ GotWrite(r) \/ GotVerify(r) \/ GotSetActive(r) \/ GotReset(r)
    PROVE  FlashInv'
<1>1. /\ r = toHost[1] /\ 1 \in 1 .. Len(toHost) /\ Running /\ FlashTypeOK /\ r.cmd = request.cmd
      /\ sent \in 0 .. PayloadCells
  BY FirstAnswer DEF Taken, FlashTypeOK
<1>2. nominated # target \/ NoMutation
  BY DEF FlashInv, RecordedInv
<1>3. CASE GotErase(r)
  <2>1. step = "erase" /\ step' \in {"payload", "failed"} /\ UNCHANGED <<target, sent, statuses>>
    BY <1>3 DEF GotErase, ExpectOk
  <2>2. step' = "payload" => r.status = BL_OK
    BY <1>3 DEF GotErase, ExpectOk
  <2>3. r.cmd = "ERASE_SLOT"
    BY <1>1, <2>1, RequestOfStep
  <2>4. step' = "payload" => Own /\ (nominated = None => flash[target][0] = Blank)
    BY <1>1, <2>1, <2>2, <2>3 DEF FlashInv, AnswersInv, Truthful, Deciding
  <2>5. nominated # target
    BY <2>1 DEF FlashInv, RecordedInv
  <2> QED
    BY <1>1, <1>2, <2>1, <2>4, <2>5, ForwardKeeps DEF Forward
<1>4. CASE GotWrite(r)
  <2>1. UNCHANGED <<target, statuses>> /\ step \in {"payload", "header"}
    BY <1>4 DEF GotWrite
  <2>2. Own /\ nominated # target
    BY <2>1 DEF FlashInv, OwnInv, RecordedInv
  <2>3. step = "payload" /\ nominated = None => flash[target][0] = Blank
    BY DEF FlashInv, UnrecordedInv
  <2>4. CASE step = "payload" /\ sent' = sent + Chunk /\ step' \in {"payload", "header"}
    <3>1. sent' \in 0 .. PayloadCells
      BY <1>1, <2>4, Sizes DEF Chunk
    <3> QED
      BY <2>1, <2>2, <2>3, <2>4, <3>1, ForwardKeeps DEF Forward
  <2>5. CASE step = "header" /\ step' = "verify" /\ UNCHANGED sent
    BY <1>1, <2>1, <2>5, ForwardKeeps DEF Forward
  <2>6. CASE step' = "failed" /\ UNCHANGED sent
    BY <1>1, <2>1, <2>2, <2>6, ForwardKeeps DEF Forward
  <2> QED
    BY <1>4, <2>4, <2>5, <2>6 DEF GotWrite
<1>5. CASE GotVerify(r)
  <2>1. step = "verify" /\ step' \in {"set_active", "failed"} /\ UNCHANGED <<target, sent, statuses>>
    BY <1>5 DEF GotVerify
  <2>2. step' = "set_active" => r.status = BL_OK /\ r.data = New
    BY <1>5 DEF GotVerify
  <2>3. r.cmd = "VERIFY"
    BY <1>1, <2>1, RequestOfStep
  <2>4. step' = "set_active" => holds(flash[target], New)
    BY <1>1, <2>1, <2>2, <2>3 DEF FlashInv, AnswersInv, Truthful, Deciding
  <2> QED
    BY <1>1, <1>2, <2>1, <2>3, <2>4, ForwardKeeps DEF Forward
<1>6. CASE GotSetActive(r)
  <2>1. /\ step = "set_active" /\ step' \in {"reset", "done", "failed"}
        /\ UNCHANGED <<target, sent, statuses>>
    BY <1>6 DEF GotSetActive, ExpectOk
  <2>2. step' # "failed" => r.status = BL_OK
    BY <1>6 DEF GotSetActive, ExpectOk
  <2>3. r.cmd = "SET_ACTIVE"
    BY <1>1, <2>1, RequestOfStep
  <2>4. step' # "failed" => nominated = target
    BY <1>1, <2>1, <2>2, <2>3 DEF FlashInv, AnswersInv, Truthful, Deciding
  <2> QED
    BY <1>1, <1>2, <2>1, <2>4, ForwardKeeps DEF Forward
<1>7. CASE GotReset(r)
  <2>1. step = "reset" /\ step' \in {"done", "failed"} /\ UNCHANGED <<target, sent, statuses>>
    BY <1>7 DEF GotReset, ExpectOk
  <2>2. nominated = target
    BY <2>1 DEF FlashInv, InstalledInv
  <2> QED
    BY <1>1, <1>2, <2>1, <2>2, ForwardKeeps DEF Forward
<1> QED
  BY <1>3, <1>4, <1>5, <1>6, <1>7

\* Every response that is taken keeps the invariant.
LEMMA TakeKeeps ==
    ASSUME FlashInv, Take
    PROVE  FlashInv'
<1> DEFINE r == Head(toHost)
<1>1. Taken(r)
  BY DEF Take, Taken
<1>2. \/ GotHello(r) \/ GotStatus(r) \/ GotErase(r) \/ GotWrite(r)
      \/ GotVerify(r) \/ GotSetActive(r) \/ GotReset(r)
  BY DEF Take
<1> HIDE DEF r
<1> QED
  BY <1>1, <1>2, GotHelloKeeps, GotStatusKeeps, GotLaterKeeps

-----------------------------------------------------------------------------
(* Steps of the device *)

\* The request that the device finds first.
LEMMA FirstRequest ==
    ASSUME FlashInv, toDev # <<>>
    PROVE  /\ Head(toDev) = toDev[1] /\ toDev[1] \in RequestFrame /\ 1 \in 1 .. Len(toDev)
           /\ target \in Slot /\ FlashTypeOK /\ LinkInv
           /\ toDev[1].cmd = "WRITE" =>
                 /\ <<toDev[1].offset, toDev[1].len>> \in Writes
                 /\ Disciplined(toDev[1].offset, toDev[1].len)
           /\ toDev[1].cmd \in {"ERASE_SLOT", "SET_ACTIVE"} => toDev[1].slot = target
           /\ toDev[1].cmd = "VERIFY" => toDev[1].slot \in Slot
           /\ setup.late /\ toDev[1].cmd = "VERIFY" => toDev[1].slot = target
           /\ ~ setup.late => /\ waiting /\ Running /\ toDev[1] = request
                              /\ toHost = <<>> /\ Tail(toDev) = <<>>
<1>1. LinkInv /\ FlashTypeOK /\ toDev \in Seq(RequestFrame) /\ target \in Slot
  BY HostTypes DEF FlashTypeOK
<1>2. Head(toDev) = toDev[1] /\ toDev[1] \in RequestFrame /\ 1 \in 1 .. Len(toDev)
  BY <1>1, TailDrops
<1>3. /\ toDev[1].cmd = "WRITE" => <<toDev[1].offset, toDev[1].len>> \in UpdateWrites
      /\ toDev[1].cmd \in {"ERASE_SLOT", "SET_ACTIVE"} => toDev[1].slot = target
      /\ toDev[1].cmd = "VERIFY" => toDev[1].slot \in Slot
      /\ setup.late /\ toDev[1].cmd = "VERIFY" => toDev[1].slot = target
  BY <1>2 DEF FlashInv, RequestsInv
<1>4. toDev[1].cmd = "WRITE" => /\ <<toDev[1].offset, toDev[1].len>> \in Writes
                                /\ Disciplined(toDev[1].offset, toDev[1].len)
  BY <1>3, WritesOfUpdate
<1>5. ~ setup.late => /\ waiting /\ toDev[1] = request
                      /\ toHost = <<>> /\ Tail(toDev) = <<>>
  BY <1>1, <1>2, Alone DEF LinkInv, PromptInv
<1>6. waiting => Running
  BY HostTypes
<1> QED
  BY <1>1, <1>2, <1>3, <1>4, <1>5, <1>6

\* A frame is handled: it leaves one queue and its answer enters the other.
Answers(r) ==
    /\ toDev # <<>> /\ toDev' = Tail(toDev)
    /\ r \in ResponseFrame /\ r.cmd = toDev[1].cmd /\ toHost' = Append(toHost, r)
    /\ UNCHANGED <<hostVars, restarts>>

\* Seen from the link, this keeps the order of what is under way.
LEMMA LinkAnswers ==
    ASSUME FlashInv, NEW r, Answers(r)
    PROVE  /\ LinkInv' /\ (NoMutation => NoMutation')
           /\ toDev[1].cmd = "SET_ACTIVE" => NoMutation'
           /\ Len(toHost) \in Nat /\ Len(toHost') = Len(toHost) + 1
           /\ \A i \in 1 .. Len(toHost) : toHost'[i] = toHost[i]
           /\ toHost'[Len(toHost) + 1] = r
<1>1. /\ LinkInv /\ FlashTypeOK /\ restarts \in Nat /\ (waiting => Running)
      /\ toDev \in Seq(RequestFrame) /\ toHost \in Seq(ResponseFrame)
  BY HostTypes
<1>2. /\ toDev' \in Seq(RequestFrame) /\ Drops(toDev', toDev, 1) /\ Len(toDev) \in Nat
      /\ Len(toDev') \in Nat /\ 1 \in 1 .. Len(toDev)
  BY <1>1, TailDrops DEF Answers
<1>3. \A i \in 1 .. Len(toDev') : i + 1 \in 1 .. Len(toDev) /\ toDev'[i] = toDev[i + 1]
  BY <1>2, Left
<1> DEFINE n == Len(toHost)
<1>4. /\ toHost' \in Seq(ResponseFrame) /\ n \in Nat /\ Len(toHost') = n + 1
      /\ \A i \in 1 .. n : toHost'[i] = toHost[i]
      /\ toHost'[n + 1] = r
  BY <1>1, Appends DEF Answers
<1>5. \A i \in 1 .. Len(toHost') : i \in 1 .. n \/ i = n + 1
  BY <1>4
<1>6. UNCHANGED <<step, setup, target, sent, statuses, attempt, waiting, commands, restarts>>
  BY DEF Answers, hostVars
<1> HIDE DEF n
<1>7. LinkTypes'
  BY <1>1, <1>2, <1>4, <1>6 DEF LinkInv, LinkTypes, FlashTypeOK, Running, PayloadCells
<1>8. RequestsInv'
  BY <1>1, <1>3, <1>6 DEF LinkInv, RequestsInv, UpdateWrites, PayloadCells, at
<1>9. LateInv'
  <2> SUFFICES ASSUME setup.late PROVE LateInv'
    BY <1>6 DEF LateInv
  <2>1. StepRank' = StepRank
    BY <1>6 DEF StepRank
  <2>2. /\ \A i, j \in 1 .. Len(toDev) : i < j => Rank(toDev[i].cmd) <= Rank(toDev[j].cmd)
        /\ \A i \in 1 .. n, j \in 1 .. Len(toDev) : Rank(toHost[i].cmd) <= Rank(toDev[j].cmd)
        /\ \A i \in 1 .. Len(toDev) : Rank(toDev[i].cmd) <= StepRank
        /\ \A i \in 1 .. n : Rank(toHost[i].cmd) <= StepRank
    BY <1>1 DEF LinkInv, LateInv, n
  <2>3. Rank(r.cmd) = Rank(toDev[1].cmd)
    BY DEF Answers
  <2>4. \A j \in 1 .. Len(toDev') : Rank(toDev[1].cmd) <= Rank(toDev'[j].cmd)
    <3>1. \A j \in 1 .. Len(toDev') : 1 < j + 1
      BY <1>2
    <3> QED
      BY <1>2, <1>3, <2>2, <3>1
  <2>5. \A i \in 1 .. Len(toHost'), j \in 1 .. Len(toDev') :
            Rank(toHost'[i].cmd) <= Rank(toDev'[j].cmd)
    BY <1>3, <1>4, <1>5, <2>2, <2>3, <2>4
  <2>6. \A i \in 1 .. Len(toHost') : Rank(toHost'[i].cmd) <= StepRank
    BY <1>2, <1>4, <1>5, <2>2, <2>3
  <2>7. \A i \in 1 .. Len(toDev') : Rank(toDev'[i].cmd) <= StepRank
    BY <1>3, <2>2
  <2>8. ASSUME NEW i \in 1 .. Len(toDev'), NEW j \in 1 .. Len(toDev'), i < j
        PROVE  Rank(toDev'[i].cmd) <= Rank(toDev'[j].cmd)
    <3>1. i + 1 < j + 1
      BY <1>2, <2>8
    <3> QED
      BY <1>3, <2>2, <3>1
  <2> QED
    BY <2>1, <2>5, <2>6, <2>7, <2>8 DEF LateInv
<1>10. PromptInv'
  <2> SUFFICES ASSUME ~ setup.late PROVE PromptInv'
    BY <1>6 DEF PromptInv
  <2>1. waiting /\ toDev[1] = request /\ toHost = <<>> /\ toDev' = <<>>
    BY FirstRequest DEF Answers
  <2>2. n = 0 /\ Len(toDev') = 0
    BY <2>1 DEF n
  <2>3. request' = request
    BY <1>6 DEF request, Request, Chunk, PayloadCells, at
  <2>4. Len(toDev') + Len(toHost') <= 1
    BY <1>4, <2>2
  <2>5. \A i \in 1 .. Len(toHost') : toHost'[i].cmd = request'.cmd
    BY <1>4, <1>5, <2>1, <2>2, <2>3 DEF Answers
  <2> QED
    BY <1>6, <2>1, <2>2, <2>4, <2>5 DEF PromptInv
<1>11. NoMutation => NoMutation'
  BY <1>3 DEF NoMutation, Mutates
<1>12. toDev[1].cmd = "SET_ACTIVE" => NoMutation'
  <2>1. CASE ~ setup.late
    <3>1. toDev' = <<>>
      BY <2>1, FirstRequest DEF Answers
    <3>2. Len(toDev') = 0
      BY <3>1
    <3> QED
      BY <3>2 DEF NoMutation
  <2>2. CASE setup.late
    <3>1. \A j \in 1 .. Len(toDev') : 1 < j + 1
      BY <1>2
    <3>2. \A j \in 1 .. Len(toDev') : Rank(toDev[1].cmd) <= Rank(toDev'[j].cmd)
      BY <1>1, <1>2, <1>3, <2>2, <3>1 DEF LinkInv, LateInv
    <3> QED
      BY <3>2 DEF NoMutation, Mutates, Rank
  <2> QED
    BY <2>1, <2>2
<1> QED
  BY <1>4, <1>7, <1>8, <1>9, <1>10, <1>11, <1>12 DEF LinkInv, n

\* Answers that stay true and a new one that is true.
LEMMA AnswersGrow ==
    ASSUME FlashInv, NEW r, Answers(r),
           \A i \in 1 .. Len(toHost) :
               Truthful(toHost[i], step', Own', flash', nominated', target'),
           Truthful(r, step', Own', flash', nominated', target')
    PROVE  AnswersInv'
<1>1. /\ Len(toHost) \in Nat /\ Len(toHost') = Len(toHost) + 1
      /\ \A i \in 1 .. Len(toHost) : toHost'[i] = toHost[i]
      /\ toHost'[Len(toHost) + 1] = r
  BY LinkAnswers
<1>2. \A i \in 1 .. Len(toHost') : i \in 1 .. Len(toHost) \/ i = Len(toHost) + 1
  BY <1>1
<1> QED
  BY <1>1, <1>2 DEF AnswersInv

\* A request that changes neither flash nor record keeps the invariant.
LEMMA QuietKeeps ==
    ASSUME FlashInv, NEW r, Answers(r), DeviceKeeps', UNCHANGED <<flash, nominated>>,
           session'.erased = session.erased, session'.target_slot = session.target_slot,
           session'.header_written = session.header_written,
           Truthful(r, step, Own, flash, nominated, target)
    PROVE  FlashInv'
<1>1. LinkInv' /\ (NoMutation => NoMutation')
  BY LinkAnswers
<1>2. UNCHANGED <<step, setup, target, sent, statuses, attempt, waiting, commands, restarts>>
  BY DEF Answers, hostVars
<1>3. Own' = Own /\ would_boot' = would_boot
  BY <1>2, WouldBoot DEF Own
<1>4. AnswersInv'
  BY <1>2, <1>3, AnswersGrow DEF FlashInv, AnswersInv
<1>5. ModeInv' /\ OwnInv'
  BY <1>2, <1>3 DEF FlashInv, ModeInv, Deciding, OwnInv
<1>6. RecordedInv' /\ InstalledInv'
  BY <1>1, <1>2 DEF FlashInv, RecordedInv, InstalledInv
<1>7. UnrecordedInv'
  BY <1>2, <1>3 DEF FlashInv, UnrecordedInv
<1> QED
  BY <1>1, <1>4, <1>5, <1>6, <1>7 DEF FlashInv, LinkInv

\* SET_ACTIVE handled: by then nothing that changes flash is under way.
LEMMA NominationKeeps ==
    ASSUME FlashInv, NEW r, Answers(r), toDev[1].cmd = "SET_ACTIVE", DeviceKeeps',
           UNCHANGED <<flash, session>>, nominated' = target, Valid(flash[target])
    PROVE  FlashInv'
<1>1. LinkInv' /\ NoMutation'
  BY LinkAnswers
<1>2. UNCHANGED <<step, setup, target, sent, statuses, attempt, waiting, commands, restarts>>
  BY DEF Answers, hostVars
<1>3. /\ target \in Slot /\ target # None /\ 1 \in 1 .. Len(toDev) /\ FlashTypeOK
      /\ ~ setup.late => Running /\ toDev[1] = request
  BY FirstRequest, Neighbours DEF Answers
<1>4. step \in {"set_active", "reset", "done", "failed"}
  <2>1. CASE ~ setup.late
    BY <1>3, <2>1, RequestOfStep
  <2>2. CASE setup.late
    <3>1. Rank(toDev[1].cmd) <= StepRank
      BY <1>3, <2>2 DEF FlashInv, LateInv
    <3>2. StepRank >= 4
      BY <3>1 DEF Rank
    <3>3. ~ Deciding
      BY <2>2 DEF FlashInv, ModeInv
    <3> QED
      BY <1>3, <3>2, <3>3 DEF StepRank, Deciding, FlashTypeOK, Step
  <2> QED
    BY <2>1, <2>2
<1>5. Own' = Own
  BY <1>2 DEF Own
<1>6. AnswersInv'
  <2>1. ASSUME NEW i \in 1 .. Len(toHost)
        PROVE  Truthful(toHost[i], step', Own', flash', nominated', target')
    <3>1. Truthful(toHost[i], step, Own, flash, nominated, target)
      BY DEF FlashInv, AnswersInv
    <3> QED
      BY <1>2, <1>4, <1>5, <3>1 DEF Truthful
  <2>2. Truthful(r, step', Own', flash', nominated', target')
    BY <1>2, <1>4 DEF Truthful, Answers
  <2> QED
    BY <2>1, <2>2, AnswersGrow
<1>7. ModeInv' /\ OwnInv'
  BY <1>2, <1>3, <1>4, <1>5 DEF FlashInv, ModeInv, Deciding, OwnInv
<1>8. RecordedInv' /\ UnrecordedInv'
  BY <1>1, <1>2, <1>3, <1>4 DEF RecordedInv, UnrecordedInv
<1>9. InstalledInv'
  BY <1>1, <1>2 DEF FlashInv, InstalledInv
<1> QED
  BY <1>1, <1>6, <1>7, <1>8, <1>9 DEF FlashInv, LinkInv

\* A request that changes flash is about the target, which is not the slot
\* that boots: the record names the other one, or the tool has chosen the
\* other one to be kept and the target is not complete.
LEMMA MutationSpares ==
    ASSUME FlashInv, toDev # <<>>, Mutates(toDev[1]),
           toDev[1].cmd = "WRITE" => write_check(toDev[1].offset, toDev[1].len) = BL_OK
    PROVE  /\ nominated # target /\ would_boot # target
           /\ would_boot \in Slot /\ Valid(flash[would_boot])
           /\ toDev[1].cmd = "WRITE" => session.erased /\ session.target_slot = target
           /\ step \notin {"hello", "status_a", "status_b", "set_active", "reset", "done"}
           /\ \A i \in 1 .. Len(toHost) : toHost[i].cmd \notin {"VERIFY", "SET_ACTIVE"}
           /\ nominated = None => /\ Len(toHost) = 0 /\ toDev[1] = request
                                  /\ step \in {"erase", "payload", "header"}
<1>1. /\ 1 \in 1 .. Len(toDev) /\ target \in Slot /\ FlashTypeOK /\ toDev[1] \in RequestFrame
      /\ ~ setup.late => Running /\ toDev[1] = request /\ toHost = <<>>
      /\ toDev[1].cmd = "WRITE" => <<toDev[1].offset, toDev[1].len>> \in Writes
  BY FirstRequest
<1>2. ~ NoMutation
  BY <1>1 DEF NoMutation
<1>3. nominated # target
  BY <1>2 DEF FlashInv, RecordedInv
<1>4. ~ setup.late => step \in {"erase", "payload", "header"} /\ Len(toHost) = 0
  BY <1>1, RequestOfStep DEF Mutates
<1>5. setup.late => /\ 1 <= StepRank /\ ~ Deciding
                    /\ \A i \in 1 .. Len(toHost) : Rank(toHost[i].cmd) <= 2
  <2> SUFFICES ASSUME setup.late
               PROVE  /\ 1 <= StepRank /\ ~ Deciding
                      /\ \A i \in 1 .. Len(toHost) : Rank(toHost[i].cmd) <= 2
    OBVIOUS
  <2>1. /\ Rank(toDev[1].cmd) <= StepRank
        /\ \A i \in 1 .. Len(toHost) : Rank(toHost[i].cmd) <= Rank(toDev[1].cmd)
    BY <1>1 DEF FlashInv, LateInv
  <2>2. Rank(toDev[1].cmd) \in {1, 2}
    BY DEF Mutates, Rank
  <2>3. StepRank \in Int /\ \A i \in 1 .. Len(toHost) : Rank(toHost[i].cmd) \in Int
    BY Ranks
  <2>4. 1 <= StepRank
    BY <2>1, <2>2, <2>3
  <2>5. \A i \in 1 .. Len(toHost) : Rank(toHost[i].cmd) <= 2
    BY <2>1, <2>2, <2>3
  <2> QED
    BY <2>4, <2>5 DEF FlashInv, ModeInv
<1>6. step \notin {"hello", "status_a", "status_b", "set_active", "reset", "done"}
  <2>1. step \notin {"set_active", "reset", "done"}
    BY <1>2 DEF FlashInv, InstalledInv
  <2>2. step \notin {"hello", "status_a", "status_b"}
    BY <1>4, <1>5 DEF StepRank, Deciding
  <2> QED
    BY <2>1, <2>2
<1>7. \A i \in 1 .. Len(toHost) : toHost[i].cmd \notin {"VERIFY", "SET_ACTIVE"}
  BY <1>4, <1>5 DEF Rank
<1>8. toDev[1].cmd = "WRITE" =>
        /\ session.erased /\ session.target_slot = target
        /\ toDev[1].offset = 0 => ~ session.header_written
  <2> SUFFICES ASSUME toDev[1].cmd = "WRITE"
               PROVE  /\ session.erased /\ session.target_slot = target
                      /\ toDev[1].offset = 0 => ~ session.header_written
    OBVIOUS
  <2>1. toDev[1].offset \in Nat /\ toDev[1].len \in Nat
    BY <1>1 DEF RequestFrame
  <2>2. session.erased /\ (toDev[1].offset = 0 => ~ session.header_written)
    BY <2>1, WriteChecked DEF FlashInv, DeviceKeeps
  <2>3. ~ setup.late => step \in {"payload", "header"}
    BY <1>1, RequestOfStep
  <2>4. Own
    BY <2>3 DEF FlashInv, OwnInv
  <2> QED
    BY <2>2, <2>4 DEF Own
<1>9. nominated = None => /\ Len(toHost) = 0 /\ toDev[1] = request
                          /\ step \in {"erase", "payload", "header"}
  <2>1. nominated = None => ~ setup.late
    BY DEF FlashInv, ModeInv
  <2> QED
    BY <1>1, <1>4, <2>1
<1>10. nominated \in Slot \cup {None}
  BY DEF FlashInv, DeviceKeeps, TypeOK
<1>11. would_boot = SelectSlot(flash, nominated)
  BY WouldBoot
<1>12. CASE nominated # None
  <2>1. Valid(flash[nominated]) /\ would_boot = nominated
    BY <1>10, <1>11, <1>12, Selected DEF FlashInv, RecordedInv
  <2> QED
    BY <1>3, <1>6, <1>7, <1>8, <1>9, <1>10, <1>12, <2>1
<1>13. CASE nominated = None
  <2>1. would_boot # None
    BY <1>13 DEF FlashInv, UnrecordedInv
  <2>2. would_boot \in Slot /\ Valid(flash[would_boot])
    BY <1>10, <1>11, <2>1, Selected
  <2>3. CASE step = "erase"
    <3>1. would_boot = other(target)
      BY <1>13, <2>3 DEF FlashInv, UnrecordedInv
    <3> QED
      BY <1>1, <1>3, <1>6, <1>7, <1>8, <1>9, <2>2, <3>1, Neighbours
  <2>4. CASE step \in {"payload", "header"}
    <3>1. ~ Deciding /\ toDev[1].cmd = "WRITE" /\ Running /\ toDev[1] = request
      <4>1. ~ Deciding /\ Running /\ toDev[1] = request
        BY <1>9, <1>13, <2>4 DEF Deciding, Running
      <4> QED
        BY <1>1, <2>4, <4>1, RequestOfStep DEF Mutates
    <3>2. step = "header" => toDev[1].offset = 0
      BY <3>1 DEF request, Request
    <3>3. flash[target][0] = Blank
      BY <1>8, <1>13, <2>4, <3>1, <3>2 DEF FlashInv, UnrecordedInv
    <3>4. ~ Valid(flash[target])
      BY <3>3, CoveredNotBlank DEF Valid
    <3> QED
      BY <1>3, <1>6, <1>7, <1>8, <1>9, <2>2, <3>4
  <2> QED
    BY <1>9, <1>13, <2>3, <2>4
<1> QED
  BY <1>12, <1>13

\* Such a request keeps the invariant, and the slot that boots.
LEMMA MutationKeeps ==
    ASSUME FlashInv, toDev # <<>>, Mutates(toDev[1]),
           toDev[1].cmd = "WRITE" => write_check(toDev[1].offset, toDev[1].len) = BL_OK,
           LinkInv', AnswersInv', DeviceKeeps', nominated' = nominated, UNCHANGED hostVars,
           \A s \in Slot : s # target => flash'[s] = flash[s],
           Own',
           nominated = None /\ step = "erase" => ~ Valid(flash'[target]),
           nominated = None /\ step = "payload" => flash'[target][0] = Blank,
           nominated = None /\ step = "header" =>
               flash'[target][0] = Blank \/ (session'.erased => session'.header_written)
    PROVE  FlashInv' /\ flash'[would_boot] = flash[would_boot]
<1>1. /\ nominated # target /\ would_boot # target
      /\ would_boot \in Slot /\ Valid(flash[would_boot])
      /\ step \notin {"hello", "status_a", "status_b", "set_active", "reset", "done"}
  BY MutationSpares
<1>2. UNCHANGED <<step, setup, target, sent, statuses, attempt, waiting, commands>>
  BY DEF hostVars
<1>3. flash'[would_boot] = flash[would_boot]
  BY <1>1
<1>4. nominated \in Slot \cup {None} /\ target \in Slot
  BY FirstRequest DEF FlashInv, DeviceKeeps, TypeOK
<1>5. ModeInv'
  BY <1>2 DEF FlashInv, ModeInv, Deciding
<1>6. OwnInv' /\ InstalledInv'
  BY <1>1, <1>2 DEF OwnInv, InstalledInv
<1>7. RecordedInv'
  BY <1>1, <1>2, <1>4 DEF FlashInv, RecordedInv
<1>8. UnrecordedInv'
  <2> SUFFICES ASSUME nominated = None PROVE UnrecordedInv'
    BY DEF UnrecordedInv
  <2>1. would_boot' = SelectSlot(flash', nominated)
    BY WouldBoot
  <2>2. Valid(flash'[would_boot])
    BY <1>1, <1>3
  <2>3. would_boot' # None
    BY <1>1, <1>4, <2>1, <2>2, Selected
  <2>4. step = "erase" => would_boot' = other(target)
    <3>1. would_boot = other(target) /\ target = other(would_boot)
      BY <1>1, <1>4, Neighbours
    <3> QED
      BY <1>1, <1>4, <2>1, <2>2, <3>1, Selected
  <2> QED
    BY <1>1, <1>2, <2>3, <2>4 DEF UnrecordedInv
<1> QED
  BY <1>3, <1>5, <1>6, <1>7, <1>8 DEF FlashInv, LinkInv

\* What the device makes of a request is a step of BlSession, so what is
\* proved of its handlers holds here, and it is answered.
LEMMA DeviceAnswers ==
    ASSUME FlashInv, Device
    PROVE  /\ Handle(toDev[1]) /\ DeviceKeeps'
           /\ reply'.status \in Result
           /\ Answers(Response(toDev[1], reply'.status))
<1> DEFINE f == toDev[1]
<1>1. /\ toDev # <<>> /\ Handle(f) /\ toDev' = Tail(toDev)
      /\ toHost' = Append(toHost, Response(f, reply'.status))
      /\ UNCHANGED <<hostVars, restarts>>
      /\ f \in RequestFrame /\ target \in Slot
  BY FirstRequest DEF Device
<1>2. /\ f.cmd = "WRITE" => <<f.offset, f.len>> \in Writes
      /\ f.cmd \in {"ERASE_SLOT", "SET_ACTIVE", "VERIFY"} => f.slot \in Slot
  BY <1>1, FirstRequest
<1>3. f.cmd \in Cmd /\ f.offset \in Nat /\ f.len \in Nat
  BY <1>1 DEF RequestFrame
<1> HIDE DEF f
<1>4. \A s \in Slot : s \in 0 .. BL_SLOT_COUNT
  BY DEF Slot, BL_SLOT_COUNT
<1>5. BL_OK \in Result /\ CommitError \subseteq Result
      /\ {"BL_ERR_FLASH_ERASE", "BL_ERR_INVALID_ARGUMENT", "BL_ERR_FLASH_PROGRAM"} \subseteq Result
  BY DEF Result, BL_ERR, CommitError
<1>6. Next /\ reply'.status \in Result
  <2>1. CASE f.cmd = "HELLO"
    <3>1. handle_hello
      BY <1>1, <2>1 DEF Handle
    <3> QED
      BY <1>5, <3>1 DEF Next, bl_core_handle_frame, handle_hello, Respond
  <2>2. CASE f.cmd = "RESET"
    <3>1. handle_reset
      BY <1>1, <2>2 DEF Handle
    <3> QED
      BY <1>5, <3>1 DEF Next, bl_core_handle_frame, handle_reset, Respond
  <2>3. CASE f.cmd = "VERIFY"
    <3>1. handle_verify(f.slot) /\ f.slot \in 0 .. BL_SLOT_COUNT
      BY <1>1, <1>2, <1>4, <2>3 DEF Handle
    <3> QED
      BY <3>1, CheckSlotResult DEF Next, bl_core_handle_frame, handle_verify, Respond
  <2>4. CASE f.cmd = "SET_ACTIVE"
    <3>1. handle_set_active(f.slot) /\ f.slot \in 0 .. BL_SLOT_COUNT
      BY <1>1, <1>2, <1>4, <2>4 DEF Handle
    <3>2. reply'.status \in Result
      BY <1>5, <3>1, CheckSlotResult DEF handle_set_active, Respond
    <3> QED
      BY <3>1, <3>2 DEF Next, bl_core_handle_frame
  <2>5. CASE f.cmd = "ERASE_SLOT"
    <3>1. handle_erase_slot(f.slot) /\ f.slot \in 0 .. BL_SLOT_COUNT
      BY <1>1, <1>2, <1>4, <2>5 DEF Handle
    <3>2. reply'.status \in Result
      BY <1>5, <3>1 DEF handle_erase_slot, Respond
    <3> QED
      BY <3>1, <3>2 DEF Next, bl_core_handle_frame
  <2>6. CASE f.cmd = "WRITE"
    <3>1. handle_write(f.offset, f.len, New) /\ <<f.offset, f.len>> \in Writes /\ New \in Image
      BY <1>1, <1>2, <2>6, FlashAssumption DEF Handle
    <3>2. reply'.status \in Result
      BY <1>5, <3>1, WriteCheckResult DEF handle_write, Respond
    <3>3. <<f.offset, f.len>>[1] = f.offset /\ <<f.offset, f.len>>[2] = f.len
      OBVIOUS
    <3>4. \E w \in Writes, i \in Image : handle_write(w[1], w[2], i)
      BY <3>1, <3>3
    <3> QED
      BY <3>2, <3>4 DEF Next, bl_core_handle_frame
  <2> QED
    BY <1>3, <2>1, <2>2, <2>3, <2>4, <2>5, <2>6 DEF Cmd
<1>7. DeviceKeeps'
  BY <1>6, SessionStepKeeps DEF FlashInv
<1>8. f.cmd = "VERIFY" /\ reply'.status = BL_OK => Found(flash[f.slot]) \in Image
  <2> SUFFICES ASSUME f.cmd = "VERIFY", reply'.status = BL_OK
               PROVE  Found(flash[f.slot]) \in Image
    OBVIOUS
  <2>1. handle_verify(f.slot)
    BY <1>1 DEF Handle
  <2>2. validate_slot(flash[f.slot]) = BL_OK
    BY <1>2, <2>1 DEF handle_verify, Respond, check_slot
  <2> QED
    BY <2>2, ValidSlot
<1>9. nominated \in Slot \cup {None}
  BY DEF FlashInv, DeviceKeeps, TypeOK
<1>10. Response(f, reply'.status).data \in Slot \cup {None} \cup Nat \cup Image
  <2>1. CASE f.cmd = "HELLO"
    BY <1>9, <2>1 DEF Response
  <2>2. CASE f.cmd = "WRITE"
    BY <1>3, <2>2 DEF Response
  <2>3. CASE f.cmd = "VERIFY"
    BY <1>8, <2>3 DEF Response, Found
  <2>4. CASE f.cmd \notin {"HELLO", "WRITE", "VERIFY"}
    BY <2>4 DEF Response
  <2> QED
    BY <2>1, <2>2, <2>3, <2>4
<1>11. Response(f, reply'.status) \in ResponseFrame /\ Response(f, reply'.status).cmd = f.cmd
  BY <1>3, <1>6, <1>10 DEF Response, ResponseFrame
<1>12. Answers(Response(f, reply'.status))
  BY <1>1, <1>11 DEF Answers, f
<1> QED
  BY <1>1, <1>6, <1>7, <1>12 DEF f

\* HELLO, RESET and VERIFY change neither flash nor record, and their
\* answers say what is so.
LEMMA ReportKeeps ==
    ASSUME FlashInv, Device, toDev[1].cmd \in {"HELLO", "RESET", "VERIFY"}
    PROVE  FlashInv' /\ UNCHANGED flash
<1> DEFINE f == toDev[1]
           r == Response(f, reply'.status)
<1>1. Handle(f) /\ DeviceKeeps' /\ Answers(r) /\ toDev # <<>>
  BY DeviceAnswers DEF Device
<1>2. /\ r.cmd = f.cmd /\ r.status = reply'.status
      /\ f.cmd = "HELLO" => r.data = nominated
      /\ f.cmd = "VERIFY" /\ reply'.status = BL_OK => r.data = Found(flash[f.slot])
  BY DEF Response, Found
<1>3. /\ FlashTypeOK /\ (~ setup.late => Running /\ f = request)
      /\ f.cmd = "VERIFY" => f.slot \in Slot /\ (setup.late => f.slot = target)
  BY <1>1, FirstRequest
<1> HIDE DEF f, r
<1>4. nominated \in Slot \cup {None}
  BY DEF FlashInv, DeviceKeeps, TypeOK
<1>5. CASE f.cmd = "HELLO"
  <2>1. UNCHANGED <<flash, session, nominated>>
    BY <1>1, <1>5 DEF Handle, handle_hello
  <2>2. Truthful(r, step, Own, flash, nominated, target)
    BY <1>2, <1>4, <1>5 DEF Truthful
  <2> QED
    BY <1>1, <2>1, <2>2, QuietKeeps
<1>6. CASE f.cmd = "RESET"
  <2>1. UNCHANGED <<flash, nominated>> /\ session' = [session EXCEPT !.reset_requested = TRUE]
    BY <1>1, <1>6 DEF Handle, handle_reset
  <2>2. /\ session'.erased = session.erased /\ session'.target_slot = session.target_slot
        /\ session'.header_written = session.header_written
    BY <2>1 DEF FlashInv, DeviceKeeps, TypeOK
  <2>3. Truthful(r, step, Own, flash, nominated, target)
    BY <1>2, <1>6 DEF Truthful
  <2> QED
    BY <1>1, <2>1, <2>2, <2>3, QuietKeeps
<1>7. CASE f.cmd = "VERIFY"
  <2>1. UNCHANGED <<flash, session, nominated>> /\ reply'.status = check_slot(f.slot)
    BY <1>1, <1>7 DEF Handle, handle_verify, Respond
  <2>2. r.status = BL_OK <=> Valid(flash[f.slot])
    BY <1>2, <1>3, <1>7, <2>1, ValidSlot DEF check_slot
  <2>3. r.status = BL_OK => /\ r.data = Found(flash[f.slot]) /\ r.data \in Image
                            /\ holds(flash[f.slot], r.data)
    BY <1>2, <1>7, <2>2, ValidSlot
  <2>4. step \in {"status_a", "status_b"} => f.slot = IF step = "status_a" THEN 0 ELSE 1
    <3>1. step \in {"status_a", "status_b"} => ~ setup.late
      BY DEF FlashInv, ModeInv, Deciding
    <3> QED
      BY <1>3, <1>7, <3>1, RequestOfStep
  <2>5. step = "verify" => f.slot = target
    BY <1>3, <1>7, RequestOfStep
  <2>6. Truthful(r, step, Own, flash, nominated, target)
    BY <1>2, <1>7, <2>2, <2>3, <2>4, <2>5 DEF Truthful
  <2> QED
    BY <1>1, <2>1, <2>6, QuietKeeps
<1> QED
  BY <1>5, <1>6, <1>7 DEF f

\* SET_ACTIVE nominates the target, or changes nothing.
LEMMA SetActiveKeeps ==
    ASSUME FlashInv, Device, toDev[1].cmd = "SET_ACTIVE"
    PROVE  FlashInv' /\ UNCHANGED flash
<1> DEFINE r == Response(toDev[1], reply'.status)
<1>1. Handle(toDev[1]) /\ DeviceKeeps' /\ Answers(r) /\ toDev # <<>>
  BY DeviceAnswers DEF Device
<1>2. r.cmd = "SET_ACTIVE" /\ r.status = reply'.status
  BY DEF Response
<1>3. toDev[1].slot = target /\ target \in Slot
  BY <1>1, FirstRequest
<1> HIDE DEF r
<1>4. handle_set_active(target)
  BY <1>1, <1>3 DEF Handle
<1>5. UNCHANGED <<flash, session>>
  BY <1>4 DEF handle_set_active
<1>6. CASE check_slot(target) = BL_OK /\ nominated' = target
  <2>1. Valid(flash[target])
    BY <1>3, <1>6, ValidSlot DEF check_slot
  <2> QED
    BY <1>1, <1>5, <1>6, <2>1, NominationKeeps
<1>7. CASE UNCHANGED nominated /\ reply'.status # BL_OK
  <2>1. Truthful(r, step, Own, flash, nominated, target)
    BY <1>2, <1>7 DEF Truthful
  <2> QED
    BY <1>1, <1>5, <1>7, <2>1, QuietKeeps
<1>8. BL_OK \notin CommitError
  BY DEF BL_OK, CommitError
<1> QED
  BY <1>4, <1>6, <1>7, <1>8 DEF handle_set_active, Respond

\* What was answered before a request that changes flash is still so.
LEMMA OldAnswers ==
    ASSUME FlashInv, toDev # <<>>, Mutates(toDev[1]),
           toDev[1].cmd = "WRITE" => write_check(toDev[1].offset, toDev[1].len) = BL_OK,
           nominated' = nominated, UNCHANGED hostVars, Own'
    PROVE  \A i \in 1 .. Len(toHost) :
               Truthful(toHost[i], step', Own', flash', nominated', target')
<1>1. /\ step \notin {"hello", "status_a", "status_b", "set_active", "reset", "done"}
      /\ \A i \in 1 .. Len(toHost) : toHost[i].cmd \notin {"VERIFY", "SET_ACTIVE"}
      /\ nominated = None => Len(toHost) = 0
  BY MutationSpares
<1>2. UNCHANGED <<step, target>>
  BY DEF hostVars
<1> SUFFICES ASSUME NEW i \in 1 .. Len(toHost)
             PROVE  Truthful(toHost[i], step', Own', flash', nominated', target')
  OBVIOUS
<1>3. Truthful(toHost[i], step, Own, flash, nominated, target)
  BY DEF FlashInv, AnswersInv
<1>4. nominated # None
  BY <1>1
<1> QED
  BY <1>1, <1>2, <1>3, <1>4 DEF Truthful

\* ERASE_SLOT leaves the target blank and opens its session, or fails.
LEMMA EraseKeeps ==
    ASSUME FlashInv, Device, toDev[1].cmd = "ERASE_SLOT"
    PROVE  FlashInv' /\ (would_boot # None => flash'[would_boot] = flash[would_boot])
<1> DEFINE r == Response(toDev[1], reply'.status)
<1>1. Handle(toDev[1]) /\ DeviceKeeps' /\ Answers(r) /\ toDev # <<>>
  BY DeviceAnswers DEF Device
<1>2. r.cmd = "ERASE_SLOT" /\ r.status = reply'.status
  BY DEF Response
<1>3. toDev[1].slot = target /\ target \in Slot /\ Mutates(toDev[1])
  BY <1>1, FirstRequest DEF Mutates
<1> HIDE DEF r
<1>4. handle_erase_slot(target)
  BY <1>1, <1>3 DEF Handle
<1>5. CASE UNCHANGED <<flash, session, nominated>> /\ reply'.status # BL_OK
  <2>1. Truthful(r, step, Own, flash, nominated, target)
    BY <1>2, <1>5 DEF Truthful
  <2> QED
    BY <1>1, <1>5, <2>1, QuietKeeps
<1>6. CASE /\ flash' = [flash EXCEPT ![target] = ErasedContent]
           /\ session' = FreshSession(target) /\ UNCHANGED nominated
  <2>1. UNCHANGED hostVars /\ UNCHANGED <<step, target>>
    BY <1>1 DEF Answers, hostVars
  <2>2. flash'[target] = ErasedContent /\ \A s \in Slot : s # target => flash'[s] = flash[s]
    BY <1>3, <1>6 DEF FlashInv, DeviceKeeps, TypeOK
  <2>3. flash'[target][0] = Blank
    BY <2>2, Sizes DEF ErasedContent
  <2>4. ~ Valid(flash'[target])
    BY <2>3, CoveredNotBlank DEF Valid
  <2>5. Own'
    BY <1>6, <2>1 DEF FlashInv, DeviceKeeps, TypeOK, FreshSession, Own
  <2>6. Truthful(r, step', Own', flash', nominated', target')
    BY <1>2, <2>1, <2>3, <2>5 DEF Truthful
  <2>7. AnswersInv'
    BY <1>1, <1>3, <1>6, <2>1, <2>5, <2>6, OldAnswers, AnswersGrow
  <2>8. LinkInv'
    BY <1>1, LinkAnswers
  <2> QED
    BY <1>1, <1>3, <1>6, <2>1, <2>2, <2>3, <2>4, <2>5, <2>7, <2>8, MutationKeeps
<1> QED
  BY <1>4, <1>5, <1>6 DEF handle_erase_slot, Respond, BL_OK

\* A write of the target that passes the checks, whole or cut short, leaves
\* the other slot alone, and the first granule unless it is the header.
LEMMA WriteTouches ==
    ASSUME FlashInv, toDev # <<>>, toDev[1].cmd = "WRITE",
           write_check(toDev[1].offset, toDev[1].len) = BL_OK, NEW k,
           flash' = [flash EXCEPT ![session.target_slot] =
                        Program(flash[session.target_slot], toDev[1].offset, k, New)]
    PROVE  /\ Mutates(toDev[1]) /\ session.erased /\ session.target_slot = target
           /\ \A s \in Slot : s # target => flash'[s] = flash[s]
           /\ nominated = None => step \in {"payload", "header"}
           /\ nominated = None /\ step = "payload" => flash'[target][0] = Blank
           /\ nominated = None /\ step = "header" => toDev[1].offset = 0
<1> DEFINE f == toDev[1]
<1>1. Mutates(f)
  BY DEF Mutates
<1>2. /\ session.erased /\ session.target_slot = target
      /\ nominated = None => f = request /\ step \in {"erase", "payload", "header"}
  BY <1>1, MutationSpares
<1>3. target \in Slot /\ FlashTypeOK /\ f.offset \in Nat
  BY FirstRequest DEF RequestFrame
<1>4. \A s \in Slot : s # target => flash'[s] = flash[s]
  BY <1>2, <1>3 DEF FlashInv, DeviceKeeps, TypeOK
<1>5. nominated = None => step \in {"payload", "header"} /\ (step = "payload" => f.offset # 0)
  <2>1. nominated = None => Running
    BY <1>2 DEF Running
  <2> QED
    BY <1>2, <1>3, <2>1, RequestOfStep
<1>6. nominated = None /\ step = "header" => f.offset = 0
  BY <1>2 DEF request, Request
<1>7. ASSUME nominated = None, step = "payload"
      PROVE  flash'[target][0] = Blank
  <2>1. flash[target][0] = Blank
    BY <1>7 DEF FlashInv, UnrecordedInv
  <2>2. f.offset # 0 /\ at(0) = 0
    BY <1>5, <1>7, Granules
  <2>3. 0 \notin Touched(f.offset, k)
    BY <1>3, <2>2 DEF Touched
  <2>4. flash'[target] = Program(flash[target], f.offset, k, New)
    BY <1>2, <1>3 DEF FlashInv, DeviceKeeps, TypeOK
  <2> QED
    BY <2>1, <2>3, <2>4, Sizes DEF Program
<1> QED
  BY <1>1, <1>2, <1>4, <1>5, <1>6, <1>7

\* WRITE programs the target, or fails.
LEMMA WriteKeeps ==
    ASSUME FlashInv, Device, toDev[1].cmd = "WRITE"
    PROVE  FlashInv' /\ (would_boot # None => flash'[would_boot] = flash[would_boot])
<1> DEFINE f == toDev[1]
           r == Response(f, reply'.status)
<1>1. Handle(f) /\ DeviceKeeps' /\ Answers(r) /\ toDev # <<>>
  BY DeviceAnswers DEF Device
<1>2. r.cmd = "WRITE"
  BY DEF Response
<1>3. \A fl, active, own : Truthful(r, step, own, fl, active, target)
  BY <1>2 DEF Truthful
<1> HIDE DEF r
<1>4. handle_write(f.offset, f.len, New)
  BY <1>1 DEF Handle
<1>5. UNCHANGED nominated
  BY <1>4 DEF handle_write
<1>6. CASE UNCHANGED <<flash, session>>
  BY <1>1, <1>3, <1>5, <1>6, QuietKeeps
<1>7. CASE /\ write_check(f.offset, f.len) = BL_OK
           /\ flash' = [flash EXCEPT ![session.target_slot] =
                           Program(flash[session.target_slot], f.offset, f.len, New)]
           /\ session' = AfterWrite(f.offset, f.len)
  <2>1. UNCHANGED hostVars /\ UNCHANGED <<step, target>>
    BY <1>1 DEF Answers, hostVars
  <2>2. /\ Mutates(f) /\ session.erased /\ session.target_slot = target
        /\ \A s \in Slot : s # target => flash'[s] = flash[s]
        /\ nominated = None => step \in {"payload", "header"}
        /\ nominated = None /\ step = "payload" => flash'[target][0] = Blank
        /\ nominated = None /\ step = "header" => f.offset = 0
    BY <1>1, <1>7, WriteTouches
  <2>3. session'.target_slot = target /\ (f.offset = 0 => session'.header_written)
    BY <1>7, <2>2 DEF FlashInv, DeviceKeeps, TypeOK, AfterWrite
  <2>4. Own'
    BY <2>1, <2>3 DEF Own
  <2>5. Truthful(r, step', Own', flash', nominated', target')
    BY <1>3, <2>1
  <2>6. AnswersInv'
    BY <1>1, <1>5, <1>7, <2>1, <2>2, <2>4, <2>5, OldAnswers, AnswersGrow
  <2>7. LinkInv'
    BY <1>1, LinkAnswers
  <2> QED
    BY <1>1, <1>5, <1>7, <2>1, <2>2, <2>3, <2>4, <2>6, <2>7, MutationKeeps
<1> QED
  BY <1>4, <1>6, <1>7 DEF handle_write

\* The frames behind the one that was being handled.
LEMMA RestOfQueue ==
    ASSUME NEW S, NEW p \in Seq(S), p # <<>>, NEW q \in Suffixes(Tail(p))
    PROVE  q \in Seq(S) /\ \E d : Drops(q, p, d)
<1>1. /\ Tail(p) \in Seq(S) /\ Len(p) \in Nat /\ Len(p) > 0
      /\ Len(Tail(p)) = Len(p) - 1
      /\ \A i \in 1 .. Len(Tail(p)) : Tail(p)[i] = p[i + 1]
  BY TailDrops DEF Drops
<1>2. PICK d \in 0 .. Len(Tail(p)) : q \in Seq(S) /\ Drops(q, Tail(p), d)
  BY <1>1, SuffixDrops
<1>3. /\ Len(q) \in Nat /\ d \in Nat /\ Len(q) = Len(p) - (d + 1)
      /\ \A i \in 1 .. Len(q) : i + d \in 1 .. Len(Tail(p)) /\ q[i] = Tail(p)[i + d]
  BY <1>1, <1>2, Left DEF Drops
<1>4. \A i \in 1 .. Len(q) : q[i] = p[i + (d + 1)]
  <2> SUFFICES ASSUME NEW i \in 1 .. Len(q) PROVE q[i] = p[i + (d + 1)]
    OBVIOUS
  <2>1. (i + d) + 1 = i + (d + 1)
    BY <1>3
  <2> QED
    BY <1>1, <1>3, <2>1
<1>5. d + 1 \in 0 .. Len(p)
  BY <1>1, <1>3
<1> QED
  BY <1>2, <1>3, <1>4, <1>5 DEF Drops

\* A restart takes the session and some of the frames under way; inside an
\* erase or a write it also leaves the target undefined or half written.
LEMMA RestartKeeps ==
    ASSUME FlashInv, DeviceRestart
    PROVE  FlashInv' /\ (would_boot # None => flash'[would_boot] = flash[would_boot])
<1> DEFINE f == toDev[1]
<1>1. /\ LinkInv /\ FlashTypeOK /\ (waiting => Running)
      /\ attempt \in 0 .. Retries /\ waiting \in BOOLEAN /\ restarts \in Nat
      /\ toDev \in Seq(RequestFrame) /\ toHost \in Seq(ResponseFrame)
      /\ Drops(toHost, toHost, 0)
  BY HostTypes
<1>2. /\ UNCHANGED <<hostVars, toHost>> /\ restarts' = restarts + 1
      /\ UNCHANGED <<step, setup, target, sent, statuses, attempt, waiting, commands>>
      /\ toDev' \in IF setup.late /\ toDev # <<>> THEN Suffixes(Tail(toDev)) ELSE {<<>>}
  BY DEF DeviceRestart, hostVars
<1>3. toDev' \in Seq(RequestFrame) /\ \E d : Drops(toDev', toDev, d)
  BY <1>1, <1>2, RestOfQueue, SuffixDrops
<1>4. PICK d : Drops(toDev', toDev, d)
  BY <1>3
<1>5. ~ setup.late /\ ~ waiting' => toDev' = <<>> /\ toHost' = <<>>
  BY <1>1, <1>2 DEF LinkInv, PromptInv
<1>6. restarts' \in Nat /\ (~ Running' => ~ waiting')
  BY <1>1, <1>2 DEF Running
<1>7. LinkInv'
  BY <1>1, <1>2, <1>3, <1>4, <1>5, <1>6, LinkShrinks
<1>8. /\ session' = NoSession /\ nominated' = nominated
      /\ \/ UNCHANGED flash /\ Restart
         \/ toDev # <<>> /\ f.cmd = "ERASE_SLOT" /\ PowerLossInErase(f.slot)
         \/ toDev # <<>> /\ f.cmd = "WRITE" /\ PowerLossInWrite(f.offset, f.len, New)
  <2>1. toDev # <<>> => Head(toDev) = f
    BY FirstRequest
  <2> QED
    BY <2>1 DEF DeviceRestart, Restart, PowerLossInErase, PowerLossInWrite, LoseSession
<1>9. Own' /\ ~ session'.erased
  BY <1>8 DEF Own, NoSession
<1>10. CASE UNCHANGED flash /\ Restart
  <2>1. DeviceKeeps'
    BY <1>10, SessionStepKeeps DEF Next, FlashInv
  <2> QED
    BY <1>1, <1>2, <1>3, <1>4, <1>5, <1>6, <1>8, <1>10, <2>1, ShrinkKeeps
<1>11. CASE toDev # <<>> /\ f.cmd = "ERASE_SLOT" /\ PowerLossInErase(f.slot)
  <2>1. f.slot = target /\ target \in Slot /\ Mutates(f) /\ f.cmd # "WRITE"
    BY <1>11, FirstRequest DEF Mutates
  <2>2. DeviceKeeps'
    BY <1>11, <2>1, SessionStepKeeps DEF Next, FlashInv
  <2>3. /\ flash'[target] = UndefinedContent
        /\ \A s \in Slot : s # target => flash'[s] = flash[s]
    BY <1>11, <2>1 DEF PowerLossInErase, FlashInv, DeviceKeeps, TypeOK
  <2>4. ~ Valid(flash'[target])
    <3>1. flash'[target][0] = Junk /\ Junk \notin Image
      BY <2>3, Sizes, SessionAssumption DEF UndefinedContent
    <3>2. \A i \in Image : 0 \in Covered(i)
      BY Sizes DEF Covered, Header
    <3> QED
      BY <3>1, <3>2 DEF Valid, holds
  <2>5. nominated = None => step = "erase"
    <3>1. nominated = None => f = request /\ step \in {"erase", "payload", "header"}
      BY <1>11, <2>1, MutationSpares
    <3>2. nominated = None => Running
      BY <3>1 DEF Running
    <3> QED
      BY <1>1, <1>11, <3>1, <3>2, RequestOfStep
  <2>6. AnswersInv'
    BY <1>2, <1>8, <1>9, <1>11, <2>1, OldAnswers DEF AnswersInv
  <2> QED
    BY <1>2, <1>7, <1>8, <1>9, <1>11, <2>1, <2>2, <2>3, <2>4, <2>5, <2>6, MutationKeeps
<1>12. CASE toDev # <<>> /\ f.cmd = "WRITE" /\ PowerLossInWrite(f.offset, f.len, New)
  <2>1. PICK k \in Prefix(f.len) :
           flash' = [flash EXCEPT ![session.target_slot] =
                        Program(flash[session.target_slot], f.offset, k, New)]
    BY <1>12 DEF PowerLossInWrite
  <2>2. write_check(f.offset, f.len) = BL_OK
    BY <1>12 DEF PowerLossInWrite
  <2>3. /\ Mutates(f)
        /\ \A s \in Slot : s # target => flash'[s] = flash[s]
        /\ nominated = None => step \in {"payload", "header"}
        /\ nominated = None /\ step = "payload" => flash'[target][0] = Blank
    BY <1>12, <2>1, <2>2, WriteTouches
  <2>4. DeviceKeeps'
    <3>1. <<f.offset, f.len>> \in Writes /\ New \in Image
      BY <1>12, FirstRequest, FlashAssumption
    <3>2. <<f.offset, f.len>>[1] = f.offset /\ <<f.offset, f.len>>[2] = f.len
      OBVIOUS
    <3>3. \E w \in Writes, i \in Image : PowerLossInWrite(w[1], w[2], i)
      BY <1>12, <3>1, <3>2
    <3> QED
      BY <3>3, SessionStepKeeps DEF Next, FlashInv
  <2>5. AnswersInv'
    BY <1>2, <1>8, <1>9, <1>12, <2>2, <2>3, OldAnswers DEF AnswersInv
  <2> QED
    BY <1>2, <1>7, <1>8, <1>9, <1>12, <2>2, <2>3, <2>4, <2>5, MutationKeeps
<1> QED
  BY <1>8, <1>10, <1>11, <1>12

-----------------------------------------------------------------------------
(* The theorems *)

\* The invariant holds when a command begins in a safe state.
LEMMA InitKeeps ==
    ASSUME SafeStarts, FlashInit
    PROVE  FlashInv
<1>1. PICK sc \in Scenarios :
         /\ flash = sc.content /\ nominated = sc.active
         /\ setup = [arg |-> sc.arg, late |-> sc.late] /\ commands = sc.commands
  BY DEF FlashInit
<1>2. /\ sc.content \in [Slot -> Content] /\ sc.active \in Slot \cup {None}
      /\ sc.arg \in Slot \cup {None} /\ sc.late \in BOOLEAN /\ sc.commands \in Nat \ {0}
      /\ \E s \in Slot, i \in Image : holds(sc.content[s], i)
  BY FlashAssumption
<1>3. SafeStart(sc)
  BY DEF SafeStarts
<1>4. /\ session = NoSession /\ reply = None /\ step = "hello" /\ target = 0 /\ sent = 0
      /\ statuses = [s \in Slot |-> None] /\ attempt = 0 /\ waiting = FALSE
      /\ toDev = <<>> /\ toHost = <<>> /\ restarts = 0
  BY DEF FlashInit
<1>5. ~ session.erased
  BY <1>4 DEF NoSession
<1>6. DeviceKeeps
  <2>1. TypeOK
    BY <1>1, <1>2, <1>4, NoSessionType DEF TypeOK
  <2>2. NoDoubleProgram
    BY <1>1, <1>3 DEF NoDoubleProgram, SafeStart
  <2> QED
    BY <1>5, <2>1, <2>2 DEF DeviceKeeps, SessionInv, HeaderRegionBlank
<1>7. Len(toDev) = 0 /\ Len(toHost) = 0
  BY <1>4
<1>8. LinkTypes
  <2>1. setup \in [arg : Slot \cup {None}, late : BOOLEAN]
    BY <1>1, <1>2
  <2>2. statuses \in [Slot -> Image \cup {None}]
    BY <1>4
  <2>3. target \in Slot /\ sent \in 0 .. PayloadCells /\ attempt \in 0 .. Retries
    BY <1>4, Neighbours, Sizes, FlashAssumption
  <2>4. toDev \in Seq(RequestFrame) /\ toHost \in Seq(ResponseFrame)
    BY <1>4
  <2> QED
    BY <1>1, <1>2, <1>4, <2>1, <2>2, <2>3, <2>4 DEF LinkTypes, FlashTypeOK, Step, Running
<1>9. RequestsInv /\ LateInv /\ PromptInv /\ AnswersInv /\ NoMutation
  <2>1. Len(toDev) + Len(toHost) <= 1
    BY <1>7
  <2> QED
    BY <1>4, <1>7, <2>1 DEF RequestsInv, LateInv, PromptInv, AnswersInv, NoMutation
<1>10. ModeInv
  BY <1>1, <1>2, <1>3, <1>4 DEF ModeInv, SafeStart, Deciding
<1>11. OwnInv
  BY <1>5 DEF OwnInv, Own
<1>12. RecordedInv
  BY <1>1, <1>3, <1>4, <1>9 DEF RecordedInv, SafeStart, Valid
<1>13. UnrecordedInv
  <2> SUFFICES ASSUME nominated = None PROVE UnrecordedInv
    BY DEF UnrecordedInv
  <2>1. \E s \in Slot : Valid(flash[s])
    BY <1>1, <1>2 DEF Valid
  <2>2. would_boot # None
    BY <2>1, Selected, WouldBoot
  <2>3. Untied(flash)
    BY <1>1, <1>3 DEF Untied, SafeStart
  <2> QED
    BY <1>4, <2>2, <2>3 DEF UnrecordedInv
<1>14. InstalledInv
  BY <1>4 DEF InstalledInv
<1> QED
  BY <1>6, <1>8, <1>9, <1>10, <1>11, <1>12, <1>13, <1>14 DEF FlashInv

\* Every step keeps it, and spares the slot that would boot.
LEMMA FlashStep ==
    ASSUME FlashInv, [FlashNext]_allVars
    PROVE  FlashInv' /\ (would_boot # None => flash'[would_boot] = flash[would_boot])
<1>1. CASE Host
  <2>1. UNCHANGED flash
    BY <1>1 DEF Host, Transmit, Timeout, Garbled, Discard, Take, AttemptFails, vars
  <2> QED
    BY <1>1, <2>1, TransmitKeeps, AttemptKeeps, TakeKeeps DEF Host
<1>2. CASE Again
  <2>1. UNCHANGED flash
    BY <1>2 DEF Again, vars
  <2> QED
    BY <1>2, <2>1, AgainKeeps
<1>3. CASE Lose
  <2>1. UNCHANGED flash
    BY <1>3 DEF Lose, vars
  <2> QED
    BY <1>3, <2>1, LoseKeeps
<1>4. CASE Device
  <2>1. toDev[1].cmd \in Cmd
    BY <1>4, FirstRequest DEF Device, RequestFrame
  <2> QED
    BY <1>4, <2>1, ReportKeeps, SetActiveKeeps, EraseKeeps, WriteKeeps DEF Cmd
<1>5. CASE DeviceRestart
  BY <1>5, RestartKeeps
<1>6. CASE UNCHANGED allVars
  <2>1. /\ UNCHANGED <<setup, target, sent, statuses, commands, flash, nominated, session>>
        /\ UNCHANGED <<step, waiting, attempt, restarts, toDev, toHost>> /\ UNCHANGED vars
    BY <1>6 DEF allVars, hostVars, vars
  <2>2. /\ LinkInv /\ (waiting => Running)
        /\ attempt \in 0 .. Retries /\ waiting \in BOOLEAN /\ restarts \in Nat
        /\ toDev \in Seq(RequestFrame) /\ toHost \in Seq(ResponseFrame)
        /\ Drops(toDev, toDev, 0) /\ Drops(toHost, toHost, 0) /\ DeviceKeeps'
    BY <2>1, HostTypes
  <2>3. ~ Running' => ~ waiting'
    BY <2>1, <2>2 DEF Running
  <2>4. ~ setup.late /\ ~ waiting => toDev = <<>> /\ toHost = <<>>
    BY <2>2 DEF LinkInv, PromptInv
  <2> QED
    BY <2>1, <2>2, <2>3, <2>4, ShrinkKeeps
<1> QED
  BY <1>1, <1>2, <1>3, <1>4, <1>5, <1>6 DEF FlashNext

\* The inductive invariant holds throughout every sequence of commands that
\* begins in a safe state.
THEOREM FlashInvariant ==
    ASSUME SafeStarts
    PROVE  FlashSpec => []FlashInv
<1>1. FlashInit => FlashInv
  BY InitKeeps
<1>2. FlashInv /\ [FlashNext]_allVars => FlashInv'
  BY FlashStep
<1> QED
  BY <1>1, <1>2, PTL DEF FlashSpec

\* The variables of the tool keep their types: in particular `sent' never
\* passes the end of the payload and no request is sent more often than
\* Retries times (blflash.py:150-188, 373-379).
THEOREM FlashTypeCorrect ==
    ASSUME SafeStarts
    PROVE  FlashSpec => []FlashTypeOK
<1>1. FlashInv => FlashTypeOK
  BY DEF FlashInv, LinkTypes
<1> QED
  BY <1>1, FlashInvariant, PTL

\* Whatever is lost, late, repeated or interrupted, and however often the
\* device restarts, some image boots (blflash.py:308-311).
THEOREM NeverUnbootable ==
    ASSUME SafeStarts
    PROVE  FlashSpec => []StaysBootable
<1>1. FlashInv => StaysBootable
  <2> SUFFICES ASSUME FlashInv PROVE would_boot # None
    BY DEF StaysBootable
  <2>1. nominated \in Slot \cup {None}
    BY DEF FlashInv, DeviceKeeps, TypeOK
  <2>2. CASE nominated = None
    BY <2>2 DEF FlashInv, UnrecordedInv
  <2>3. CASE nominated # None
    <3>1. Valid(flash[nominated])
      BY <2>3 DEF FlashInv, RecordedInv
    <3> QED
      BY <2>1, <2>3, <3>1, Selected, WouldBoot
  <2> QED
    BY <2>2, <2>3
<1> QED
  BY <1>1, FlashInvariant, PTL

\* No step of the tool, the link or the device changes the slot that would
\* boot at that moment (blflash.py:308).
THEOREM BootSlotIsKept ==
    ASSUME SafeStarts
    PROVE  FlashSpec => BootSlotKept
<1>1. FlashInv /\ [FlashNext]_allVars =>
          [would_boot # None => flash'[would_boot] = flash[would_boot]]_allVars
  BY FlashStep
<1> QED
  BY <1>1, FlashInvariant, PTL DEF FlashSpec, BootSlotKept

\* A command that reports success has installed its image and armed it
\* (blflash.py:391-402).
THEOREM SuccessIsReal ==
    ASSUME SafeStarts
    PROVE  FlashSpec => []SuccessMeansInstalled
<1>1. FlashInv => SuccessMeansInstalled
  BY DEF FlashInv, InstalledInv, SuccessMeansInstalled
<1> QED
  BY <1>1, FlashInvariant, PTL

\* No granule is programmed twice between erases, and what the session knows
\* of the slot is true, in every update with every fault of the link: the
\* device meets the assumptions of its flash (bl_core.c:566-570).
THEOREM UpdateProgramsOnce ==
    ASSUME SafeStarts
    PROVE  FlashSpec => [](NoDoubleProgram /\ SessionInv)
<1>1. FlashInv => NoDoubleProgram /\ SessionInv
  BY DEF FlashInv, DeviceKeeps
<1> QED
  BY <1>1, FlashInvariant, PTL
=============================================================================
