------------------------------- MODULE BlFlash -------------------------------
(***************************************************************************)
(* tools/blflash.py against the device: `flash' commands of the host tool, *)
(* the serial link and the command handlers of BlSession.                  *)
(*                                                                         *)
(* The link keeps order and loses or garbles frames.  A request is         *)
(* repeated after a timeout; on a late link, what was sent earlier may     *)
(* still be on its way at that time.  The device may restart at any moment *)
(* and comes up in its update loop again.                                  *)
(***************************************************************************)
EXTENDS BlSession, Sequences

CONSTANTS
    New,           \* the image to install, accepted by blimage.validate
    Version,       \* fw_version of an image
    ChunkCells,    \* granules in a WRITE, min(max_write, MAX_WRITE_DATA)
    Retries,       \* attempts per request
    MaxRestarts,   \* bound: restarts of the device
    Scenarios      \* how commands begin: what the device holds and nominates,
                   \* the value of --slot, whether the link is late, and how
                   \* often the command is given

VARIABLES
    step,      \* the command that update() is at
    setup,     \* [arg |-> the value of --slot, None when it is not given,
               \*  late |-> frames may arrive after the deadline of their
               \*  attempt]: fixed for the command
    target,    \* local `slot' of update()
    sent,      \* local `sent' of update(), in granules
    statuses,  \* local `statuses' of choose_target_slot
    attempt,   \* local `attempt' of _transact, 0 before the first
    waiting,   \* a request is sent and its deadline has not passed
    toDev,     \* frames on their way to the device
    toHost,    \* frames on their way to the host or in its input buffer
    restarts,  \* restarts so far
    commands   \* bound: how often the command is given from now on

hostVars == <<step, setup, target, sent, statuses, attempt, waiting, commands>>
allVars == <<vars, hostVars, toDev, toHost, restarts>>

Step == {"hello", "status_a", "status_b", "erase", "payload", "header",
         "verify", "set_active", "reset", "done", "failed"}
Running == step \notin {"done", "failed"}

\* The granules of the payload, and what the WRITE requests of update()
\* carry: chunks of it behind the header region, then the header at zero.
PayloadCells == ImgCells[New] - RegionCells
UpdateWrites ==
    {<<at(RegionCells + n), at(m)>> : n \in 0 .. PayloadCells, m \in 0 .. ChunkCells}
        \cup {<<0, at(HdrCells)>>}

ASSUME FlashAssumption ==
    /\ New \in Image
    /\ Version \in [Image -> Nat]
    /\ ChunkCells \in Nat \ {0}
    /\ Writes = UpdateWrites
    /\ None \notin Image
    /\ Retries \in Nat \ {0}
    /\ MaxRestarts \in Nat
    /\ \A sc \in Scenarios : /\ sc.content \in [Slot -> Content]
                             /\ sc.active \in Slot \cup {None}
                             /\ sc.arg \in Slot \cup {None}
                             /\ sc.late \in BOOLEAN
                             /\ sc.commands \in Nat \ {0}
                             /\ \E s \in Slot, i \in Image : holds(sc.content[s], i)

-----------------------------------------------------------------------------
(* Requests *)

Request(cmd, s, offset, len) ==
    [cmd |-> cmd, slot |-> s, offset |-> offset, len |-> len]

\* The granules of the chunk that comes next.
chunk_whole == IF sent < PayloadCells THEN ChunkCells ELSE 0   \* fault: no short last chunk
Chunk == IF PayloadCells - sent < ChunkCells THEN PayloadCells - sent ELSE ChunkCells

request ==
    CASE step = "hello"      -> Request("HELLO", None, 0, 0)
      [] step = "status_a"   -> Request("VERIFY", 0, 0, 0)
      [] step = "status_b"   -> Request("VERIFY", 1, 0, 0)
      [] step = "erase"      -> Request("ERASE_SLOT", target, 0, 0)
      [] step = "payload"    -> Request("WRITE", None, at(RegionCells + sent), at(Chunk))
      [] step = "header"     -> Request("WRITE", None, 0, at(HdrCells))
      [] step = "verify"     -> Request("VERIFY", target, 0, 0)
      [] step = "set_active" -> Request("SET_ACTIVE", target, 0, 0)
      [] step = "reset"      -> Request("RESET", None, 0, 0)

-----------------------------------------------------------------------------
(* _transact *)

\* What is left of a queue when some of its oldest frames are gone.
Suffixes(q) == {SubSeq(q, k + 1, Len(q)) : k \in 0 .. Len(q)}

\* reset_input_buffer discards what has arrived, then the request is written.
Transmit ==
    /\ Running /\ ~ waiting
    /\ attempt < Retries
    /\ toHost' \in IF setup.late THEN Suffixes(toHost) ELSE {<<>>}
    /\ toDev' = Append(toDev, request)
    /\ attempt' = attempt + 1
    /\ waiting' = TRUE
    /\ UNCHANGED <<vars, step, setup, target, sent, statuses, commands, restarts>>

\* An attempt ends without a usable response; after the last one the
\* command fails.
attempt_uncounted ==         \* fault: the limit is never reached
    /\ waiting' = FALSE
    /\ attempt' = 0
    /\ UNCHANGED <<vars, step, setup, target, sent, statuses, commands, toDev, restarts>>
AttemptFails ==
    /\ waiting' = FALSE
    /\ step' = IF attempt = Retries THEN "failed" ELSE step
    /\ UNCHANGED <<vars, setup, target, sent, statuses, attempt, commands, toDev, restarts>>

Timeout ==
    /\ waiting
    /\ setup.late \/ (toDev = <<>> /\ toHost = <<>>)
    /\ AttemptFails
    /\ UNCHANGED toHost

\* A frame that does not decode ends the attempt at once.
Garbled ==
    /\ waiting
    /\ toHost # <<>>
    /\ toHost' = Tail(toHost)
    /\ AttemptFails

\* A frame for another command is stale or noise.
Discard ==
    /\ waiting
    /\ toHost # <<>>
    /\ Head(toHost).cmd # request.cmd
    /\ toHost' = Tail(toHost)
    /\ UNCHANGED <<vars, hostVars, toDev, restarts>>

-----------------------------------------------------------------------------
(* update and choose_target_slot: what follows the response r.  Each is    *)
(* the next step of the command; "failed" when an exception is raised.     *)

choose_occupied(st) ==       \* fault: the only valid slot is overwritten
    LET valid == {s \in Slot : st[s] # None} IN
    IF valid = {} THEN 0 ELSE CHOOSE s \in valid : TRUE
choose_newer(st) ==          \* fault: the higher version is overwritten
    LET valid == {s \in Slot : st[s] # None} IN
    IF valid = {} THEN 0
    ELSE IF valid # Slot THEN other(CHOOSE s \in valid : TRUE)
    ELSE IF Version[st[1]] > Version[st[0]] THEN 1 ELSE 0
\* Neither, one or both slots validate; min() keeps the first of a tie.
ChooseTarget(st) ==
    LET valid == {s \in Slot : st[s] # None} IN
    IF valid = {} THEN 0
    ELSE IF valid # Slot THEN other(CHOOSE s \in valid : TRUE)
    ELSE IF Version[st[1]] < Version[st[0]] THEN 1 ELSE 0

\* update() refuses to erase the slot that HELLO named as active.
refuses(s, active) == s = active

GotHello(r) ==
    /\ step = "hello"
    /\ \/ /\ setup.arg = None /\ r.data = None
          /\ step' = "status_a"
          /\ UNCHANGED target
       \/ /\ setup.arg # None \/ r.data # None
          /\ target' = IF setup.arg # None THEN setup.arg ELSE other(r.data)
          /\ step' = IF refuses(target', r.data) THEN "failed" ELSE "erase"
    /\ UNCHANGED <<sent, statuses>>

GotStatus(r) ==
    /\ step \in {"status_a", "status_b"}
    /\ statuses' = [statuses EXCEPT ![request.slot] =
                       IF r.status = BL_OK THEN r.data ELSE None]
    /\ \/ /\ step = "status_a"
          /\ step' = "status_b"
          /\ UNCHANGED target
       \/ /\ step = "status_b"
          /\ step' = "erase"
          /\ target' = ChooseTarget(statuses')
    /\ UNCHANGED sent

\* _expect_ok, then the next step.
ExpectOk(r, next) == step' = IF r.status = BL_OK THEN next ELSE "failed"

GotErase(r) ==
    /\ step = "erase"
    /\ ExpectOk(r, "payload")
    /\ UNCHANGED <<target, sent, statuses>>

\* A retried write that is refused is taken for one that has landed.
AlreadyWritten(r) == r.status = "BL_ERR_NOT_ERASED" /\ attempt > 1
write_accepts(r) ==
    \/ r.status = BL_OK /\ r.data = request.offset
    \/ AlreadyWritten(r)

GotWrite(r) ==
    /\ step \in {"payload", "header"}
    /\ \/ /\ write_accepts(r)
          /\ step = "payload"
          /\ sent' = sent + Chunk
          /\ step' = IF sent' < PayloadCells THEN "payload" ELSE "header"
       \/ /\ write_accepts(r)
          /\ step = "header"
          /\ step' = "verify"
          /\ UNCHANGED sent
       \/ /\ ~ write_accepts(r)
          /\ step' = "failed"
          /\ UNCHANGED sent
    /\ UNCHANGED <<target, statuses>>

\* The stored payload checksum is compared with the one of the image.
GotVerify(r) ==
    /\ step = "verify"
    /\ step' = IF r.status = BL_OK /\ r.data = New THEN "set_active" ELSE "failed"
    /\ UNCHANGED <<target, sent, statuses>>

set_active_unchecked(r) ==   \* fault: _transact in place of _expect_ok
    /\ step = "set_active"
    /\ step' = IF r.cmd = "SET_ACTIVE" THEN "reset" ELSE "failed"
    /\ UNCHANGED <<target, sent, statuses>>
\* RESET follows unless --no-reset is given.
GotSetActive(r) ==
    /\ step = "set_active"
    /\ \E next \in {"reset", "done"} : ExpectOk(r, next)
    /\ UNCHANGED <<target, sent, statuses>>

GotReset(r) ==
    /\ step = "reset"
    /\ ExpectOk(r, "done")
    /\ UNCHANGED <<target, sent, statuses>>

Take ==
    /\ waiting
    /\ toHost # <<>>
    /\ LET r == Head(toHost) IN
       /\ r.cmd = request.cmd
       /\ \/ GotHello(r) \/ GotStatus(r) \/ GotErase(r) \/ GotWrite(r)
          \/ GotVerify(r) \/ GotSetActive(r) \/ GotReset(r)
    /\ toHost' = Tail(toHost)
    /\ attempt' = 0
    /\ waiting' = FALSE
    /\ UNCHANGED <<vars, setup, commands, toDev, restarts>>

\* The command has ended, well or not, and is given again.
Again ==
    /\ ~ Running
    /\ commands > 1
    /\ commands' = commands - 1
    /\ step' = "hello"
    /\ target' = 0
    /\ sent' = 0
    /\ statuses' = [s \in Slot |-> None]
    /\ attempt' = 0
    /\ UNCHANGED <<vars, setup, waiting, toDev, toHost, restarts>>

Host == Transmit \/ Timeout \/ Garbled \/ Discard \/ Take

-----------------------------------------------------------------------------
(* The device and the link *)

\* The handler of BlSession for a request that arrived whole.
Handle(r) ==
    CASE r.cmd = "HELLO"      -> handle_hello
      [] r.cmd = "ERASE_SLOT" -> handle_erase_slot(r.slot)
      [] r.cmd = "WRITE"      -> handle_write(r.offset, r.len, New)
      [] r.cmd = "VERIFY"     -> handle_verify(r.slot)
      [] r.cmd = "SET_ACTIVE" -> handle_set_active(r.slot)
      [] r.cmd = "RESET"      -> handle_reset

\* HELLO reports the active slot, WRITE its offset, VERIFY the image.
Response(r, status) ==
    [cmd |-> r.cmd, status |-> status,
     data |-> CASE r.cmd = "HELLO" -> nominated
                [] r.cmd = "WRITE" /\ status = BL_OK -> r.offset
                [] r.cmd = "VERIFY" /\ status = BL_OK ->
                      CHOOSE i \in Image : holds(flash[r.slot], i)
                [] OTHER -> None]

Device ==
    /\ toDev # <<>>
    /\ Handle(Head(toDev))
    /\ toDev' = Tail(toDev)
    /\ toHost' = Append(toHost, Response(Head(toDev), reply'.status))
    /\ UNCHANGED <<hostVars, restarts>>

\* A frame is lost, or fails its checksum at the device and gets no answer.
Lose ==
    /\ \/ toDev # <<>> /\ toDev' = Tail(toDev) /\ UNCHANGED toHost
       \/ toHost # <<>> /\ toHost' = Tail(toHost) /\ UNCHANGED toDev
    /\ UNCHANGED <<vars, hostVars, restarts>>

\* The device restarts, between two requests or while it handles one.
DeviceRestart ==
    /\ restarts < MaxRestarts
    /\ restarts' = restarts + 1
    /\ \/ Restart
       \/ /\ toDev # <<>>
          /\ LET r == Head(toDev) IN
             \/ r.cmd = "ERASE_SLOT" /\ PowerLossInErase(r.slot)
             \/ r.cmd = "WRITE" /\ PowerLossInWrite(r.offset, r.len, New)
    /\ toDev' \in IF setup.late /\ toDev # <<>> THEN Suffixes(Tail(toDev)) ELSE {<<>>}
    /\ UNCHANGED <<hostVars, toHost>>

-----------------------------------------------------------------------------
FlashInit ==
    /\ \E sc \in Scenarios :
          /\ flash = sc.content
          /\ nominated = sc.active
          /\ setup = [arg |-> sc.arg, late |-> sc.late]
          /\ commands = sc.commands
    /\ session = NoSession
    /\ reply = None
    /\ step = "hello"
    /\ target = 0
    /\ sent = 0
    /\ statuses = [s \in Slot |-> None]
    /\ attempt = 0
    /\ waiting = FALSE
    /\ toDev = <<>>
    /\ toHost = <<>>
    /\ restarts = 0

FlashNext == Host \/ Again \/ Device \/ Lose \/ DeviceRestart

FlashSpec == FlashInit /\ [][FlashNext]_allVars

\* Time passes at the host, and a link that is not late carries or loses
\* what is under way before the deadline.  Nothing else is assumed of the
\* link, and nothing of the device.
FlashFairSpec ==
    /\ FlashSpec
    /\ WF_allVars(Host)
    /\ WF_allVars(~ setup.late /\ (Device \/ Lose))

-----------------------------------------------------------------------------
(* Properties *)

\* Every variable of the host keeps its type; a request exists in each step.
FlashTypeOK ==
    /\ step \in Step
    /\ setup \in [arg : Slot \cup {None}, late : BOOLEAN]
    /\ target \in Slot
    /\ sent \in 0 .. PayloadCells
    /\ statuses \in [Slot -> Image \cup {None}]
    /\ attempt \in 0 .. Retries
    /\ waiting \in BOOLEAN
    /\ commands \in Nat \ {0}

\* bl_core_select_slot for the current flash content and record.
would_boot ==
    LET ok(s) == validate_slot(flash[s]) = BL_OK
        version(s) == Version[CHOOSE i \in Image : holds(flash[s], i)]
    IN IF nominated # None
       THEN IF ok(nominated) THEN nominated
            ELSE IF ok(other(nominated)) THEN other(nominated) ELSE None
       ELSE IF ok(0) /\ ~ (ok(1) /\ version(1) > version(0)) THEN 0
       ELSE IF ok(1) THEN 1 ELSE None

\* The states in which the tool is safe: the slot that the record names
\* validates, and on a late link the command is given once.  Without a
\* record, the tool chooses the slot itself, its link is prompt, the command
\* is given once, and two valid images differ in version.
SafeStart(sc) ==
    /\ \A s \in Slot, g \in Cell : sc.content[s][g] # Conflict
    /\ sc.late => sc.commands = 1 /\ sc.active # None
    /\ sc.active # None => \E i \in Image : holds(sc.content[sc.active], i)
    /\ sc.active = None =>
          /\ sc.arg = None /\ sc.commands = 1
          /\ \A i, j \in Image :
                holds(sc.content[0], i) /\ holds(sc.content[1], j) => Version[i] # Version[j]
SafeStarts == \A sc \in Scenarios : SafeStart(sc)

\* Interrupted anywhere, an update leaves an image that boots: "an
\* interrupted update would leave the device with nothing to run" is what
\* choose_target_slot is there to prevent (blflash.py:308-311).
StaysBootable == would_boot # None

\* "The slot that would currently boot must be preserved" (blflash.py:308).
BootSlotKept == [][would_boot # None => flash'[would_boot] = flash[would_boot]]_allVars

\* When the tool reports success, the image is in the slot and armed,
\* whatever was lost, repeated or late, and whatever the tool assumed.
SuccessMeansInstalled ==
    step \in {"reset", "done"} =>
        holds(flash[target], New) /\ nominated = target

\* The command ends, with success or an error, also when the device is
\* silent or frames keep getting lost: attempts are limited and each has a
\* deadline (blflash.py:152-188).
CommandEnds == Running ~> ~ Running
=============================================================================
