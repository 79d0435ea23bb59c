------------------------------- MODULE BlLine --------------------------------
(***************************************************************************)
(* The serial line and its two receivers.  Requests go to the parser of    *)
(* BlFrame, fed by sim_feed of sim/bl_sim.c; responses go to the frame     *)
(* reader of tools/blflash.py, which decodes a whole frame at a time.  The *)
(* line changes, drops and inserts bytes.  Bytes that are under way arrive *)
(* before the reader's deadline, but an attempt can fail before that.      *)
(***************************************************************************)
EXTENDS BlFrame

CONSTANTS
    Cmds, Payloads,   \* what the sender sends
    Noise,            \* byte values that a fault leaves on the line
    MaxFrames,        \* bound: frames sent
    MaxHits           \* bound: faults on the line

VARIABLES
    receiver,    \* "device" or "tool"
    line,        \* bytes under way
    call,        \* how many of them the current call of sim_feed has left
    waiting,     \* the tool waits for a response
    frame,       \* what the tool has read of it, from the start marker on
    sent,        \* the frames sent
    delivered,   \* the frames that the receiver completed
    hits,        \* faults so far
    hit,         \* history: a fault hit the frame being sent, or the rest
                 \* of an earlier one was on its way before it
    missed       \* history: other frames, which were not delivered

device == <<p, status, call>>
tool == <<waiting, frame>>
vars == <<receiver, line, device, tool, sent, delivered, hits, hit, missed>>

ASSUME LineAssumption ==
    /\ Cmds \subseteq Value
    /\ Payloads \subseteq Seq(Value)
    /\ \A x \in Payloads : Len(x) <= BL_MAX_PAYLOAD
    /\ Noise \subseteq Value
    /\ MaxFrames \in Nat
    /\ MaxHits \in Nat

-----------------------------------------------------------------------------
(* The sender *)

\* The sender waits: the tool for the answer, the device for a request.
may_send == IF receiver = "tool" THEN ~ waiting ELSE line = <<>>

\* What is left of earlier bytes: before the tool asks it discards those
\* that have arrived, and only those.
reset_nothing(arrived) == line        \* fault: they are kept
reset_input_buffer(arrived) ==
    IF receiver = "tool" THEN SubSeq(line, arrived + 1, Len(line)) ELSE line

\* A request of the tool, or a response for which the tool now waits.
Send(cmd, payload, arrived) ==
    /\ may_send
    /\ Len(sent) < MaxFrames
    /\ line' = reset_input_buffer(arrived) \o bl_frame_encode(cmd, payload)
    /\ sent' = Append(sent, [cmd |-> Plain(cmd), payload |-> Bytes(payload)])
    /\ waiting' = (receiver = "tool")
    /\ hit' = (arrived < Len(line))
    /\ UNCHANGED <<receiver, device, frame, delivered, hits, missed>>

-----------------------------------------------------------------------------
(* The device *)

\* sim_feed is called with one byte, or with all that has arrived.
Call ==
    /\ receiver = "device"
    /\ call = 0
    /\ line # <<>>
    /\ call' \in {1, Len(line)}
    /\ UNCHANGED <<receiver, p, status, line, tool, sent, delivered, hits, hit, missed>>

\* One turn of its loop.  A complete frame is handed over and the call
\* returns: the bytes behind it in the same call are dropped.
Feed ==
    /\ call > 0
    /\ bl_frame_feed(Head(line))
    /\ \/ /\ status' = "BL_FRAME_COMPLETE"
          /\ delivered' = Append(delivered, Frame)
          /\ line' = SubSeq(line, call + 1, Len(line))
          /\ call' = 0
       \/ /\ status' # "BL_FRAME_COMPLETE"
          /\ delivered' = delivered
          /\ line' = Tail(line)
          /\ call' = call - 1
    /\ missed' = IF line' = <<>> /\ ~ hit /\ status' # "BL_FRAME_COMPLETE"
                 THEN missed + 1 ELSE missed
    /\ UNCHANGED <<receiver, tool, sent, hits, hit>>

-----------------------------------------------------------------------------
(* The tool *)

\* An attempt ends without a response; what was read is lost with it.
AttemptFails ==
    /\ waiting' = FALSE
    /\ frame' = <<>>
    /\ missed' = IF hit THEN missed ELSE missed + 1
    /\ UNCHANGED delivered

\* The length that a frame declares, and how many bytes are read of it.
Length(f) == f[3].value + ByteMod * f[4].value
Wanted(f) == IF Len(f) < 4 THEN 4 ELSE Length(f) + 8
over_limit(f) == Len(f) = 4 /\ Length(f) > BL_MAX_PAYLOAD

\* decode_frame, on a frame as long as it declares to be.
decodes(f) ==
    LET n == Length(f)
    IN SubSeq(f, n + 5, n + 8) = Crc(SubSeq(f, 2, n + 4))

Decoded(f) == [cmd |-> f[2], payload |-> SubSeq(f, 5, Length(f) + 4)]

\* _read_frame: the next byte of its reads.  A frame for another command
\* than the one asked for is discarded and the tool waits on (_transact).
ReadByte ==
    LET f == Append(frame, Head(line)) IN
    /\ waiting
    /\ line # <<>>
    /\ line' = Tail(line)
    /\ \/ /\ f[1].value # BL_SOF
          /\ UNCHANGED <<tool, delivered, missed>>
       \/ /\ f[1].value = BL_SOF
          /\ \/ over_limit(f) /\ AttemptFails
             \/ /\ ~ over_limit(f) /\ Len(f) < Wanted(f)
                /\ frame' = f
                /\ UNCHANGED <<waiting, delivered, missed>>
             \/ /\ Len(f) = Wanted(f)
                /\ decodes(f)
                /\ delivered' = Append(delivered, Decoded(f))
                /\ waiting' = (Decoded(f).cmd # sent[Len(sent)].cmd)
                /\ frame' = <<>>
                /\ UNCHANGED missed
             \/ Len(f) = Wanted(f) /\ ~ decodes(f) /\ AttemptFails
    /\ UNCHANGED <<receiver, device, sent, hits, hit>>

\* _read_exactly runs out of time.
Timeout ==
    /\ waiting
    /\ line = <<>>
    /\ AttemptFails
    /\ UNCHANGED <<receiver, line, device, sent, hits, hit>>

-----------------------------------------------------------------------------

\* A byte is changed, dropped or inserted.
Fault ==
    /\ line # <<>>
    /\ receiver = "device" => call = 0
    /\ hits < MaxHits
    /\ \/ \E v \in Noise : line' \in {Bytes(<<v>>) \o Tail(line), Bytes(<<v>>) \o line}
       \/ line' = Tail(line)
    /\ hits' = hits + 1
    /\ hit' = TRUE
    /\ UNCHANGED <<receiver, device, tool, sent, delivered, missed>>

Init ==
    /\ receiver \in {"device", "tool"}
    /\ p = PowerUp
    /\ status = "BL_FRAME_INCOMPLETE"
    /\ line = <<>>
    /\ call = 0
    /\ waiting = FALSE
    /\ frame = <<>>
    /\ sent = <<>>
    /\ delivered = <<>>
    /\ hits = 0
    /\ hit = FALSE
    /\ missed = 0

Next ==
    \/ \E cmd \in Cmds, payload \in Payloads, arrived \in 0 .. Len(line) :
          Send(cmd, payload, arrived)
    \/ Call \/ Feed
    \/ ReadByte \/ Timeout
    \/ Fault

Spec == Init /\ [][Next]_vars

-----------------------------------------------------------------------------
(* Properties *)

\* The bounds of both receivers: the parser never stores behind its payload
\* buffer, the reader never reads more than a frame.
TypeOK ==
    /\ ParserOK
    /\ call \in 0 .. Len(line)
    /\ Len(frame) < BL_MAX_PAYLOAD + 8

\* Whatever the line does, the frames delivered were sent, unchanged, in
\* this order and each at most once.
DeliversSent ==
    \E at \in [1 .. Len(delivered) -> 1 .. Len(sent)] :
        /\ \A i \in DOMAIN delivered : delivered[i] = sent[at[i]]
        /\ \A i, j \in DOMAIN delivered : i < j => at[i] < at[j]

\* A line that does not fail loses nothing, however it is cut into calls of
\* sim_feed and whatever a payload looks like: every frame is delivered
\* before the next one is sent, and none lies behind it in the same call
\* (bl_sim.c:73-92).
CleanLineLosesNothing ==
    hits = 0 /\ line = <<>> => Len(delivered) = Len(sent)

\* The tool finds its way back: whatever was damaged before, a response that
\* arrives unharmed is delivered, unless the rest of an earlier response was
\* still on its way when the attempt began.  What had arrived by then is
\* discarded and the frame is looked for from a start marker on
\* (blflash.py:118-125, 152-156).
ToolRecovers == receiver = "tool" => missed = 0

\* README.md:60 says "a desynchronised receiver loses at most one frame
\* before the CRC rejects it and it resynchronises".
LosesAtMostOne == missed <= hits
=============================================================================
