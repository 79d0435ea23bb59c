------------------------------- MODULE BlFrame -------------------------------
(***************************************************************************)
(* core/src/bl_frame.c: the encoder and the byte-wise parser.              *)
(*                                                                         *)
(* A byte is its value and, if it belongs to a checksum, what was summed   *)
(* and its position there: no two contents have the same checksum, and a   *)
(* checksum byte that is read as something else has an ordinary value.  A  *)
(* payload that contains a checksum of its own is outside the model.       *)
(***************************************************************************)
EXTENDS Integers, Sequences

CONSTANTS
    BL_SOF,           \* the start marker, a byte value
    BL_MAX_PAYLOAD,   \* largest payload
    ByteMod,          \* byte values are 0 .. ByteMod - 1 (256)
    CrcValue          \* the value of a checksum byte, by position

VARIABLES
    p,           \* bl_frame_parser_t
    status       \* what bl_frame_feed last returned

Value == 0 .. ByteMod - 1

ASSUME FrameAssumption ==
    /\ ByteMod \in Nat
    /\ BL_SOF \in Value
    /\ BL_MAX_PAYLOAD \in Nat
    /\ BL_MAX_PAYLOAD < ByteMod * ByteMod
    /\ CrcValue \in [1 .. 4 -> Value]

-----------------------------------------------------------------------------
(* Bytes and checksums *)

Plain(v) == [value |-> v, sum |-> <<>>]
Bytes(s) == [k \in DOMAIN s |-> Plain(s[k])]
Crc(content) == [k \in 1 .. 4 |-> [value |-> CrcValue[k], sum |-> <<k, content>>]]

\* bl_frame_encode: SOF, CMD, LEN (two bytes), PAYLOAD, CRC (four bytes).
bl_frame_encode(cmd, payload) ==
    LET n == Len(payload)
        body == Bytes(<<cmd, n % ByteMod, n \div ByteMod>> \o payload)
    IN Bytes(<<BL_SOF>>) \o body \o Crc(body)

-----------------------------------------------------------------------------
(* The parser *)

State == {"BL_FRAME_WAIT_SOF", "BL_FRAME_CMD", "BL_FRAME_LEN",
          "BL_FRAME_PAYLOAD", "BL_FRAME_CRC"}
Status == {"BL_FRAME_INCOMPLETE", "BL_FRAME_COMPLETE", "BL_FRAME_ERROR"}

\* running_crc is the content summed so far, received_crc the bytes of the
\* checksum so far; payload is the part of the buffer written since power-up.
bl_frame_parser_init(q) ==
    [q EXCEPT !.state = "BL_FRAME_WAIT_SOF", !.byte_count = 0,
              !.received_crc = <<>>, !.running_crc = <<>>, !.len = 0]

PowerUp == bl_frame_parser_init(
    [state |-> "BL_FRAME_WAIT_SOF", byte_count |-> 0, received_crc |-> <<>>,
     running_crc |-> <<>>, cmd |-> Plain(0), len |-> 0, payload |-> <<>>])

\* A frame is begun: everything but the buffer is cleared.
begin_keeps_crc ==           \* fault: the checksum of the last frame is kept
    [p EXCEPT !.state = "BL_FRAME_CMD", !.byte_count = 0, !.len = 0,
              !.received_crc = <<>>]
begin_frame ==
    [p EXCEPT !.state = "BL_FRAME_CMD", !.byte_count = 0, !.len = 0,
              !.running_crc = <<>>, !.received_crc = <<>>]

Store(b) == SubSeq(p.payload, 1, p.byte_count) \o <<b>>

too_long_off(n) == n > BL_MAX_PAYLOAD + 1    \* fault: off by one
too_long(n) == n > BL_MAX_PAYLOAD

crc_matches_any(received) ==                 \* fault: the content is not compared
    \A k \in 1 .. Len(received) : received[k].sum # <<>>
crc_matches(received) == received = Crc(p.running_crc)

Incomplete(q) == p' = q /\ status' = "BL_FRAME_INCOMPLETE"
Error == p' = bl_frame_parser_init(p) /\ status' = "BL_FRAME_ERROR"

WaitSof(b) ==
    /\ p.state = "BL_FRAME_WAIT_SOF"
    /\ Incomplete(IF b.value = BL_SOF THEN begin_frame ELSE p)

Cmd(b) ==
    /\ p.state = "BL_FRAME_CMD"
    /\ Incomplete([p EXCEPT !.cmd = b, !.running_crc = Append(@, b),
                            !.state = "BL_FRAME_LEN"])

LenLow(b) ==
    /\ p.state = "BL_FRAME_LEN"
    /\ p.byte_count = 0
    /\ Incomplete([p EXCEPT !.len = b.value, !.byte_count = 1,
                            !.running_crc = Append(@, b)])

LenHigh(b) ==
    LET n == p.len + ByteMod * b.value IN
    /\ p.state = "BL_FRAME_LEN"
    /\ p.byte_count # 0
    /\ \/ too_long(n) /\ Error
       \/ /\ ~ too_long(n)
          /\ Incomplete([p EXCEPT !.len = n, !.byte_count = 0,
                                  !.running_crc = Append(@, b),
                                  !.state = IF n = 0 THEN "BL_FRAME_CRC"
                                            ELSE "BL_FRAME_PAYLOAD"])

Payload(b) ==
    LET full == p.byte_count + 1 = p.len IN
    /\ p.state = "BL_FRAME_PAYLOAD"
    /\ Incomplete([p EXCEPT !.payload = Store(b),
                            !.running_crc = Append(@, b),
                            !.byte_count = IF full THEN 0 ELSE @ + 1,
                            !.state = IF full THEN "BL_FRAME_CRC" ELSE @])

CrcByte(b) ==
    LET received == Append(p.received_crc, b) IN
    /\ p.state = "BL_FRAME_CRC"
    /\ \/ /\ p.byte_count + 1 < 4
          /\ Incomplete([p EXCEPT !.received_crc = received, !.byte_count = @ + 1])
       \/ /\ p.byte_count + 1 = 4
          /\ crc_matches(received)
          /\ p' = [p EXCEPT !.received_crc = received, !.byte_count = 0,
                            !.state = "BL_FRAME_WAIT_SOF"]
          /\ status' = "BL_FRAME_COMPLETE"
       \/ /\ p.byte_count + 1 = 4
          /\ ~ crc_matches(received)
          /\ Error

bl_frame_feed(b) ==
    \/ WaitSof(b) \/ Cmd(b) \/ LenLow(b) \/ LenHigh(b) \/ Payload(b) \/ CrcByte(b)

Frame == [cmd |-> p'.cmd, payload |-> SubSeq(p'.payload, 1, p'.len)]

-----------------------------------------------------------------------------

\* Types, and the bound that keeps Store inside the payload buffer: the
\* length is checked before it is used (bl_frame.c:81-88, 106-117).
ParserOK ==
    /\ p.state \in State
    /\ status \in Status
    /\ p.len \in 0 .. (ByteMod * ByteMod - 1)
    /\ p.state \in {"BL_FRAME_PAYLOAD", "BL_FRAME_CRC"} => p.len <= BL_MAX_PAYLOAD
    /\ p.state = "BL_FRAME_PAYLOAD" => p.byte_count < p.len
    /\ p.byte_count < 4 \/ p.state = "BL_FRAME_PAYLOAD"
=============================================================================
