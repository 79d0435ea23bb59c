---------------------------- MODULE BlLineProofs -----------------------------
(***************************************************************************)
(* Proofs about BlLine, for every byte width, payload limit, start marker, *)
(* set of messages and any number of frames and faults.                    *)
(***************************************************************************)
EXTENDS BlLine, TLAPS

-----------------------------------------------------------------------------
(* What is on the line *)

\* A byte of content, a message, and what its checksum covers.
PlainByte == {Plain(v) : v \in Value}
Message == {m \in [cmd : PlainByte, payload : Seq(PlainByte)] :
               Len(m.payload) <= BL_MAX_PAYLOAD}
Body(m) == <<m.cmd, Plain(Len(m.payload) % ByteMod), Plain(Len(m.payload) \div ByteMod)>>
               \o m.payload

\* A byte of the k-th place of the checksum of a message, and any byte.
Mark(k, m) == <<k, Body(m)>>
Marks == {Mark(k, m) : k \in 1 .. 4, m \in Message}
Byte == [value : Value, sum : {<<>>} \cup Marks]

\* A frame, byte by byte.
Encoded(m) == (<<Plain(BL_SOF)>> \o Body(m)) \o Crc(Body(m))

\* Constants as numbers.
LEMMA Numbers ==
    /\ ByteMod \in Nat \ {0} /\ BL_MAX_PAYLOAD \in Nat
    /\ Value = 0 .. ByteMod - 1 /\ 0 \in Value /\ BL_SOF \in Value
BY FrameAssumption DEF Value

\* A number below the square of the byte width is two bytes.
LEMMA TwoBytes ==
    ASSUME NEW n \in Nat, n <= BL_MAX_PAYLOAD
    PROVE  /\ n % ByteMod \in Value /\ n \div ByteMod \in Value
           /\ (n % ByteMod) + (ByteMod * (n \div ByteMod)) = n
<1> DEFINE q == n \div ByteMod
           r == n % ByteMod
<1>1. /\ n = (ByteMod * q) + r /\ q \in Nat /\ r \in 0 .. ByteMod - 1
  BY Numbers, SMT
<1>2. n < ByteMod * ByteMod
  BY Numbers, FrameAssumption
<1>3. q < ByteMod
  <2> HIDE DEF q, r
  <2>1. SUFFICES ASSUME q >= ByteMod PROVE FALSE
    BY <1>1, Numbers
  <2>2. ByteMod * q >= ByteMod * ByteMod
    BY <1>1, <2>1, Numbers, SMT
  <2> QED
    BY <1>1, <1>2, <2>2, Numbers
<1>4. (ByteMod * q) + r = r + (ByteMod * q)
  BY <1>1, Numbers, SMT
<1> QED
  BY <1>1, <1>3, <1>4, Numbers

\* Content is not a checksum, and a place of a checksum names its content.
LEMMA MarkFacts ==
    ASSUME NEW k, NEW c, NEW j, NEW d
    PROVE  /\ <<k, c>> # <<>>
           /\ <<k, c>>[1] = k
           /\ <<k, c>> = <<j, d>> => k = j /\ c = d
<1>1. <<k, c>> # <<>>
  OBVIOUS
<1>2. <<k, c>>[1] = k
  OBVIOUS
<1>3. <<k, c>> = <<j, d>> => k = j /\ c = d
  OBVIOUS
<1> QED
  BY <1>1, <1>2, <1>3

\* The checksum of a message is four bytes.
LEMMA CrcAt ==
    ASSUME NEW m \in Message
    PROVE  /\ Crc(Body(m)) \in Seq(Byte)
           /\ Len(Crc(Body(m))) = 4
           /\ \A k \in 1 .. 4 : Crc(Body(m))[k] = [value |-> CrcValue[k], sum |-> Mark(k, m)]
<1>1. Crc(Body(m)) = [k \in 1 .. 4 |-> [value |-> CrcValue[k], sum |-> Mark(k, m)]]
  BY DEF Crc, Mark
<1>2. \A k \in 1 .. 4 : [value |-> CrcValue[k], sum |-> Mark(k, m)] \in Byte
  BY FrameAssumption DEF Byte, Marks
<1>3. Crc(Body(m)) \in [1 .. 4 -> Byte]
  BY <1>1, <1>2
<1> QED
  BY <1>1, <1>3

\* Sequences, byte by byte.
LEMMA Concat ==
    ASSUME NEW S, NEW s \in Seq(S), NEW t \in Seq(S), NEW c, c = s \o t
    PROVE  /\ c \in Seq(S)
           /\ Len(c) = Len(s) + Len(t)
           /\ \A k \in 1 .. Len(s) : c[k] = s[k]
           /\ \A k \in 1 .. Len(t) : c[Len(s) + k] = t[k]
<1>1. c \in Seq(S) /\ Len(c) = Len(s) + Len(t)
  OBVIOUS
<1>2. \A k \in 1 .. Len(s) : c[k] = s[k]
  OBVIOUS
<1>3. \A k \in 1 .. Len(t) : c[Len(s) + k] = t[k]
  OBVIOUS
<1> QED
  BY <1>1, <1>2, <1>3

LEMMA Extended ==
    ASSUME NEW S, NEW s \in Seq(S), NEW b \in S
    PROVE  /\ Append(s, b) \in Seq(S)
           /\ Len(Append(s, b)) = Len(s) + 1
           /\ \A k \in 1 .. Len(s) : Append(s, b)[k] = s[k]
           /\ Append(s, b)[Len(s) + 1] = b
<1>1. Append(s, b) \in Seq(S) /\ Len(Append(s, b)) = Len(s) + 1
  OBVIOUS
<1>2. \A k \in 1 .. Len(s) : Append(s, b)[k] = s[k]
  OBVIOUS
<1>3. Append(s, b)[Len(s) + 1] = b
  OBVIOUS
<1> QED
  BY <1>1, <1>2, <1>3

LEMMA Part ==
    ASSUME NEW S, NEW s \in Seq(S), NEW i \in Nat, NEW j \in Nat,
           i >= 1, i <= j + 1, j <= Len(s)
    PROVE  /\ SubSeq(s, i, j) \in Seq(S)
           /\ Len(SubSeq(s, i, j)) = j + 1 - i
           /\ \A k \in 1 .. j + 1 - i : SubSeq(s, i, j)[k] = s[i + k - 1]
<1> DEFINE q == SubSeq(s, i, j)
<1>1. q = [k \in 1 .. j + 1 - i |-> s[i + k - 1]]
  OBVIOUS
<1>2. ASSUME NEW k \in 1 .. j + 1 - i PROVE s[i + k - 1] \in S
  <2>1. i + k - 1 \in 1 .. Len(s)
    OBVIOUS
  <2> QED
    BY <2>1
<1>3. j + 1 - i \in Nat
  OBVIOUS
<1> HIDE DEF q
<1>4. q \in [1 .. j + 1 - i -> S]
  BY <1>1, <1>2
<1>5. q \in Seq(S) /\ Len(q) = j + 1 - i
  BY <1>3, <1>4
<1> QED
  BY <1>1, <1>5 DEF q

LEMMA Rest ==
    ASSUME NEW S, NEW s \in Seq(S), s # <<>>
    PROVE  /\ Len(s) \in Nat \ {0} /\ Head(s) = s[1] /\ Head(s) \in S
           /\ Tail(s) \in Seq(S) /\ Len(Tail(s)) = Len(s) - 1
           /\ \A k \in 1 .. Len(s) - 1 : Tail(s)[k] = s[k + 1]
<1>1. Len(s) \in Nat \ {0}
  OBVIOUS
<1>2. Head(s) = s[1] /\ Head(s) \in S
  OBVIOUS
<1>3. Tail(s) \in Seq(S) /\ Len(Tail(s)) = Len(s) - 1
  OBVIOUS
<1>4. \A k \in 1 .. Len(s) - 1 : Tail(s)[k] = s[k + 1]
  OBVIOUS
<1> QED
  BY <1>1, <1>2, <1>3, <1>4

LEMMA SameSeq ==
    ASSUME NEW S, NEW T, NEW s \in Seq(S), NEW t \in Seq(T), Len(s) = Len(t),
           \A k \in 1 .. Len(s) : s[k] = t[k]
    PROVE  s = t
OBVIOUS

\* The bytes that a checksum covers.
LEMMA BodyAt ==
    ASSUME NEW m \in Message
    PROVE  LET n == Len(m.payload) IN
           /\ n \in 0 .. BL_MAX_PAYLOAD
           /\ m.payload \in Seq(PlainByte)
           /\ Body(m) \in Seq(PlainByte)
           /\ Len(Body(m)) = n + 3
           /\ Body(m)[1] = m.cmd
           /\ Body(m)[2] = Plain(n % ByteMod) /\ Body(m)[3] = Plain(n \div ByteMod)
           /\ \A k \in 1 .. n : Body(m)[k + 3] = m.payload[k]
<1> DEFINE n == Len(m.payload)
           h == <<m.cmd, Plain(n % ByteMod), Plain(n \div ByteMod)>>
<1>1. m.payload \in Seq(PlainByte) /\ m.cmd \in PlainByte /\ n \in Nat /\ n <= BL_MAX_PAYLOAD
  BY DEF Message
<1>2. h \in Seq(PlainByte) /\ Len(h) = 3
  <2>1. Plain(n % ByteMod) \in PlainByte /\ Plain(n \div ByteMod) \in PlainByte
    BY <1>1, TwoBytes DEF PlainByte
  <2> QED
    BY <1>1, <2>1
<1>3. Body(m) = h \o m.payload
  BY DEF Body
<1>4. h[1] = m.cmd /\ h[2] = Plain(n % ByteMod) /\ h[3] = Plain(n \div ByteMod)
  OBVIOUS
<1> DEFINE q == m.payload
           c == Body(m)
<1>5. c = h \o q
  BY <1>3
<1> HIDE DEF h, n, q, c
<1>6. q \in Seq(PlainByte) /\ Len(q) = n
  BY <1>1 DEF n, q
<1>7. /\ c \in Seq(PlainByte) /\ Len(c) = n + 3
      /\ \A k \in 1 .. 3 : c[k] = h[k]
      /\ \A k \in 1 .. n : c[3 + k] = q[k]
  <2>1. h \in Seq(PlainByte) /\ q \in Seq(PlainByte) /\ c = h \o q
    BY <1>2, <1>5, <1>6
  <2>2. /\ c \in Seq(PlainByte) /\ Len(c) = Len(h) + Len(q)
        /\ \A k \in 1 .. Len(h) : c[k] = h[k]
        /\ \A k \in 1 .. Len(q) : c[Len(h) + k] = q[k]
    BY <2>1, Concat
  <2> QED
    BY <1>1, <1>2, <1>6, <2>2
<1>8. Body(m) = c
  BY DEF c
<1>9. \A k \in 1 .. n : c[k + 3] = q[k]
  <2> SUFFICES ASSUME NEW k \in 1 .. n PROVE c[k + 3] = q[k]
    OBVIOUS
  <2>1. k + 3 = 3 + k
    OBVIOUS
  <2> QED
    BY <1>7, <2>1
<1>10. c[1] = h[1] /\ c[2] = h[2] /\ c[3] = h[3]
  BY <1>7
<1> QED
  BY <1>1, <1>4, <1>7, <1>8, <1>9, <1>10, Numbers DEF n, q

\* The bytes of a frame.
LEMMA EncodedAt ==
    ASSUME NEW m \in Message
    PROVE  LET n == Len(m.payload)
               E == Encoded(m)
           IN
           /\ E \in Seq(Byte) /\ Len(E) = n + 8
           /\ E[1] = Plain(BL_SOF) /\ E[2] = m.cmd
           /\ E[3] = Plain(n % ByteMod) /\ E[4] = Plain(n \div ByteMod)
           /\ \A k \in 1 .. n : E[k + 4] = m.payload[k]
           /\ \A k \in 1 .. n + 3 : E[k + 1] = Body(m)[k]
           /\ \A k \in 1 .. 4 : E[n + 4 + k] = Crc(Body(m))[k]
<1> DEFINE n == Len(m.payload)
           B == Body(m)
           C == Crc(Body(m))
           S == <<Plain(BL_SOF)>> \o B
           E == Encoded(m)
<1>1. PlainByte \subseteq Byte
  BY DEF PlainByte, Byte, Plain
<1>2. /\ n \in Nat /\ B \in Seq(Byte) /\ Len(B) = n + 3
      /\ B[1] = m.cmd /\ B[2] = Plain(n % ByteMod) /\ B[3] = Plain(n \div ByteMod)
      /\ \A k \in 1 .. n : B[k + 3] = m.payload[k]
  BY <1>1, BodyAt
<1>3. C \in Seq(Byte) /\ Len(C) = 4
  BY CrcAt
<1>4. Plain(BL_SOF) \in Byte
  BY <1>1, Numbers DEF PlainByte
<1> HIDE DEF n, B, C
<1>5. /\ S \in Seq(Byte) /\ Len(S) = n + 4 /\ S[1] = Plain(BL_SOF)
      /\ \A k \in 1 .. n + 3 : S[k + 1] = B[k]
  BY <1>2, <1>4
<1>6. E = S \o C
  BY DEF Encoded, B, C
<1> HIDE DEF S, E
<1>7. /\ E \in Seq(Byte) /\ Len(E) = n + 8
      /\ \A k \in 1 .. n + 4 : E[k] = S[k]
      /\ \A k \in 1 .. 4 : E[n + 4 + k] = C[k]
  <2>1. S \in Seq(Byte) /\ C \in Seq(Byte) /\ E = S \o C
    BY <1>3, <1>5, <1>6
  <2>2. /\ E \in Seq(Byte) /\ Len(E) = Len(S) + Len(C)
        /\ \A k \in 1 .. Len(S) : E[k] = S[k]
        /\ \A k \in 1 .. Len(C) : E[Len(S) + k] = C[k]
    BY <2>1, Concat
  <2> QED
    BY <1>2, <1>3, <1>5, <2>2
<1>8. \A k \in 1 .. n + 3 : E[k + 1] = B[k]
  BY <1>2, <1>5, <1>7
<1>9. /\ E[1] = Plain(BL_SOF) /\ E[2] = m.cmd
      /\ E[3] = Plain(n % ByteMod) /\ E[4] = Plain(n \div ByteMod)
  <2>1. 1 \in 1 .. n + 4 /\ 1 \in 1 .. n + 3 /\ 2 \in 1 .. n + 3 /\ 3 \in 1 .. n + 3
    BY <1>2
  <2>2. E[1] = S[1] /\ E[1 + 1] = B[1] /\ E[2 + 1] = B[2] /\ E[3 + 1] = B[3]
    BY <1>7, <1>8, <2>1
  <2> QED
    BY <1>2, <1>5, <2>2
<1>10. \A k \in 1 .. n : E[k + 4] = m.payload[k]
  <2> SUFFICES ASSUME NEW k \in 1 .. n PROVE E[k + 4] = m.payload[k]
    OBVIOUS
  <2>1. k + 3 \in 1 .. n + 3 /\ (k + 3) + 1 = k + 4
    BY <1>2
  <2> QED
    BY <1>2, <1>8, <2>1
<1> QED
  BY <1>7, <1>8, <1>9, <1>10 DEF n, B, C, E

-----------------------------------------------------------------------------
(* The sender *)

\* What is sent is a message, and the encoder writes its frame.
LEMMA EncodeIs ==
    ASSUME NEW cmd \in Cmds, NEW payload \in Payloads,
           NEW m, m = [cmd |-> Plain(cmd), payload |-> Bytes(payload)]
    PROVE  m \in Message /\ bl_frame_encode(cmd, payload) = Encoded(m)
<1> DEFINE n == Len(payload)
           h == <<cmd, n % ByteMod, n \div ByteMod>>
           c == h \o payload
<1>1. payload \in Seq(Value) /\ n \in Nat /\ n <= BL_MAX_PAYLOAD /\ cmd \in Value
  BY LineAssumption
<1>2. Plain(cmd) \in PlainByte
  BY <1>1 DEF PlainByte
<1>3. /\ m.payload \in Seq(PlainByte) /\ Len(m.payload) = n
      /\ \A k \in 1 .. n : m.payload[k] = Plain(payload[k])
  <2>1. m.payload = [k \in 1 .. n |-> Plain(payload[k])]
    BY <1>1 DEF Bytes
  <2>2. \A k \in 1 .. n : Plain(payload[k]) \in PlainByte
    BY <1>1 DEF PlainByte
  <2>3. m.payload \in [1 .. n -> PlainByte]
    BY <2>1, <2>2
  <2> QED
    BY <1>1, <2>1, <2>3
<1>4. m \in Message
  BY <1>1, <1>2, <1>3 DEF Message
<1>5. h \in Seq(Value) /\ Len(h) = 3
  BY <1>1, TwoBytes
<1>6. h[1] = cmd /\ h[2] = n % ByteMod /\ h[3] = n \div ByteMod
  OBVIOUS
<1> HIDE DEF n, h
<1>7. /\ c \in Seq(Value) /\ Len(c) = n + 3
      /\ \A k \in 1 .. 3 : c[k] = h[k]
      /\ \A k \in 1 .. n : c[3 + k] = payload[k]
  <2> HIDE DEF c
  <2>1. h \in Seq(Value) /\ payload \in Seq(Value) /\ c = h \o payload
    BY <1>1, <1>5 DEF c
  <2>2. /\ c \in Seq(Value) /\ Len(c) = Len(h) + Len(payload)
        /\ \A k \in 1 .. Len(h) : c[k] = h[k]
        /\ \A k \in 1 .. Len(payload) : c[Len(h) + k] = payload[k]
    BY <2>1, Concat
  <2> QED
    BY <1>1, <1>5, <2>2 DEF n
<1> HIDE DEF c
<1>8. Bytes(c) = Body(m)
  <2>1. Bytes(c) = [k \in 1 .. n + 3 |-> Plain(c[k])]
    BY <1>7 DEF Bytes
  <2>2. Bytes(c) \in Seq(PlainByte) /\ Len(Bytes(c)) = n + 3
    <3>1. \A k \in 1 .. n + 3 : Plain(c[k]) \in PlainByte
      BY <1>7 DEF PlainByte
    <3> QED
      BY <1>1, <2>1, <3>1 DEF n
  <2>3. /\ Body(m) \in Seq(PlainByte) /\ Len(Body(m)) = n + 3
        /\ Body(m)[1] = m.cmd /\ Body(m)[2] = Plain(n % ByteMod) /\ Body(m)[3] = Plain(n \div ByteMod)
        /\ \A k \in 1 .. n : Body(m)[k + 3] = m.payload[k]
    BY <1>3, <1>4, BodyAt
  <2>4. ASSUME NEW k \in 1 .. n + 3 PROVE Bytes(c)[k] = Body(m)[k]
    <3>1. CASE k \in 1 .. 3
      BY <1>6, <1>7, <2>1, <2>3, <3>1
    <3>2. CASE k > 3
      <4> DEFINE j == k - 3
      <4>1. j \in 1 .. n /\ k = 3 + j /\ k = j + 3
        BY <1>1, <3>2 DEF n
      <4> HIDE DEF j
      <4> QED
        BY <1>3, <1>7, <2>1, <2>3, <4>1
    <3> QED
      BY <3>1, <3>2
  <2> QED
    BY <2>2, <2>3, <2>4, SameSeq
<1>9. Bytes(<<BL_SOF>>) = <<Plain(BL_SOF)>>
  BY DEF Bytes
<1>10. bl_frame_encode(cmd, payload) = (Bytes(<<BL_SOF>>) \o Bytes(c)) \o Crc(Bytes(c))
  BY DEF bl_frame_encode, c, h, n
<1> QED
  BY <1>4, <1>8, <1>9, <1>10 DEF Encoded

-----------------------------------------------------------------------------
(* The inductive invariant *)

Last == sent[Len(sent)]
Fourth(b) == b.sum # <<>> /\ b.sum[1] = 4

Parser ==
    [state : State, byte_count : Nat, received_crc : Seq(Byte),
     running_crc : Seq(Byte), cmd : Byte, len : 0 .. (ByteMod * ByteMod - 1),
     payload : Seq(Byte)]

LineTypes ==
    /\ receiver \in {"device", "tool"}
    /\ line \in Seq(Byte) /\ frame \in Seq(Byte)
    /\ sent \in Seq(Message) /\ delivered \in Seq(Message)
    /\ p \in Parser /\ status \in Status
    /\ call \in 0 .. Len(line)
    /\ waiting \in BOOLEAN /\ hit \in BOOLEAN
    /\ hits \in Nat /\ missed \in Nat

\* What the parser holds of a frame, in every state: the bytes that it has
\* summed are those that it has stored.
ParserInv ==
    LET rc == p.running_crc
        n == p.byte_count
    IN
    /\ p.state = "BL_FRAME_WAIT_SOF" => n = 0
    /\ p.state = "BL_FRAME_CMD" => n = 0 /\ rc = <<>>
    /\ p.state = "BL_FRAME_LEN" => n < 2 /\ Len(rc) = 1 + n /\ (n = 1 => p.len \in Value)
    /\ p.state = "BL_FRAME_PAYLOAD" =>
          /\ n < p.len /\ p.len <= BL_MAX_PAYLOAD
          /\ Len(rc) = 3 + n /\ Len(p.payload) >= n
          /\ \A k \in 1 .. n : p.payload[k] = rc[k + 3]
    /\ p.state = "BL_FRAME_CRC" =>
          /\ n < 4 /\ p.len <= BL_MAX_PAYLOAD
          /\ Len(rc) = 3 + p.len /\ Len(p.payload) >= p.len
          /\ \A k \in 1 .. p.len : p.payload[k] = rc[k + 3]
          /\ Len(p.received_crc) = n
    /\ p.state \in {"BL_FRAME_LEN", "BL_FRAME_PAYLOAD", "BL_FRAME_CRC"} => rc[1] = p.cmd
    /\ p.state \in {"BL_FRAME_CMD", "BL_FRAME_LEN", "BL_FRAME_PAYLOAD"} =>
          p.received_crc = <<>>

\* Every end of a checksum on the line is that of a frame of its own: later
\* on the line is later sent, and what was delivered was sent before.
OwnedBy(l, dl, se, at, own) ==
    /\ \A i \in 1 .. Len(dl) : dl[i] = se[at[i]]
    /\ \A i, j \in 1 .. Len(dl) : i < j => at[i] < at[j]
    /\ \A i \in 1 .. Len(l) : Fourth(l[i]) =>
          own[i] \in 1 .. Len(se) /\ l[i].sum = Mark(4, se[own[i]])
    /\ \A i, j \in 1 .. Len(l) : Fourth(l[i]) /\ Fourth(l[j]) /\ i < j => own[i] < own[j]
    /\ \A i \in 1 .. Len(dl), j \in 1 .. Len(l) : Fourth(l[j]) => at[i] < own[j]
Owned(l, dl, se) ==
    \E at \in [1 .. Len(dl) -> 1 .. Len(se)], own \in [1 .. Len(l) -> Nat] :
        OwnedBy(l, dl, se, at, own)
DeliveredInv == Owned(line, delivered, sent)

\* The reader keeps no more than the frame it waits for.
ReaderInv ==
    /\ waiting => receiver = "tool"
    /\ ~ waiting => frame = <<>>
    /\ receiver = "tool" => call = 0
    /\ Len(frame) < Wanted(frame)
    /\ Len(frame) >= 4 => Length(frame) <= BL_MAX_PAYLOAD
    /\ hits = 0 => ~ hit

\* An unharmed response: what was read of it and what is under way are its
\* bytes in order.
Unharmed ==
    /\ sent # <<>>
    /\ Len(frame) + Len(line) = Len(Last.payload) + 8
    /\ \A k \in 1 .. Len(frame) : frame[k] = Encoded(Last)[k]
    /\ \A k \in 1 .. Len(line) : line[k] = Encoded(Last)[Len(frame) + k]
ToolInStep == receiver = "tool" =>
    /\ missed = 0
    /\ waiting /\ ~ hit => Unharmed
    /\ hits = 0 => Len(delivered) + (IF waiting THEN 1 ELSE 0) = Len(sent)
    /\ hits = 0 /\ ~ waiting => line = <<>>

\* After c bytes of an unharmed request: the bytes under way, the place of
\* the parser, and what it holds.
OnLine(c, m) ==
    /\ c + Len(line) = Len(m.payload) + 8
    /\ \A k \in 1 .. Len(line) : line[k] = Encoded(m)[c + k]
Place(c, n) ==
    /\ c = 0 => p.state = "BL_FRAME_WAIT_SOF"
    /\ c = 1 => p.state = "BL_FRAME_CMD"
    /\ c = 2 => p.state = "BL_FRAME_LEN" /\ p.byte_count = 0
    /\ c = 3 => p.state = "BL_FRAME_LEN" /\ p.byte_count = 1
    /\ c \in 4 .. n + 3 => p.state = "BL_FRAME_PAYLOAD" /\ p.byte_count = c - 4 /\ p.len = n
    /\ c > n + 3 => p.state = "BL_FRAME_CRC" /\ p.byte_count = c - n - 4 /\ p.len = n
Held(c, m) ==
    LET n == Len(m.payload) IN
    /\ c = 3 => p.len = Encoded(m)[3].value
    /\ c > 0 => \A k \in 1 .. Len(p.running_crc) : p.running_crc[k] = Encoded(m)[k + 1]
    /\ c > n + 3 => \A k \in 1 .. p.byte_count : p.received_crc[k] = Encoded(m)[n + 4 + k]
Parsed(c, m) == OnLine(c, m) /\ Place(c, Len(m.payload)) /\ Held(c, m)
DeviceInStep == receiver = "device" /\ hits = 0 =>
    /\ line = <<>> => p.state = "BL_FRAME_WAIT_SOF" /\ Len(delivered) = Len(sent)
    /\ line # <<>> => /\ sent # <<>>
                      /\ Len(delivered) + 1 = Len(sent)
                      /\ \E c \in Nat, m \in Message : m = Last /\ Parsed(c, m)

LineInv ==
    /\ LineTypes
    /\ ParserInv
    /\ DeliveredInv
    /\ ReaderInv
    /\ ToolInStep
    /\ DeviceInStep

-----------------------------------------------------------------------------
(* The line and what was delivered *)

LEMMA NonEmpty ==
    ASSUME NEW S, NEW s \in Seq(S)
    PROVE  Len(s) \in Nat /\ (s = <<>> <=> Len(s) = 0)
OBVIOUS

\* Bytes that leave the line or join it as noise bring no checksum with them.
LEMMA Thinned ==
    ASSUME NEW l \in Seq(Byte), NEW t \in Seq(Byte), NEW dl \in Seq(Message),
           NEW se \in Seq(Message), Owned(l, dl, se), NEW d \in Int,
           \A i \in 1 .. Len(t) :
               \/ t[i].sum = <<>>
               \/ i + d \in 1 .. Len(l) /\ t[i] = l[i + d]
    PROVE  Owned(t, dl, se)
<1>1. PICK at \in [1 .. Len(dl) -> 1 .. Len(se)], own \in [1 .. Len(l) -> Nat] :
          OwnedBy(l, dl, se, at, own)
  BY DEF Owned
<1> DEFINE new == [i \in 1 .. Len(t) |-> IF i + d \in 1 .. Len(l) THEN own[i + d] ELSE 0]
<1>2. new \in [1 .. Len(t) -> Nat]
  BY <1>1
<1>3. ASSUME NEW i \in 1 .. Len(t), Fourth(t[i])
      PROVE  i + d \in 1 .. Len(l) /\ t[i] = l[i + d] /\ Fourth(l[i + d]) /\ new[i] = own[i + d]
  BY <1>3 DEF Fourth
<1> HIDE DEF new
<1>4. ASSUME NEW i \in 1 .. Len(t), Fourth(t[i])
      PROVE  new[i] \in 1 .. Len(se) /\ t[i].sum = Mark(4, se[new[i]])
  <2>1. i + d \in 1 .. Len(l) /\ t[i] = l[i + d] /\ Fourth(l[i + d]) /\ new[i] = own[i + d]
    BY <1>3, <1>4
  <2> QED
    BY <1>1, <2>1 DEF OwnedBy
<1>5. ASSUME NEW i \in 1 .. Len(t), NEW j \in 1 .. Len(t), Fourth(t[i]), Fourth(t[j]), i < j
      PROVE  new[i] < new[j]
  <2>1. /\ i + d \in 1 .. Len(l) /\ Fourth(l[i + d]) /\ new[i] = own[i + d]
        /\ j + d \in 1 .. Len(l) /\ Fourth(l[j + d]) /\ new[j] = own[j + d]
    BY <1>3, <1>5
  <2>2. i + d < j + d
    BY <1>5
  <2> QED
    BY <1>1, <2>1, <2>2 DEF OwnedBy
<1>6. ASSUME NEW i \in 1 .. Len(dl), NEW j \in 1 .. Len(t), Fourth(t[j])
      PROVE  at[i] < new[j]
  <2>1. j + d \in 1 .. Len(l) /\ Fourth(l[j + d]) /\ new[j] = own[j + d]
    BY <1>3, <1>6
  <2> QED
    BY <1>1, <2>1 DEF OwnedBy
<1>7. OwnedBy(t, dl, se, at, new)
  BY <1>1, <1>4, <1>5, <1>6 DEF OwnedBy
<1> QED
  BY <1>1, <1>2, <1>7 DEF Owned

\* Another frame is sent behind what is on the line.
LEMMA SendsAnother ==
    ASSUME NEW l \in Seq(Byte), NEW e \in Seq(Byte), NEW dl \in Seq(Message),
           NEW se \in Seq(Message), Owned(l, dl, se), NEW m \in Message,
           \A i \in 1 .. Len(e) : Fourth(e[i]) => i = Len(e) /\ e[i].sum = Mark(4, m)
    PROVE  Owned(l \o e, dl, Append(se, m))
<1>1. PICK at \in [1 .. Len(dl) -> 1 .. Len(se)], own \in [1 .. Len(l) -> Nat] :
          OwnedBy(l, dl, se, at, own)
  BY DEF Owned
<1> DEFINE t == l \o e
           sm == Append(se, m)
           z == Len(se) + 1
           a == Len(l)
           new == [i \in 1 .. Len(t) |-> IF i \in 1 .. a THEN own[i] ELSE z]
<1>2. /\ Len(t) = a + Len(e) /\ a \in Nat /\ Len(e) \in Nat
      /\ \A k \in 1 .. a : t[k] = l[k]
      /\ \A k \in 1 .. Len(e) : t[a + k] = e[k]
  BY Concat
<1>3. /\ Len(sm) = z /\ Len(se) \in Nat /\ sm[z] = m
      /\ \A k \in 1 .. Len(se) : sm[k] = se[k]
  BY Extended
<1>4. z \in Nat /\ \A k \in 1 .. Len(se) : k < z /\ k \in 1 .. z
  BY <1>3
<1>5. new \in [1 .. Len(t) -> Nat]
  BY <1>1, <1>4
<1>6. ASSUME NEW i \in 1 .. Len(t), Fourth(t[i])
      PROVE  \/ i \in 1 .. a /\ Fourth(l[i]) /\ t[i] = l[i] /\ new[i] = own[i]
             \/ i = Len(t) /\ i > a /\ t[i].sum = Mark(4, m) /\ new[i] = z
  <2>1. CASE i \in 1 .. a
    BY <1>2, <1>6, <2>1
  <2>2. CASE ~ (i \in 1 .. a)
    <3> DEFINE k == i - a
    <3>1. k \in 1 .. Len(e) /\ i = a + k
      BY <1>2, <2>2
    <3>2. new[i] = z
      BY <2>2
    <3> HIDE DEF k, t, new
    <3>3. t[i] = e[k]
      BY <1>2, <3>1
    <3>4. k = Len(e) /\ e[k].sum = Mark(4, m)
      BY <1>6, <3>1, <3>3
    <3> QED
      BY <1>2, <3>1, <3>2, <3>3, <3>4
  <2> QED
    BY <2>1, <2>2
<1> HIDE DEF t, sm, z, new, a
<1>7. /\ \A i \in 1 .. Len(dl) : at[i] \in 1 .. Len(se) /\ at[i] < z
      /\ \A i \in 1 .. a : Fourth(l[i]) => own[i] \in 1 .. Len(se) /\ own[i] < z
  BY <1>1, <1>4 DEF OwnedBy, a
<1>8. at \in [1 .. Len(dl) -> 1 .. Len(sm)]
  BY <1>3, <1>4, <1>7
<1>9. ASSUME NEW i \in 1 .. Len(t), Fourth(t[i])
      PROVE  new[i] \in 1 .. Len(sm) /\ t[i].sum = Mark(4, sm[new[i]])
  <2>1. CASE i \in 1 .. a /\ Fourth(l[i]) /\ t[i] = l[i] /\ new[i] = own[i]
    <3>1. own[i] \in 1 .. Len(se) /\ l[i].sum = Mark(4, se[own[i]])
      BY <1>1, <2>1 DEF OwnedBy, a
    <3> QED
      BY <1>3, <1>4, <2>1, <3>1
  <2>2. CASE i = Len(t) /\ i > a /\ t[i].sum = Mark(4, m) /\ new[i] = z
    <3>1. z \in 1 .. z
      BY <1>3 DEF z
    <3> QED
      BY <1>3, <2>2, <3>1
  <2> QED
    BY <1>6, <1>9, <2>1, <2>2
<1>10. ASSUME NEW i \in 1 .. Len(t), NEW j \in 1 .. Len(t), Fourth(t[i]), Fourth(t[j]), i < j
       PROVE  new[i] < new[j]
  <2>1. i # Len(t)
    BY <1>2, <1>10
  <2>2. i \in 1 .. a /\ Fourth(l[i]) /\ new[i] = own[i]
    BY <1>6, <1>10, <2>1
  <2>3. CASE j \in 1 .. a /\ Fourth(l[j]) /\ new[j] = own[j]
    BY <1>1, <1>10, <2>2, <2>3 DEF OwnedBy, a
  <2>4. CASE new[j] = z
    BY <1>7, <2>2, <2>4
  <2> QED
    BY <1>6, <1>10, <2>3, <2>4
<1>11. ASSUME NEW i \in 1 .. Len(dl), NEW j \in 1 .. Len(t), Fourth(t[j])
       PROVE  at[i] < new[j]
  <2>1. CASE j \in 1 .. a /\ Fourth(l[j]) /\ new[j] = own[j]
    BY <1>1, <2>1 DEF OwnedBy, a
  <2>2. CASE new[j] = z
    BY <1>7, <2>2
  <2> QED
    BY <1>6, <1>11, <2>1, <2>2
<1>12. \A i \in 1 .. Len(dl) : dl[i] = sm[at[i]]
  BY <1>1, <1>3, <1>7 DEF OwnedBy
<1>13. \A i, j \in 1 .. Len(dl) : i < j => at[i] < at[j]
  BY <1>1 DEF OwnedBy
<1>14. OwnedBy(t, dl, sm, at, new)
  BY <1>9, <1>10, <1>11, <1>12, <1>13 DEF OwnedBy
<1> QED
  BY <1>5, <1>8, <1>14 DEF Owned, t, sm

\* The frame whose checksum ends at the head of the line is delivered, and
\* that byte and others behind it leave the line.
LEMMA DeliversNext ==
    ASSUME NEW l \in Seq(Byte), l # <<>>, Fourth(l[1]), NEW dl \in Seq(Message),
           NEW se \in Seq(Message), Owned(l, dl, se)
    PROVE  \E o \in 1 .. Len(se) :
              /\ l[1].sum = Mark(4, se[o])
              /\ \A t \in Seq(Byte), d \in Nat \ {0} :
                    (\A i \in 1 .. Len(t) : i + d \in 1 .. Len(l) /\ t[i] = l[i + d])
                    => Owned(t, Append(dl, se[o]), se)
<1>1. PICK at \in [1 .. Len(dl) -> 1 .. Len(se)], own \in [1 .. Len(l) -> Nat] :
          OwnedBy(l, dl, se, at, own)
  BY DEF Owned
<1> DEFINE o == own[1]
           n == Len(dl)
           m == se[o]
           x == Append(dl, m)
           to == [i \in 1 .. n + 1 |-> IF i = n + 1 THEN o ELSE at[i]]
<1>2. 1 \in 1 .. Len(l)
  BY Rest
<1>3. o \in 1 .. Len(se) /\ l[1].sum = Mark(4, se[o])
  BY <1>1, <1>2 DEF OwnedBy
<1>4. \A i \in 1 .. n : at[i] \in 1 .. Len(se) /\ at[i] < o
  BY <1>1, <1>2 DEF OwnedBy
<1>5. m \in Message
  BY <1>3
<1> HIDE DEF m
<1>6. /\ Len(x) = n + 1 /\ n \in Nat /\ x[n + 1] = m
      /\ \A k \in 1 .. n : x[k] = dl[k]
  BY <1>5, Extended
<1>7. \A i \in 1 .. n + 1 : i = n + 1 \/ i \in 1 .. n
  BY <1>6
<1> HIDE DEF o, n, x
<1>8. to \in [1 .. n + 1 -> 1 .. Len(se)]
  BY <1>3, <1>4, <1>7
<1>9. to[n + 1] = o /\ \A i \in 1 .. n : to[i] = at[i]
  BY <1>6
<1> HIDE DEF to
<1>10. ASSUME NEW i \in 1 .. Len(x) PROVE x[i] = se[to[i]]
  <2>1. CASE i = n + 1
    BY <1>6, <1>9, <2>1 DEF m
  <2>2. CASE i \in 1 .. n
    BY <1>1, <1>6, <1>9, <2>2 DEF OwnedBy, n
  <2> QED
    BY <1>6, <1>7, <2>1, <2>2
<1>11. ASSUME NEW i \in 1 .. Len(x), NEW j \in 1 .. Len(x), i < j PROVE to[i] < to[j]
  <2>1. i \in 1 .. n
    BY <1>6, <1>11
  <2>2. CASE j = n + 1
    BY <1>4, <1>9, <2>1, <2>2
  <2>3. CASE j \in 1 .. n
    BY <1>1, <1>9, <1>11, <2>1, <2>3 DEF OwnedBy, n
  <2> QED
    BY <1>6, <1>7, <2>2, <2>3
<1>12. ASSUME NEW t \in Seq(Byte), NEW d \in Nat \ {0},
              \A i \in 1 .. Len(t) : i + d \in 1 .. Len(l) /\ t[i] = l[i + d]
       PROVE  Owned(t, x, se)
  <2> DEFINE new == [i \in 1 .. Len(t) |-> own[i + d]]
  <2>1. new \in [1 .. Len(t) -> Nat]
    BY <1>1, <1>12
  <2>2. ASSUME NEW i \in 1 .. Len(t), Fourth(t[i])
        PROVE  /\ i + d \in 1 .. Len(l) /\ t[i] = l[i + d] /\ Fourth(l[i + d])
               /\ new[i] = own[i + d] /\ 1 < i + d
    BY <1>12, <2>2
  <2> HIDE DEF new
  <2>3. ASSUME NEW i \in 1 .. Len(t), Fourth(t[i])
        PROVE  new[i] \in 1 .. Len(se) /\ t[i].sum = Mark(4, se[new[i]]) /\ o < new[i]
    <3>1. /\ i + d \in 1 .. Len(l) /\ t[i] = l[i + d] /\ Fourth(l[i + d])
          /\ new[i] = own[i + d] /\ 1 < i + d
      BY <2>2, <2>3
    <3>2. o < own[i + d]
      BY <1>1, <1>2, <3>1 DEF OwnedBy, o
    <3> QED
      BY <1>1, <3>1, <3>2 DEF OwnedBy
  <2>4. ASSUME NEW i \in 1 .. Len(t), NEW j \in 1 .. Len(t), Fourth(t[i]), Fourth(t[j]), i < j
        PROVE  new[i] < new[j]
    <3>1. /\ i + d \in 1 .. Len(l) /\ Fourth(l[i + d]) /\ new[i] = own[i + d]
          /\ j + d \in 1 .. Len(l) /\ Fourth(l[j + d]) /\ new[j] = own[j + d]
      BY <2>2, <2>4
    <3>2. i + d < j + d
      BY <2>4
    <3> QED
      BY <1>1, <3>1, <3>2 DEF OwnedBy
  <2>5. ASSUME NEW i \in 1 .. Len(x), NEW j \in 1 .. Len(t), Fourth(t[j])
        PROVE  to[i] < new[j]
    <3>1. o < new[j] /\ new[j] \in 1 .. Len(se)
      BY <2>3, <2>5
    <3>2. CASE i = n + 1
      BY <1>9, <3>1, <3>2
    <3>3. CASE i \in 1 .. n
      <4>1. to[i] < o /\ to[i] \in 1 .. Len(se)
        BY <1>4, <1>9, <3>3
      <4> QED
        BY <1>3, <3>1, <4>1
    <3> QED
      BY <1>6, <1>7, <3>2, <3>3
  <2>6. OwnedBy(t, x, se, to, new)
    BY <1>10, <1>11, <2>3, <2>4, <2>5 DEF OwnedBy
  <2>7. to \in [1 .. Len(x) -> 1 .. Len(se)]
    BY <1>6, <1>8
  <2> QED
    BY <2>1, <2>6, <2>7 DEF Owned
<1> QED
  BY <1>3, <1>12 DEF x, m

-----------------------------------------------------------------------------
(* The parser *)

\* What a byte does to the parser, field by field.
LEMMA BytesAreTyped ==
    ASSUME NEW b \in Byte
    PROVE  b.value \in Value /\ b.value \in 0 .. ByteMod - 1
BY Numbers DEF Byte

LEMMA AfterWaitSof ==
    ASSUME p \in Parser, NEW b \in Byte, WaitSof(b)
    PROVE  /\ p' \in Parser /\ status' = "BL_FRAME_INCOMPLETE"
           /\ b.value # BL_SOF => p' = p
           /\ b.value = BL_SOF =>
                 /\ p'.state = "BL_FRAME_CMD" /\ p'.byte_count = 0
                 /\ p'.running_crc = <<>> /\ p'.received_crc = <<>>
<1>1. status' = "BL_FRAME_INCOMPLETE" /\ p' = IF b.value = BL_SOF THEN begin_frame ELSE p
  BY DEF WaitSof, Incomplete
<1>2. 0 \in 0 .. (ByteMod * ByteMod - 1)
  BY FrameAssumption DEF Value
<1>3. <<>> \in Seq(Byte) /\ "BL_FRAME_CMD" \in State
  BY DEF State
<1>4. b.value = BL_SOF => p' \in Parser
  BY <1>1, <1>2, <1>3 DEF begin_frame, Parser
<1> QED
  BY <1>1, <1>4 DEF begin_frame, Parser

LEMMA AfterCmd ==
    ASSUME p \in Parser, NEW b \in Byte, Cmd(b)
    PROVE  /\ p' \in Parser /\ status' = "BL_FRAME_INCOMPLETE"
           /\ p'.state = "BL_FRAME_LEN" /\ p'.byte_count = p.byte_count
           /\ p'.cmd = b /\ p'.running_crc = Append(p.running_crc, b)
           /\ p'.received_crc = p.received_crc
<1>1. Append(p.running_crc, b) \in Seq(Byte) /\ "BL_FRAME_LEN" \in State
  BY DEF Parser, State
<1> QED
  BY <1>1 DEF Cmd, Incomplete, Parser

LEMMA AfterLenLow ==
    ASSUME p \in Parser, NEW b \in Byte, LenLow(b)
    PROVE  /\ p' \in Parser /\ status' = "BL_FRAME_INCOMPLETE"
           /\ p'.state = p.state /\ p'.byte_count = 1 /\ p'.len = b.value
           /\ p'.cmd = p.cmd /\ p'.running_crc = Append(p.running_crc, b)
           /\ p'.received_crc = p.received_crc
<1>1. Append(p.running_crc, b) \in Seq(Byte)
  BY DEF Parser
<1>2. b.value \in 0 .. (ByteMod * ByteMod - 1)
  <2>1. ByteMod <= ByteMod * ByteMod
    BY Numbers, SMT
  <2> QED
    BY <2>1, Numbers, BytesAreTyped
<1> QED
  BY <1>1, <1>2 DEF LenLow, Incomplete, Parser

LEMMA AfterError ==
    ASSUME p \in Parser, Error
    PROVE  /\ p' \in Parser /\ status' = "BL_FRAME_ERROR"
           /\ p'.state = "BL_FRAME_WAIT_SOF" /\ p'.byte_count = 0
<1>1. 0 \in 0 .. (ByteMod * ByteMod - 1)
  BY FrameAssumption DEF Value
<1>2. <<>> \in Seq(Byte) /\ "BL_FRAME_WAIT_SOF" \in State
  BY DEF State
<1> QED
  BY <1>1, <1>2 DEF Error, bl_frame_parser_init, Parser

LEMMA AfterLenHigh ==
    ASSUME p \in Parser, NEW b \in Byte, LenHigh(b), NEW n, n = p.len + ByteMod * b.value
    PROVE  \/ n > BL_MAX_PAYLOAD /\ Error
           \/ /\ n <= BL_MAX_PAYLOAD /\ n \in Nat
              /\ p' \in Parser /\ status' = "BL_FRAME_INCOMPLETE"
              /\ p'.state = IF n = 0 THEN "BL_FRAME_CRC" ELSE "BL_FRAME_PAYLOAD"
              /\ p'.byte_count = 0 /\ p'.len = n
              /\ p'.cmd = p.cmd /\ p'.running_crc = Append(p.running_crc, b)
              /\ p'.received_crc = p.received_crc /\ p'.payload = p.payload
<1>1. Append(p.running_crc, b) \in Seq(Byte) /\ {"BL_FRAME_CRC", "BL_FRAME_PAYLOAD"} \subseteq State
  BY DEF Parser, State
<1>2. n \in Nat
  <2>1. ByteMod * b.value \in Nat
    BY Numbers, BytesAreTyped, SMT
  <2>2. p.len \in Nat
    BY Numbers DEF Parser
  <2> QED
    BY <2>1, <2>2
<1>3. CASE too_long(n) /\ Error
  BY <1>3 DEF too_long
<1>4. CASE /\ ~ too_long(n)
           /\ Incomplete([p EXCEPT !.len = n, !.byte_count = 0,
                                  !.running_crc = Append(@, b),
                                  !.state = IF n = 0 THEN "BL_FRAME_CRC"
                                            ELSE "BL_FRAME_PAYLOAD"])
  <2>1. n <= BL_MAX_PAYLOAD /\ n \in 0 .. (ByteMod * ByteMod - 1)
    BY <1>2, <1>4, FrameAssumption DEF too_long
  <2> QED
    BY <1>1, <1>2, <1>4, <2>1 DEF Incomplete, Parser
<1> QED
  BY <1>3, <1>4 DEF LenHigh

LEMMA AfterPayload ==
    ASSUME p \in Parser, NEW b \in Byte, Payload(b), p.byte_count <= Len(p.payload),
           NEW full, full = (p.byte_count + 1 = p.len)
    PROVE  /\ p' \in Parser /\ status' = "BL_FRAME_INCOMPLETE"
           /\ p'.state = IF full THEN "BL_FRAME_CRC" ELSE p.state
           /\ p'.byte_count = IF full THEN 0 ELSE p.byte_count + 1
           /\ p'.len = p.len /\ p'.cmd = p.cmd
           /\ p'.running_crc = Append(p.running_crc, b)
           /\ p'.received_crc = p.received_crc
           /\ Len(p'.payload) = p.byte_count + 1
           /\ p'.payload[p.byte_count + 1] = b
           /\ \A k \in 1 .. p.byte_count : p'.payload[k] = p.payload[k]
<1> DEFINE n == p.byte_count
           old == SubSeq(p.payload, 1, n)
           one == <<b>>
           new == old \o one
<1>1. n \in Nat /\ p.payload \in Seq(Byte)
  BY DEF Parser
<1>2. old \in Seq(Byte) /\ Len(old) = n /\ \A k \in 1 .. n : old[k] = p.payload[k]
  <2>1. 1 \in Nat /\ 1 >= 1 /\ 1 <= n + 1 /\ n <= Len(p.payload) /\ n + 1 - 1 = n
    BY <1>1
  <2>2. /\ old \in Seq(Byte) /\ Len(old) = n + 1 - 1
        /\ \A k \in 1 .. n + 1 - 1 : old[k] = p.payload[1 + k - 1]
    BY <1>1, <2>1, Part
  <2> HIDE DEF old, n
  <2>3. ASSUME NEW k \in 1 .. n PROVE old[k] = p.payload[k]
    <3>1. 1 + k - 1 = k
      OBVIOUS
    <3> QED
      BY <1>1, <2>1, <2>2, <3>1
  <2> QED
    BY <1>1, <2>2, <2>3
<1>3. one \in Seq(Byte) /\ Len(one) = 1 /\ one[1] = b
  OBVIOUS
<1> HIDE DEF n, old, one
<1>4. /\ new \in Seq(Byte) /\ Len(new) = n + 1 /\ new[n + 1] = b
      /\ \A k \in 1 .. n : new[k] = old[k]
  <2> HIDE DEF new
  <2>1. new = old \o one
    BY DEF new
  <2>2. /\ new \in Seq(Byte) /\ Len(new) = Len(old) + Len(one)
        /\ \A k \in 1 .. Len(old) : new[k] = old[k]
        /\ \A k \in 1 .. Len(one) : new[Len(old) + k] = one[k]
    <3>1. old \in Seq(Byte) /\ one \in Seq(Byte)
      BY <1>2, <1>3
    <3> QED
      BY <2>1, <3>1, Concat
  <2> QED
    BY <1>1, <1>2, <1>3, <2>2
<1>5. Store(b) = new
  BY DEF Store, new, old, one, n
<1>6. Append(p.running_crc, b) \in Seq(Byte) /\ "BL_FRAME_CRC" \in State
  BY DEF Parser, State
<1> HIDE DEF new
<1>7. /\ status' = "BL_FRAME_INCOMPLETE"
      /\ p' = [p EXCEPT !.payload = new, !.running_crc = Append(@, b),
                        !.byte_count = IF full THEN 0 ELSE @ + 1,
                        !.state = IF full THEN "BL_FRAME_CRC" ELSE @]
  BY <1>5 DEF Payload, Incomplete
<1>8. /\ p'.state = IF full THEN "BL_FRAME_CRC" ELSE p.state
      /\ p'.byte_count = IF full THEN 0 ELSE p.byte_count + 1
      /\ p'.len = p.len /\ p'.cmd = p.cmd
      /\ p'.running_crc = Append(p.running_crc, b)
      /\ p'.received_crc = p.received_crc /\ p'.payload = new
  BY <1>7 DEF Parser
<1>9. p' \in Parser
  <2> DEFINE to == IF full THEN 0 ELSE p.byte_count + 1
             st == IF full THEN "BL_FRAME_CRC" ELSE p.state
  <2>1. to \in Nat /\ st \in State
    BY <1>6 DEF Parser
  <2>2. p' = [p EXCEPT !.payload = new, !.running_crc = Append(@, b),
                      !.byte_count = to, !.state = st]
    BY <1>7 DEF Parser
  <2> HIDE DEF to, st
  <2> QED
    BY <1>4, <1>6, <2>1, <2>2 DEF Parser
<1> QED
  BY <1>2, <1>4, <1>7, <1>8, <1>9 DEF n

LEMMA AfterCrcByte ==
    ASSUME p \in Parser, NEW b \in Byte, CrcByte(b),
           NEW received, received = Append(p.received_crc, b)
    PROVE  \/ /\ p.byte_count + 1 < 4
              /\ p' \in Parser /\ status' = "BL_FRAME_INCOMPLETE"
              /\ p'.byte_count = p.byte_count + 1 /\ p'.received_crc = received
              /\ p'.state = p.state /\ p'.len = p.len /\ p'.cmd = p.cmd
              /\ p'.running_crc = p.running_crc /\ p'.payload = p.payload
           \/ /\ p.byte_count + 1 = 4
              /\ received = Crc(p.running_crc)
              /\ p' \in Parser /\ status' = "BL_FRAME_COMPLETE"
              /\ p'.byte_count = 0 /\ p'.state = "BL_FRAME_WAIT_SOF"
              /\ p'.len = p.len /\ p'.cmd = p.cmd /\ p'.payload = p.payload
           \/ p.byte_count + 1 = 4 /\ received # Crc(p.running_crc) /\ Error
<1>1. received \in Seq(Byte) /\ "BL_FRAME_WAIT_SOF" \in State
  BY DEF Parser, State
<1>2. CASE /\ p.byte_count + 1 < 4
           /\ Incomplete([p EXCEPT !.received_crc = received, !.byte_count = @ + 1])
  <2>1. p.byte_count + 1 \in Nat
    BY DEF Parser
  <2> QED
    BY <1>1, <1>2, <2>1 DEF Incomplete, Parser
<1>3. CASE /\ p.byte_count + 1 = 4
           /\ crc_matches(received)
           /\ p' = [p EXCEPT !.received_crc = received, !.byte_count = 0,
                             !.state = "BL_FRAME_WAIT_SOF"]
           /\ status' = "BL_FRAME_COMPLETE"
  BY <1>1, <1>3 DEF crc_matches, Parser
<1>4. CASE p.byte_count + 1 = 4 /\ ~ crc_matches(received) /\ Error
  BY <1>4 DEF crc_matches
<1> QED
  BY <1>2, <1>3, <1>4 DEF CrcByte

\* Every byte keeps the parser's invariant, and only the last byte of the
\* checksum of what was summed completes a frame.
LEMMA ParserKeeps ==
    ASSUME p \in Parser, ParserInv, NEW b \in Byte, bl_frame_feed(b)
    PROVE  /\ p' \in Parser /\ status' \in Status /\ ParserInv'
           /\ status' = "BL_FRAME_COMPLETE" =>
                 /\ p.state = "BL_FRAME_CRC" /\ p.byte_count = 3
                 /\ b.sum = <<4, p.running_crc>> /\ p'.state = "BL_FRAME_WAIT_SOF"
                 /\ p'.cmd = p.cmd /\ p'.len = p.len /\ p'.payload = p.payload
<1> USE DEF Status
<1> DEFINE rc == p.running_crc
<1>1. rc \in Seq(Byte) /\ p.byte_count \in Nat /\ p.len \in Nat /\ Len(p.payload) \in Nat
  BY Numbers DEF Parser
<1>2. /\ Append(rc, b) \in Seq(Byte) /\ Len(Append(rc, b)) = Len(rc) + 1 /\ Len(rc) \in Nat
      /\ \A k \in 1 .. Len(rc) : Append(rc, b)[k] = rc[k]
      /\ Append(rc, b)[Len(rc) + 1] = b
  BY <1>1, Extended
<1>3. CASE WaitSof(b)
  BY <1>3, AfterWaitSof DEF ParserInv
<1>4. CASE Cmd(b)
  <2>1. p.state = "BL_FRAME_CMD" /\ rc = <<>> /\ p.byte_count = 0 /\ p.received_crc = <<>>
    BY <1>4 DEF Cmd, ParserInv
  <2>2. p'.running_crc[1] = b /\ Len(p'.running_crc) = 1
    BY <1>2, <1>4, <2>1, AfterCmd
  <2> QED
    BY <1>4, <2>1, <2>2, AfterCmd DEF ParserInv
<1>5. CASE LenLow(b)
  <2>1. /\ p.state = "BL_FRAME_LEN" /\ Len(rc) = 1 /\ p.byte_count = 0
        /\ p.received_crc = <<>> /\ rc[1] = p.cmd
    BY <1>5 DEF LenLow, ParserInv
  <2>2. p'.running_crc[1] = rc[1] /\ Len(p'.running_crc) = 2
    <3>1. p'.running_crc = Append(rc, b)
      BY <1>5, AfterLenLow
    <3>2. 1 \in 1 .. Len(rc)
      BY <2>1
    <3> QED
      BY <1>2, <2>1, <3>1, <3>2
  <2> QED
    BY <1>5, <2>1, <2>2, AfterLenLow, BytesAreTyped DEF ParserInv
<1>6. CASE LenHigh(b)
  <2>1. /\ p.state = "BL_FRAME_LEN" /\ Len(rc) = 2
        /\ p.received_crc = <<>> /\ rc[1] = p.cmd
    <3>1. p.state = "BL_FRAME_LEN" /\ p.byte_count # 0
      BY <1>6 DEF LenHigh
    <3>2. p.byte_count < 2 /\ Len(rc) = 1 + p.byte_count
      BY <3>1 DEF ParserInv
    <3>3. p.received_crc = <<>> /\ rc[1] = p.cmd
      BY <3>1 DEF ParserInv
    <3> QED
      BY <1>1, <3>1, <3>2, <3>3
  <2> DEFINE n == p.len + ByteMod * b.value
  <2>2. CASE Error
    BY <2>2, AfterError DEF ParserInv
  <2>3. CASE /\ n <= BL_MAX_PAYLOAD /\ n \in Nat
             /\ p' \in Parser /\ status' = "BL_FRAME_INCOMPLETE"
             /\ p'.state = IF n = 0 THEN "BL_FRAME_CRC" ELSE "BL_FRAME_PAYLOAD"
             /\ p'.byte_count = 0 /\ p'.len = n
             /\ p'.cmd = p.cmd /\ p'.running_crc = Append(p.running_crc, b)
             /\ p'.received_crc = p.received_crc /\ p'.payload = p.payload
    <3> HIDE DEF n
    <3>1. p'.running_crc[1] = rc[1] /\ Len(p'.running_crc) = 3
      BY <1>2, <2>1, <2>3
    <3>2. p'.byte_count = 0 /\ p'.len = n /\ p'.received_crc = <<>> /\ p'.cmd = rc[1]
      BY <2>1, <2>3
    <3>3. CASE n = 0
      BY <1>1, <2>3, <3>1, <3>2, <3>3 DEF ParserInv
    <3>4. CASE n # 0
      BY <1>1, <2>3, <3>1, <3>2, <3>4 DEF ParserInv
    <3> QED
      BY <2>3, <3>3, <3>4
  <2> QED
    BY <1>6, <2>2, <2>3, AfterLenHigh
<1>7. CASE Payload(b)
  <2> DEFINE n == p.byte_count
             full == (n + 1 = p.len)
             q == p'.payload
             rd == p'.running_crc
  <2>1. /\ p.state = "BL_FRAME_PAYLOAD" /\ n < p.len /\ p.len <= BL_MAX_PAYLOAD
        /\ Len(rc) = n + 3 /\ Len(p.payload) >= n
        /\ \A k \in 1 .. n : p.payload[k] = rc[k + 3]
        /\ p.received_crc = <<>> /\ rc[1] = p.cmd
    BY <1>1, <1>7 DEF Payload, ParserInv
  <2>2. /\ p' \in Parser /\ status' = "BL_FRAME_INCOMPLETE"
        /\ p'.state = IF full THEN "BL_FRAME_CRC" ELSE "BL_FRAME_PAYLOAD"
        /\ p'.byte_count = IF full THEN 0 ELSE n + 1
        /\ p'.len = p.len /\ p'.cmd = p.cmd
        /\ rd = Append(rc, b) /\ p'.received_crc = <<>>
        /\ Len(q) = n + 1 /\ q[n + 1] = b
        /\ \A k \in 1 .. n : q[k] = p.payload[k]
    BY <1>1, <1>7, <2>1, AfterPayload
  <2>3. /\ Len(rd) = n + 4 /\ rd[n + 4] = b /\ rd[1] = p.cmd
        /\ \A k \in 1 .. n + 3 : rd[k] = rc[k]
    BY <1>1, <1>2, <2>1, <2>2
  <2> HIDE DEF rd, q
  <2>4. ASSUME NEW k \in 1 .. n + 1 PROVE q[k] = rd[k + 3]
    <3>1. CASE k = n + 1
      BY <1>1, <2>2, <2>3, <3>1
    <3>2. CASE k \in 1 .. n
      <4>1. k + 3 \in 1 .. n + 3
        BY <1>1, <3>2
      <4> QED
        BY <2>1, <2>2, <2>3, <3>2, <4>1
    <3> QED
      BY <1>1, <3>1, <3>2
  <2> HIDE DEF n, full
  <2>5. CASE full
    <3>1. p.len = n + 1 /\ n \in Nat
      BY <1>1, <2>5 DEF full, n
    <3> QED
      BY <2>1, <2>2, <2>3, <2>4, <2>5, <3>1 DEF ParserInv, rd, q
  <2>6. CASE ~ full
    <3>1. n + 1 < p.len /\ n \in Nat
      BY <1>1, <2>1, <2>6 DEF full, n
    <3> QED
      BY <2>1, <2>2, <2>3, <2>4, <2>6, <3>1 DEF ParserInv, rd, q
  <2> QED
    BY <2>5, <2>6
<1>8. CASE CrcByte(b)
  <2> DEFINE received == Append(p.received_crc, b)
  <2>1. /\ p.state = "BL_FRAME_CRC" /\ p.received_crc \in Seq(Byte)
        /\ Len(p.received_crc) = p.byte_count
    BY <1>8 DEF CrcByte, ParserInv, Parser
  <2>2. Len(received) = p.byte_count + 1 /\ received[p.byte_count + 1] = b
    BY <2>1, Extended
  <2>3. CASE /\ p.byte_count + 1 < 4
             /\ p' \in Parser /\ status' = "BL_FRAME_INCOMPLETE"
             /\ p'.byte_count = p.byte_count + 1 /\ p'.received_crc = received
             /\ p'.state = p.state /\ p'.len = p.len /\ p'.cmd = p.cmd
             /\ p'.running_crc = p.running_crc /\ p'.payload = p.payload
    <3> HIDE DEF received
    <3> QED
      BY <2>1, <2>2, <2>3 DEF ParserInv
  <2>4. CASE /\ p.byte_count + 1 = 4
             /\ received = Crc(p.running_crc)
             /\ p' \in Parser /\ status' = "BL_FRAME_COMPLETE"
             /\ p'.byte_count = 0 /\ p'.state = "BL_FRAME_WAIT_SOF"
             /\ p'.len = p.len /\ p'.cmd = p.cmd /\ p'.payload = p.payload
    <3> HIDE DEF received
    <3>1. b = Crc(p.running_crc)[4]
      BY <2>2, <2>4
    <3>2. b.sum = <<4, p.running_crc>>
      BY <3>1 DEF Crc
    <3> QED
      BY <1>1, <2>1, <2>4, <3>2 DEF ParserInv
  <2>5. CASE Error
    BY <2>5, AfterError DEF ParserInv
  <2> QED
    BY <1>8, <2>3, <2>4, <2>5, AfterCrcByte
<1> QED
  BY <1>3, <1>4, <1>5, <1>6, <1>7, <1>8 DEF bl_frame_feed

\* A frame whose checksum is that of a message is the message.
LEMMA FrameIs ==
    ASSUME p \in Parser, ParserInv, p.state = "BL_FRAME_CRC",
           NEW m \in Message, p.running_crc = Body(m)
    PROVE  [cmd |-> p.cmd, payload |-> SubSeq(p.payload, 1, p.len)] = m
<1> DEFINE n == p.len
           q == SubSeq(p.payload, 1, n)
           rc == p.running_crc
<1>1. /\ n \in Nat /\ Len(rc) = 3 + n /\ Len(p.payload) >= n /\ rc[1] = p.cmd
      /\ \A k \in 1 .. n : p.payload[k] = rc[k + 3]
  BY Numbers DEF Parser, ParserInv
<1>2. /\ Len(m.payload) \in Nat /\ m.payload \in Seq(PlainByte)
      /\ Len(rc) = Len(m.payload) + 3 /\ rc[1] = m.cmd
      /\ \A k \in 1 .. Len(m.payload) : rc[k + 3] = m.payload[k]
  <2>1. /\ Len(m.payload) \in Nat /\ m.payload \in Seq(PlainByte)
        /\ Len(Body(m)) = Len(m.payload) + 3 /\ Body(m)[1] = m.cmd
        /\ \A k \in 1 .. Len(m.payload) : Body(m)[k + 3] = m.payload[k]
    BY BodyAt
  <2> QED
    BY <2>1
<1>3. Len(m.payload) = n
  BY <1>1, <1>2
<1>4. q \in Seq(Byte) /\ Len(q) = n /\ \A k \in 1 .. n : q[k] = p.payload[k]
  <2>1. 1 \in Nat /\ 1 >= 1 /\ 1 <= n + 1 /\ n + 1 - 1 = n /\ p.payload \in Seq(Byte)
    BY <1>1 DEF Parser
  <2>2. /\ q \in Seq(Byte) /\ Len(q) = n + 1 - 1
        /\ \A k \in 1 .. n + 1 - 1 : q[k] = p.payload[1 + k - 1]
    BY <1>1, <2>1, Part
  <2> HIDE DEF q, n
  <2>3. ASSUME NEW k \in 1 .. n PROVE q[k] = p.payload[k]
    <3>1. 1 + k - 1 = k
      OBVIOUS
    <3> QED
      BY <1>1, <2>1, <2>2, <3>1
  <2> QED
    BY <1>1, <2>2, <2>3
<1> HIDE DEF n, q, rc
<1>5. q = m.payload
  <2>1. \A k \in 1 .. Len(q) : q[k] = m.payload[k]
    BY <1>1, <1>2, <1>3, <1>4
  <2> QED
    BY <1>2, <1>3, <1>4, <2>1, SameSeq
<1>6. p.cmd = m.cmd
  BY <1>1, <1>2
<1> QED
  BY <1>5, <1>6 DEF Message, q, n

\* The bytes of a frame that belong to its checksum.
LEMMA EncodedMarks ==
    ASSUME NEW m \in Message, NEW n, n = Len(m.payload)
    PROVE  /\ n \in Nat
           /\ \A i \in 1 .. n + 4 : Encoded(m)[i].sum = <<>>
           /\ \A k \in 1 .. 4 : Encoded(m)[n + 4 + k].sum = Mark(k, m)
<1> DEFINE E == Encoded(m)
           B == Body(m)
<1>1. /\ n \in Nat /\ B \in Seq(PlainByte) /\ Len(B) = n + 3
  BY BodyAt
<1>2. /\ E[1] = Plain(BL_SOF)
      /\ \A k \in 1 .. n + 3 : E[k + 1] = B[k]
      /\ \A k \in 1 .. 4 : E[n + 4 + k] = Crc(B)[k]
  BY EncodedAt
<1>3. \A x \in PlainByte : x.sum = <<>>
  BY DEF PlainByte, Plain
<1>4. ASSUME NEW k \in 1 .. 4 PROVE E[n + 4 + k].sum = Mark(k, m)
  <2>1. Crc(B)[k] = [value |-> CrcValue[k], sum |-> Mark(k, m)]
    BY CrcAt
  <2> HIDE DEF E, B
  <2> QED
    BY <1>2, <2>1
<1> HIDE DEF E, B
<1>5. ASSUME NEW i \in 1 .. n + 4 PROVE E[i].sum = <<>>
  <2>1. CASE i = 1
    BY <1>2, <2>1 DEF Plain
  <2>2. CASE i > 1
    <3> DEFINE j == i - 1
    <3>1. j \in 1 .. n + 3 /\ i = j + 1
      BY <1>1, <2>2
    <3> HIDE DEF j
    <3>2. B[j] \in PlainByte
      BY <1>1, <3>1
    <3> QED
      BY <1>2, <1>3, <3>1, <3>2
  <2> QED
    BY <2>1, <2>2
<1> QED
  BY <1>1, <1>4, <1>5 DEF E

\* The state names the handler of a byte.
LEMMA Dispatch ==
    ASSUME NEW b, bl_frame_feed(b)
    PROVE  /\ p.state = "BL_FRAME_WAIT_SOF" => WaitSof(b)
           /\ p.state = "BL_FRAME_CMD" => Cmd(b)
           /\ p.state = "BL_FRAME_LEN" /\ p.byte_count = 0 => LenLow(b)
           /\ p.state = "BL_FRAME_LEN" /\ p.byte_count # 0 => LenHigh(b)
           /\ p.state = "BL_FRAME_PAYLOAD" => Payload(b)
           /\ p.state = "BL_FRAME_CRC" => CrcByte(b)
<1>1. WaitSof(b) => p.state = "BL_FRAME_WAIT_SOF"
  BY DEF WaitSof
<1>2. Cmd(b) => p.state = "BL_FRAME_CMD"
  BY DEF Cmd
<1>3. LenLow(b) => p.state = "BL_FRAME_LEN" /\ p.byte_count = 0
  BY DEF LenLow
<1>4. LenHigh(b) => p.state = "BL_FRAME_LEN" /\ p.byte_count # 0
  BY DEF LenHigh
<1>5. Payload(b) => p.state = "BL_FRAME_PAYLOAD"
  BY DEF Payload
<1>6. CrcByte(b) => p.state = "BL_FRAME_CRC"
  BY DEF CrcByte
<1> QED
  BY <1>1, <1>2, <1>3, <1>4, <1>5, <1>6 DEF bl_frame_feed

\* The parser follows an unharmed request, and takes its last byte for its end.
LEMMA ParsedStep ==
    ASSUME p \in Parser, ParserInv, p' \in Parser, ParserInv',
           line \in Seq(Byte), line # <<>>, line' = Tail(line),
           NEW m \in Message, NEW c \in Nat, Parsed(c, m),
           bl_frame_feed(Head(line)), status' # "BL_FRAME_COMPLETE"
    PROVE  line' # <<>> /\ Parsed(c + 1, m)'
<1> DEFINE n == Len(m.payload)
           E == Encoded(m)
           b == Head(line)
           rc == p.running_crc
           rd == p'.running_crc
<1>1. /\ Len(line) \in Nat \ {0} /\ b = line[1] /\ b \in Byte
      /\ line' \in Seq(Byte) /\ Len(line') = Len(line) - 1
      /\ \A k \in 1 .. Len(line) - 1 : line'[k] = line[k + 1]
  BY Rest
<1>2. /\ n \in Nat /\ n <= BL_MAX_PAYLOAD /\ E \in Seq(Byte) /\ Len(E) = n + 8
      /\ E[1] = Plain(BL_SOF) /\ E[2] = m.cmd
      /\ E[3] = Plain(n % ByteMod) /\ E[4] = Plain(n \div ByteMod)
      /\ \A k \in 1 .. n + 3 : E[k + 1] = Body(m)[k]
      /\ \A k \in 1 .. 4 : E[n + 4 + k] = Crc(Body(m))[k]
  <2>1. n \in 0 .. BL_MAX_PAYLOAD
    BY BodyAt
  <2>2. /\ E \in Seq(Byte) /\ Len(E) = n + 8
        /\ E[1] = Plain(BL_SOF) /\ E[2] = m.cmd
        /\ E[3] = Plain(n % ByteMod) /\ E[4] = Plain(n \div ByteMod)
        /\ \A k \in 1 .. n + 3 : E[k + 1] = Body(m)[k]
        /\ \A k \in 1 .. 4 : E[n + 4 + k] = Crc(Body(m))[k]
    BY EncodedAt
  <2> HIDE DEF n, E
  <2> QED
    BY <2>1, <2>2, Numbers
<1> HIDE DEF n, E, b
<1>3. n \in Nat
  BY <1>2
<1>4. c + Len(line) = n + 8 /\ \A k \in 1 .. Len(line) : line[k] = E[c + k]
  BY DEF Parsed, OnLine, n, E
<1>5. b = E[c + 1] /\ c < n + 8
  BY <1>1, <1>4
<1>6. /\ (c + 1) + Len(line') = n + 8
      /\ \A k \in 1 .. Len(line') : line'[k] = E[(c + 1) + k]
  <2>1. (c + 1) + Len(line') = n + 8
    BY <1>1, <1>4
  <2>2. ASSUME NEW k \in 1 .. Len(line') PROVE line'[k] = E[(c + 1) + k]
    <3>1. k \in 1 .. Len(line) - 1 /\ k + 1 \in 1 .. Len(line) /\ c + (k + 1) = (c + 1) + k
      BY <1>1
    <3> QED
      BY <1>1, <1>4, <3>1
  <2> QED
    BY <2>1, <2>2
<1>7. c < n + 7 => line' # <<>>
  <2>1. line' = <<>> <=> Len(line') = 0
    BY <1>1, NonEmpty
  <2> QED
    BY <1>1, <1>3, <1>6, <2>1
<1>8. /\ rc \in Seq(Byte) /\ Len(rc) \in Nat
      /\ Len(Append(rc, b)) = Len(rc) + 1 /\ Append(rc, b)[Len(rc) + 1] = b
      /\ \A k \in 1 .. Len(rc) : Append(rc, b)[k] = rc[k]
  BY <1>1, Extended DEF Parser
<1>9. bl_frame_feed(b)
  BY DEF b
<1>10. ASSUME c > 0, Len(rc) = c - 1, rd = Append(rc, b)
      PROVE  \A k \in 1 .. Len(rd) : rd[k] = E[k + 1]
  <2> SUFFICES ASSUME NEW k \in 1 .. Len(rd) PROVE rd[k] = E[k + 1]
    OBVIOUS
  <2>1. \A j \in 1 .. Len(rc) : rc[j] = E[j + 1]
    BY <1>10 DEF Parsed, Held, E
  <2>2. CASE k = Len(rc) + 1
    BY <1>5, <1>8, <1>10, <2>2
  <2>3. CASE k \in 1 .. Len(rc)
    BY <1>8, <1>10, <2>1, <2>3
  <2> QED
    BY <1>8, <1>10, <2>2, <2>3
<1> HIDE DEF rd
<1>11. ASSUME Place(c + 1, n)', c < n + 7,
              c + 1 = 3 => p'.len = E[3].value,
              \A k \in 1 .. Len(rd) : rd[k] = E[k + 1],
              c + 1 > n + 3 => \A k \in 1 .. p'.byte_count : p'.received_crc[k] = E[n + 4 + k]
       PROVE  line' # <<>> /\ Parsed(c + 1, m)'
  <2>1. OnLine(c + 1, m)'
    BY <1>6 DEF OnLine, n, E
  <2>2. Held(c + 1, m)'
    BY <1>11 DEF Held, n, E, rd
  <2> QED
    BY <1>7, <1>11, <2>1, <2>2 DEF Parsed, n
<1>12. /\ c = 0 => p.state = "BL_FRAME_WAIT_SOF"
       /\ c = 1 => p.state = "BL_FRAME_CMD"
       /\ c = 2 => p.state = "BL_FRAME_LEN" /\ p.byte_count = 0
       /\ c = 3 => p.state = "BL_FRAME_LEN" /\ p.byte_count = 1 /\ p.len = E[3].value
       /\ c \in 4 .. n + 3 => p.state = "BL_FRAME_PAYLOAD" /\ p.byte_count = c - 4 /\ p.len = n
       /\ c > n + 3 => p.state = "BL_FRAME_CRC" /\ p.byte_count = c - n - 4 /\ p.len = n
  BY DEF Parsed, Place, Held, n, E
<1>13. CASE c = 0
  <2>1. WaitSof(b)
    BY <1>9, <1>12, <1>13, Dispatch
  <2>2. b.value = BL_SOF
    BY <1>2, <1>5, <1>13 DEF Plain
  <2>3. p'.state = "BL_FRAME_CMD" /\ rd = <<>>
    BY <1>1, <2>1, <2>2, AfterWaitSof DEF rd
  <2>4. Place(c + 1, n)' /\ c < n + 7 /\ c + 1 # 3 /\ ~ (c + 1 > n + 3)
    BY <1>3, <1>13, <2>3 DEF Place, n
  <2>5. \A k \in 1 .. Len(rd) : rd[k] = E[k + 1]
    BY <2>3
  <2> QED
    BY <1>11, <2>4, <2>5
<1>14. CASE c = 1
  <2>1. p.state = "BL_FRAME_CMD" /\ Len(rc) = 0 /\ p.byte_count = 0
    BY <1>12, <1>14 DEF ParserInv
  <2>2. Cmd(b)
    BY <1>9, <2>1, Dispatch
  <2>3. p'.state = "BL_FRAME_LEN" /\ p'.byte_count = 0 /\ rd = Append(rc, b)
    BY <1>1, <2>1, <2>2, AfterCmd DEF rd
  <2>4. \A k \in 1 .. Len(rd) : rd[k] = E[k + 1]
    BY <1>10, <1>14, <2>1, <2>3
  <2>5. Place(c + 1, n)' /\ c < n + 7 /\ c + 1 # 3 /\ ~ (c + 1 > n + 3)
    BY <1>3, <1>14, <2>3 DEF Place, n
  <2> QED
    BY <1>11, <2>4, <2>5
<1>15. CASE c = 2
  <2>1. p.state = "BL_FRAME_LEN" /\ p.byte_count = 0
    BY <1>12, <1>15
  <2>2. Len(rc) = 1
    BY <2>1 DEF ParserInv
  <2>3. LenLow(b)
    BY <1>9, <2>1, Dispatch
  <2>4. /\ p'.state = "BL_FRAME_LEN" /\ p'.byte_count = 1 /\ p'.len = b.value
        /\ rd = Append(rc, b)
    BY <1>1, <2>1, <2>3, AfterLenLow DEF rd
  <2>5. \A k \in 1 .. Len(rd) : rd[k] = E[k + 1]
    BY <1>10, <1>15, <2>2, <2>4
  <2>6. p'.len = E[3].value
    BY <1>5, <1>15, <2>4
  <2>7. Place(c + 1, n)' /\ c < n + 7 /\ ~ (c + 1 > n + 3)
    BY <1>3, <1>15, <2>4 DEF Place, n
  <2> QED
    BY <1>11, <2>5, <2>6, <2>7
<1>16. CASE c = 3
  <2>1. p.state = "BL_FRAME_LEN" /\ p.byte_count = 1 /\ p.len = E[3].value
    BY <1>12, <1>16
  <2>2. Len(rc) = 2
    BY <2>1 DEF ParserInv
  <2>3. LenHigh(b)
    BY <1>9, <2>1, Dispatch
  <2>4. p.len + ByteMod * b.value = n
    <3>1. b = E[4]
      BY <1>5, <1>16
    <3>2. p.len = n % ByteMod /\ b.value = n \div ByteMod
      BY <1>2, <2>1, <3>1 DEF Plain
    <3> QED
      BY <1>2, <3>2, TwoBytes
  <2>5. /\ p'.state = IF n = 0 THEN "BL_FRAME_CRC" ELSE "BL_FRAME_PAYLOAD"
        /\ p'.byte_count = 0 /\ p'.len = n /\ rd = Append(rc, b)
    <3>1. ~ (n > BL_MAX_PAYLOAD)
      BY <1>2, Numbers
    <3> QED
      BY <1>1, <2>3, <2>4, <3>1, AfterLenHigh DEF rd
  <2>6. \A k \in 1 .. Len(rd) : rd[k] = E[k + 1]
    BY <1>10, <1>16, <2>2, <2>5
  <2>7. Place(c + 1, n)' /\ c < n + 7 /\ c + 1 # 3
    <3>1. CASE n = 0
      BY <1>16, <2>5, <3>1 DEF Place, n
    <3>2. CASE n # 0
      BY <1>3, <1>16, <2>5, <3>2 DEF Place, n
    <3> QED
      BY <3>1, <3>2
  <2>8. \A k \in 1 .. p'.byte_count : p'.received_crc[k] = E[n + 4 + k]
    BY <2>5
  <2> QED
    BY <1>11, <2>6, <2>7, <2>8
<1>17. CASE c \in 4 .. n + 3
  <2>1. p.state = "BL_FRAME_PAYLOAD" /\ p.byte_count = c - 4 /\ p.len = n
    BY <1>12, <1>17
  <2>2. Len(rc) = c - 1 /\ p.byte_count <= Len(p.payload) /\ c > 0
    <3>1. Len(rc) = 3 + p.byte_count /\ Len(p.payload) >= p.byte_count
      BY <2>1 DEF ParserInv
    <3>2. p.byte_count \in Nat /\ Len(p.payload) \in Nat
      BY DEF Parser
    <3> QED
      BY <1>3, <1>17, <2>1, <3>1, <3>2
  <2>3. Payload(b)
    BY <1>9, <2>1, Dispatch
  <2> DEFINE full == (p.byte_count + 1 = p.len)
  <2>4. /\ p'.state = IF full THEN "BL_FRAME_CRC" ELSE "BL_FRAME_PAYLOAD"
        /\ p'.byte_count = IF full THEN 0 ELSE p.byte_count + 1
        /\ p'.len = n /\ rd = Append(rc, b)
    BY <1>1, <2>1, <2>2, <2>3, AfterPayload DEF rd
  <2>5. \A k \in 1 .. Len(rd) : rd[k] = E[k + 1]
    BY <1>10, <2>2, <2>4
  <2>6. c < n + 7 /\ c + 1 # 3
    BY <1>3, <1>17
  <2>7. CASE c = n + 3
    <3>1. full /\ c + 1 = n + 4
      BY <1>3, <2>1, <2>7
    <3>2. p'.state = "BL_FRAME_CRC" /\ p'.byte_count = 0 /\ p'.len = n
      BY <2>4, <3>1
    <3>3. Place(c + 1, n)'
      BY <1>3, <3>1, <3>2 DEF Place, n
    <3>4. \A k \in 1 .. p'.byte_count : p'.received_crc[k] = E[n + 4 + k]
      BY <3>2
    <3> QED
      BY <1>11, <2>5, <2>6, <3>3, <3>4
  <2>8. CASE c < n + 3
    <3>1. p.byte_count + 1 # p.len /\ c + 1 \in 4 .. n + 3 /\ p.byte_count + 1 = (c + 1) - 4
      BY <1>3, <1>17, <2>1, <2>8
    <3>2. p'.state = "BL_FRAME_PAYLOAD" /\ p'.byte_count = (c + 1) - 4 /\ p'.len = n
      BY <2>4, <3>1
    <3>3. Place(c + 1, n)' /\ ~ (c + 1 > n + 3)
      BY <1>3, <3>1, <3>2 DEF Place, n
    <3> QED
      BY <1>11, <2>5, <2>6, <3>3
  <2> QED
    BY <1>3, <1>17, <2>7, <2>8
<1>18. CASE c > n + 3
  <2> DEFINE got == p.received_crc
             new == Append(got, b)
             i == p.byte_count
  <2>1. p.state = "BL_FRAME_CRC" /\ i = c - n - 4 /\ p.len = n
    BY <1>12, <1>18
  <2>2. /\ \A k \in 1 .. i : got[k] = E[n + 4 + k]
        /\ \A k \in 1 .. Len(rc) : rc[k] = E[k + 1]
    <3>1. c > 0
      BY <1>3, <1>18
    <3> QED
      BY <1>18, <3>1 DEF Parsed, Held, n, E
  <2>3. Len(got) = i /\ i \in 0 .. 3 /\ Len(rc) = n + 3 /\ got \in Seq(Byte)
    BY <1>3, <2>1 DEF ParserInv, Parser
  <2>4. CrcByte(b)
    BY <1>9, <2>1, Dispatch
  <2>5. /\ new \in Seq(Byte) /\ Len(new) = i + 1 /\ new[i + 1] = b
        /\ \A k \in 1 .. i : new[k] = got[k]
    BY <1>1, <2>3, Extended
  <2> HIDE DEF got, new, i
  <2>6. \A k \in 1 .. i + 1 : new[k] = E[n + 4 + k]
    <3>1. c + 1 = n + 4 + (i + 1)
      BY <1>3, <2>1
    <3>2. new[i + 1] = E[n + 4 + (i + 1)]
      BY <1>5, <2>5, <3>1
    <3> QED
      BY <2>2, <2>3, <2>5, <3>2
  <2>7. rc = Body(m)
    <3>1. Body(m) \in Seq(PlainByte) /\ Len(Body(m)) = n + 3
      BY BodyAt DEF n
    <3>2. \A k \in 1 .. Len(rc) : rc[k] = Body(m)[k]
      BY <1>2, <2>2, <2>3
    <3> QED
      BY <1>8, <2>3, <3>1, <3>2, SameSeq
  <2>8. CASE /\ i + 1 < 4
             /\ p'.byte_count = i + 1 /\ p'.received_crc = new
             /\ p'.state = p.state /\ p'.len = p.len /\ rd = rc
    <3>1. c + 1 > n + 3 /\ i + 1 = (c + 1) - n - 4 /\ c < n + 7 /\ c + 1 # 3
      BY <1>3, <1>18, <2>1, <2>3, <2>8
    <3>2. Place(c + 1, n)'
      BY <1>3, <2>1, <2>8, <3>1 DEF Place, n
    <3> QED
      BY <1>11, <2>2, <2>6, <2>8, <3>1, <3>2
  <2>9. CASE i + 1 = 4 /\ new # Crc(rc)
    <3> DEFINE C == Crc(rc)
    <3>1. C \in Seq(Byte) /\ Len(C) = 4
      BY <2>7, CrcAt
    <3>2. \A k \in 1 .. 4 : E[n + 4 + k] = C[k]
      BY <1>2, <2>7
    <3> HIDE DEF C
    <3>3. Len(new) = Len(C) /\ \A k \in 1 .. Len(new) : new[k] = C[k]
      BY <2>5, <2>6, <2>9, <3>1, <3>2
    <3>4. new = C
      BY <2>5, <3>1, <3>3, SameSeq
    <3> QED
      BY <2>9, <3>4 DEF C
  <2> QED
    BY <1>1, <2>4, <2>8, <2>9, AfterCrcByte DEF new, got, i, rd
<1>19. c = 0 \/ c = 1 \/ c = 2 \/ c = 3 \/ c \in 4 .. n + 3 \/ c > n + 3
  BY <1>3
<1> QED
  BY <1>13, <1>14, <1>15, <1>16, <1>17, <1>18, <1>19

-----------------------------------------------------------------------------
(* Every action keeps the invariant *)

LEMMA InitInv == Init => LineInv
<1> SUFFICES ASSUME Init PROVE LineInv
  OBVIOUS
<1>1. /\ p = PowerUp /\ line = <<>> /\ frame = <<>> /\ sent = <<>> /\ delivered = <<>>
      /\ call = 0 /\ hits = 0 /\ missed = 0 /\ waiting = FALSE /\ hit = FALSE
      /\ status = "BL_FRAME_INCOMPLETE" /\ receiver \in {"device", "tool"}
  BY DEF Init
<1>2. /\ p \in Parser /\ p.state = "BL_FRAME_WAIT_SOF" /\ p.byte_count = 0
  <2>1. Plain(0) \in Byte
    BY Numbers DEF Plain, Byte
  <2>2. 0 \in 0 .. (ByteMod * ByteMod - 1)
    BY FrameAssumption DEF Value
  <2>3. p = [state |-> "BL_FRAME_WAIT_SOF", byte_count |-> 0, received_crc |-> <<>>,
             running_crc |-> <<>>, cmd |-> Plain(0), len |-> 0, payload |-> <<>>]
    BY <1>1 DEF PowerUp, bl_frame_parser_init
  <2> QED
    BY <2>1, <2>2, <2>3 DEF Parser, State
<1>3. LineTypes
  <2>1. /\ line \in Seq(Byte) /\ frame \in Seq(Byte) /\ sent \in Seq(Message)
        /\ delivered \in Seq(Message) /\ Len(line) = 0
    BY <1>1
  <2>2. call \in 0 .. Len(line) /\ hits \in Nat /\ missed \in Nat
    BY <1>1, <2>1
  <2>3. waiting \in BOOLEAN /\ hit \in BOOLEAN /\ status \in Status
    BY <1>1 DEF Status
  <2> QED
    BY <1>1, <1>2, <2>1, <2>2, <2>3 DEF LineTypes
<1>4. ParserInv
  BY <1>2 DEF ParserInv
<1>5. DeliveredInv
  <2> DEFINE at == [i \in 1 .. 0 |-> 0]
  <2>1. Len(delivered) = 0 /\ Len(sent) = 0 /\ Len(line) = 0
    BY <1>1
  <2>2. /\ at \in [1 .. Len(delivered) -> 1 .. Len(sent)]
        /\ at \in [1 .. Len(line) -> Nat]
    BY <2>1
  <2>3. OwnedBy(line, delivered, sent, at, at)
    BY <2>1 DEF OwnedBy
  <2> QED
    BY <2>2, <2>3 DEF DeliveredInv, Owned
<1>7. ReaderInv
  BY <1>1 DEF ReaderInv, Wanted
<1>8. ToolInStep
  BY <1>1 DEF ToolInStep
<1>9. DeviceInStep
  BY <1>1, <1>2 DEF DeviceInStep
<1> QED
  BY <1>3, <1>4, <1>5, <1>7, <1>8, <1>9 DEF LineInv

\* A frame is sent behind what has not arrived of earlier ones.
LEMMA SendKeeps ==
    ASSUME LineInv, NEW cmd \in Cmds, NEW payload \in Payloads,
           NEW arrived \in 0 .. Len(line), Send(cmd, payload, arrived)
    PROVE  LineInv'
<1> DEFINE m == [cmd |-> Plain(cmd), payload |-> Bytes(payload)]
           E == Encoded(m)
           n == Len(m.payload)
<1>1. m \in Message /\ bl_frame_encode(cmd, payload) = E
  BY EncodeIs
<1> HIDE DEF m
<1>2. /\ E \in Seq(Byte) /\ Len(E) = n + 8 /\ n \in Nat
  BY <1>1, EncodedAt, BodyAt
<1>3. /\ \A i \in 1 .. n + 4 : E[i].sum = <<>>
      /\ \A k \in 1 .. 4 : E[n + 4 + k].sum = Mark(k, m)
  BY <1>1, EncodedMarks
<1> HIDE DEF E, n
<1> DEFINE l == reset_input_buffer(arrived)
<1>4. /\ sent' = Append(sent, m) /\ hit' = (arrived < Len(line)) /\ waiting' = (receiver = "tool")
      /\ line' = l \o E
      /\ p' = p /\ status' = status /\ call' = call /\ receiver' = receiver
      /\ frame' = frame /\ delivered' = delivered /\ hits' = hits /\ missed' = missed
  BY <1>1 DEF Send, device, m
<1>5. (receiver = "device" => line = <<>>) /\ (receiver = "tool" => ~ waiting)
  BY DEF Send, may_send, LineInv, LineTypes
<1>6. /\ l \in Seq(Byte) /\ Len(l) = Len(line) - arrived /\ Len(line) \in Nat /\ arrived \in Nat
      /\ \A k \in 1 .. Len(l) : k + arrived \in 1 .. Len(line) /\ l[k] = line[k + arrived]
  <2>1. line \in Seq(Byte) /\ Len(line) \in Nat /\ arrived \in Nat /\ arrived <= Len(line)
    BY DEF LineInv, LineTypes
  <2>2. CASE receiver = "tool"
    <3> DEFINE i == arrived + 1
               j == Len(line)
    <3>1. l = SubSeq(line, i, j)
      BY <2>2 DEF reset_input_buffer
    <3> HIDE DEF l
    <3>2. i \in Nat /\ j \in Nat /\ i >= 1 /\ i <= j + 1 /\ j <= Len(line)
      BY <2>1
    <3> HIDE DEF i, j
    <3>3. /\ l \in Seq(Byte) /\ Len(l) = j + 1 - i
          /\ \A k \in 1 .. j + 1 - i : l[k] = line[i + k - 1]
      BY <2>1, <3>1, <3>2, Part
    <3>4. j + 1 - i = Len(line) - arrived
      BY <2>1 DEF i, j
    <3>5. ASSUME NEW k \in 1 .. Len(l)
          PROVE  k + arrived \in 1 .. Len(line) /\ l[k] = line[k + arrived]
      <4>1. k \in 1 .. j + 1 - i /\ i + k - 1 = k + arrived /\ k + arrived \in 1 .. Len(line)
        BY <2>1, <3>3, <3>4 DEF i
      <4> QED
        BY <3>3, <4>1
    <3> QED
      BY <2>1, <3>3, <3>4, <3>5
  <2>3. CASE receiver # "tool"
    <3>1. l = line
      BY <2>3 DEF reset_input_buffer
    <3>2. line = <<>>
      BY <1>5, <2>3 DEF LineInv, LineTypes
    <3>3. Len(line) = 0 /\ arrived = 0
      BY <2>1, <3>2
    <3> HIDE DEF l
    <3> QED
      BY <2>1, <3>1, <3>3
  <2> QED
    BY <2>2, <2>3
<1> HIDE DEF l
<1>16. /\ line' \in Seq(Byte) /\ Len(line') = Len(l) + (n + 8)
       /\ \A k \in 1 .. n + 8 : line'[Len(l) + k] = E[k]
  <2>1. line' = l \o E /\ l \in Seq(Byte) /\ E \in Seq(Byte)
    BY <1>2, <1>4, <1>6
  <2>2. /\ line' \in Seq(Byte) /\ Len(line') = Len(l) + Len(E)
        /\ \A k \in 1 .. Len(E) : line'[Len(l) + k] = E[k]
    BY <2>1, Concat
  <2> QED
    BY <1>2, <2>2
<1>17. ~ hit' => Len(l) = 0
  <2> SUFFICES ASSUME ~ hit' PROVE Len(l) = 0
    OBVIOUS
  <2>1. ~ (arrived < Len(line))
    BY <1>4, Zenon
  <2> QED
    BY <1>6, <2>1
<1>18. Len(l) = 0 => Len(line') = n + 8 /\ \A k \in 1 .. n + 8 : line'[k] = E[k]
  <2> SUFFICES ASSUME Len(l) = 0
               PROVE  Len(line') = n + 8 /\ \A k \in 1 .. n + 8 : line'[k] = E[k]
    OBVIOUS
  <2>1. \A k \in 1 .. n + 8 : 0 + k = k
    BY <1>2
  <2> QED
    BY <1>2, <1>16, <2>1
<1>7. /\ sent' \in Seq(Message) /\ Len(sent') = Len(sent) + 1 /\ Last' = m /\ sent' # <<>>
      /\ Len(sent) \in Nat
  <2>1. sent \in Seq(Message)
    BY DEF LineInv, LineTypes
  <2>2. /\ sent' \in Seq(Message) /\ Len(sent') = Len(sent) + 1 /\ Len(sent) \in Nat
        /\ sent'[Len(sent) + 1] = m
    BY <1>1, <1>4, <2>1, Extended
  <2> QED
    BY <2>2, NonEmpty DEF Last
<1>8. call = 0 /\ frame = <<>> /\ ~ waiting
  BY <1>5 DEF LineInv, LineTypes, ReaderInv
<1>9. LineTypes'
  <2>1. waiting' \in BOOLEAN /\ hit' \in BOOLEAN
    BY <1>4
  <2>2. call' \in 0 .. Len(line')
    BY <1>2, <1>4, <1>6, <1>8, <1>16
  <2>3. line' \in Seq(Byte)
    BY <1>16
  <2> QED
    BY <1>4, <1>7, <2>1, <2>2, <2>3 DEF LineInv, LineTypes
<1>10. ParserInv'
  BY <1>4 DEF LineInv, ParserInv
<1>11. ASSUME NEW i \in 1 .. Len(E), Fourth(E[i]) PROVE i = Len(E) /\ E[i].sum = Mark(4, m)
  <2> DEFINE k == i - n - 4
  <2>1. k \in 1 .. 4 /\ i = n + 4 + k
    <3>1. ~ (i \in 1 .. n + 4)
      BY <1>3, <1>11 DEF Fourth
    <3> QED
      BY <1>2, <3>1
  <2> HIDE DEF k
  <2>2. E[i].sum = Mark(k, m)
    BY <1>3, <2>1
  <2>3. k = 4
    BY <1>11, <2>2, MarkFacts DEF Mark, Fourth
  <2> QED
    BY <1>2, <2>1, <2>2, <2>3
<1>12. DeliveredInv'
  <2>1. /\ line \in Seq(Byte) /\ delivered \in Seq(Message) /\ sent \in Seq(Message)
        /\ Owned(line, delivered, sent) /\ arrived \in Int
    BY <1>6 DEF LineInv, LineTypes, DeliveredInv
  <2>2. \A k \in 1 .. Len(l) :
           \/ l[k].sum = <<>>
           \/ k + arrived \in 1 .. Len(line) /\ l[k] = line[k + arrived]
    BY <1>6
  <2>3. Owned(l, delivered, sent)
    BY <1>6, <2>1, <2>2, Thinned
  <2>4. Owned(l \o E, delivered, Append(sent, m))
    BY <1>1, <1>2, <1>6, <1>11, <2>1, <2>3, SendsAnother
  <2> QED
    BY <1>4, <2>4 DEF DeliveredInv
<1>13. ReaderInv'
  <2>1. Wanted(frame)' = 4 /\ Len(frame') = 0
    BY <1>4, <1>8 DEF Wanted
  <2>2. hits = 0 => Len(line) = 0
    <3>1. hits = 0 => line = <<>>
      BY <1>5, <1>8 DEF LineInv, LineTypes, ToolInStep
    <3> QED
      BY <3>1
  <2>3. hits' = 0 => ~ hit'
    <3> SUFFICES ASSUME hits' = 0 PROVE ~ hit'
      OBVIOUS
    <3>1. ~ (arrived < Len(line))
      BY <1>4, <1>6, <2>2
    <3> QED
      BY <1>4, <3>1, Zenon
  <2> QED
    BY <1>4, <1>8, <2>1, <2>3 DEF LineInv, ReaderInv
<1>14. ToolInStep'
  <2> SUFFICES ASSUME receiver = "tool" PROVE ToolInStep'
    BY <1>4 DEF ToolInStep
  <2>1. missed = 0 /\ (hits = 0 => Len(delivered) + 0 = Len(sent))
    BY <1>8 DEF LineInv, ToolInStep
  <2>2. ~ hit' => Unharmed'
    <3> SUFFICES ASSUME ~ hit' PROVE Unharmed'
      OBVIOUS
    <3>1. Len(frame') = 0 /\ Len(line') = n + 8
      BY <1>4, <1>8, <1>17, <1>18
    <3>2. \A k \in 1 .. Len(line') : line'[k] = E[0 + k]
      BY <1>2, <1>17, <1>18
    <3> QED
      BY <1>2, <1>7, <3>1, <3>2 DEF Unharmed, E, n
  <2>3. hits' = 0 => Len(delivered') + 1 = Len(sent')
    BY <1>4, <1>7, <2>1 DEF LineInv, LineTypes
  <2> QED
    BY <1>4, <2>1, <2>2, <2>3 DEF ToolInStep
<1>15. DeviceInStep'
  <2> SUFFICES ASSUME receiver = "device", hits = 0 PROVE DeviceInStep'
    BY <1>4 DEF DeviceInStep
  <2>1. p.state = "BL_FRAME_WAIT_SOF" /\ Len(delivered) = Len(sent)
    BY <1>5 DEF LineInv, DeviceInStep
  <2>4. Len(l) = 0
    <3>1. Len(line) = 0
      BY <1>5
    <3> QED
      BY <1>6, <3>1
  <2>2. line' # <<>>
    BY <1>2, <1>16, <1>18, <2>4, NonEmpty
  <2>3. Parsed(0, m)'
    <3>1. OnLine(0, m)'
      BY <1>2, <1>18, <2>4 DEF OnLine, E, n
    <3>2. Place(0, Len(m.payload))'
      BY <1>2, <1>4, <2>1 DEF Place, n
    <3>3. Held(0, m)'
      BY <1>2 DEF Held, n
    <3> QED
      BY <3>1, <3>2, <3>3 DEF Parsed
  <2> QED
    BY <1>1, <1>4, <1>7, <2>1, <2>2, <2>3 DEF DeviceInStep
<1> QED
  BY <1>9, <1>10, <1>12, <1>13, <1>14, <1>15 DEF LineInv

\* A call of sim_feed begins.
LEMMA CallKeeps == LineInv /\ Call => LineInv'
<1> SUFFICES ASSUME LineInv, Call PROVE LineInv'
  OBVIOUS
<1>1. UNCHANGED <<receiver, p, status, line, waiting, frame, sent, delivered, hits, hit, missed>>
  BY DEF Call, tool
<1>2. receiver = "device" /\ call' \in 0 .. Len(line)
  <2>1. Len(line) \in Nat \ {0}
    BY Rest DEF Call, LineInv, LineTypes
  <2> QED
    BY <2>1 DEF Call
<1>3. LineTypes'
  BY <1>1, <1>2 DEF LineInv, LineTypes
<1>4. ParserInv'
  BY <1>1 DEF LineInv, ParserInv
<1>5. DeliveredInv'
  BY <1>1 DEF LineInv, DeliveredInv
<1>6. ReaderInv'
  BY <1>1, <1>2 DEF LineInv, ReaderInv, Wanted, Length
<1>7. ToolInStep'
  BY <1>1, <1>2 DEF ToolInStep
<1>8. DeviceInStep'
  BY <1>1 DEF LineInv, DeviceInStep, Parsed, OnLine, Place, Held, Last
<1> QED
  BY <1>3, <1>4, <1>5, <1>6, <1>7, <1>8 DEF LineInv

\* A frame that may be delivered with the byte at the head of the line.
MayDeliver(m) ==
    \A t \in Seq(Byte), d \in Nat \ {0} :
        (\A i \in 1 .. Len(t) : i + d \in 1 .. Len(line) /\ t[i] = line[i + d])
        => Owned(t, Append(delivered, m), sent)

\* The end of a checksum at the head of the line is that of such a frame.
LEMMA HeadMark ==
    ASSUME LineInv, line # <<>>, NEW x, Head(line).sum = <<4, x>>
    PROVE  \E m \in Message : x = Body(m) /\ MayDeliver(m)
<1>1. /\ line \in Seq(Byte) /\ sent \in Seq(Message) /\ delivered \in Seq(Message)
      /\ Owned(line, delivered, sent)
  BY DEF LineInv, LineTypes, DeliveredInv
<1>2. line[1].sum = <<4, x>>
  BY <1>1, Rest
<1>3. Fourth(line[1])
  BY <1>2, MarkFacts DEF Fourth
<1>4. PICK o \in 1 .. Len(sent) : line[1].sum = Mark(4, sent[o]) /\ MayDeliver(sent[o])
  BY <1>1, <1>3, DeliversNext DEF MayDeliver
<1>5. x = Body(sent[o])
  BY <1>2, <1>4, MarkFacts DEF Mark
<1>6. sent[o] \in Message
  BY <1>1
<1> QED
  BY <1>4, <1>5, <1>6

\* A byte reaches the device's parser.
LEMMA FeedKeeps == LineInv /\ Feed => LineInv'
<1> SUFFICES ASSUME LineInv, Feed PROVE LineInv'
  OBVIOUS
<1> DEFINE b == Head(line)
<1>1. /\ line \in Seq(Byte) /\ sent \in Seq(Message) /\ delivered \in Seq(Message)
      /\ call \in 1 .. Len(line) /\ p \in Parser /\ missed \in Nat
  BY DEF Feed, LineInv, LineTypes
<1>2. /\ line # <<>> /\ Len(line) \in Nat \ {0} /\ b \in Byte /\ b = line[1]
      /\ Tail(line) \in Seq(Byte) /\ Len(Tail(line)) = Len(line) - 1
      /\ \A k \in 1 .. Len(line) - 1 : Tail(line)[k] = line[k + 1]
  <2>1. line # <<>>
    BY <1>1
  <2> QED
    BY <1>1, <2>1, Rest
<1>3. /\ call \in Nat \ {0} /\ call \in Int /\ Len(line) \in Nat /\ call <= Len(line)
      /\ Owned(line, delivered, sent)
  BY <1>1, <1>2 DEF LineInv, DeliveredInv
<1>4. receiver = "device" /\ ~ waiting
  BY <1>1 DEF LineInv, LineTypes, ReaderInv
<1>5. /\ receiver' = receiver /\ waiting' = waiting /\ frame' = frame
      /\ sent' = sent /\ hits' = hits /\ hit' = hit /\ missed' \in Nat
      /\ bl_frame_feed(b)
  BY <1>1 DEF Feed, tool
<1>6. /\ p' \in Parser /\ status' \in Status /\ ParserInv'
      /\ status' = "BL_FRAME_COMPLETE" =>
            /\ p.state = "BL_FRAME_CRC" /\ p.byte_count = 3
            /\ b.sum = <<4, p.running_crc>> /\ p'.state = "BL_FRAME_WAIT_SOF"
            /\ p'.cmd = p.cmd /\ p'.len = p.len /\ p'.payload = p.payload
  <2>1. ParserInv
    BY DEF LineInv
  <2> HIDE DEF b
  <2> QED
    BY <1>1, <1>2, <1>5, <2>1, ParserKeeps
<1>7. ToolInStep'
  BY <1>4, <1>5 DEF ToolInStep
<1>8. ReaderInv'
  BY <1>4, <1>5 DEF LineInv, ReaderInv, Wanted, Length
<1>9. CASE /\ status' = "BL_FRAME_COMPLETE"
           /\ delivered' = Append(delivered, Frame)
           /\ line' = SubSeq(line, call + 1, Len(line))
           /\ call' = 0
  <2>1. PICK m \in Message : p.running_crc = Body(m) /\ MayDeliver(m)
    BY <1>2, <1>6, <1>9, HeadMark
  <2>2. Frame = m
    <3>1. Frame = [cmd |-> p.cmd, payload |-> SubSeq(p.payload, 1, p.len)]
      BY <1>6, <1>9 DEF Frame
    <3> QED
      BY <1>1, <1>6, <1>9, <2>1, <3>1, FrameIs DEF LineInv
  <2>3. /\ line' \in Seq(Byte) /\ Len(line') = Len(line) - call
        /\ \A k \in 1 .. Len(line') : k + call \in 1 .. Len(line) /\ line'[k] = line[k + call]
    <3> DEFINE i == call + 1
               j == Len(line)
    <3>1. i \in Nat /\ j \in Nat /\ i >= 1 /\ i <= j + 1 /\ j <= Len(line)
      BY <1>1, <1>2
    <3>2. /\ line' \in Seq(Byte) /\ Len(line') = j + 1 - i
          /\ \A k \in 1 .. j + 1 - i : line'[k] = line[i + k - 1]
      BY <1>1, <1>9, <3>1, Part
    <3>3. Len(line') = Len(line) - call
      <4>1. Len(line') = j + 1 - i
        BY <3>2
      <4> QED
        BY <1>3, <4>1
    <3>4. ASSUME NEW k \in 1 .. Len(line')
          PROVE  k + call \in 1 .. Len(line) /\ line'[k] = line[k + call]
      <4>1. k \in 1 .. j + 1 - i /\ i + k - 1 = k + call
        BY <1>1, <1>2, <3>2
      <4> QED
        BY <1>1, <1>2, <3>2, <3>3, <4>1
    <3> QED
      BY <3>2, <3>3, <3>4
  <2>6. delivered' = Append(delivered, m) /\ delivered' \in Seq(Message)
        /\ Len(delivered') = Len(delivered) + 1
    BY <1>1, <1>9, <2>1, <2>2, Extended
  <2>7. DeliveredInv'
    BY <1>3, <1>5, <2>1, <2>3, <2>6 DEF MayDeliver, DeliveredInv
  <2>8. LineTypes'
    <3>1. call' \in 0 .. Len(line')
      BY <1>3, <1>9, <2>3
    <3> QED
      BY <1>5, <1>6, <2>3, <2>6, <3>1 DEF LineInv, LineTypes
  <2>9. DeviceInStep'
    <3> SUFFICES ASSUME hits = 0 PROVE DeviceInStep'
      BY <1>5 DEF DeviceInStep
    <3>1. Len(delivered) + 1 = Len(sent)
      BY <1>2, <1>4 DEF LineInv, DeviceInStep
    <3>2. PICK c \in Nat : Parsed(c, Last)
      BY <1>2, <1>4 DEF LineInv, DeviceInStep
    <3> DEFINE n == Len(Last.payload)
    <3>3. n \in Nat
      <4>1. PICK z \in Message : z = Last
        BY <1>2, <1>4 DEF LineInv, DeviceInStep
      <4> QED
        BY <4>1, BodyAt
    <3>4. c + Len(line) = n + 8 /\ Place(c, n)
      BY <3>2 DEF Parsed, OnLine
    <3> HIDE DEF n
    <3>5. c = n + 7
      <4>1. p.state = "BL_FRAME_CRC" /\ p.byte_count = 3
        BY <1>6, <1>9
      <4>2. ~ (c \in 0 .. n + 3)
        BY <3>3, <3>4, <4>1 DEF Place
      <4>3. p.byte_count = c - n - 4
        BY <3>3, <3>4, <4>2 DEF Place
      <4> QED
        BY <3>3, <4>1, <4>3
    <3>6. Len(line') = 0
      <4>1. (n + 7) + Len(line) = n + 8 /\ Len(line) \in Nat
        BY <1>3, <3>4, <3>5
      <4>2. \A x \in Nat : (n + 7) + x = n + 8 => x = 1
        BY <3>3
      <4>3. Len(line) = 1
        BY <4>1, <4>2
      <4> QED
        BY <1>3, <2>3, <4>3
    <3>7. line' = <<>>
      BY <2>3, <3>6, NonEmpty
    <3> QED
      BY <1>5, <1>6, <1>9, <2>6, <3>1, <3>7 DEF DeviceInStep
  <2> QED
    BY <1>6, <1>7, <1>8, <2>7, <2>8, <2>9 DEF LineInv
<1>10. CASE /\ status' # "BL_FRAME_COMPLETE"
           /\ delivered' = delivered
           /\ line' = Tail(line)
           /\ call' = call - 1
  <2>1. /\ line' \in Seq(Byte) /\ Len(line') = Len(line) - 1
        /\ \A k \in 1 .. Len(line') : k + 1 \in 1 .. Len(line) /\ line'[k] = line[k + 1]
    BY <1>2, <1>10
  <2>3. DeliveredInv'
    <3>1. \A k \in 1 .. Len(line') :
             \/ line'[k].sum = <<>>
             \/ k + 1 \in 1 .. Len(line) /\ line'[k] = line[k + 1]
      BY <2>1
    <3>2. 1 \in Int
      OBVIOUS
    <3>3. Owned(line', delivered, sent)
      BY <1>1, <1>3, <2>1, <3>1, <3>2, Thinned
    <3> QED
      BY <1>5, <1>10, <3>3 DEF DeliveredInv
  <2>4. LineTypes'
    <3>1. call' \in 0 .. Len(line')
      BY <1>1, <1>2, <1>10, <2>1
    <3> QED
      BY <1>5, <1>6, <1>10, <2>1, <3>1 DEF LineInv, LineTypes
  <2>5. DeviceInStep'
    <3> SUFFICES ASSUME hits = 0 PROVE DeviceInStep'
      BY <1>5 DEF DeviceInStep
    <3>1. sent # <<>> /\ Len(delivered) + 1 = Len(sent)
      BY <1>2, <1>4 DEF LineInv, DeviceInStep
    <3>2. PICK c \in Nat, m \in Message : m = Last /\ Parsed(c, m)
      BY <1>2, <1>4 DEF LineInv, DeviceInStep
    <3>3. line' # <<>> /\ Parsed(c + 1, m)'
      BY <1>1, <1>2, <1>5, <1>6, <1>10, <3>2, ParsedStep DEF LineInv
    <3>4. m = Last' /\ c + 1 \in Nat
      BY <1>5, <3>2 DEF Last
    <3> QED
      BY <1>5, <1>10, <3>1, <3>3, <3>4 DEF DeviceInStep
  <2> QED
    BY <1>6, <1>7, <1>8, <2>3, <2>4, <2>5 DEF LineInv
<1> QED
  BY <1>9, <1>10 DEF Feed

\* A length is a number.
LEMMA LengthIsNat ==
    ASSUME NEW x \in Byte, NEW y \in Byte
    PROVE  x.value + ByteMod * y.value \in Nat
<1>1. \A v, w \in Value : v + ByteMod * w \in Nat
  <2> SUFFICES ASSUME NEW v \in Value, NEW w \in Value PROVE v + ByteMod * w \in Nat
    OBVIOUS
  <2>1. v \in Nat /\ w \in Nat
    BY Numbers
  <2>2. ByteMod * w \in Nat
    BY <2>1, Numbers, SMT
  <2> QED
    BY <2>1, <2>2
<1> QED
  BY <1>1, BytesAreTyped

\* A frame that decodes is one that may be delivered.
LEMMA DecodedIs ==
    ASSUME LineInv, line # <<>>, NEW f, f = Append(frame, Head(line)),
           Len(f) = Wanted(f), decodes(f)
    PROVE  Decoded(f) \in Message /\ MayDeliver(Decoded(f))
<1> DEFINE n == Length(f)
           b == Head(line)
           B == SubSeq(f, 2, n + 4)
           C == SubSeq(f, n + 5, n + 8)
           q == SubSeq(f, 5, n + 4)
<1>1. line \in Seq(Byte) /\ frame \in Seq(Byte)
  BY DEF LineInv, LineTypes
<1>2. b \in Byte
  BY <1>1, Rest
<1>3. /\ f \in Seq(Byte) /\ Len(f) = Len(frame) + 1 /\ f[Len(frame) + 1] = b
      /\ Len(frame) \in Nat
  BY <1>1, <1>2, Extended
<1>4. Len(f) >= 4 /\ Len(f) = n + 8 /\ n \in Nat /\ f[n + 8] = b
  <2>1. Len(f) >= 4 /\ Len(f) = n + 8
    BY <1>3 DEF Wanted
  <2>2. f[3] \in Byte /\ f[4] \in Byte
    BY <1>3, <2>1
  <2>3. n \in Nat
    BY <2>2, LengthIsNat DEF Length
  <2> HIDE DEF n
  <2>4. Len(frame) + 1 = n + 8
    BY <1>3, <2>1
  <2> QED
    BY <1>3, <2>1, <2>3, <2>4
<1> HIDE DEF n, b
<1>5. B \in Seq(Byte) /\ Len(B) = n + 3 /\ \A k \in 1 .. n + 3 : B[k] = f[k + 1]
  <2> DEFINE j == n + 4
  <2>1. j \in Nat /\ 2 \in Nat /\ 2 >= 1 /\ 2 <= j + 1 /\ j <= Len(f)
    BY <1>4
  <2>2. /\ SubSeq(f, 2, j) \in Seq(Byte) /\ Len(SubSeq(f, 2, j)) = j + 1 - 2
        /\ \A k \in 1 .. j + 1 - 2 : SubSeq(f, 2, j)[k] = f[2 + k - 1]
    <3> HIDE DEF j
    <3> QED
      BY <1>3, <2>1, Part
  <2> HIDE DEF B
  <2>3. B = SubSeq(f, 2, j)
    BY DEF B
  <2>4. j + 1 - 2 = n + 3
    BY <1>4
  <2>5. ASSUME NEW k \in 1 .. n + 3 PROVE B[k] = f[k + 1]
    <3>1. 2 + k - 1 = k + 1
      BY <1>4
    <3> QED
      BY <2>2, <2>3, <2>4, <3>1
  <2> QED
    BY <2>2, <2>3, <2>4, <2>5
<1>6. C[4] = b
  <2> DEFINE i == n + 5
             j == n + 8
  <2>1. i \in Nat /\ j \in Nat /\ i >= 1 /\ i <= j + 1 /\ j <= Len(f)
    BY <1>4
  <2>2. \A k \in 1 .. j + 1 - i : SubSeq(f, i, j)[k] = f[i + k - 1]
    <3> HIDE DEF i, j
    <3> QED
      BY <1>3, <2>1, Part
  <2>3. 4 \in 1 .. j + 1 - i /\ i + 4 - 1 = n + 8
    BY <1>4
  <2>4. SubSeq(f, i, j)[4] = f[n + 8]
    <3> HIDE DEF i, j
    <3> QED
      BY <2>2, <2>3
  <2> QED
    BY <1>4, <2>4
<1>7. b.sum = <<4, B>>
  <2>1. C = Crc(B)
    BY DEF decodes, n
  <2>2. Crc(B)[4].sum = <<4, B>>
    <3> HIDE DEF B
    <3> QED
      BY DEF Crc
  <2> QED
    BY <1>6, <2>1, <2>2
<1> HIDE DEF B, C
<1>8. PICK m \in Message : B = Body(m) /\ MayDeliver(m)
  BY <1>7, HeadMark DEF b
<1> DEFINE z == Len(m.payload)
<1>9. /\ z \in Nat /\ m.payload \in Seq(PlainByte)
      /\ Len(B) = z + 3 /\ B[1] = m.cmd
      /\ \A k \in 1 .. z : B[k + 3] = m.payload[k]
  <2>1. /\ z \in Nat /\ m.payload \in Seq(PlainByte)
        /\ Len(Body(m)) = z + 3 /\ Body(m)[1] = m.cmd
        /\ \A k \in 1 .. z : Body(m)[k + 3] = m.payload[k]
    BY <1>8, BodyAt
  <2> QED
    BY <1>8, <2>1
<1> HIDE DEF z
<1>10. z = n
  BY <1>4, <1>5, <1>9
<1>11. q \in Seq(Byte) /\ Len(q) = n /\ \A k \in 1 .. n : q[k] = f[k + 4]
  <2> DEFINE j == n + 4
  <2>1. j \in Nat /\ 5 \in Nat /\ 5 >= 1 /\ 5 <= j + 1 /\ j <= Len(f)
    BY <1>4
  <2>2. /\ SubSeq(f, 5, j) \in Seq(Byte) /\ Len(SubSeq(f, 5, j)) = j + 1 - 5
        /\ \A k \in 1 .. j + 1 - 5 : SubSeq(f, 5, j)[k] = f[5 + k - 1]
    <3> HIDE DEF j
    <3> QED
      BY <1>3, <2>1, Part
  <2> HIDE DEF q
  <2>3. q = SubSeq(f, 5, j)
    BY DEF q
  <2>4. j + 1 - 5 = n
    BY <1>4
  <2>5. ASSUME NEW k \in 1 .. n PROVE q[k] = f[k + 4]
    <3>1. 5 + k - 1 = k + 4
      BY <1>4
    <3> QED
      BY <2>2, <2>3, <2>4, <3>1
  <2> QED
    BY <2>2, <2>3, <2>4, <2>5
<1> HIDE DEF q
<1>12. q = m.payload
  <2>1. ASSUME NEW k \in 1 .. n PROVE q[k] = m.payload[k]
    <3>1. k + 3 \in 1 .. n + 3 /\ (k + 3) + 1 = k + 4
      BY <1>4
    <3>2. B[k + 3] = f[k + 4]
      BY <1>5, <3>1
    <3> QED
      BY <1>9, <1>10, <1>11, <3>2
  <2> QED
    BY <1>9, <1>10, <1>11, <2>1, SameSeq DEF z
<1>13. f[2] = m.cmd
  <2>1. 1 \in 1 .. n + 3 /\ 1 + 1 = 2
    BY <1>4
  <2> QED
    BY <1>5, <1>9, <2>1
<1>14. Decoded(f) = [cmd |-> f[2], payload |-> q]
  BY DEF Decoded, q, n
<1>15. Decoded(f) = m
  BY <1>12, <1>13, <1>14 DEF Message
<1> QED
  BY <1>8, <1>15

\* The next byte of an unharmed response: the reader accepts it.
LEMMA UnharmedStep ==
    ASSUME LineInv, waiting, ~ hit, line # <<>>, NEW f, f = Append(frame, Head(line))
    PROVE  /\ f[1].value = BL_SOF /\ ~ over_limit(f)
           /\ Len(f) = Wanted(f) =>
                 decodes(f) /\ Len(Tail(line)) = 0 /\ Decoded(f).cmd = Last.cmd
           /\ Len(f) + Len(Tail(line)) = Len(Last.payload) + 8
           /\ \A k \in 1 .. Len(f) : f[k] = Encoded(Last)[k]
           /\ \A k \in 1 .. Len(Tail(line)) : Tail(line)[k] = Encoded(Last)[Len(f) + k]
<1> DEFINE m == Last
           n == Len(m.payload)
           E == Encoded(m)
           b == Head(line)
           F == Len(frame)
<1>1. line \in Seq(Byte) /\ frame \in Seq(Byte) /\ sent \in Seq(Message) /\ F \in Nat
  BY DEF LineInv, LineTypes
<1>2. /\ Len(line) \in Nat \ {0} /\ b = line[1] /\ b \in Byte
      /\ Len(Tail(line)) = Len(line) - 1
      /\ \A k \in 1 .. Len(line) - 1 : Tail(line)[k] = line[k + 1]
  BY <1>1, Rest
<1>3. /\ f \in Seq(Byte) /\ Len(f) = F + 1 /\ f[F + 1] = b
      /\ \A k \in 1 .. F : f[k] = frame[k]
  BY <1>1, <1>2, Extended
<1>4. /\ sent # <<>> /\ F + Len(line) = n + 8
      /\ \A k \in 1 .. F : frame[k] = E[k]
      /\ \A k \in 1 .. Len(line) : line[k] = E[F + k]
  BY DEF LineInv, ReaderInv, ToolInStep, Unharmed
<1>5. m \in Message
  <2>1. Len(sent) \in 1 .. Len(sent)
    BY <1>1, <1>4, Rest
  <2> QED
    BY <1>1, <2>1 DEF Last
<1>6. n \in Nat /\ n <= BL_MAX_PAYLOAD
  <2>1. n \in 0 .. BL_MAX_PAYLOAD
    BY <1>5, BodyAt
  <2> HIDE DEF n
  <2> QED
    BY <2>1, Numbers
<1>7. /\ E[1] = Plain(BL_SOF) /\ E[3] = Plain(n % ByteMod) /\ E[4] = Plain(n \div ByteMod)
      /\ \A k \in 1 .. n + 3 : E[k + 1] = Body(m)[k]
      /\ \A k \in 1 .. 4 : E[n + 4 + k] = Crc(Body(m))[k]
  BY <1>5, EncodedAt
<1> DEFINE L == Len(line)
           T == Len(Tail(line))
<1> HIDE DEF m, n, E, b, F
<1>8. L \in Nat \ {0} /\ T = L - 1 /\ F \in Nat /\ F + L = n + 8 /\ Len(f) = F + 1
  BY <1>1, <1>2, <1>3, <1>4
<1> HIDE DEF L, T
<1>9. \A k \in 1 .. Len(f) : f[k] = E[k]
  <2> SUFFICES ASSUME NEW k \in 1 .. Len(f) PROVE f[k] = E[k]
    OBVIOUS
  <2>1. CASE k \in 1 .. F
    BY <1>3, <1>4, <2>1
  <2>2. CASE k = F + 1
    BY <1>2, <1>3, <1>4, <2>2
  <2> QED
    BY <1>1, <1>3, <2>1, <2>2
<1>10. \A k \in 1 .. Len(Tail(line)) : Tail(line)[k] = E[Len(f) + k]
  <2> SUFFICES ASSUME NEW k \in 1 .. Len(Tail(line)) PROVE Tail(line)[k] = E[Len(f) + k]
    OBVIOUS
  <2>1. k \in 1 .. Len(line) - 1 /\ k + 1 \in 1 .. Len(line) /\ F + (k + 1) = Len(f) + k
    <3>1. k \in 1 .. T
      BY DEF T
    <3>2. k \in 1 .. L - 1 /\ k + 1 \in 1 .. L /\ F + (k + 1) = (F + 1) + k
      BY <1>8, <3>1
    <3> QED
      BY <1>8, <3>2 DEF L
  <2> QED
    BY <1>2, <1>4, <2>1
<1>11. Len(f) + Len(Tail(line)) = n + 8
  <2>1. (F + 1) + T = n + 8
    BY <1>6, <1>8
  <2> QED
    BY <1>8, <2>1 DEF T
<1>12. f[1].value = BL_SOF
  <2>1. 1 \in 1 .. Len(f)
    BY <1>1, <1>3
  <2>2. f[1] = Plain(BL_SOF)
    BY <1>7, <1>9, <2>1
  <2> QED
    BY <2>2 DEF Plain
<1>13. Len(f) >= 4 => Length(f) = n
  <2> SUFFICES ASSUME Len(f) >= 4 PROVE Length(f) = n
    OBVIOUS
  <2>1. 3 \in 1 .. Len(f) /\ 4 \in 1 .. Len(f)
    BY <1>1, <1>3
  <2>2. f[3] = Plain(n % ByteMod) /\ f[4] = Plain(n \div ByteMod)
    BY <1>7, <1>9, <2>1
  <2>3. f[3].value = n % ByteMod /\ f[4].value = n \div ByteMod
    BY <2>2 DEF Plain
  <2> QED
    BY <1>6, <2>3, TwoBytes DEF Length
<1>14. ~ over_limit(f)
  BY <1>6, <1>13, Numbers DEF over_limit
<1>15. ASSUME Len(f) = Wanted(f) PROVE decodes(f)
  <2> DEFINE B == SubSeq(f, 2, n + 4)
             C == SubSeq(f, n + 5, n + 8)
  <2>1. Len(f) = n + 8 /\ Length(f) = n
    <3>1. Len(f) >= 4
      BY <1>1, <1>3, <1>15 DEF Wanted
    <3> QED
      BY <1>1, <1>3, <1>13, <1>15, <3>1 DEF Wanted
  <2>2. B = Body(m)
    <3> DEFINE j == n + 4
    <3>1. j \in Nat /\ 2 \in Nat /\ 2 >= 1 /\ 2 <= j + 1 /\ j <= Len(f)
      BY <1>6, <2>1
    <3>2. /\ SubSeq(f, 2, j) \in Seq(Byte) /\ Len(SubSeq(f, 2, j)) = j + 1 - 2
          /\ \A k \in 1 .. j + 1 - 2 : SubSeq(f, 2, j)[k] = f[2 + k - 1]
      <4> HIDE DEF j
      <4> QED
        BY <1>3, <3>1, Part
    <3>3. B = SubSeq(f, 2, j) /\ j + 1 - 2 = n + 3
      BY <1>6
    <3> HIDE DEF B, j
    <3>4. B \in Seq(Byte) /\ Len(B) = n + 3
      BY <3>2, <3>3
    <3>5. Body(m) \in Seq(PlainByte) /\ Len(Body(m)) = n + 3
      BY <1>5, BodyAt DEF n
    <3>6. ASSUME NEW k \in 1 .. n + 3 PROVE B[k] = Body(m)[k]
      <4>1. 2 + k - 1 = k + 1 /\ k + 1 \in 1 .. Len(f)
        BY <1>6, <2>1
      <4>2. B[k] = f[k + 1]
        BY <3>2, <3>3, <4>1
      <4> QED
        BY <1>7, <1>9, <4>1, <4>2
    <3> QED
      BY <3>4, <3>5, <3>6, SameSeq
  <2> DEFINE D == Crc(Body(m))
  <2>3. D \in Seq(Byte) /\ Len(D) = 4
    BY <1>5, CrcAt
  <2>4. \A k \in 1 .. 4 : E[n + 4 + k] = D[k]
    BY <1>7
  <2> HIDE DEF B, D
  <2>5. C = D
    <3> DEFINE i == n + 5
               j == n + 8
    <3>1. i \in Nat /\ j \in Nat /\ i >= 1 /\ i <= j + 1 /\ j <= Len(f)
      BY <1>6, <2>1
    <3>2. /\ SubSeq(f, i, j) \in Seq(Byte) /\ Len(SubSeq(f, i, j)) = j + 1 - i
          /\ \A k \in 1 .. j + 1 - i : SubSeq(f, i, j)[k] = f[i + k - 1]
      <4> HIDE DEF i, j
      <4> QED
        BY <1>3, <3>1, Part
    <3>3. C = SubSeq(f, i, j) /\ j + 1 - i = 4
      BY <1>6
    <3>4. \A k \in 1 .. 4 : i + k - 1 = n + 4 + k /\ n + 4 + k \in 1 .. Len(f)
      BY <1>6, <2>1
    <3> HIDE DEF C, i, j
    <3>5. C \in Seq(Byte) /\ Len(C) = 4
      BY <3>2, <3>3
    <3>6. ASSUME NEW k \in 1 .. 4 PROVE C[k] = D[k]
      <4>1. C[k] = f[n + 4 + k]
        BY <3>2, <3>3, <3>4
      <4> QED
        BY <1>9, <2>4, <3>4, <4>1
    <3> QED
      BY <2>3, <3>5, <3>6, SameSeq
  <2> QED
    BY <2>1, <2>2, <2>5 DEF decodes, B, C, D
<1>16. ASSUME Len(f) = Wanted(f)
       PROVE  Len(Tail(line)) = 0 /\ Decoded(f).cmd = m.cmd
  <2>1. Len(f) >= 4 /\ Len(f) = n + 8
    <3>1. Len(f) >= 4
      BY <1>1, <1>3, <1>16 DEF Wanted
    <3> QED
      BY <1>1, <1>3, <1>13, <1>16, <3>1 DEF Wanted
  <2>2. (n + 8) + T = n + 8 /\ T \in Nat
    <3>1. T \in Nat
      BY <1>8
    <3> QED
      BY <1>11, <2>1, <3>1 DEF T
  <2>3. T = 0
    BY <1>6, <2>2
  <2>4. 2 \in 1 .. Len(f) /\ 1 \in 1 .. n + 3 /\ 1 + 1 = 2
    BY <1>6, <2>1
  <2>5. f[2] = Body(m)[1]
    BY <1>7, <1>9, <2>4
  <2>6. Body(m)[1] = m.cmd
    BY <1>5, BodyAt
  <2>7. Decoded(f).cmd = f[2]
    BY DEF Decoded
  <2> QED
    BY <2>3, <2>5, <2>6, <2>7 DEF T
<1> QED
  BY <1>9, <1>10, <1>11, <1>12, <1>14, <1>15, <1>16 DEF E, m, n

\* An attempt ends without a response: never on an unharmed one.
LEMMA FailsKeeps ==
    ASSUME LineInv, waiting, hit, AttemptFails,
           UNCHANGED <<receiver, device, sent, hits, hit>>, line' \in Seq(Byte),
           Owned(line', delivered, sent)
    PROVE  LineInv'
<1>1. /\ waiting' = FALSE /\ frame' = <<>> /\ missed' = missed /\ delivered' = delivered
      /\ receiver' = receiver /\ p' = p /\ status' = status /\ call' = call
      /\ sent' = sent /\ hits' = hits /\ hit' = hit
  BY DEF AttemptFails, device
<1>2. receiver = "tool" /\ call = 0 /\ hits # 0
  BY DEF LineInv, ReaderInv
<1>3. LineTypes'
  <2>1. frame' \in Seq(Byte)
    <3>1. frame' = <<>>
      BY <1>1
    <3> QED
      BY <3>1
  <2>2. waiting' \in BOOLEAN
    BY <1>1
  <2>3. call' \in 0 .. Len(line')
    BY <1>1, <1>2, NonEmpty
  <2> QED
    BY <1>1, <2>1, <2>2, <2>3 DEF LineInv, LineTypes
<1>4. ParserInv'
  BY <1>1 DEF LineInv, ParserInv
<1>5. DeliveredInv'
  BY <1>1 DEF DeliveredInv
<1>6. ReaderInv'
  <2>1. Len(frame') = 0 /\ Wanted(frame)' = 4
    BY <1>1 DEF Wanted
  <2> QED
    BY <1>1, <1>2, <2>1 DEF LineInv, ReaderInv
<1>7. ToolInStep'
  BY <1>1, <1>2 DEF LineInv, ToolInStep
<1>8. DeviceInStep'
  BY <1>1, <1>2 DEF DeviceInStep
<1> QED
  BY <1>3, <1>4, <1>5, <1>6, <1>7, <1>8 DEF LineInv

\* When nothing is under way, an unharmed response has been read whole, and
\* the reader no longer waits.
LEMMA FullyRead ==
    ASSUME LineInv, waiting, line = <<>>
    PROVE  hit
<1> SUFFICES ASSUME ~ hit PROVE FALSE
  OBVIOUS
<1> DEFINE m == Last
           n == Len(m.payload)
           F == Len(frame)
<1>1. /\ sent # <<>> /\ F + Len(line) = n + 8
      /\ \A k \in 1 .. F : frame[k] = Encoded(m)[k]
  BY DEF LineInv, ReaderInv, ToolInStep, Unharmed
<1>2. m \in Message
  <2>1. Len(sent) \in 1 .. Len(sent) /\ sent \in Seq(Message)
    BY <1>1, Rest DEF LineInv, LineTypes
  <2> QED
    BY <2>1 DEF Last
<1>3. n \in Nat /\ n <= BL_MAX_PAYLOAD
  <2>1. n \in 0 .. BL_MAX_PAYLOAD
    BY <1>2, BodyAt
  <2> HIDE DEF n
  <2> QED
    BY <2>1, Numbers
<1>4. Encoded(m)[3] = Plain(n % ByteMod) /\ Encoded(m)[4] = Plain(n \div ByteMod)
  BY <1>2, EncodedAt
<1> HIDE DEF m, n, F
<1>5. F = n + 8 /\ 3 \in 1 .. F /\ 4 \in 1 .. F
  <2>1. Len(line) = 0
    OBVIOUS
  <2>2. F \in Nat
    BY DEF LineInv, LineTypes, F
  <2> QED
    BY <1>1, <1>3, <2>1, <2>2
<1>6. frame[3].value = n % ByteMod /\ frame[4].value = n \div ByteMod
  <2>1. frame[3] = Plain(n % ByteMod) /\ frame[4] = Plain(n \div ByteMod)
    BY <1>1, <1>4, <1>5
  <2> QED
    BY <2>1 DEF Plain
<1>7. Length(frame) = n
  BY <1>3, <1>6, TwoBytes DEF Length
<1>8. F < Wanted(frame)
  BY DEF LineInv, ReaderInv, F
<1>9. Wanted(frame) = n + 8
  BY <1>3, <1>5, <1>7 DEF Wanted, F
<1> QED
  BY <1>3, <1>5, <1>8, <1>9

\* The reader runs out of time.
LEMMA TimeoutKeeps == LineInv /\ Timeout => LineInv'
<1> SUFFICES ASSUME LineInv, Timeout PROVE LineInv'
  OBVIOUS
<1>1. /\ waiting /\ line = <<>> /\ line' = line /\ AttemptFails
      /\ UNCHANGED <<receiver, device, sent, hits, hit>>
  BY DEF Timeout
<1>2. hit
  BY <1>1, FullyRead
<1>3. line' \in Seq(Byte) /\ Owned(line', delivered, sent)
  BY <1>1 DEF LineInv, LineTypes, DeliveredInv
<1> QED
  BY <1>1, <1>2, <1>3, FailsKeeps

\* The reader takes a byte from the line.
LEMMA ReadByteKeeps == LineInv /\ ReadByte => LineInv'
<1> SUFFICES ASSUME LineInv, ReadByte PROVE LineInv'
  OBVIOUS
<1> DEFINE f == Append(frame, Head(line))
<1>1. /\ waiting /\ line # <<>> /\ line' = Tail(line)
      /\ UNCHANGED <<receiver, device, sent, hits, hit>>
  BY DEF ReadByte
<1>2. /\ line \in Seq(Byte) /\ frame \in Seq(Byte) /\ sent \in Seq(Message)
      /\ delivered \in Seq(Message) /\ Owned(line, delivered, sent)
  BY DEF LineInv, LineTypes, DeliveredInv
<1>3. /\ Len(line) \in Nat \ {0} /\ Head(line) \in Byte
      /\ line' \in Seq(Byte) /\ Len(line') = Len(line) - 1
      /\ \A k \in 1 .. Len(line) - 1 : line'[k] = line[k + 1]
  BY <1>1, <1>2, Rest
<1>4. \A k \in 1 .. Len(line') : k + 1 \in 1 .. Len(line) /\ line'[k] = line[k + 1]
  BY <1>3
<1>5. Owned(line', delivered, sent)
  <2>1. \A k \in 1 .. Len(line') :
           \/ line'[k].sum = <<>>
           \/ k + 1 \in 1 .. Len(line) /\ line'[k] = line[k + 1]
    BY <1>4
  <2>2. 1 \in Int
    OBVIOUS
  <2> QED
    BY <1>2, <1>3, <2>1, <2>2, Thinned
<1>6. /\ receiver' = receiver /\ p' = p /\ status' = status /\ call' = call
      /\ sent' = sent /\ hits' = hits /\ hit' = hit
      /\ receiver = "tool" /\ call = 0 /\ call' \in 0 .. Len(line')
  <2>1. receiver = "tool" /\ call = 0
    BY <1>1 DEF LineInv, ReaderInv
  <2>2. Len(line') \in Nat
    BY <1>3
  <2> QED
    BY <1>1, <2>1, <2>2 DEF device
<1>7. ParserInv' /\ DeviceInStep'
  BY <1>6 DEF LineInv, ParserInv, DeviceInStep
<1>8. /\ f \in Seq(Byte) /\ Len(f) = Len(frame) + 1 /\ Len(frame) \in Nat
      /\ \A k \in 1 .. Len(frame) : f[k] = frame[k]
  BY <1>2, <1>3, Extended
<1>9. ~ hit => /\ f[1].value = BL_SOF /\ ~ over_limit(f)
               /\ Len(f) = Wanted(f) =>
                     decodes(f) /\ Len(line') = 0 /\ Decoded(f).cmd = Last.cmd
  BY <1>1, UnharmedStep
<1>10. ASSUME hit, AttemptFails PROVE LineInv'
  BY <1>1, <1>3, <1>5, <1>10, FailsKeeps
<1>11. CASE f[1].value # BL_SOF /\ UNCHANGED <<tool, delivered, missed>>
  <2>1. hit /\ waiting' = waiting /\ frame' = frame /\ delivered' = delivered /\ missed' = missed
    BY <1>9, <1>11 DEF tool, LineInv, LineTypes
  <2>2. LineTypes'
    BY <1>3, <1>6, <2>1 DEF LineInv, LineTypes
  <2>3. DeliveredInv'
    BY <1>5, <1>6, <2>1 DEF DeliveredInv
  <2>4. ReaderInv'
    BY <1>6, <2>1 DEF LineInv, ReaderInv, Wanted, Length
  <2>5. ToolInStep'
    BY <1>1, <1>6, <2>1 DEF LineInv, ToolInStep
  <2> QED
    BY <1>7, <2>2, <2>3, <2>4, <2>5 DEF LineInv
<1>12. CASE over_limit(f) /\ AttemptFails
  BY <1>9, <1>10, <1>12 DEF LineInv, LineTypes
<1>13. CASE /\ ~ over_limit(f) /\ Len(f) < Wanted(f)
            /\ frame' = f
            /\ UNCHANGED <<waiting, delivered, missed>>
  <2> HIDE DEF f
  <2>1. LineTypes'
    BY <1>3, <1>6, <1>8, <1>13 DEF LineInv, LineTypes
  <2>2. DeliveredInv'
    BY <1>5, <1>6, <1>13 DEF DeliveredInv
  <2>3. Len(f) >= 4 => Length(f) <= BL_MAX_PAYLOAD
    <3>1. CASE Len(f) = 4
      <4>1. 3 \in 1 .. Len(f) /\ 4 \in 1 .. Len(f)
        BY <3>1
      <4>2. f[3] \in Byte /\ f[4] \in Byte
        BY <1>8, <4>1
      <4>3. Length(f) \in Nat
        BY <4>2, LengthIsNat DEF Length
      <4> QED
        BY <1>13, <3>1, <4>3, Numbers DEF over_limit
    <3>2. CASE Len(f) > 4
      <4>1. Len(frame) >= 4 /\ 3 \in 1 .. Len(frame) /\ 4 \in 1 .. Len(frame)
        BY <1>8, <3>2
      <4>2. f[3] = frame[3] /\ f[4] = frame[4]
        BY <1>8, <4>1
      <4>3. Length(frame) <= BL_MAX_PAYLOAD
        BY <4>1 DEF LineInv, ReaderInv
      <4> QED
        BY <4>2, <4>3 DEF Length
    <3> QED
      BY <1>8, <3>1, <3>2
  <2>4. ReaderInv'
    <3>1. Wanted(frame)' = Wanted(f) /\ Length(frame)' = Length(f)
      BY <1>13 DEF Wanted, Length
    <3> QED
      BY <1>1, <1>6, <1>13, <2>3, <3>1 DEF LineInv, ReaderInv
  <2>5. ToolInStep'
    <3>1. ASSUME ~ hit PROVE Unharmed'
      <4>1. /\ Len(f) + Len(line') = Len(Last.payload) + 8
            /\ \A k \in 1 .. Len(f) : f[k] = Encoded(Last)[k]
            /\ \A k \in 1 .. Len(line') : line'[k] = Encoded(Last)[Len(f) + k]
        BY <1>1, <3>1, UnharmedStep DEF f
      <4>2. sent # <<>>
        BY <1>1, <3>1 DEF LineInv, ReaderInv, ToolInStep, Unharmed
      <4>3. Last' = Last
        BY <1>6 DEF Last
      <4> QED
        BY <1>6, <1>13, <4>1, <4>2, <4>3 DEF Unharmed
    <3> QED
      BY <1>1, <1>6, <1>13, <3>1 DEF LineInv, ToolInStep
  <2> QED
    BY <1>7, <2>1, <2>2, <2>4, <2>5 DEF LineInv
<1>14. CASE /\ Len(f) = Wanted(f)
            /\ decodes(f)
            /\ delivered' = Append(delivered, Decoded(f))
            /\ waiting' = (Decoded(f).cmd # sent[Len(sent)].cmd)
            /\ frame' = <<>>
            /\ UNCHANGED missed
  <2>1. Decoded(f) \in Message /\ MayDeliver(Decoded(f))
    BY <1>1, <1>14, DecodedIs
  <2>2. ~ hit => ~ waiting' /\ Len(line') = 0
    BY <1>9, <1>14 DEF Last
  <2> HIDE DEF f
  <2>3. delivered' \in Seq(Message) /\ Len(delivered') = Len(delivered) + 1
    BY <1>2, <1>14, <2>1, Extended
  <2>4. DeliveredInv'
    <3>1. 1 \in Nat \ {0}
      OBVIOUS
    <3> QED
      BY <1>3, <1>4, <1>6, <1>14, <2>1, <3>1 DEF MayDeliver, DeliveredInv
  <2>5. frame' \in Seq(Byte) /\ waiting' \in BOOLEAN /\ missed' = missed
    <3>1. frame' = <<>>
      BY <1>14
    <3>2. frame' \in Seq(Byte)
      BY <3>1
    <3> QED
      BY <1>14, <3>2
  <2>6. LineTypes'
    BY <1>3, <1>6, <2>3, <2>5 DEF LineInv, LineTypes
  <2>7. ReaderInv'
    <3>1. Len(frame') = 0 /\ Wanted(frame)' = 4
      BY <1>14 DEF Wanted
    <3> QED
      BY <1>6, <1>14, <3>1 DEF LineInv, ReaderInv
  <2>8. ToolInStep'
    <3>1. hits' = 0 => ~ waiting' /\ line' = <<>>
      BY <1>3, <1>6, <2>2, NonEmpty DEF LineInv, ReaderInv
    <3>2. hits' = 0 => Len(delivered') + 0 = Len(sent')
      BY <1>1, <1>2, <1>6, <2>3 DEF LineInv, ToolInStep
    <3>3. missed' = 0
      BY <1>6, <2>5 DEF LineInv, ToolInStep
    <3>4. waiting' => hit'
      BY <1>6, <2>2 DEF LineInv, LineTypes
    <3> QED
      BY <3>1, <3>2, <3>3, <3>4 DEF ToolInStep
  <2> QED
    BY <1>7, <2>4, <2>6, <2>7, <2>8 DEF LineInv
<1>15. CASE Len(f) = Wanted(f) /\ ~ decodes(f) /\ AttemptFails
  BY <1>9, <1>10, <1>15 DEF LineInv, LineTypes
<1> QED
  BY <1>11, <1>12, <1>13, <1>14, <1>15 DEF ReadByte

\* A byte on the line is changed, lost or added.
LEMMA FaultKeeps == LineInv /\ Fault => LineInv'
<1> SUFFICES ASSUME LineInv, Fault PROVE LineInv'
  OBVIOUS
<1>1. /\ line # <<>> /\ hits' = hits + 1 /\ hit' = TRUE
      /\ receiver' = receiver /\ p' = p /\ status' = status /\ call' = call
      /\ waiting' = waiting /\ frame' = frame /\ sent' = sent /\ delivered' = delivered
      /\ missed' = missed
  BY DEF Fault, device, tool
<1>2. call = 0 /\ hits \in Nat
  BY DEF Fault, LineInv, LineTypes, ReaderInv
<1>3. /\ line \in Seq(Byte) /\ sent \in Seq(Message) /\ delivered \in Seq(Message)
      /\ Owned(line, delivered, sent)
  BY DEF LineInv, LineTypes, DeliveredInv
<1> DEFINE T == Tail(line)
<1>4. /\ Len(line) \in Nat \ {0} /\ T \in Seq(Byte) /\ Len(T) = Len(line) - 1
      /\ \A k \in 1 .. Len(line) - 1 : T[k] = line[k + 1]
  BY <1>1, <1>3, Rest
<1>5. \E d \in Int : \A i \in 1 .. Len(line') :
         \/ line'[i].sum = <<>>
         \/ i + d \in 1 .. Len(line) /\ line'[i] = line[i + d]
  <2>1. CASE line' = Tail(line)
    <3>1. \A i \in 1 .. Len(line') : i + 1 \in 1 .. Len(line) /\ line'[i] = line[i + 1]
      BY <1>4, <2>1
    <3>2. \A i \in 1 .. Len(line') :
             \/ line'[i].sum = <<>>
             \/ i + 1 \in 1 .. Len(line) /\ line'[i] = line[i + 1]
      BY <3>1
    <3> WITNESS 1 \in Int
    <3> QED
      BY <3>2
  <2>2. ASSUME NEW v \in Noise, NEW s \in Seq(Byte), line' = Bytes(<<v>>) \o s
        PROVE  /\ line'[1].sum = <<>> /\ Len(line') = Len(s) + 1
               /\ \A i \in 1 .. Len(s) : line'[i + 1] = s[i]
    <3>1. line' = <<Plain(v)>> \o s
      BY <2>2 DEF Bytes
    <3>2. Plain(v) \in Byte
      BY LineAssumption DEF Plain, Byte
    <3> DEFINE x == Plain(v)
    <3>3. x.sum = <<>>
      BY DEF Plain
    <3> HIDE DEF x
    <3> QED
      BY <3>1, <3>2, <3>3 DEF x
  <2>3. ASSUME NEW v \in Noise, line' = Bytes(<<v>>) \o Tail(line)
        PROVE  \A i \in 1 .. Len(line') :
                  \/ line'[i].sum = <<>>
                  \/ i + 0 \in 1 .. Len(line) /\ line'[i] = line[i + 0]
    <3> SUFFICES ASSUME NEW i \in 1 .. Len(line'), i # 1
                 PROVE  i + 0 \in 1 .. Len(line) /\ line'[i] = line[i + 0]
      BY <1>4, <2>2, <2>3
    <3>1. Len(line') = Len(T) + 1 /\ \A k \in 1 .. Len(T) : line'[k + 1] = T[k]
      BY <1>4, <2>2, <2>3
    <3> DEFINE k == i - 1
    <3>2. k \in 1 .. Len(line) - 1 /\ i = k + 1 /\ k \in 1 .. Len(T) /\ i \in 1 .. Len(line)
      BY <1>4, <3>1
    <3> HIDE DEF k, T
    <3>3. line'[i] = line[i]
      BY <1>4, <3>1, <3>2
    <3> QED
      BY <3>2, <3>3
  <2>4. ASSUME NEW v \in Noise, line' = Bytes(<<v>>) \o line
        PROVE  \A i \in 1 .. Len(line') :
                  \/ line'[i].sum = <<>>
                  \/ i + (-1) \in 1 .. Len(line) /\ line'[i] = line[i + (-1)]
    <3> SUFFICES ASSUME NEW i \in 1 .. Len(line'), i # 1
                 PROVE  i + (-1) \in 1 .. Len(line) /\ line'[i] = line[i + (-1)]
      BY <1>3, <2>2, <2>4
    <3>1. Len(line') = Len(line) + 1 /\ \A k \in 1 .. Len(line) : line'[k + 1] = line[k]
      BY <1>3, <2>2, <2>4
    <3> DEFINE k == i + (-1)
    <3>2. k \in 1 .. Len(line) /\ i = k + 1
      BY <1>4, <3>1
    <3> HIDE DEF k
    <3>3. line'[i] = line[k]
      BY <3>1, <3>2
    <3> QED
      BY <3>2, <3>3 DEF k
  <2> QED
    <3>1. 0 \in Int /\ -1 \in Int
      OBVIOUS
    <3> QED
      BY <2>1, <2>3, <2>4, <3>1 DEF Fault
<1>6. line' \in Seq(Byte)
  <2>1. ASSUME NEW v \in Noise PROVE Bytes(<<v>>) \in Seq(Byte)
    <3>1. Plain(v) \in Byte
      BY LineAssumption DEF Plain, Byte
    <3> DEFINE x == Plain(v)
    <3>2. Bytes(<<v>>) = <<x>>
      BY DEF Bytes
    <3> HIDE DEF x
    <3>3. <<x>> \in Seq(Byte)
      BY <3>1 DEF x
    <3> QED
      BY <3>2, <3>3
  <2>2. ASSUME NEW v \in Noise, NEW s \in Seq(Byte) PROVE Bytes(<<v>>) \o s \in Seq(Byte)
    <3> DEFINE h == Bytes(<<v>>)
    <3>1. h \in Seq(Byte)
      BY <2>1
    <3> HIDE DEF h
    <3>2. h \o s \in Seq(Byte)
      BY <3>1
    <3> QED
      BY <3>2 DEF h
  <2> QED
    BY <1>3, <1>4, <2>2 DEF Fault
<1>7. Owned(line', delivered, sent)
  <2>1. PICK d \in Int : \A i \in 1 .. Len(line') :
           \/ line'[i].sum = <<>>
           \/ i + d \in 1 .. Len(line) /\ line'[i] = line[i + d]
    BY <1>5
  <2> QED
    BY <1>3, <1>6, <2>1, Thinned
<1>8. LineTypes'
  <2>1. call' \in 0 .. Len(line')
    BY <1>1, <1>2, <1>6, NonEmpty
  <2>2. hits' \in Nat /\ hit' \in BOOLEAN
    BY <1>1, <1>2
  <2> QED
    BY <1>1, <1>6, <2>1, <2>2 DEF LineInv, LineTypes
<1>9. ParserInv'
  BY <1>1 DEF LineInv, ParserInv
<1>10. DeliveredInv'
  BY <1>1, <1>7 DEF DeliveredInv
<1>11. ReaderInv'
  BY <1>1, <1>2 DEF LineInv, ReaderInv, Wanted, Length
<1>12. ToolInStep'
  BY <1>1, <1>2 DEF LineInv, ToolInStep
<1>13. DeviceInStep'
  BY <1>1, <1>2 DEF DeviceInStep
<1> QED
  BY <1>8, <1>9, <1>10, <1>11, <1>12, <1>13 DEF LineInv

-----------------------------------------------------------------------------
(* The theorems *)

\* The invariant holds of both receivers, whatever the line does.
THEOREM LineInvariant == Spec => []LineInv
<1>1. LineInv /\ [Next]_vars => LineInv'
  <2> SUFFICES ASSUME LineInv, [Next]_vars PROVE LineInv'
    OBVIOUS
  <2>1. CASE \E cmd \in Cmds, payload \in Payloads, arrived \in 0 .. Len(line) :
                Send(cmd, payload, arrived)
    BY <2>1, SendKeeps
  <2>2. CASE Call
    BY <2>2, CallKeeps
  <2>3. CASE Feed
    BY <2>3, FeedKeeps
  <2>4. CASE ReadByte
    BY <2>4, ReadByteKeeps
  <2>5. CASE Timeout
    BY <2>5, TimeoutKeeps
  <2>6. CASE Fault
    BY <2>6, FaultKeeps
  <2>7. CASE UNCHANGED vars
    <3>1. UNCHANGED <<receiver, p, status, line, call, waiting, frame, sent, delivered, hits, hit, missed>>
      BY <2>7 DEF vars, device, tool
    <3>2. LineTypes' /\ ParserInv'
      BY <3>1 DEF LineInv, LineTypes, ParserInv
    <3>3. DeliveredInv'
      BY <3>1 DEF LineInv, DeliveredInv
    <3>4. ReaderInv' /\ ToolInStep'
      BY <3>1 DEF LineInv, ReaderInv, ToolInStep, Unharmed, Wanted, Length, Last
    <3>5. DeviceInStep'
      BY <3>1 DEF LineInv, DeviceInStep, Parsed, OnLine, Place, Held, Last
    <3> QED
      BY <3>2, <3>3, <3>4, <3>5 DEF LineInv
  <2> QED
    BY <2>1, <2>2, <2>3, <2>4, <2>5, <2>6, <2>7 DEF Next
<1> QED
  BY InitInv, <1>1, PTL DEF Spec

\* The parser never stores behind its payload buffer and the reader never
\* reads more than a frame (bl_frame.c:81-88, 106-117, blflash.py:126-135).
THEOREM TypeCorrect == Spec => []TypeOK
<1>1. LineInv => TypeOK
  <2> SUFFICES ASSUME LineInv PROVE TypeOK
    OBVIOUS
  <2>1. p \in Parser /\ status \in Status /\ call \in 0 .. Len(line) /\ Len(frame) \in Nat
    BY DEF LineInv, LineTypes
  <2>2. ParserOK
    BY <2>1, Numbers DEF LineInv, ParserInv, ParserOK, Parser, State
  <2>3. Len(frame) < BL_MAX_PAYLOAD + 8
    <3>1. CASE Len(frame) < 4
      BY <2>1, <3>1, Numbers
    <3>2. CASE Len(frame) >= 4
      <4>1. Len(frame) < Length(frame) + 8 /\ Length(frame) <= BL_MAX_PAYLOAD
        BY <2>1, <3>2 DEF LineInv, ReaderInv, Wanted
      <4>2. frame[3] \in Byte /\ frame[4] \in Byte
        BY <3>2 DEF LineInv, LineTypes
      <4>3. Length(frame) \in Nat
        BY <4>2, LengthIsNat DEF Length
      <4> QED
        BY <2>1, <4>1, <4>3, Numbers
    <3> QED
      BY <2>1, <3>1, <3>2
  <2> QED
    BY <2>1, <2>2, <2>3 DEF TypeOK
<1> QED
  BY <1>1, LineInvariant, PTL

\* Both receivers deliver only what was sent, unchanged, in order and at most
\* once, whatever the line does to the bytes (bl_frame.c:136-141,
\* blproto.py:158-185).
THEOREM OnlySentIsDelivered == Spec => []DeliversSent
<1>1. LineInv => DeliversSent
  <2> SUFFICES ASSUME LineInv PROVE DeliversSent
    OBVIOUS
  <2>1. PICK at \in [1 .. Len(delivered) -> 1 .. Len(sent)] :
            /\ \A i \in 1 .. Len(delivered) : delivered[i] = sent[at[i]]
            /\ \A i, j \in 1 .. Len(delivered) : i < j => at[i] < at[j]
    BY DEF LineInv, DeliveredInv, Owned, OwnedBy
  <2>2. DOMAIN delivered = 1 .. Len(delivered)
    BY DEF LineInv, LineTypes
  <2> QED
    BY <2>1, <2>2 DEF DeliversSent
<1> QED
  BY <1>1, LineInvariant, PTL

\* A line that does not fail loses nothing, however its bytes are cut into
\* calls of sim_feed (bl_sim.c:73-92).
THEOREM NothingIsLost == Spec => []CleanLineLosesNothing
<1>1. LineInv => CleanLineLosesNothing
  <2> SUFFICES ASSUME LineInv, hits = 0, line = <<>> PROVE Len(delivered) = Len(sent)
    BY DEF CleanLineLosesNothing
  <2>1. CASE receiver = "device"
    BY <2>1 DEF LineInv, DeviceInStep
  <2>2. CASE receiver = "tool"
    <3>1. ~ waiting
      BY FullyRead DEF LineInv, ReaderInv
    <3>2. Len(delivered) + 0 = Len(sent)
      BY <2>2, <3>1 DEF LineInv, ToolInStep
    <3>3. Len(delivered) \in Nat
      BY DEF LineInv, LineTypes
    <3> QED
      BY <3>2, <3>3
  <2> QED
    BY <2>1, <2>2 DEF LineInv, LineTypes
<1> QED
  BY <1>1, LineInvariant, PTL

\* The tool delivers every response that arrives unharmed, whatever was
\* damaged before, if no rest of an earlier response was still on its way
\* when it asked (blflash.py:118-125, 152-156).
THEOREM ToolIsResynchronised == Spec => []ToolRecovers
<1>1. LineInv => ToolRecovers
  BY DEF LineInv, ToolInStep, ToolRecovers
<1> QED
  BY <1>1, LineInvariant, PTL
=============================================================================
