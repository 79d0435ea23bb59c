--------------------------- MODULE BlImageProofs -----------------------------
(***************************************************************************)
(* Proofs about BlImage, for every word width, layout of flash, size of    *)
(* header, region, programming unit and chunk, and for all files, vector   *)
(* tables and API tables.                                                  *)
(***************************************************************************)
EXTENDS BlImage, TLAPS

-----------------------------------------------------------------------------
(* The inductive invariant *)

\* The image is in a slot.
InSlot == pc \in {"stored", "payload", "judged", "app", "loader", "done"}

Content == [hdr : bl_img_hdr_t, byte : [0 .. slot_size - 1 -> Nat \cup {Blank}]]

\* Files and slots are what their readers take them for.
PlaceInv ==
    /\ pc # "start" => file \in File
    /\ InSlot => target \in Slot /\ content \in Content
    /\ ~ InSlot => ~ checked /\ ~ decayed

\* A file of mkimage.py is as mkimage.py builds it.
BuiltInv ==
    pc # "start" /\ origin = "mkimage" =>
        \E n \in Nat \ {0} :
            /\ n % WRITE_GRANULARITY = 0
            /\ file = [hdr |-> build_header(n), len |-> BL_IMG_HDR_REGION + n]

\* A slot that blflash.py has written holds a file that passed its checks.
CheckedInv ==
    checked =>
        /\ content.hdr.img_size >= WRITE_GRANULARITY
        /\ ~ decayed => /\ validate(file)
                        /\ content = stored(file, file.hdr.entry_offset)

\* The loop of bl_core_validate_slot has checksummed what it has passed.
LoopInv ==
    pc = "payload" =>
        LET h == content.hdr IN
        /\ header_check(h) = BL_OK
        /\ payload_crc \in Seq(Nat \cup {Blank})
        /\ address = slot_base[target] + h.entry_offset + Len(payload_crc)
        /\ Len(payload_crc) + remaining = h.img_size
        /\ \A k \in 1 .. Len(payload_crc) :
              payload_crc[k] = content.byte[h.entry_offset + k - 1]

\* Nothing has been entered before the port decides, and no file is refused
\* that passes.
LaunchInv ==
    /\ pc \notin {"app", "done"} => jumped = None
    /\ pc = "refused" => ~ validate(file)

ImageInv ==
    /\ TypeOK /\ PlaceInv /\ BuiltInv /\ CheckedInv /\ LoopInv /\ LaunchInv
    /\ VerdictExact /\ JumpsIntoImage /\ OnlyVectorsRefused /\ LookupExact

-----------------------------------------------------------------------------
(* Arithmetic *)

\* A number below the modulus is its own remainder.
LEMMA ModSmall ==
    ASSUME NEW n \in Nat \ {0}, NEW x \in 0 .. n - 1
    PROVE  x % n = x
BY SMT

\* A number without a remainder is a multiple.
LEMMA ModZero ==
    ASSUME NEW n \in Nat \ {0}, NEW x \in Nat, x % n = 0
    PROVE  \E k \in 0 .. x : x = k * n
<1>1. x = ((x \div n) * n) + (x % n) /\ x \div n \in Nat
  BY SMT
<1>2. x \div n <= x
  BY <1>1, SMT
<1>3. x \div n \in 0 .. x /\ x = (x \div n) * n
  <2> DEFINE q == x \div n
             p == q * n
             r == x % n
  <2>1. x = p + r /\ q \in Nat /\ q <= x /\ r = 0 /\ p \in Int
    BY <1>1, <1>2, SMT
  <2> HIDE DEF p, q, r
  <2>2. x = p /\ q \in 0 .. x
    BY <2>1
  <2> QED
    BY <2>2 DEF p, q
<1> QED
  BY <1>3

\* A multiple has no remainder.
LEMMA ModMul ==
    ASSUME NEW n \in Nat \ {0}, NEW k \in Int
    PROVE  (k * n) % n = 0
BY SMT

\* The sum of two multiples is one.
LEMMA ModSum ==
    ASSUME NEW n \in Nat \ {0}, NEW x \in Nat, NEW y \in Nat,
           x % n = 0, y % n = 0
    PROVE  (x + y) % n = 0
<1>1. PICK i \in 0 .. x : x = i * n
  BY ModZero
<1>2. PICK j \in 0 .. y : y = j * n
  BY ModZero
<1>3. x + y = (i + j) * n
  BY <1>1, <1>2, SMT
<1>4. ((i + j) * n) % n = 0
  <2>1. i + j \in Int
    BY <1>1, <1>2
  <2> QED
    BY <2>1, ModMul
<1> QED
  BY <1>3, <1>4, Zenon

\* Between two multiples there is room for the modulus.
LEMMA ModNext ==
    ASSUME NEW n \in Nat \ {0}, NEW x \in Nat, NEW y \in Nat,
           x % n = 0, y % n = 0, x < y
    PROVE  x + n <= y
<1>1. PICK i \in 0 .. x : x = i * n
  BY ModZero
<1>2. PICK j \in 0 .. y : y = j * n
  BY ModZero
<1>3. i + 1 <= j
  <2>1. SUFFICES ASSUME j <= i PROVE FALSE
    BY <1>1, <1>2
  <2>2. j * n <= i * n
    BY <1>1, <1>2, <2>1, SMT
  <2> QED
    BY <1>1, <1>2, <2>2
<1>4. (i + 1) * n <= j * n
  BY <1>1, <1>2, <1>3, SMT
<1>5. (i + 1) * n = (i * n) + n
  BY <1>1, SMT
<1> QED
  BY <1>1, <1>2, <1>4, <1>5

\* pad_payload rounds up to whole programming units.
LEMMA Padded ==
    ASSUME NEW n \in Nat \ {0}
    PROVE  /\ pad_payload(n) \in Nat \ {0}
           /\ pad_payload(n) % WRITE_GRANULARITY = 0
<1> DEFINE G == WRITE_GRANULARITY
<1>1. G \in Nat \ {0}
  BY ImageAssumption
<1>2. (-n) % G \in 0 .. G - 1
  BY <1>1, SMT
<1>3. -n = (((-n) \div G) * G) + ((-n) % G) /\ (-n) \div G \in Int
  BY <1>1, SMT
<1> DEFINE q == (-n) \div G
<1>4. n + ((-n) % G) = (-q) * G
  <2>1. (-q) * G = -(q * G) /\ q * G \in Int
    BY <1>1, <1>3, SMT
  <2> HIDE DEF q, G
  <2> QED
    BY <2>1, <1>1, <1>2, <1>3 DEF q
<1>5. ((-q) * G) % G = 0
  <2>1. -q \in Int
    BY <1>3
  <2> HIDE DEF q
  <2> QED
    BY <1>1, <2>1, ModMul
<1>6. n + ((-n) % G) \in Nat \ {0}
  BY <1>2
<1> QED
  BY <1>4, <1>5, <1>6 DEF pad_payload

-----------------------------------------------------------------------------
(* The judgements *)

\* The constants as numbers.
LEMMA Numbers ==
    /\ WordMod \in Nat \ {0} /\ BL_IMG_HDR_REGION \in Nat \ {0}
    /\ WRITE_GRANULARITY \in Nat \ {0} /\ slot_size \in Nat
    /\ slot_size < WordMod
    /\ Slot = {0, 1}
    /\ \A s \in Slot : /\ slot_base[s] \in Nat
                       /\ slot_base[s] + slot_size < WordMod
<1>1. Slot = {0, 1}
  BY DEF Slot, BL_SLOT_COUNT
<1>2. \A s \in Slot : slot_base[s] \in Nat
  BY ImageAssumption
<1>3. \A s \in Slot : slot_base[s] + slot_size < WordMod
  BY <1>2, ImageAssumption
<1> QED
  BY <1>1, <1>2, <1>3, ImageAssumption

\* The checksum of the bytes from a to b, as a sequence.
LEMMA RangeSeq ==
    ASSUME NEW a \in Nat, NEW b \in Nat
    PROVE  /\ Range(a, b) \in Seq(Nat)
           /\ a <= b => Len(Range(a, b)) = b - a
           /\ \A k \in 1 .. b - a : Range(a, b)[k] = a + k - 1
<1>1. CASE a < b
  <2>1. b - a \in Nat /\ \A k \in 1 .. b - a : a + k - 1 \in Nat
    BY <1>1
  <2>2. Range(a, b) = [k \in 1 .. b - a |-> a + k - 1]
    BY <1>1 DEF Range
  <2>3. Range(a, b) \in [1 .. b - a -> Nat]
    BY <2>1, <2>2
  <2>4. Range(a, b) \in Seq(Nat) /\ Len(Range(a, b)) = b - a
    BY <2>1, <2>2, <2>3
  <2> QED
    BY <2>2, <2>4
<1>2. CASE ~ (a < b)
  BY <1>2 DEF Range
<1> QED
  BY <1>1, <1>2

\* The header checks of bl_core_validate_slot, without widths: a header
\* passes exactly when its marks are right and its payload lies behind it,
\* aligned, not empty and in the slot (bl_core.c:140-181).
LEMMA HeaderChecked ==
    ASSUME NEW h \in bl_img_hdr_t
    PROVE  header_check(h) = BL_OK
             <=> /\ h.magic /\ h.hdr_version /\ h.hdr_crc
                 /\ h.entry_offset >= HDR_STRUCT_SIZE
                 /\ h.entry_offset % BL_IMG_HDR_REGION = 0
                 /\ h.img_size > 0
                 /\ h.entry_offset + h.img_size <= slot_size
<1>1. /\ h.entry_offset \in Nat /\ h.img_size \in Nat
      /\ h.magic \in BOOLEAN /\ h.hdr_version \in BOOLEAN /\ h.hdr_crc \in BOOLEAN
  BY DEF bl_img_hdr_t
<1>2. header_check(h) = BL_OK
        <=> h.magic /\ h.hdr_version /\ h.hdr_crc /\ entry_acceptable(h) /\ size_acceptable(h)
  BY <1>1 DEF header_check, BL_OK
<1>3. ASSUME h.entry_offset < slot_size
      PROVE  payload_fits(h) <=> h.entry_offset + h.img_size <= slot_size
  <2>1. slot_size - h.entry_offset \in 0 .. WordMod - 1
    BY <1>1, <1>3, Numbers
  <2>2. (slot_size - h.entry_offset) % WordMod = slot_size - h.entry_offset
    BY <2>1, Numbers, ModSmall
  <2> QED
    BY <1>1, <2>2, Numbers DEF payload_fits
<1>4. CASE h.entry_offset < slot_size
  BY <1>1, <1>2, <1>3, <1>4, Numbers DEF entry_acceptable, size_acceptable
<1>5. CASE ~ (h.entry_offset < slot_size)
  BY <1>1, <1>2, <1>5, Numbers DEF entry_acceptable
<1> QED
  BY <1>4, <1>5

\* Every judgement on a header is a result code.
LEMMA HeaderResult ==
    \A h : header_check(h) \in Result
BY DEF header_check, Result, BL_ERR, BL_OK

\* A slot holds an image when its header passes and the checksum it carries
\* is the one of the payload.
LEMMA HoldsIff ==
    ASSUME NEW c \in Content
    PROVE  HoldsImage(c)
             <=> /\ header_check(c.hdr) = BL_OK
                 /\ Len(c.hdr.img_crc32) = c.hdr.img_size
                 /\ \A k \in 1 .. c.hdr.img_size :
                       c.hdr.img_crc32[k] = c.byte[c.hdr.entry_offset + k - 1]
<1> DEFINE h == c.hdr
           R == BL_IMG_HDR_REGION
<1>1. /\ h \in bl_img_hdr_t
      /\ h.entry_offset \in Nat /\ h.img_size \in Nat
      /\ h.img_crc32 \in Seq(Nat)
  BY DEF Content, bl_img_hdr_t
<1>2. ASSUME h.entry_offset <= slot_size
      PROVE  h.entry_offset % R = 0
               <=> \E k \in 0 .. slot_size : h.entry_offset = k * R
  <2>1. ASSUME h.entry_offset % R = 0
        PROVE  \E k \in 0 .. slot_size : h.entry_offset = k * R
    <3>1. PICK k \in 0 .. h.entry_offset : h.entry_offset = k * R
      BY <1>1, <2>1, Numbers, ModZero
    <3>2. k \in 0 .. slot_size
      BY <1>1, <1>2, Numbers
    <3> QED
      BY <3>1, <3>2
  <2>2. ASSUME NEW k \in 0 .. slot_size, h.entry_offset = k * R
        PROVE  h.entry_offset % R = 0
    <3>1. k \in Int
      BY Numbers
    <3>2. (k * R) % R = 0
      BY <3>1, Numbers, ModMul
    <3> QED
      BY <2>2, <3>2, Zenon
  <2> QED
    BY <2>1, <2>2, Zenon
<1>3. Len(h.img_crc32) = h.img_size => \A k \in 1 .. h.img_size : k \in DOMAIN h.img_crc32
  BY <1>1
<1>4. h.img_size > 0 /\ h.entry_offset + h.img_size <= slot_size => h.entry_offset <= slot_size
  BY <1>1, Numbers
<1> HIDE DEF h, R
<1>5. header_check(h) = BL_OK
        <=> /\ h.magic /\ h.hdr_version /\ h.hdr_crc
            /\ h.entry_offset >= HDR_STRUCT_SIZE
            /\ \E k \in 0 .. slot_size : h.entry_offset = k * R
            /\ h.img_size > 0
            /\ h.entry_offset + h.img_size <= slot_size
  <2>1. CASE h.entry_offset <= slot_size
    BY <1>1, <1>2, <2>1, HeaderChecked DEF R
  <2>2. CASE ~ (h.entry_offset <= slot_size)
    BY <1>1, <1>4, <2>2, HeaderChecked DEF R
  <2> QED
    BY <2>1, <2>2
<1> QED
  BY <1>3, <1>5 DEF HoldsImage, h, R

\* What a writer leaves in a slot is content of a slot.
LEMMA StoredContent ==
    ASSUME NEW f \in File, NEW offset \in Nat
    PROVE  stored(f, offset) \in Content
<1>1. f.hdr \in bl_img_hdr_t
  BY DEF File
<1>2. \A k \in 0 .. slot_size - 1 :
          (IF k >= offset /\ k < f.len THEN k ELSE Blank) \in Nat \cup {Blank}
  BY Numbers
<1> QED
  BY <1>1, <1>2 DEF stored, Content

\* A file that blimage.validate accepts is an image once it is stored where
\* its header says (blimage.py:91-158, blflash.py:346-388).
LEMMA ToolHolds ==
    ASSUME NEW f \in File, validate(f)
    PROVE  /\ HoldsImage(stored(f, f.hdr.entry_offset))
           /\ f.hdr.img_size >= WRITE_GRANULARITY
<1> DEFINE h == f.hdr
           c == stored(f, h.entry_offset)
<1>1. /\ h \in bl_img_hdr_t /\ f.len \in Nat
      /\ h.entry_offset \in Nat /\ h.img_size \in Nat
  BY DEF File, bl_img_hdr_t
<1>2. /\ c \in Content
      /\ c.hdr = h
  BY <1>1, StoredContent DEF stored
<1>3. /\ h.magic /\ h.hdr_version /\ h.hdr_crc
      /\ h.entry_offset >= HDR_STRUCT_SIZE
      /\ h.entry_offset % BL_IMG_HDR_REGION = 0
      /\ h.img_size # 0
      /\ h.img_size % WRITE_GRANULARITY = 0
      /\ f.len - h.entry_offset = h.img_size
      /\ h.img_crc32 = Range(h.entry_offset, f.len)
      /\ h.entry_offset + h.img_size <= slot_size
  BY DEF validate, payload_complete
<1> HIDE DEF h
<1>4. header_check(h) = BL_OK
  BY <1>1, <1>3, HeaderChecked
<1>5. Len(h.img_crc32) = h.img_size
  BY <1>1, <1>3, RangeSeq
<1>6. ASSUME NEW k \in 1 .. h.img_size
      PROVE  h.img_crc32[k] = c.byte[h.entry_offset + k - 1]
  <2>1. /\ h.entry_offset + k - 1 \in 0 .. slot_size - 1
        /\ h.entry_offset + k - 1 >= h.entry_offset
        /\ h.entry_offset + k - 1 < f.len
    BY <1>1, <1>3, Numbers
  <2>2. c.byte[h.entry_offset + k - 1] = h.entry_offset + k - 1
    BY <2>1 DEF stored
  <2>3. k \in 1 .. f.len - h.entry_offset
    BY <1>1, <1>3
  <2>4. Range(h.entry_offset, f.len)[k] = h.entry_offset + k - 1
    BY <1>1, <2>3, RangeSeq
  <2> QED
    BY <1>3, <2>2, <2>4
<1>7. HoldsImage(c)
  <2> HIDE DEF c
  <2> QED
    BY <1>2, <1>4, <1>5, <1>6, HoldsIff
<1>8. h.img_size >= WRITE_GRANULARITY
  <2>1. 0 % WRITE_GRANULARITY = 0
    BY Numbers, ModSmall
  <2>2. 0 + WRITE_GRANULARITY <= h.img_size
    BY <1>1, <1>3, <2>1, Numbers, ModNext
  <2> QED
    BY <2>2, Numbers
<1> QED
  BY <1>7, <1>8 DEF h

\* A file that mkimage.py builds is a file, and blimage.validate accepts it
\* when it fits (mkimage.py:30-45, 88-138).
LEMMA BuiltValid ==
    ASSUME NEW n \in Nat \ {0}, NEW f,
           f = [hdr |-> build_header(n), len |-> BL_IMG_HDR_REGION + n]
    PROVE  /\ f \in File
           /\ n % WRITE_GRANULARITY = 0 /\ BL_IMG_HDR_REGION + n <= slot_size => validate(f)
<1> DEFINE R == BL_IMG_HDR_REGION
<1>1. R \in Nat \ {0} /\ R + n \in Nat /\ R + n >= R
  BY Numbers
<1>2. Range(R, R + n) \in Seq(Nat)
  BY <1>1, RangeSeq
<1>3. f \in File
  BY <1>1, <1>2 DEF File, bl_img_hdr_t, build_header
<1>4. R % R = 0
  <2>1. (1 * R) % R = 0 /\ 1 * R = R
    BY <1>1, ModMul
  <2> QED
    BY <2>1
<1>5. ASSUME n % WRITE_GRANULARITY = 0, R + n <= slot_size
      PROVE  validate(f)
  <2>1. R >= HDR_STRUCT_SIZE
    BY ImageAssumption
  <2>2. (R + n) - R = n
    BY <1>1
  <2> QED
    BY <1>1, <1>4, <1>5, <2>1, <2>2 DEF validate, payload_complete, build_header
<1> QED
  BY <1>3, <1>5

\* The vector table of an image that passes the header checks lies in its
\* slot, and in no other, aligned and in flash: the port finds nothing to
\* refuse in the address (bl_core.c:161-171, bl_port_host.c:478-500).
LEMMA EntryPlaced ==
    ASSUME NEW s \in Slot, NEW h \in bl_img_hdr_t, header_check(h) = BL_OK,
           NEW base, base = slot_base[s] + h.entry_offset
    PROVE  /\ h.entry_offset \in 0 .. slot_size - 1
           /\ base \in Nat
           /\ slot_of(base) = {s}
           /\ base % BL_IMG_HDR_REGION = 0
           /\ flash_range_valid(base, VectorBytes)
<1> DEFINE e == h.entry_offset
           R == BL_IMG_HDR_REGION
<1>1. /\ e \in Nat /\ h.img_size \in Nat
      /\ e % R = 0 /\ h.img_size > 0 /\ e + h.img_size <= slot_size
  BY HeaderChecked DEF bl_img_hdr_t
<1>2. e \in 0 .. slot_size - 1
  BY <1>1, Numbers
<1>3. slot_base[s] \in Nat /\ slot_base[s] % R = 0
  BY Numbers, ImageAssumption
<1>4. base \in Nat
  BY <1>2, <1>3
<1>5. base % R = 0
  BY <1>1, <1>3, Numbers, ModSum
<1>6. e + R <= slot_size
  BY <1>1, <1>2, Numbers, ImageAssumption, ModNext
<1>7. flash_range_valid(base, VectorBytes)
  <2>1. base >= FLASH_BASE /\ base + R <= FLASH_BASE + FLASH_SIZE
    BY <1>2, <1>3, <1>6, Numbers, ImageAssumption
  <2>2. VectorBytes \in Nat /\ VectorBytes <= R
    BY Numbers, ImageAssumption
  <2> QED
    BY <1>4, <2>1, <2>2, Numbers, ImageAssumption DEF flash_range_valid
<1>8. s \in slot_of(base)
  BY <1>2, <1>3, Numbers DEF slot_of
<1>9. ASSUME NEW t \in slot_of(base)
      PROVE  t = s
  <2>1. t \in Slot /\ slot_base[t] <= base /\ base < slot_base[t] + slot_size
    BY <1>4, Numbers DEF slot_of
  <2>2. slot_base[s] <= base /\ base < slot_base[s] + slot_size
    BY <1>2, <1>3, Numbers
  <2> QED
    BY <1>4, <2>1, <2>2, Numbers, ImageAssumption
<1> QED
  BY <1>2, <1>4, <1>5, <1>7, <1>8, <1>9

\* A chunk is part of what remains.
LEMMA ChunkSize ==
    ASSUME remaining \in Nat, remaining > 0
    PROVE  chunk \in 1 .. remaining
BY ImageAssumption DEF chunk

\* Bytes are appended to the checksum in their order.
LEMMA Appended ==
    ASSUME NEW S, NEW s \in Seq(S), NEW n \in Nat, NEW t \in [1 .. n -> S]
    PROVE  /\ s \o t \in Seq(S)
           /\ Len(s \o t) = Len(s) + n
           /\ \A k \in 1 .. Len(s) : (s \o t)[k] = s[k]
           /\ \A k \in 1 .. n : (s \o t)[Len(s) + k] = t[k]
<1>1. t \in Seq(S) /\ Len(t) = n
  OBVIOUS
<1>2. s \o t \in Seq(S) /\ Len(s \o t) = Len(s) + n
  BY <1>1
<1>3. \A k \in 1 .. Len(s) : (s \o t)[k] = s[k]
  BY <1>1
<1>4. \A k \in 1 .. n : (s \o t)[Len(s) + k] = t[k]
  BY <1>1
<1> QED
  BY <1>2, <1>3, <1>4

-----------------------------------------------------------------------------
(* Every action keeps the invariant *)

\* The invariant holds before there is an image.
LEMMA InitInv == Init => ImageInv
<1> SUFFICES ASSUME Init PROVE ImageInv
  OBVIOUS
<1>1. TypeOK
  <2>1. 0 \in 0 .. WordMod - 1 /\ 0 \in 0 .. slot_size
    BY Numbers
  <2> QED
    BY <2>1 DEF Init, TypeOK
<1>2. PlaceInv /\ BuiltInv /\ CheckedInv /\ LoopInv /\ LaunchInv
  BY DEF Init, PlaceInv, BuiltInv, CheckedInv, LoopInv, LaunchInv, InSlot
<1>3. VerdictExact /\ JumpsIntoImage /\ OnlyVectorsRefused /\ LookupExact
  BY DEF Init, VerdictExact, JumpsIntoImage, OnlyVectorsRefused, LookupExact
<1> QED
  BY <1>1, <1>2, <1>3 DEF ImageInv

\* mkimage.py builds a file of whole programming units.
LEMMA MkimageInv ==
    ASSUME ImageInv, NEW n \in Inputs, Mkimage(n)
    PROVE  ImageInv'
<1>1. /\ pc = "start" /\ pc' = "file"
      /\ n \in Nat \ {0}
      /\ UNCHANGED <<checked, place, loop, verdict, launch>>
      /\ origin' = "mkimage"
      /\ file' = [hdr |-> build_header(pad_payload(n)),
                  len |-> BL_IMG_HDR_REGION + pad_payload(n)]
  BY InputAssumption DEF Mkimage
<1>2. TypeOK'
  BY <1>1 DEF ImageInv, TypeOK, place, loop, launch
<1>3. file' \in File
  BY <1>1, Padded, BuiltValid
<1>4. PlaceInv'
  BY <1>1, <1>3 DEF ImageInv, PlaceInv, InSlot, place
<1>5. BuiltInv'
  BY <1>1, Padded DEF BuiltInv
<1>6. CheckedInv' /\ LoopInv' /\ LaunchInv'
  BY <1>1, <1>4 DEF ImageInv, PlaceInv, CheckedInv, LoopInv, LaunchInv, InSlot, launch
<1>7. VerdictExact' /\ JumpsIntoImage' /\ OnlyVectorsRefused' /\ LookupExact'
  BY <1>1, <1>6 DEF ImageInv, VerdictExact, JumpsIntoImage, OnlyVectorsRefused,
                    LookupExact, LaunchInv, launch
<1> QED
  BY <1>2, <1>4, <1>5, <1>6, <1>7 DEF ImageInv

\* A file from somewhere else is a file.
LEMMA OtherFileInv ==
    ASSUME ImageInv, NEW f \in Files, OtherFile(f)
    PROVE  ImageInv'
<1>1. /\ pc = "start" /\ pc' = "file"
      /\ UNCHANGED <<checked, place, loop, verdict, launch>>
      /\ origin' = "other"
      /\ file' \in File
  BY InputAssumption DEF OtherFile
<1>2. TypeOK'
  BY <1>1 DEF ImageInv, TypeOK, place, loop, launch
<1>3. PlaceInv' /\ BuiltInv'
  BY <1>1 DEF ImageInv, PlaceInv, BuiltInv, InSlot, place
<1>4. CheckedInv' /\ LoopInv' /\ LaunchInv'
  BY <1>1, <1>3 DEF ImageInv, PlaceInv, CheckedInv, LoopInv, LaunchInv, InSlot, launch
<1>5. VerdictExact' /\ JumpsIntoImage' /\ OnlyVectorsRefused' /\ LookupExact'
  BY <1>1, <1>4 DEF ImageInv, VerdictExact, JumpsIntoImage, OnlyVectorsRefused,
                    LookupExact, LaunchInv, launch
<1> QED
  BY <1>2, <1>3, <1>4, <1>5 DEF ImageInv

\* blflash.py refuses a file, or stores one that its checks accept.
LEMMA UpdateInv ==
    ASSUME ImageInv, NEW s \in Slot, Update(s)
    PROVE  ImageInv'
<1>1. /\ pc = "file" /\ file \in File /\ ~ checked /\ ~ decayed
      /\ jumped = None
      /\ UNCHANGED <<file, origin, decayed, loop, verdict, launch>>
  BY DEF ImageInv, PlaceInv, LaunchInv, InSlot, Update
<1>2. CASE /\ validate(file)
           /\ checked' = TRUE
           /\ target' = s
           /\ content' = stored(file, file.hdr.entry_offset)
           /\ pc' = "stored"
  <2>1. TypeOK'
    BY <1>1, <1>2 DEF ImageInv, TypeOK, loop, launch
  <2>2. file.hdr.entry_offset \in Nat /\ file.hdr \in bl_img_hdr_t
    BY <1>1 DEF File, bl_img_hdr_t
  <2>3. PlaceInv'
    BY <1>1, <1>2, <2>2, StoredContent DEF PlaceInv, InSlot
  <2>4. BuiltInv'
    BY <1>1, <1>2 DEF ImageInv, BuiltInv
  <2>5. CheckedInv'
    <3>1. content'.hdr = file.hdr
      BY <1>2 DEF stored
    <3>2. content'.hdr.img_size >= WRITE_GRANULARITY
      BY <1>1, <1>2, <3>1, ToolHolds
    <3>3. validate(file)' /\ stored(file, file.hdr.entry_offset)' = stored(file, file.hdr.entry_offset)
      BY <1>1, <1>2 DEF validate, payload_complete, stored
    <3> QED
      BY <1>2, <3>2, <3>3 DEF CheckedInv
  <2>6. LoopInv' /\ LaunchInv'
    BY <1>1, <1>2 DEF LoopInv, LaunchInv, launch
  <2>7. VerdictExact' /\ JumpsIntoImage' /\ OnlyVectorsRefused' /\ LookupExact'
    BY <1>1, <1>2 DEF ImageInv, VerdictExact, JumpsIntoImage, OnlyVectorsRefused,
                      LookupExact, launch
  <2> QED
    BY <2>1, <2>3, <2>4, <2>5, <2>6, <2>7 DEF ImageInv
<1>3. CASE /\ ~ validate(file)
           /\ pc' = "refused"
           /\ UNCHANGED <<checked, target, content>>
  <2>1. TypeOK'
    BY <1>1, <1>3 DEF ImageInv, TypeOK, loop, launch
  <2>2. PlaceInv' /\ BuiltInv' /\ CheckedInv' /\ LoopInv'
    BY <1>1, <1>3 DEF ImageInv, PlaceInv, BuiltInv, CheckedInv, LoopInv, InSlot
  <2>3. LaunchInv'
    BY <1>1, <1>3 DEF LaunchInv, launch, validate, payload_complete
  <2>4. VerdictExact' /\ JumpsIntoImage' /\ OnlyVectorsRefused' /\ LookupExact'
    BY <1>1, <1>3 DEF ImageInv, VerdictExact, JumpsIntoImage, OnlyVectorsRefused,
                      LookupExact, launch
  <2> QED
    BY <2>1, <2>2, <2>3, <2>4 DEF ImageInv
<1> QED
  BY <1>2, <1>3 DEF Update

\* Another writer leaves a file in the slot that no tool has judged.
LEMMA WriteUnjudgedInv ==
    ASSUME ImageInv, NEW s \in Slot, WriteUnjudged(s)
    PROVE  ImageInv'
<1>1. /\ pc = "file" /\ pc' = "stored" /\ file \in File /\ ~ checked /\ ~ decayed
      /\ jumped = None
      /\ target' = s
      /\ content' = stored(file, BL_IMG_HDR_REGION)
      /\ UNCHANGED <<file, origin, checked, decayed, loop, verdict, launch>>
  BY DEF ImageInv, PlaceInv, LaunchInv, InSlot, WriteUnjudged, source
<1>2. TypeOK'
  BY <1>1 DEF ImageInv, TypeOK, loop, launch
<1>3. content' \in Content
  BY <1>1, StoredContent, Numbers
<1>4. PlaceInv' /\ BuiltInv' /\ CheckedInv'
  BY <1>1, <1>3 DEF ImageInv, PlaceInv, BuiltInv, CheckedInv, InSlot
<1>5. LoopInv' /\ LaunchInv'
  BY <1>1 DEF LoopInv, LaunchInv, launch
<1>6. VerdictExact' /\ JumpsIntoImage' /\ OnlyVectorsRefused' /\ LookupExact'
  BY <1>1 DEF ImageInv, VerdictExact, JumpsIntoImage, OnlyVectorsRefused,
              LookupExact, launch
<1> QED
  BY <1>2, <1>4, <1>5, <1>6 DEF ImageInv

\* Decay keeps the numbers of the header.
LEMMA DecayInv ==
    ASSUME ImageInv, Decay
    PROVE  ImageInv'
<1>1. /\ pc = "stored" /\ content \in Content /\ target \in Slot
      /\ jumped = None
      /\ decayed' = TRUE
      /\ UNCHANGED <<pc, file, origin, checked, target, loop, verdict, launch>>
  BY DEF ImageInv, PlaceInv, LaunchInv, InSlot, Decay, source
<1>2. content' \in Content /\ content'.hdr.img_size = content.hdr.img_size
  <2>1. CASE \E k \in DOMAIN content.byte :
                content' = [content EXCEPT !.byte[k] = Blank]
    BY <1>1, <2>1 DEF Content
  <2>2. CASE content' = [content EXCEPT !.hdr.hdr_crc = FALSE]
    BY <1>1, <2>2 DEF Content, bl_img_hdr_t
  <2> QED
    BY <2>1, <2>2 DEF Decay
<1>3. TypeOK'
  BY <1>1 DEF ImageInv, TypeOK, loop, launch
<1>4. PlaceInv' /\ BuiltInv' /\ CheckedInv'
  BY <1>1, <1>2 DEF ImageInv, PlaceInv, BuiltInv, CheckedInv, InSlot
<1>5. LoopInv' /\ LaunchInv'
  BY <1>1 DEF LoopInv, LaunchInv, launch
<1>6. VerdictExact' /\ JumpsIntoImage' /\ OnlyVectorsRefused' /\ LookupExact'
  BY <1>1 DEF ImageInv, VerdictExact, JumpsIntoImage, OnlyVectorsRefused,
              LookupExact, launch
<1> QED
  BY <1>3, <1>4, <1>5, <1>6 DEF ImageInv

\* What the steps of bl_core_validate_slot leave alone.
LEMMA ValidateKeeps ==
    ASSUME ImageInv, pc \in {"stored", "payload"}, pc' \in {"payload", "judged"},
           UNCHANGED <<source, place, launch>>
    PROVE  /\ PlaceInv' /\ BuiltInv' /\ CheckedInv' /\ LaunchInv'
           /\ JumpsIntoImage' /\ OnlyVectorsRefused' /\ LookupExact'
           /\ target \in Slot /\ content \in Content
<1>1. jumped = None /\ target \in Slot /\ content \in Content
  BY DEF ImageInv, LaunchInv, PlaceInv, InSlot
<1>2. PlaceInv' /\ BuiltInv'
  BY DEF ImageInv, PlaceInv, BuiltInv, InSlot, source, place
<1>3. CheckedInv'
  BY DEF ImageInv, CheckedInv, source, place, validate, payload_complete, stored
<1>4. LaunchInv' /\ JumpsIntoImage' /\ OnlyVectorsRefused' /\ LookupExact'
  BY <1>1 DEF ImageInv, LaunchInv, JumpsIntoImage, OnlyVectorsRefused, LookupExact, launch
<1> QED
  BY <1>1, <1>2, <1>3, <1>4

\* The header is judged as a whole: an error is a verdict, and the loop
\* starts at the payload.
LEMMA ValidateHeaderInv ==
    ASSUME ImageInv, ValidateHeader
    PROVE  ImageInv'
<1> DEFINE h == content.hdr
<1>1. pc = "stored" /\ pc' \in {"payload", "judged"} /\ UNCHANGED <<source, place, launch>>
  BY DEF ValidateHeader
<1>2. /\ target \in Slot /\ content \in Content
      /\ PlaceInv' /\ BuiltInv' /\ CheckedInv' /\ LaunchInv'
      /\ JumpsIntoImage' /\ OnlyVectorsRefused' /\ LookupExact'
  BY <1>1, ValidateKeeps
<1>3. h \in bl_img_hdr_t /\ h.entry_offset \in Nat /\ h.img_size \in Nat
  BY <1>2 DEF Content, bl_img_hdr_t
<1> HIDE DEF h
<1>4. CASE /\ header_check(h) = BL_OK
           /\ address' = slot_base[target] + h.entry_offset
           /\ remaining' = h.img_size
           /\ payload_crc' = <<>>
           /\ pc' = "payload"
           /\ UNCHANGED verdict
  <2>1. h.img_size <= slot_size /\ h.entry_offset < slot_size
    <3>1. h.img_size > 0 /\ h.entry_offset + h.img_size <= slot_size
      BY <1>3, <1>4, HeaderChecked
    <3> QED
      BY <1>3, <3>1, Numbers
  <2>2. address' \in 0 .. WordMod - 1 /\ remaining' \in 0 .. slot_size
    <3>1. slot_base[target] \in Nat /\ slot_base[target] + slot_size < WordMod
      BY <1>2, Numbers
    <3> QED
      BY <1>3, <1>4, <2>1, <3>1, Numbers
  <2>3. TypeOK'
    BY <1>1, <1>4, <2>2 DEF ImageInv, TypeOK, source, place, launch
  <2>4. LoopInv'
    <3>1. content' = content /\ target' = target
      BY <1>1 DEF place
    <3>2. /\ payload_crc' \in Seq(Nat \cup {Blank}) /\ Len(payload_crc') = 0
          /\ 1 .. 0 = {}
      BY <1>4
    <3>3. address' = slot_base[target] + h.entry_offset + 0 /\ 0 + remaining' = h.img_size
      <4>1. slot_base[target] \in Nat
        BY <1>2, Numbers
      <4> QED
        BY <1>3, <1>4, <4>1
    <3> QED
      BY <1>4, <3>1, <3>2, <3>3 DEF LoopInv, h
  <2>5. VerdictExact'
    BY <1>4 DEF VerdictExact
  <2> QED
    BY <1>2, <2>3, <2>4, <2>5 DEF ImageInv
<1>5. CASE /\ header_check(h) # BL_OK
           /\ verdict' = header_check(h)
           /\ pc' = "judged"
           /\ UNCHANGED loop
  <2>1. TypeOK'
    BY <1>1, <1>5, HeaderResult DEF ImageInv, TypeOK, source, place, loop, launch
  <2>2. LoopInv'
    BY <1>5 DEF LoopInv
  <2>3. ~ HoldsImage(content) /\ content' = content
    BY <1>1, <1>2, <1>5, HoldsIff DEF place, h
  <2>4. VerdictExact'
    BY <1>5, <2>3 DEF VerdictExact
  <2> QED
    BY <1>2, <2>1, <2>2, <2>4 DEF ImageInv
<1> QED
  BY <1>4, <1>5 DEF ValidateHeader, h

\* A chunk is read inside the slot and appended; address and what remains
\* do not wrap.
LEMMA ValidateChunkInv ==
    ASSUME ImageInv, ValidateChunk
    PROVE  ImageInv'
<1> DEFINE h == content.hdr
           n == chunk
           old == Len(payload_crc)
           bytes == bl_flash_read(address, n)
<1>1. pc = "payload" /\ pc' = "payload" /\ UNCHANGED <<source, place, verdict, launch>>
  BY DEF ValidateChunk
<1>2. /\ target \in Slot /\ content \in Content
      /\ PlaceInv' /\ BuiltInv' /\ CheckedInv' /\ LaunchInv'
      /\ JumpsIntoImage' /\ OnlyVectorsRefused' /\ LookupExact'
  BY <1>1, ValidateKeeps
<1>3. /\ h \in bl_img_hdr_t /\ h.entry_offset \in Nat /\ h.img_size \in Nat
      /\ content.byte \in [0 .. slot_size - 1 -> Nat \cup {Blank}]
  BY <1>2 DEF Content, bl_img_hdr_t
<1>4. /\ header_check(h) = BL_OK
      /\ payload_crc \in Seq(Nat \cup {Blank})
      /\ old \in Nat
      /\ address = slot_base[target] + h.entry_offset + old
      /\ old + remaining = h.img_size
      /\ \A k \in 1 .. old : payload_crc[k] = content.byte[h.entry_offset + k - 1]
  BY <1>1 DEF ImageInv, LoopInv
<1>5. remaining \in Nat /\ n \in 1 .. remaining
  BY ChunkSize DEF ImageInv, TypeOK, ValidateChunk
<1> HIDE DEF h, n, old
<1>6. h.entry_offset + h.img_size <= slot_size
  BY <1>3, <1>4, HeaderChecked
<1>7. slot_base[target] \in Nat /\ slot_base[target] + slot_size < WordMod
  BY <1>2, Numbers
<1> DEFINE e == h.entry_offset
           b == slot_base[target]
<1>8. /\ e \in Nat /\ old \in Nat /\ remaining \in Nat /\ b \in Nat /\ slot_size \in Nat
      /\ WordMod \in Nat /\ n \in 1 .. remaining
      /\ address = b + e + old
      /\ e + old + remaining <= slot_size
      /\ b + slot_size < WordMod
  <2>1. e + old + remaining <= slot_size
    BY <1>3, <1>4, <1>5, <1>6
  <2> QED
    BY <1>3, <1>4, <1>5, <1>7, <2>1, Numbers
<1> HIDE DEF e, b
<1>9. /\ address' = address + n /\ remaining' = remaining - n
      /\ address' \in 0 .. WordMod - 1 /\ remaining' \in 0 .. slot_size
  <2>1. /\ address + n \in 0 .. WordMod - 1
        /\ remaining - n \in 0 .. WordMod - 1
        /\ remaining - n \in 0 .. slot_size
    BY <1>8
  <2>2. (address + n) % WordMod = address + n /\ (remaining - n) % WordMod = remaining - n
    BY <2>1, Numbers, ModSmall
  <2> QED
    BY <2>1, <2>2 DEF ValidateChunk, n
<1>10. TypeOK'
  BY <1>1, <1>9 DEF ImageInv, TypeOK, source, place, launch
<1>11. /\ bytes \in [1 .. n -> Nat \cup {Blank}]
       /\ \A k \in 1 .. n : bytes[k] = content.byte[h.entry_offset + (old + k) - 1]
  <2>1. ASSUME NEW k \in 1 .. n
        PROVE  /\ address - slot_base[target] + k - 1 = h.entry_offset + (old + k) - 1
               /\ address - slot_base[target] + k - 1 \in 0 .. slot_size - 1
    <3>1. /\ address - b + k - 1 = e + (old + k) - 1
          /\ address - b + k - 1 \in 0 .. slot_size - 1
      BY <1>8
    <3> QED
      BY <3>1 DEF b, e
  <2>2. bytes = [k \in 1 .. n |-> content.byte[address - slot_base[target] + k - 1]]
    BY DEF bl_flash_read
  <2> HIDE DEF bytes
  <2>3. \A k \in 1 .. n : content.byte[address - slot_base[target] + k - 1] \in Nat \cup {Blank}
    BY <1>3, <2>1
  <2> QED
    BY <2>1, <2>2, <2>3
<1>12. payload_crc' = payload_crc \o bytes
  BY DEF ValidateChunk, n
<1> HIDE DEF bytes
<1>13. /\ payload_crc' \in Seq(Nat \cup {Blank})
       /\ Len(payload_crc') = old + n
       /\ \A k \in 1 .. old : payload_crc'[k] = payload_crc[k]
       /\ \A k \in 1 .. n : payload_crc'[old + k] = bytes[k]
  <2>1. n \in Nat
    BY <1>5
  <2> QED
    BY <1>4, <1>11, <1>12, <2>1, Appended DEF old
<1>14. ASSUME NEW k \in 1 .. Len(payload_crc')
       PROVE  payload_crc'[k] = content.byte[h.entry_offset + k - 1]
  <2>1. CASE k <= old
    BY <1>4, <1>5, <1>13, <2>1
  <2>2. CASE k > old
    <3>1. k - old \in 1 .. n /\ old + (k - old) = k
      BY <1>4, <1>5, <1>13, <2>2
    <3> DEFINE j == k - old
    <3>2. j \in 1 .. n /\ old + j = k
      BY <3>1
    <3> HIDE DEF j
    <3>3. payload_crc'[old + j] = bytes[j] /\ bytes[j] = content.byte[h.entry_offset + (old + j) - 1]
      BY <1>11, <1>13, <3>2
    <3> QED
      BY <3>2, <3>3
  <2> QED
    BY <1>4, <1>5, <1>13, <2>1, <2>2
<1>15. LoopInv'
  <2>1. content' = content /\ target' = target
    BY <1>1 DEF place
  <2>2. address' = slot_base[target] + h.entry_offset + Len(payload_crc')
    <3>1. Len(payload_crc') = old + n /\ address' = address + n
      BY <1>9, <1>13
    <3>2. address + n = b + e + (old + n)
      BY <1>8
    <3> QED
      BY <3>1, <3>2 DEF b, e
  <2>3. Len(payload_crc') + remaining' = h.img_size
    <3>1. Len(payload_crc') = old + n /\ remaining' = remaining - n
      BY <1>9, <1>13
    <3>2. old \in Nat /\ remaining \in Nat /\ n \in Nat /\ old + remaining = h.img_size
      BY <1>4, <1>5
    <3>3. (old + n) + (remaining - n) = h.img_size
      BY <3>2
    <3> QED
      BY <3>1, <3>3
  <2> QED
    BY <1>4, <1>13, <1>14, <2>1, <2>2, <2>3 DEF LoopInv, h
<1>16. VerdictExact'
  BY <1>1 DEF VerdictExact
<1> QED
  BY <1>2, <1>10, <1>15, <1>16 DEF ImageInv

\* At the end of the loop the checksum is the one of the whole payload.
LEMMA ValidateEndInv ==
    ASSUME ImageInv, ValidateEnd
    PROVE  ImageInv'
<1> DEFINE h == content.hdr
<1>1. /\ pc = "payload" /\ pc' = "judged" /\ remaining = 0
      /\ verdict' = IF payload_crc = h.img_crc32 THEN BL_OK ELSE "BL_ERR_IMAGE_CRC"
      /\ UNCHANGED <<source, place, loop, launch>>
  BY DEF ValidateEnd
<1>2. /\ target \in Slot /\ content \in Content
      /\ PlaceInv' /\ BuiltInv' /\ CheckedInv' /\ LaunchInv'
      /\ JumpsIntoImage' /\ OnlyVectorsRefused' /\ LookupExact'
  BY <1>1, ValidateKeeps
<1>3. TypeOK'
  BY <1>1 DEF ImageInv, TypeOK, source, place, loop, launch, Result, BL_ERR, BL_OK
<1>4. LoopInv'
  BY <1>1 DEF LoopInv
<1>5. /\ header_check(h) = BL_OK
      /\ payload_crc \in Seq(Nat \cup {Blank})
      /\ Len(payload_crc) = h.img_size
      /\ \A k \in 1 .. h.img_size : payload_crc[k] = content.byte[h.entry_offset + k - 1]
  <2>1. Len(payload_crc) + 0 = h.img_size /\ Len(payload_crc) \in Nat
    BY <1>1 DEF ImageInv, LoopInv
  <2>2. Len(payload_crc) = h.img_size
    BY <2>1
  <2> QED
    BY <1>1, <2>2 DEF ImageInv, LoopInv
<1>6. h.img_crc32 \in Seq(Nat)
  BY <1>2 DEF Content, bl_img_hdr_t
<1>7. payload_crc = h.img_crc32
        <=> /\ Len(h.img_crc32) = h.img_size
            /\ \A k \in 1 .. h.img_size :
                  h.img_crc32[k] = content.byte[h.entry_offset + k - 1]
  <2> HIDE DEF h
  <2>1. ASSUME Len(h.img_crc32) = h.img_size,
               \A k \in 1 .. h.img_size : h.img_crc32[k] = content.byte[h.entry_offset + k - 1]
        PROVE  payload_crc = h.img_crc32
    <3>1. h.img_crc32 \in Seq(Nat \cup {Blank})
      BY <1>6
    <3>2. \A k \in 1 .. Len(payload_crc) : payload_crc[k] = h.img_crc32[k]
      BY <1>5, <2>1
    <3>3. Len(payload_crc) = Len(h.img_crc32)
      BY <1>5, <2>1
    <3> QED
      BY <1>5, <3>1, <3>2, <3>3
  <2> QED
    BY <1>5, <2>1
<1>8. verdict' = BL_OK <=> HoldsImage(content)
  <2>1. verdict' = BL_OK <=> payload_crc = h.img_crc32
    BY <1>1 DEF BL_OK
  <2> QED
    BY <1>2, <1>5, <1>7, <2>1, HoldsIff
<1>9. VerdictExact'
  BY <1>1, <1>8 DEF VerdictExact, place
<1> QED
  BY <1>2, <1>3, <1>4, <1>9 DEF ImageInv

\* The port refuses an accepted image for its vectors alone, and enters one
\* whose reset address lies in the slot of the image.
LEMMA JumpInv ==
    ASSUME ImageInv, NEW v \in Vectors, Jump(v)
    PROVE  ImageInv'
<1> DEFINE base == app_base
           h == content.hdr
<1>1. /\ pc = "judged" /\ verdict = BL_OK
      /\ pc' \in {"app", "loader"}
      /\ vec' = v /\ v.reset \in Nat
      /\ UNCHANGED <<source, place, loop, verdict, api>>
  BY InputAssumption DEF Jump
<1>2. target \in Slot /\ content \in Content /\ h \in bl_img_hdr_t
  BY <1>1 DEF ImageInv, PlaceInv, InSlot, Content
<1>3. header_check(h) = BL_OK
  BY <1>1, <1>2, HoldsIff DEF ImageInv, VerdictExact
<1>4. base = slot_base[target] + h.entry_offset
  BY DEF app_base
<1> HIDE DEF base, h
<1>5. /\ h.entry_offset \in 0 .. slot_size - 1
      /\ base \in Nat
      /\ slot_of(base) = {target}
      /\ base % BL_IMG_HDR_REGION = 0
      /\ flash_range_valid(base, VectorBytes)
  BY <1>2, <1>3, <1>4, EntryPlaced
<1>6. \/ vectors_usable(base, v) /\ jumped' = base /\ pc' = "app"
      \/ ~ vectors_usable(base, v) /\ jumped' = None /\ pc' = "loader"
  BY <1>5 DEF Jump, base
<1>7. UNCHANGED <<file, origin, checked, target, content, decayed, app_base>>
  BY <1>1 DEF source, place, app_base
<1>8. base \in SlotBytes
  BY <1>2, <1>4, <1>5 DEF SlotBytes
<1>9. TypeOK'
  BY <1>1, <1>6, <1>7, <1>8 DEF ImageInv, TypeOK, loop
<1>10. PlaceInv' /\ BuiltInv'
  BY <1>1, <1>7 DEF ImageInv, PlaceInv, BuiltInv, InSlot
<1>11. CheckedInv'
  BY <1>7 DEF ImageInv, CheckedInv, validate, payload_complete, stored
<1>12. LoopInv' /\ LaunchInv' /\ VerdictExact'
  BY <1>1, <1>6 DEF LoopInv, LaunchInv, VerdictExact
<1>13. JumpsIntoImage'
  <2>1. CASE vectors_usable(base, v) /\ jumped' = base /\ pc' = "app"
    <3>1. target \in slot_of(v.reset - 1)
      BY <1>5, <2>1 DEF vectors_usable, entry_in_slot
    <3>2. v.reset - 1 >= slot_base[target] /\ v.reset - 1 < slot_base[target] + slot_size
      BY <3>1 DEF slot_of
    <3>3. checked => VectorBytes <= content.hdr.img_size
      <4>1. checked => content.hdr.img_size >= WRITE_GRANULARITY
        BY DEF ImageInv, CheckedInv
      <4>2. content.hdr.img_size \in Nat /\ VectorBytes \in Nat
            /\ VectorBytes <= WRITE_GRANULARITY
        BY <1>2, ImageAssumption DEF Content, bl_img_hdr_t
      <4> QED
        BY <4>1, <4>2, Numbers
    <3> QED
      BY <1>1, <1>5, <1>7, <2>1, <3>2, <3>3 DEF JumpsIntoImage
  <2>2. CASE jumped' = None
    BY <2>2 DEF JumpsIntoImage
  <2> QED
    BY <1>6, <2>1, <2>2
<1>14. OnlyVectorsRefused'
  <2>1. CASE ~ vectors_usable(base, v) /\ pc' = "loader"
    <3>1. ~ vectors_usable(app_base', vec')
      BY <1>1, <1>7, <2>1 DEF base
    <3> QED
      BY <3>1 DEF OnlyVectorsRefused
  <2>2. CASE pc' = "app"
    BY <2>2 DEF OnlyVectorsRefused
  <2> QED
    BY <1>6, <2>1, <2>2
<1>15. LookupExact'
  BY <1>1 DEF ImageInv, LookupExact
<1> QED
  BY <1>9, <1>10, <1>11, <1>12, <1>13, <1>14, <1>15 DEF ImageInv

\* bl_api_lookup, without widths.
LEMMA LookupChecked ==
    ASSUME NEW t \in Tables, NEW r \in Regions
    PROVE  bl_api_lookup(t, r.base, r.size)
             <=> /\ t.magic /\ t.version /\ t.size
                 /\ t.confirm # 0
                 /\ \E k \in 0 .. r.size - 1 : t.confirm = r.base + k
<1>1. /\ t.confirm \in Word /\ r.base \in Word /\ r.size \in Word
  BY InputAssumption
<1>2. ASSUME t.confirm >= r.base
      PROVE  (t.confirm - r.base) % WordMod = t.confirm - r.base
  <2>1. t.confirm - r.base \in 0 .. WordMod - 1
    BY <1>1, <1>2, Numbers DEF Word
  <2> QED
    BY <2>1, Numbers, ModSmall
<1>3. ASSUME t.confirm >= r.base, t.confirm - r.base < r.size
      PROVE  \E k \in 0 .. r.size - 1 : t.confirm = r.base + k
  <2>1. t.confirm - r.base \in 0 .. r.size - 1 /\ t.confirm = r.base + (t.confirm - r.base)
    BY <1>1, <1>3, Numbers DEF Word
  <2> QED
    BY <2>1
<1>4. ASSUME NEW k \in 0 .. r.size - 1, t.confirm = r.base + k
      PROVE  t.confirm >= r.base /\ t.confirm - r.base < r.size /\ r.size # 0
  BY <1>1, <1>4, Numbers DEF Word
<1> QED
  BY <1>1, <1>2, <1>3, <1>4 DEF bl_api_lookup, address_in_region

\* The application's lookup changes nothing else.
LEMMA LookupInv ==
    ASSUME ImageInv, NEW t \in Tables, NEW r \in Regions, Lookup(t, r)
    PROVE  ImageInv'
<1>1. /\ pc = "app" /\ pc' = "done"
      /\ api' = [table |-> t, base |-> r.base, size |-> r.size,
                 found |-> bl_api_lookup(t, r.base, r.size)]
      /\ UNCHANGED <<file, origin, checked, target, content, decayed,
                     loop, verdict, jumped, vec>>
  BY DEF Lookup, source, place
<1>2. TypeOK'
  BY <1>1 DEF ImageInv, TypeOK, loop
<1>3. PlaceInv' /\ BuiltInv'
  BY <1>1 DEF ImageInv, PlaceInv, BuiltInv, InSlot
<1>4. CheckedInv'
  BY <1>1 DEF ImageInv, CheckedInv, validate, payload_complete, stored
<1>5. LoopInv' /\ LaunchInv' /\ VerdictExact' /\ OnlyVectorsRefused'
  BY <1>1 DEF LoopInv, LaunchInv, VerdictExact, OnlyVectorsRefused
<1>6. JumpsIntoImage'
  BY <1>1 DEF ImageInv, JumpsIntoImage
<1>7. LookupExact'
  BY <1>1, LookupChecked DEF LookupExact
<1> QED
  BY <1>2, <1>3, <1>4, <1>5, <1>6, <1>7 DEF ImageInv

\* Every step, stuttering included.
LEMMA NextInv ==
    ASSUME ImageInv, [Next]_vars
    PROVE  ImageInv'
<1>1. CASE UNCHANGED vars
  <2>1. UNCHANGED <<pc, file, origin, checked, target, content, decayed, address,
                    remaining, payload_crc, verdict, jumped, vec, api>>
    BY <1>1 DEF vars, source, place, loop, launch
  <2>2. TypeOK' /\ PlaceInv' /\ BuiltInv'
    BY <2>1 DEF ImageInv, TypeOK, PlaceInv, BuiltInv, InSlot
  <2>3. CheckedInv' /\ LoopInv' /\ LaunchInv'
    BY <2>1 DEF ImageInv, CheckedInv, LoopInv, LaunchInv, validate, payload_complete, stored
  <2>4. VerdictExact' /\ JumpsIntoImage' /\ OnlyVectorsRefused' /\ LookupExact'
    BY <2>1 DEF ImageInv, VerdictExact, JumpsIntoImage, OnlyVectorsRefused, LookupExact, app_base
  <2> QED
    BY <2>2, <2>3, <2>4 DEF ImageInv
<1>2. CASE Next
  BY <1>2, MkimageInv, OtherFileInv, UpdateInv, WriteUnjudgedInv, DecayInv,
     ValidateHeaderInv, ValidateChunkInv, ValidateEndInv, JumpInv, LookupInv DEF Next
<1> QED
  BY <1>1, <1>2

-----------------------------------------------------------------------------
(* The theorems *)

\* The way of an image keeps the invariant, whatever the files, the layout
\* and the order of the steps.
THEOREM InvariantHolds == Spec => []ImageInv
<1>1. Init => ImageInv
  BY InitInv
<1>2. ImageInv /\ [Next]_vars => ImageInv'
  BY NextInv
<1> QED
  BY <1>1, <1>2, PTL DEF Spec

\* No variable leaves its type; the locals of bl_core_validate_slot stay
\* words and no more than a slot is ever to be read.
THEOREM TypeCorrect == Spec => []TypeOK
<1>1. ImageInv => TypeOK
  BY DEF ImageInv
<1> QED
  BY <1>1, InvariantHolds, PTL

\* bl_core_validate_slot reads the declared payload and nothing outside the
\* slot, whatever numbers the header carries (bl_core.c:177-207).
THEOREM ReadsAreInside == Spec => []ReadsInside
<1>1. ImageInv => ReadsInside
  <2> SUFFICES ASSUME ImageInv, pc = "payload"
               PROVE  LET h == content.hdr IN
                      /\ address + remaining = slot_base[target] + h.entry_offset + h.img_size
                      /\ address + remaining <= slot_base[target] + slot_size
                      /\ Len(payload_crc) + remaining = h.img_size
    BY DEF ReadsInside
  <2> DEFINE h == content.hdr
             e == h.entry_offset
             z == h.img_size
             b == slot_base[target]
             p == Len(payload_crc)
  <2>1. h \in bl_img_hdr_t /\ e \in Nat /\ z \in Nat /\ b \in Nat
    <3>1. content \in Content /\ target \in Slot
      BY DEF ImageInv, PlaceInv, InSlot
    <3> QED
      BY <3>1, Numbers DEF Content, bl_img_hdr_t
  <2>2. /\ header_check(h) = BL_OK
        /\ p \in Nat /\ remaining \in Nat
        /\ address = b + e + p /\ p + remaining = z
    BY DEF ImageInv, LoopInv, TypeOK
  <2>3. e + z <= slot_size
    <3> HIDE DEF h
    <3> QED
      BY <2>1, <2>2, HeaderChecked
  <2> HIDE DEF e, z, b, p
  <2>4. address + remaining = b + e + z /\ address + remaining <= b + slot_size
    BY <2>1, <2>2, <2>3, Numbers
  <2> QED
    BY <2>2, <2>4 DEF e, z, b, p
<1> QED
  BY <1>1, InvariantHolds, PTL

\* The verdict of bl_core_validate_slot is BL_OK exactly for a slot that
\* holds an image: no header that wraps the arithmetic and no damaged byte
\* passes, and nothing good is refused (bl_core.c:124-216).
THEOREM VerdictIsExact == Spec => []VerdictExact
<1>1. ImageInv => VerdictExact
  BY DEF ImageInv
<1> QED
  BY <1>1, InvariantHolds, PTL

\* What blimage.validate accepts, stored and not changed since, the device
\* accepts (blimage.py:91-158).
THEOREM ToolAndDeviceAgree == Spec => []ToolAgrees
<1>1. ImageInv => ToolAgrees
  <2> SUFFICES ASSUME ImageInv, pc = "judged", checked, ~ decayed
               PROVE  verdict = BL_OK
    BY DEF ToolAgrees
  <2>1. file \in File /\ validate(file) /\ content = stored(file, file.hdr.entry_offset)
    BY DEF ImageInv, PlaceInv, CheckedInv
  <2>2. HoldsImage(content)
    BY <2>1, ToolHolds
  <2> QED
    BY <2>2 DEF ImageInv, VerdictExact
<1> QED
  BY <1>1, InvariantHolds, PTL

\* mkimage.py and blimage.validate agree: a file that was built is refused
\* only for its size.
THEOREM BuiltAccepted == Spec => []BuiltIsAccepted
<1>1. ImageInv => BuiltIsAccepted
  <2> SUFFICES ASSUME ImageInv, pc = "refused", origin = "mkimage"
               PROVE  BL_IMG_HDR_REGION + file.hdr.img_size > slot_size
    BY DEF BuiltIsAccepted
  <2>1. PICK n \in Nat \ {0} :
              /\ n % WRITE_GRANULARITY = 0
              /\ file = [hdr |-> build_header(n), len |-> BL_IMG_HDR_REGION + n]
    BY DEF ImageInv, BuiltInv
  <2>2. ~ validate(file)
    BY DEF ImageInv, LaunchInv
  <2>3. ~ (BL_IMG_HDR_REGION + n <= slot_size)
    BY <2>1, <2>2, BuiltValid
  <2>4. file.hdr.img_size = n
    BY <2>1 DEF build_header
  <2> QED
    BY <2>3, <2>4, Numbers
<1> QED
  BY <1>1, InvariantHolds, PTL

\* Control goes only into the slot of the image that was validated.
THEOREM JumpIsInside == Spec => []JumpsIntoImage
<1>1. ImageInv => JumpsIntoImage
  BY DEF ImageInv
<1> QED
  BY <1>1, InvariantHolds, PTL

\* The alignment checks of bl_core_validate_slot and the layout leave the
\* port only the vectors to refuse.
THEOREM RefusedForVectors == Spec => []OnlyVectorsRefused
<1>1. ImageInv => OnlyVectorsRefused
  BY DEF ImageInv
<1> QED
  BY <1>1, InvariantHolds, PTL

\* bl_api_lookup is exact for every word width and region, one that ends at
\* the top of the address space included (bl_api.c).
THEOREM LookupIsExact == Spec => []LookupExact
<1>1. ImageInv => LookupExact
  BY DEF ImageInv
<1> QED
  BY <1>1, InvariantHolds, PTL
=============================================================================
