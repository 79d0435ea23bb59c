------------------------------ MODULE BlImage --------------------------------
(***************************************************************************)
(* The way of an image: tools/mkimage.py builds it, tools/blimage.py       *)
(* judges it, tools/blflash.py stores it in a slot, bl_core_validate_slot  *)
(* judges it again, bl_jump_to_app of the host port judges its vector      *)
(* table, and the application that runs looks for the API table.           *)
(*                                                                         *)
(* Sizes, offsets and addresses are numbers of width WordMod.  The byte at *)
(* offset k of an image file is k itself, and the checksum of a range is   *)
(* the sequence of its bytes.  The marks of a header (magic, version,      *)
(* header checksum) are right or wrong.                                    *)
(***************************************************************************)
EXTENDS BlProto, BlApi, Sequences

CONSTANTS
    HDR_STRUCT_SIZE,      \* bytes in a header (40)
    BL_IMG_HDR_REGION,    \* bytes before the payload, alignment of VTOR (512)
    WRITE_GRANULARITY,    \* bytes in a flash programming unit (8)
    BL_CRC_CHUNK,         \* bytes that are checksummed at a time (256)
    VectorBytes,          \* bytes in the two words of a vector table (8)
    slot_base,            \* where the slots begin
    slot_size,            \* bytes in a slot, the same for all of them
    FLASH_BASE, FLASH_SIZE, SRAM_BASE, SRAM_END,
    Inputs,               \* payload lengths that mkimage.py is given
    Files,                \* files that come from somewhere else
    Vectors,              \* the words [msp, reset] that a payload begins with
    Tables, Regions,      \* API tables, and the bounds of the bootloader
    Blank,                \* an erased byte
    None                  \* nothing yet

VARIABLES
    pc,             \* how far the image is
    file,           \* [hdr, len]: header and length of the image file
    origin,         \* "mkimage" or "other"
    checked,        \* blimage.validate accepted the file
    target,         \* the slot
    content,        \* [hdr, byte]: what the slot holds
    decayed,        \* the slot changed after it was written
    address, remaining, payload_crc,   \* locals of bl_core_validate_slot
    verdict,        \* what bl_core_validate_slot returned
    jumped,         \* g_jump_target, None when the port refused
    vec,            \* the vector table that the port saw
    api             \* [table, base, size, found]: a lookup

source == <<file, origin, checked>>
place == <<target, content, decayed>>
loop == <<address, remaining, payload_crc>>
launch == <<jumped, vec, api>>
vars == <<pc, source, place, loop, verdict, launch>>

\* The header of an image, and an image file.
bl_img_hdr_t ==
    [magic : BOOLEAN, hdr_version : BOOLEAN, hdr_crc : BOOLEAN,
     entry_offset : Nat, img_size : Nat, img_crc32 : Seq(Nat)]
File == [hdr : bl_img_hdr_t, len : Nat]

Word == 0 .. WordMod - 1

\* The sizes of the formats, and the layout of the port: slots of whole
\* header regions, in flash, that do not overlap.
ASSUME ImageAssumption ==
    /\ WordMod \in Nat
    /\ BL_IMG_HDR_REGION \in Nat
    /\ HDR_STRUCT_SIZE \in 1 .. BL_IMG_HDR_REGION
    /\ WRITE_GRANULARITY \in 1 .. BL_IMG_HDR_REGION
    /\ BL_CRC_CHUNK \in Nat \ {0}
    /\ VectorBytes \in 0 .. WRITE_GRANULARITY
    /\ slot_size \in Nat
    /\ slot_size % BL_IMG_HDR_REGION = 0
    /\ FLASH_BASE \in Nat /\ FLASH_SIZE \in Nat
    /\ FLASH_BASE + FLASH_SIZE < WordMod
    /\ slot_base \in [Slot -> Nat]
    /\ \A s \in Slot : /\ slot_base[s] % BL_IMG_HDR_REGION = 0
                       /\ slot_base[s] >= FLASH_BASE
                       /\ slot_base[s] + slot_size <= FLASH_BASE + FLASH_SIZE
    /\ slot_base[0] + slot_size <= slot_base[1] \/ slot_base[1] + slot_size <= slot_base[0]

\* What the environment hands over is of these types.
ASSUME InputAssumption ==
    /\ Inputs \subseteq Nat
    /\ Files \subseteq File
    /\ Vectors \subseteq [msp : Nat, reset : Nat]
    /\ Tables \subseteq [magic : BOOLEAN, version : BOOLEAN, size : BOOLEAN, confirm : Word]
    /\ Regions \subseteq [base : Word, size : Word]

\* The bytes of a file from offset a up to, not including, offset b.
Range(a, b) == IF a < b THEN [k \in 1 .. b - a |-> a + k - 1] ELSE <<>>
Wrong == <<>>

-----------------------------------------------------------------------------
(* mkimage.py *)

\* The payload is padded to whole programming units.
pad_payload_none(n) == n     \* fault: the input is taken as it is
pad_payload(n) ==
    n + ((-n) % WRITE_GRANULARITY)

build_header(n) ==
    [magic |-> TRUE, hdr_version |-> TRUE, hdr_crc |-> TRUE,
     entry_offset |-> BL_IMG_HDR_REGION, img_size |-> n,
     img_crc32 |-> Range(BL_IMG_HDR_REGION, BL_IMG_HDR_REGION + n)]

\* An empty input is refused.
Mkimage(n) ==
    /\ pc = "start"
    /\ n # 0
    /\ file' = [hdr |-> build_header(pad_payload(n)),
                len |-> BL_IMG_HDR_REGION + pad_payload(n)]
    /\ origin' = "mkimage"
    /\ pc' = "file"
    /\ UNCHANGED <<checked, place, loop, verdict, launch>>

OtherFile(f) ==
    /\ pc = "start"
    /\ file' = f
    /\ origin' = "other"
    /\ pc' = "file"
    /\ UNCHANGED <<checked, place, loop, verdict, launch>>

-----------------------------------------------------------------------------
(* blimage.validate and Bootloader.update *)

\* Whole programming units and a payload that is all there.
payload_complete(h, len) ==
    /\ h.img_size # 0
    /\ h.img_size % WRITE_GRANULARITY = 0
    /\ len - h.entry_offset = h.img_size

validate(f) ==
    /\ f.len >= BL_IMG_HDR_REGION
    /\ f.hdr.magic
    /\ f.hdr.hdr_version
    /\ f.hdr.hdr_crc
    /\ f.hdr.entry_offset >= HDR_STRUCT_SIZE
    /\ f.hdr.entry_offset % BL_IMG_HDR_REGION = 0
    /\ payload_complete(f.hdr, f.len)
    /\ Range(f.hdr.entry_offset, f.len) = f.hdr.img_crc32
    /\ f.hdr.entry_offset + f.hdr.img_size <= slot_size

\* What an erased slot holds when the bytes from `offset' on and then the
\* header of a file are written.
stored_at_region(f, offset) ==      \* fault: entry_offset is taken for granted
    [hdr |-> f.hdr,
     byte |-> [k \in 0 .. slot_size - 1 |->
                  IF k >= BL_IMG_HDR_REGION /\ k < BL_IMG_HDR_REGION + f.len - offset
                  THEN k + offset - BL_IMG_HDR_REGION ELSE Blank]]
stored(f, offset) ==
    [hdr |-> f.hdr,
     byte |-> [k \in 0 .. slot_size - 1 |->
                  IF k >= offset /\ k < f.len THEN k ELSE Blank]]

\* The image is judged before anything is erased.
Update(s) ==
    /\ pc = "file"
    /\ \/ /\ validate(file)
          /\ checked' = TRUE
          /\ target' = s
          /\ content' = stored(file, file.hdr.entry_offset)
          /\ pc' = "stored"
       \/ /\ ~ validate(file)
          /\ pc' = "refused"
          /\ UNCHANGED <<checked, target, content>>
    /\ UNCHANGED <<file, origin, decayed, loop, verdict, launch>>

\* Another host, or a debugger, writes what it likes.
WriteUnjudged(s) ==
    /\ pc = "file"
    /\ target' = s
    /\ content' = stored(file, BL_IMG_HDR_REGION)
    /\ pc' = "stored"
    /\ UNCHANGED <<source, decayed, loop, verdict, launch>>

\* Stored data changes (sim_corrupt): one byte behind the header, or any
\* change of the header, which its checksum then contradicts.
Decay ==
    /\ pc = "stored"
    /\ ~ decayed
    /\ \/ \E k \in DOMAIN content.byte :
             content' = [content EXCEPT !.byte[k] = Blank]
       \/ content' = [content EXCEPT !.hdr.hdr_crc = FALSE]
    /\ decayed' = TRUE
    /\ UNCHANGED <<pc, source, target, loop, verdict, launch>>

-----------------------------------------------------------------------------
(* bl_core_validate_slot *)

\* The payload ends in the slot; the sum would wrap, the difference cannot.
payload_fits_sum(h) ==       \* fault: the sum is compared
    (h.entry_offset + h.img_size) % WordMod <= slot_size
payload_fits(h) == h.img_size <= (slot_size - h.entry_offset) % WordMod

size_acceptable_zero(h) == payload_fits(h)    \* fault: an empty payload passes
size_acceptable(h) == h.img_size # 0 /\ payload_fits(h)

\* The payload starts behind the header, in the slot, where VTOR can point.
entry_acceptable_unaligned(h) ==              \* fault: the alignment is not judged
    h.entry_offset >= HDR_STRUCT_SIZE /\ h.entry_offset < slot_size
entry_acceptable(h) ==
    /\ h.entry_offset >= HDR_STRUCT_SIZE
    /\ h.entry_offset % BL_IMG_HDR_REGION = 0
    /\ h.entry_offset < slot_size

\* Everything that is judged before the payload is read, in this order.
header_check(h) ==
    IF ~ h.magic THEN "BL_ERR_MAGIC"
    ELSE IF ~ h.hdr_version THEN "BL_ERR_HDR_VERSION"
    ELSE IF ~ h.hdr_crc THEN "BL_ERR_HDR_CRC"
    ELSE IF ~ entry_acceptable(h) THEN "BL_ERR_ENTRY_OFFSET"
    ELSE IF ~ size_acceptable(h) THEN "BL_ERR_IMAGE_SIZE"
    ELSE BL_OK

ValidateHeader ==
    /\ pc = "stored"
    /\ \/ /\ header_check(content.hdr) = BL_OK
          /\ address' = slot_base[target] + content.hdr.entry_offset
          /\ remaining' = content.hdr.img_size
          /\ payload_crc' = <<>>
          /\ pc' = "payload"
          /\ UNCHANGED verdict
       \/ /\ header_check(content.hdr) # BL_OK
          /\ verdict' = header_check(content.hdr)
          /\ pc' = "judged"
          /\ UNCHANGED loop
    /\ UNCHANGED <<source, place, launch>>

\* bl_flash_read of n bytes at addr, in the slot.
bl_flash_read(addr, n) ==
    [k \in 1 .. n |-> content.byte[addr - slot_base[target] + k - 1]]

chunk_whole == BL_CRC_CHUNK    \* fault: the last chunk is not cut short
chunk == IF remaining > BL_CRC_CHUNK THEN BL_CRC_CHUNK ELSE remaining

ValidateChunk ==
    /\ pc = "payload"
    /\ remaining > 0
    /\ payload_crc' = payload_crc \o bl_flash_read(address, chunk)
    /\ address' = (address + chunk) % WordMod
    /\ remaining' = (remaining - chunk) % WordMod
    /\ UNCHANGED <<pc, source, place, verdict, launch>>

ValidateEnd ==
    /\ pc = "payload"
    /\ remaining = 0
    /\ verdict' = IF payload_crc = content.hdr.img_crc32
                  THEN BL_OK ELSE "BL_ERR_IMAGE_CRC"
    /\ pc' = "judged"
    /\ UNCHANGED <<source, place, loop, launch>>

-----------------------------------------------------------------------------
(* bl_jump_to_app of the host port *)

\* The slot that an address lies in.
slot_of(addr) ==
    {s \in Slot : addr >= slot_base[s] /\ addr < slot_base[s] + slot_size}

flash_range_valid(addr, len) ==
    IF len = 0 THEN addr >= FLASH_BASE /\ addr <= FLASH_BASE + FLASH_SIZE
    ELSE /\ addr >= FLASH_BASE
         /\ addr < FLASH_BASE + FLASH_SIZE
         /\ len <= FLASH_SIZE - (addr - FLASH_BASE)

\* The reset address lies in the slot that holds the image.
entry_in_flash(base, addr) ==    \* fault: any flash will do
    base >= FLASH_BASE /\ flash_range_valid(addr, 1)
entry_in_slot(base, addr) ==
    \E s \in slot_of(base) : s \in slot_of(addr)

vectors_usable(base, v) ==
    /\ v.msp >= SRAM_BASE
    /\ v.msp <= SRAM_END
    /\ v.msp % 4 = 0
    /\ v.reset % 2 = 1
    /\ entry_in_slot(base, v.reset - 1)

\* What bl_core_boot hands over.
app_base == slot_base[target] + content.hdr.entry_offset

\* The port returns only when it refuses.
Jump(v) ==
    LET base == app_base
        usable == /\ slot_of(base) # {}
                  /\ base % BL_IMG_HDR_REGION = 0
                  /\ flash_range_valid(base, VectorBytes)
                  /\ vectors_usable(base, v)
    IN
    /\ pc = "judged"
    /\ verdict = BL_OK
    /\ jumped' = IF usable THEN base ELSE None
    /\ vec' = v
    /\ pc' = IF usable THEN "app" ELSE "loader"
    /\ UNCHANGED <<source, place, loop, verdict, api>>

\* The application looks up the API table.
Lookup(t, r) ==
    /\ pc = "app"
    /\ api' = [table |-> t, base |-> r.base, size |-> r.size,
               found |-> bl_api_lookup(t, r.base, r.size)]
    /\ pc' = "done"
    /\ UNCHANGED <<source, place, loop, verdict, jumped, vec>>

Init ==
    /\ pc = "start"
    /\ file = None
    /\ origin = None
    /\ checked = FALSE
    /\ target = None
    /\ content = None
    /\ decayed = FALSE
    /\ address = 0 /\ remaining = 0 /\ payload_crc = <<>>
    /\ verdict = None
    /\ jumped = None
    /\ vec = None
    /\ api = None

Next ==
    \/ \E n \in Inputs : Mkimage(n)
    \/ \E f \in Files : OtherFile(f)
    \/ \E s \in Slot : Update(s) \/ WriteUnjudged(s)
    \/ Decay
    \/ ValidateHeader \/ ValidateChunk \/ ValidateEnd
    \/ \E v \in Vectors : Jump(v)
    \/ \E t \in Tables, r \in Regions : Lookup(t, r)

Spec == Init /\ [][Next]_vars

-----------------------------------------------------------------------------
(* Properties *)

\* The addresses of the slots.
SlotBytes == {slot_base[s] + k : s \in Slot, k \in 0 .. slot_size - 1}

\* Every variable keeps its type; no more than a slot is ever to be read.
TypeOK ==
    /\ pc \in {"start", "file", "refused", "stored", "payload", "judged",
              "app", "loader", "done"}
    /\ origin \in {"mkimage", "other", None}
    /\ checked \in BOOLEAN /\ decayed \in BOOLEAN
    /\ target \in Slot \cup {None}
    /\ address \in 0 .. WordMod - 1
    /\ remaining \in 0 .. slot_size
    /\ verdict \in Result \cup {None}
    /\ jumped \in SlotBytes \cup {None}

\* bl_core_validate_slot reads the payload that the header declares, all of
\* it and nothing outside the slot, whatever numbers a header with a right
\* checksum carries (bl_core.c:145-149, 177-207).
ReadsInside ==
    pc = "payload" =>
        LET h == content.hdr IN
        /\ address + remaining = slot_base[target] + h.entry_offset + h.img_size
        /\ address + remaining <= slot_base[target] + slot_size
        /\ Len(payload_crc) + remaining = h.img_size

\* What it means for a slot to hold an image, without widths and loops.
HoldsImage(c) ==
    /\ c.hdr.magic /\ c.hdr.hdr_version /\ c.hdr.hdr_crc
    /\ c.hdr.entry_offset >= HDR_STRUCT_SIZE
    /\ \E k \in 0 .. slot_size : c.hdr.entry_offset = k * BL_IMG_HDR_REGION
    /\ c.hdr.img_size > 0
    /\ c.hdr.entry_offset + c.hdr.img_size <= slot_size
    /\ \A k \in 1 .. c.hdr.img_size :
          /\ k \in DOMAIN c.hdr.img_crc32
          /\ c.hdr.img_crc32[k] = c.byte[c.hdr.entry_offset + k - 1]
    /\ Len(c.hdr.img_crc32) = c.hdr.img_size

\* bl_core_validate_slot accepts a slot exactly when it holds an image.
VerdictExact == pc = "judged" => (verdict = BL_OK <=> HoldsImage(content))

\* blimage.validate judges "the way the bootloader will" (blimage.py:92): a
\* file it accepts, stored by blflash.py and not changed since, is accepted
\* by the device, so no slot is erased for an image that cannot boot.
ToolAgrees == pc = "judged" /\ checked /\ ~ decayed => verdict = BL_OK

\* What mkimage.py builds is refused only when it does not fit a slot.
BuiltIsAccepted ==
    pc = "refused" /\ origin = "mkimage" =>
        BL_IMG_HDR_REGION + file.hdr.img_size > slot_size

\* Control goes only into the slot of the image, through an aligned vector
\* table; for an image of the tool, every byte of the table is covered by
\* the payload checksum.
JumpsIntoImage ==
    jumped # None =>
        /\ jumped % BL_IMG_HDR_REGION = 0
        /\ vec.reset - 1 >= slot_base[target]
        /\ vec.reset - 1 < slot_base[target] + slot_size
        /\ checked => VectorBytes <= content.hdr.img_size

\* An image that validates is refused by the port for the words of its
\* vector table alone: slot base and entry_offset never cost a boot
\* (bl_core.c:161-167).
OnlyVectorsRefused ==
    pc = "loader" => ~ vectors_usable(app_base, vec)

\* The lookup returns a table exactly when its marks are right and the
\* function lies in the bootloader, also at the end of the address space.
LookupExact ==
    api # None =>
        (api.found <=> /\ api.table.magic /\ api.table.version /\ api.table.size
                       /\ api.table.confirm # 0
                       /\ \E k \in 0 .. api.size - 1 : api.table.confirm = api.base + k)
=============================================================================
