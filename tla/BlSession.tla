------------------------------ MODULE BlSession ------------------------------
(***************************************************************************)
(* core/src/bl_core.c, command handling: bl_core_handle_frame and the      *)
(* handlers it dispatches to, with the update session of bl_core.h and the *)
(* flash content they change.                                              *)
(*                                                                         *)
(* The requests are arbitrary: a request that was lost, repeated, delayed  *)
(* or reordered on the link is one of the sequences that Next allows.      *)
(* Power can be lost at any point, inside an erase or a write as well.  A  *)
(* flash operation that fails leaves flash as it was, as on the host port. *)
(*                                                                         *)
(* Flash is counted in write granules (cells).  A cell of image i, where   *)
(* i's own data belongs, holds i; a slot validates when every cell that    *)
(* the header and the payload checksums cover belongs to the same image.   *)
(* Frames, and the bytes of the replies, are left to the frame codec.      *)
(***************************************************************************)
EXTENDS BlProto

CONSTANTS
    Image,               \* firmware images
    ImgCells,            \* where the payload of an image ends, in granules
    Cells,               \* granules in a slot
    HdrCells,            \* granules of the image header (40 bytes)
    RegionCells,         \* granules of the header region (BL_IMG_HDR_REGION)
    Gran,                \* bytes per granule, bl_flash_write_granularity()
    Writes,              \* what WRITE requests carry: <<offset, length of data>>
    Erasable,            \* slots that start and end on an erase page
    Blank,               \* an erased cell
    Junk,                \* a cell left undefined by an interruption
    Conflict,            \* a cell programmed twice between erases
    None                 \* nothing yet

VARIABLES
    flash,       \* the content of the slots
    session,     \* bl_session_t
    nominated,   \* the slot of the last SET_ACTIVE that succeeded
    reply        \* the command and the status byte of the last response

vars == <<flash, session, nominated, reply>>

Cell == 0 .. Cells - 1

\* The byte offset of a cell in its slot.
at(g) == g * Gran
slot_size == at(Cells)

ASSUME SessionAssumption ==
    /\ Cells \in Nat /\ Gran \in Nat \ {0}
    /\ HdrCells \in 1 .. Cells
    /\ RegionCells \in HdrCells .. Cells
    /\ ImgCells \in [Image -> RegionCells + 1 .. Cells]
    /\ Writes \subseteq Nat \X Nat
    /\ Erasable \subseteq Slot
    /\ Blank # Conflict /\ Junk # Conflict /\ Blank # Junk
    /\ {Blank, Junk, Conflict} \cap Image = {}
    /\ None \notin Slot

Content == [Cell -> Image \cup {Blank, Junk, Conflict}]

\* The cells that the two checksums of an image cover; the padding between
\* header and payload is covered by neither.
Header == {g \in Cell : g < HdrCells}
Covered(i) == Header \cup {g \in Cell : RegionCells <= g /\ g < ImgCells[i]}
holds(content, i) == \A g \in Covered(i) : content[g] = i

\* bl_core_validate_slot on a content: the header is judged first.
validate_slot(content) ==
    IF \E i \in Image : holds(content, i) THEN BL_OK
    ELSE IF content[0] \notin Image THEN "BL_ERR_MAGIC"
    ELSE IF \E g \in Header : content[g] # content[0] THEN "BL_ERR_HDR_CRC"
    ELSE "BL_ERR_IMAGE_CRC"

NoSession == [target_slot |-> 0, erased |-> FALSE, highest_offset |-> 0,
              header_written |-> FALSE, reset_requested |-> FALSE]

Respond(cmd, status) == reply' = [cmd |-> cmd, status |-> status]

-----------------------------------------------------------------------------
(* ERASE_SLOT *)

ErasedContent == [g \in Cell |-> Blank]
UndefinedContent == [g \in Cell |-> Junk]

KeepsOldTarget(s) ==         \* fault: writes go on into the previous slot
    [session EXCEPT !.erased = s \in Slot, !.highest_offset = 0,
                    !.header_written = FALSE]
FreshSession(s) ==
    [session EXCEPT !.target_slot = s, !.erased = TRUE, !.highest_offset = 0,
                    !.header_written = FALSE]

handle_erase_slot(s) ==
    \/ /\ s \in Erasable
       /\ flash' = [flash EXCEPT ![s] = ErasedContent]
       /\ session' = FreshSession(s)
       /\ Respond("ERASE_SLOT", BL_OK)
       /\ UNCHANGED nominated
    \/ /\ s \in Erasable    \* bl_flash_erase fails: the session is kept
       /\ Respond("ERASE_SLOT", "BL_ERR_FLASH_ERASE")
       /\ UNCHANGED <<flash, session, nominated>>
    \/ /\ s \notin Erasable
       /\ Respond("ERASE_SLOT", "BL_ERR_INVALID_ARGUMENT")
       /\ UNCHANGED <<flash, session, nominated>>

-----------------------------------------------------------------------------
(* WRITE *)

\* The order rule: payload writes ascend, offset zero is permitted once.
repeats_strict(offset) ==          \* fault: off by one, the last cell may repeat
    IF offset = 0 THEN session.header_written
    ELSE offset + Gran < session.highest_offset
repeats(offset) ==
    IF offset = 0 THEN session.header_written
    ELSE offset < session.highest_offset

\* The bounds rule, in its subtracting form: offset + data_len may wrap.
beyond_slot_start(offset, data_len) ==   \* fault: the end is not compared
    offset > slot_size /\ data_len > 0
beyond_slot(offset, data_len) ==
    offset > slot_size \/ data_len > slot_size - offset

\* The checks of handle_write, in their order.
write_check(offset, data_len) ==
    IF data_len = 0 THEN "BL_ERR_INVALID_PACKET"
    ELSE IF ~ session.erased THEN "BL_ERR_NOT_ERASED"
    ELSE IF offset % Gran # 0 \/ data_len % Gran # 0 THEN "BL_ERR_INVALID_ARGUMENT"
    ELSE IF repeats(offset) THEN "BL_ERR_NOT_ERASED"
    ELSE IF beyond_slot(offset, data_len) THEN "BL_ERR_IMAGE_SIZE"
    ELSE BL_OK

\* A range of bytes, programmed with the data of image i.
Touched(offset, len) == {g \in Cell : offset <= at(g) /\ at(g) < offset + len}
Program(content, offset, len, i) ==
    [g \in Cell |-> IF g \notin Touched(offset, len) THEN content[g]
                    ELSE IF content[g] = Blank THEN i ELSE Conflict]

\* How many bytes a write that is cut short may have programmed.
Prefix(data_len) == {at(g) : g \in {h \in Cell : at(h) <= data_len}}

AfterWrite(offset, data_len) ==
    [session EXCEPT
        !.header_written = offset = 0 \/ session.header_written,
        !.highest_offset = IF offset + data_len > session.highest_offset
                           THEN offset + data_len ELSE session.highest_offset]

handle_write(offset, data_len, i) ==
    LET t == session.target_slot IN
    /\ \/ /\ write_check(offset, data_len) = BL_OK
          /\ flash' = [flash EXCEPT ![t] = Program(flash[t], offset, data_len, i)]
          /\ session' = AfterWrite(offset, data_len)
          /\ Respond("WRITE", BL_OK)
       \/ /\ write_check(offset, data_len) = BL_OK    \* bl_flash_write fails
          /\ UNCHANGED <<flash, session>>
          /\ Respond("WRITE", "BL_ERR_FLASH_PROGRAM")
       \/ /\ write_check(offset, data_len) # BL_OK
          /\ UNCHANGED <<flash, session>>
          /\ Respond("WRITE", write_check(offset, data_len))
    /\ UNCHANGED nominated

-----------------------------------------------------------------------------
(* The other commands *)

check_slot(s) ==
    IF s \notin Slot THEN "BL_ERR_INVALID_ARGUMENT" ELSE validate_slot(flash[s])

handle_verify(s) ==
    /\ Respond("VERIFY", check_slot(s))
    /\ UNCHANGED <<flash, session, nominated>>

\* handle_set_active and bl_core_mark_pending; the commit may fail.
handle_set_active(s) ==
    /\ \/ /\ check_slot(s) = BL_OK
          /\ nominated' = s
          /\ Respond("SET_ACTIVE", BL_OK)
       \/ /\ check_slot(s) = BL_OK
          /\ \E e \in CommitError : Respond("SET_ACTIVE", e)
          /\ UNCHANGED nominated
       \/ /\ check_slot(s) # BL_OK
          /\ Respond("SET_ACTIVE", check_slot(s))
          /\ UNCHANGED nominated
    /\ UNCHANGED <<flash, session>>

\* The reset itself is left to the caller.
handle_reset ==
    /\ session' = [session EXCEPT !.reset_requested = TRUE]
    /\ Respond("RESET", BL_OK)
    /\ UNCHANGED <<flash, nominated>>

handle_hello ==
    /\ Respond("HELLO", BL_OK)
    /\ UNCHANGED <<flash, session, nominated>>

\* A command that is not known, or whose payload has the wrong length.
Malformed ==
    /\ Respond("OTHER", "BL_ERR_INVALID_PACKET")
    /\ UNCHANGED <<flash, session, nominated>>

bl_core_handle_frame ==
    \/ handle_hello
    \/ handle_reset
    \/ Malformed
    \/ \E s \in 0 .. BL_SLOT_COUNT :
          \/ handle_erase_slot(s)
          \/ handle_verify(s)
          \/ handle_set_active(s)
    \/ \E w \in Writes, i \in Image : handle_write(w[1], w[2], i)

-----------------------------------------------------------------------------
(* Restarts: the caller's reset after RESET, or the supply.  The session   *)
(* is zero-initialised; what was being erased or programmed is undefined.  *)

session_survives ==          \* fault: the caller keeps its session struct
    /\ UNCHANGED <<session, nominated>>
    /\ reply' = None
LoseSession ==
    /\ session' = NoSession
    /\ reply' = None
    /\ UNCHANGED nominated

Restart ==
    /\ LoseSession
    /\ UNCHANGED flash

PowerLossInErase(s) ==
    /\ s \in Erasable
    /\ flash' = [flash EXCEPT ![s] = UndefinedContent]
    /\ LoseSession

PowerLossInWrite(offset, data_len, i) ==
    /\ write_check(offset, data_len) = BL_OK
    /\ \E k \in Prefix(data_len) :
          flash' = [flash EXCEPT ![session.target_slot] =
                       Program(flash[session.target_slot], offset, k, i)]
    /\ LoseSession

\* Slots as a factory or an earlier update left them.
Init ==
    /\ flash \in [Slot -> {ErasedContent, UndefinedContent}
                          \cup {[g \in Cell |-> i] : i \in Image}]
    /\ session = NoSession
    /\ nominated = None
    /\ reply = None

Next ==
    \/ bl_core_handle_frame
    \/ Restart
    \/ \E s \in Slot : PowerLossInErase(s)
    \/ \E w \in Writes, i \in Image : PowerLossInWrite(w[1], w[2], i)

Spec == Init /\ [][Next]_vars

-----------------------------------------------------------------------------
(* Properties *)

Command == {"HELLO", "ERASE_SLOT", "WRITE", "VERIFY", "SET_ACTIVE", "RESET", "OTHER"}

\* Every variable keeps its type; writes stay inside the slot.
TypeOK ==
    /\ flash \in [Slot -> Content]
    /\ session \in [target_slot : Slot, erased : BOOLEAN,
                    highest_offset : 0 .. slot_size,
                    header_written : BOOLEAN, reset_requested : BOOLEAN]
    /\ nominated \in Slot \cup {None}
    /\ reply \in [cmd : Command, status : Result] \cup {None}

\* Offset zero carries at most the header region, the payload starts behind
\* it: what tools/blflash.py sends.
Disciplined(offset, data_len) ==
    IF offset = 0 THEN data_len <= at(RegionCells) ELSE offset >= at(RegionCells)
HostDiscipline == \A w \in Writes : Disciplined(w[1], w[2])

\* No cell is programmed twice between erases, whatever is retransmitted:
\* "Reject any write that could program a location twice between erases ...
\* it cannot be left to the host to avoid" (bl_core.c:566-570).
NoDoubleProgram == \A s \in Slot, g \in Cell : flash[s][g] # Conflict

\* What the session knows of the target slot: cells from highest_offset on
\* are blank, and so is the first one until the header is written.
SessionInv ==
    session.erased =>
        \A g \in Cell :
            \/ at(g) >= session.highest_offset
            \/ g = 0 /\ ~ session.header_written
            => flash[session.target_slot][g] = Blank

\* A complete image stays in its slot, intact, until that slot is erased: no
\* WRITE, however late or often repeated, no failure, no restart and no
\* traffic about the other slot damages what VERIFY or SET_ACTIVE accepted,
\* or will accept.  The boot path relies on it.
IntactUntilErased ==
    [][\A s \in Slot, i \in Image :
          holds(flash[s], i) /\ ~ holds(flash'[s], i) =>
              flash'[s] \in {ErasedContent, UndefinedContent}]_vars
=============================================================================
