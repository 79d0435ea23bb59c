------------------------------ MODULE MCBlImage ------------------------------
(***************************************************************************)
(* Instances of BlImage for TLC.  Words have 64 values.  A slot has twelve *)
(* bytes: a header of three in a region of four, and eight of payload.     *)
(* Offsets and sizes are the multiples of the region and of the            *)
(* granularity, their neighbours, the ends of the slot, and numbers whose  *)
(* sum wraps.  The bootloader lies in front, at zero or at the top of the  *)
(* address space.                                                          *)
(***************************************************************************)
EXTENDS BlImage

SlotBases == [s \in Slot |-> 16 + 12 * s]
InputLengths == 0 .. 9

Header(good, e, n, crc) ==
    [magic |-> good # "magic", hdr_version |-> good # "version",
     hdr_crc |-> good # "crc", entry_offset |-> e, img_size |-> n,
     img_crc32 |-> crc]

Claims(e, n, len) == {Range(e, len), Range(e, e + n), Wrong}

\* A header whose marks are right may carry any numbers.
SomeFiles ==
    UNION {{[hdr |-> Header(x[1], x[2], x[3], crc), len |-> x[4]] :
               crc \in Claims(x[2], x[3], x[4])} :
           x \in ({"none"} \X {0, 2, 4, 6, 8, 12, 60} \X {0, 1, 2, 3, 4, 6, 8, 9, 62}
                           \X {3, 4, 6, 7, 8, 10, 12, 14})
                 \cup ({"magic", "version", "crc"} \X {4} \X {4, 62} \X {8})}

SomeVectors == [msp : {44, 48, 50, 56, 60}, reset : {15, 16, 17, 27, 28, 29, 39, 41}]

SomeTables ==
    {bl_api_table(a) : a \in {0, 1, 7, 8, 15, 16, 55, 56, 63}}
        \cup {[bl_api_table(9) EXCEPT ![m] = FALSE] : m \in {"magic", "version", "size"}}
SomeRegions ==
    {[base |-> 8, size |-> 8], [base |-> 0, size |-> 8],
     [base |-> 56, size |-> 8], [base |-> 8, size |-> 0]}
=============================================================================
