------------------------------ MODULE MCBlFlash ------------------------------
(***************************************************************************)
(* Instances of BlFlash for TLC.  A slot is five granules, one of header,  *)
(* one of padding and three of payload, written in a chunk of two and a    *)
(* last one.  `old' is what the device runs before, `new' is installed.    *)
(***************************************************************************)
EXTENDS BlFlash

CONSTANTS old, new

Images == {old, new}
ImageEnds == [i \in Images |-> 5]
Versions == [i \in Images |-> IF i = old THEN 1 ELSE 3]
BothSlots == {0, 1}

Full(i) == [g \in 0 .. 4 |-> i]
NoImage == [g \in 0 .. 4 |-> Blank]
Start(a, b, active, arg, late_link) ==
    [content |-> [s \in {0, 1} |-> IF s = 0 THEN a ELSE b], active |-> active,
     arg |-> arg, late |-> late_link,
     commands |-> IF late_link \/ active = None THEN 1 ELSE 3]

\* The nominated slot validates; --slot is free and the link may be late.
ActiveValid ==
    {Start(c[1], c[2], c[3], arg, late_link) :
        c \in {<<Full(old), NoImage, 0>>, <<Full(old), Full(new), 0>>,
               <<Full(new), Full(old), 1>>},
        arg \in {None, 0, 1}, late_link \in BOOLEAN}
\* No record: one valid image, or two with different versions.
Unrecorded(late_link) ==
    {Start(c[1], c[2], None, None, late_link) :
        c \in {<<NoImage, Full(old)>>, <<Full(old), Full(new)>>,
               <<Full(new), Full(old)>>, <<Full(old), NoImage>>}}
AllStarts == ActiveValid \cup Unrecorded(FALSE)
LateUnrecorded == Unrecorded(TRUE)
\* The hypothesis of the theorems of BlFlashProofs holds of these.
ASSUME StartsAreSafe == \A sc \in AllStarts : SafeStart(sc)
\* The nominated slot is damaged, the other one boots.
ActiveDamaged == {Start(NoImage, Full(old), 0, None, FALSE)}
=============================================================================
