----------------------------- MODULE MCBlSession -----------------------------
(***************************************************************************)
(* Instances of BlSession for TLC.  A slot is four or five granules of two *)
(* bytes: one of header, one of padding, the rest of payload.  `Tool'      *)
(* requests are those of tools/blflash.py (payload from the header region   *)
(* on, then the header), with an offset and a length that are no multiple  *)
(* of the granularity and an offset at the very end of the slot; `Any'     *)
(* adds the header region.                                                 *)
(***************************************************************************)
EXTENDS BlSession

CONSTANTS small, large

Images == {small, large}
ImageEnds == [i \in Images |-> IF i = small THEN 3 ELSE 4]
OneImage == {large}
OneImageEnds == [i \in OneImage |-> 5]

ToolWrites == {0, 4, 6, 7, 8, 10} \X {0, 2, 3, 4}
AnyWrites == {0, 2, 4, 6} \X {2, 4}
BothSlots == {0, 1}
OneSlot == {1}
=============================================================================
