----------------------------- MODULE MCBlDevice ------------------------------
(***************************************************************************)
(* Instances of BlDevice for TLC.  `deaf' validates but has no usable      *)
(* vector table.                                                           *)
(***************************************************************************)
EXTENDS BlDevice

CONSTANTS good, deaf

Images == {good, deaf}
Versions == [i \in Images |-> IF i = good THEN 1 ELSE 2]
RefusedImages == {deaf}
=============================================================================
