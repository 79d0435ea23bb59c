------------------------------ MODULE MCBlBoot -------------------------------
(***************************************************************************)
(* Instances of BlBoot for TLC.  `newer' is a later version of `good',     *)
(* `deaf' validates but has no usable vector table.                        *)
(***************************************************************************)
EXTENDS BlBoot

CONSTANTS good, newer, deaf

Images == {good, newer, deaf}
Versions == [i \in Images |-> IF i = good THEN 1 ELSE 2]
RefusedImages == {deaf}
=============================================================================
