------------------------------ MODULE MCBlMeta -------------------------------
(***************************************************************************)
(* Instances of BlMeta for TLC.  The counter is three bits wide and five   *)
(* commits deep, which takes every region through two reuses and every     *)
(* order of interruptions between them.                                    *)
(***************************************************************************)
EXTENDS BlMeta
=============================================================================
