------------------------------ MODULE MCBlLine -------------------------------
(***************************************************************************)
(* Instances of BlLine for TLC.  In the first one SOF is 2 and payloads    *)
(* are up to four bytes, so that a marker read as a length is a length     *)
(* that is accepted; one payload looks like the beginning of a frame and   *)
(* the marker is among the values of a checksum.  In the second one the    *)
(* marker is only where a frame begins, and a damaged length is that of    *)
(* two frames more.                                                        *)
(***************************************************************************)
EXTENDS BlLine

SomeCmds == {1, 3}
SomePayloads == {<<>>, <<2, 1, 4, 0>>}
SomeNoise == {0, 2, 5}
CrcValues == <<0, 2, 0, 1>>

OneCmd == {1}
NoPayload == {<<>>}
LongLength == {16}
NoMarker == <<1, 1, 1, 1>>
=============================================================================
