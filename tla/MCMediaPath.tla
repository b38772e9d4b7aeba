---------------------------- MODULE MCMediaPath ----------------------------
(***************************************************************************)
(* Instance of MediaPath for TLC.                                          *)
(***************************************************************************)
EXTENDS MediaPath

AllPackets == 1 .. MaxPackets

(* The hypothesis under which playout is proved to be in order. *)
ASSUME WindowAssumption == WindowFits
=============================================================================
