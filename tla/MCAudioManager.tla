--------------------------- MODULE MCAudioManager ---------------------------
(***************************************************************************)
(* Instance of AudioManager for TLC.                                       *)
(***************************************************************************)
EXTENDS AudioManager
=============================================================================
