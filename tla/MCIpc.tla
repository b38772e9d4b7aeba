-------------------------------- MODULE MCIpc --------------------------------
(***************************************************************************)
(* Instance of Ipc for TLC.                                                *)
(***************************************************************************)
EXTENDS Ipc
=============================================================================
