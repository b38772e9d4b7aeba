-------------------------- MODULE MCSessionEvents --------------------------
(***************************************************************************)
(* Instance of SessionEvents for TLC.                                      *)
(***************************************************************************)
EXTENDS SessionEvents
=============================================================================
