------------------------------- MODULE MCCall -------------------------------
(***************************************************************************)
(* Instance of Call for TLC; the cfg files name its requests.              *)
(***************************************************************************)
EXTENDS Call
=============================================================================
