-------------------------- MODULE MCMediaTransport --------------------------
(***************************************************************************)
(* Instance of MediaTransport for TLC: a call, after one that ended before *)
(* its receiver had a transport.                                           *)
(***************************************************************************)
EXTENDS MediaTransport

CONSTANTS c1, c2

TwoCalls == {c1, c2}
StaleCall == <<c1>>
=============================================================================
