--------------------------- MODULE SessionStates ---------------------------
(***************************************************************************)
(* The State constants of call/session.go in their iota order.             *)
(***************************************************************************)
EXTENDS Naturals

Idle       == 0
Ringing    == 1
Connecting == 2
Connected  == 3
Ended      == 4
States     == Idle .. Ended

(* A call somebody may still answer, be in, or hang up. *)
Live == {Ringing, Connecting, Connected}
=============================================================================
