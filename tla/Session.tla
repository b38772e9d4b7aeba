------------------------------ MODULE Session ------------------------------
(***************************************************************************)
(* What one call.Session promises to everybody who holds it: the states    *)
(* of call/session.go in their iota order, left one at a time by           *)
(* transition and in one jump by End, whose first reason is kept.  Each    *)
(* step is the critical section under Session.mu; the broadcast that       *)
(* follows it is modelled in SessionEvents.                                *)
(*                                                                         *)
(* Call implements this specification once per side of a call.             *)
(***************************************************************************)
EXTENDS SessionStates

CONSTANTS Reasons,   \* the reasons End can be given
          NoReason   \* the zero value of Session.reason

VARIABLES state,     \* Session.state
          reason     \* Session.reason

vars == <<state, reason>>

(* transition fails on an ended session and on any target but the next. *)
CanMove(from, target) == from # Ended /\ target = from + 1

transition(target) ==
    /\ CanMove(state, target)
    /\ state' = target
    /\ UNCHANGED reason

ToRinging    == transition(Ringing)
ToConnecting == transition(Connecting)
ToConnected  == transition(Connected)

(* End is a no-op on an ended session, so the first reason is preserved. *)
End(r) ==
    /\ state # Ended
    /\ state' = Ended
    /\ reason' = r

Init == state = Idle /\ reason = NoReason

Next == ToRinging \/ ToConnecting \/ ToConnected \/ \E r \in Reasons : End(r)

Spec == Init /\ [][Next]_vars
=============================================================================
