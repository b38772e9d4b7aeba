--------------------------- MODULE SessionEvents ---------------------------
(***************************************************************************)
(* How the state changes of one call.Session reach its observers           *)
(* (call/session.go, call/manager.go, ipc/methods/calls.go).               *)
(*                                                                         *)
(* A transition is made under Session.mu and broadcast after the unlock,   *)
(* so the broadcasts of two goroutines can overtake each other.  Observers *)
(* are the forwarder Manager.Register starts, which fans out to the        *)
(* Manager-level subscribers (audio, desktop notifications, TUI), and      *)
(* the goroutine of pipeStateChanges behind calls.start and calls.attach.  *)
(*                                                                         *)
(* The writers are the goroutines of Call: main rings; an inbound session  *)
(* is answered by an accept request, an outbound one by main's own read    *)
(* loop; main and the hangup requests end it.                              *)
(***************************************************************************)
EXTENDS Session, Sequences

CONSTANTS Accepts,   \* accept requests
          Hangups,   \* hangup requests
          SubCap     \* capacity of a channel of Session.Subscribe (16)

Main == "main"
Writers == {Main} \cup Accepts \cup Hangups
Nobody == "nobody"
NoChange == Idle   \* Idle is entered by no transition and never broadcast
Changes == {Ringing, Connecting, Connected, Ended}

ASSUME SubCapAssumption == SubCap \in Nat \ {0}
ASSUME WritersAssumption == {Main, Nobody} \cap (Accepts \cup Hangups) = {}

VARIABLES
    direction,   \* "Inbound" or "Outbound"
    pending,     \* the change a writer has made and not yet broadcast
    answerer,    \* the writer that moved the session to Connecting
    forwarder,   \* the goroutine Register starts: none yet, running, exited
    fwdCh,       \* its channel
    fanned,      \* history: the changes fanned out to Manager subscribers
    pipe,        \* pc of pipeStateChanges
    pipeCh,      \* its channel; << >> while not subscribed
    current,     \* the state it synthesized
    first,       \* its flag: no event taken from the channel yet
    wire         \* history: the states emitted to the IPC connection

evVars   == <<pending, answerer>>
fwdVars  == <<forwarder, fwdCh, fanned>>
pipeVars == <<pipe, pipeCh, current, first, wire>>
allVars  == <<state, reason, direction, pending, answerer, forwarder, fwdCh,
              fanned, pipe, pipeCh, current, first, wire>>

Answerers == IF direction = "Inbound" THEN Accepts ELSE {Main}
Enders    == {Main} \cup Hangups

TypeOK ==
    /\ state \in States
    /\ reason \in Reasons \cup {NoReason}
    /\ direction \in {"Inbound", "Outbound"}
    /\ pending \in [Writers -> Changes \cup {NoChange}]
    /\ answerer \in Writers \cup {Nobody}
    /\ forwarder \in {"none", "running", "exited"}
    /\ fwdCh \in Seq(Changes)
    /\ fanned \in Seq(Changes)
    /\ pipe \in {"off", "subscribed", "loop", "done", "gone"}
    /\ pipeCh \in Seq(Changes)
    /\ current \in States
    /\ first \in BOOLEAN
    /\ wire \in Seq(States)
-----------------------------------------------------------------------------
(* The second half of Manager.Register: the session is in the registry and *)
(* requests can find it, and only now is its forwarder subscribed.         *)
Register ==
    /\ forwarder = "none"
    /\ forwarder' = "running"
    /\ UNCHANGED <<vars, direction, evVars, fwdCh, fanned, pipeVars>>

(* The writers.  A free one has returned from its last broadcast, and the  *)
(* session's own goroutine from Register too.                              *)
Free(g) == pending[g] = NoChange /\ (g = Main => forwarder # "none")

Ring ==
    /\ Free(Main)
    /\ ToRinging
    /\ pending' = [pending EXCEPT ![Main] = Ringing]
    /\ UNCHANGED <<direction, answerer, fwdVars, pipeVars>>

(* The first half of Engine.Accept, or of the read loop's ACCEPT case. *)
Answer(g) ==
    /\ g \in Answerers /\ Free(g)
    /\ ToConnecting
    /\ pending' = [pending EXCEPT ![g] = Connecting]
    /\ answerer' = g
    /\ UNCHANGED <<direction, fwdVars, pipeVars>>

(* Faulty: another goroutine may take over the second half. *)
EstablishByAnyone(g) ==
    /\ Free(g)
    /\ ToConnected
    /\ pending' = [pending EXCEPT ![g] = Connected]
    /\ UNCHANGED <<direction, answerer, fwdVars, pipeVars>>

(* The second half, by the same goroutine and after its first broadcast. *)
Establish(g) ==
    /\ answerer = g /\ Free(g)
    /\ ToConnected
    /\ pending' = [pending EXCEPT ![g] = Connected]
    /\ UNCHANGED <<direction, answerer, fwdVars, pipeVars>>

Finish(g) ==
    /\ g \in Enders /\ Free(g)
    /\ \E r \in Reasons : End(r)
    /\ pending' = [pending EXCEPT ![g] = Ended]
    /\ UNCHANGED <<direction, answerer, fwdVars, pipeVars>>

(* A non-blocking send on a channel of capacity SubCap. *)
Offer(ch, ev) == IF Len(ch) < SubCap THEN Append(ch, ev) ELSE ch

(* Session.broadcast, under subsMu. *)
broadcast(g) ==
    /\ pending[g] # NoChange
    /\ pending' = [pending EXCEPT ![g] = NoChange]
    /\ fwdCh'  = IF forwarder = "running" THEN Offer(fwdCh, pending[g]) ELSE fwdCh
    /\ pipeCh' = IF pipe \in {"subscribed", "loop"}
                 THEN Offer(pipeCh, pending[g]) ELSE pipeCh
    /\ UNCHANGED <<vars, direction, answerer, forwarder, fanned,
                   pipe, current, first, wire>>
-----------------------------------------------------------------------------
(* Faulty: the forwarder does not exit on the sentinel state. *)
fanoutForever ==
    /\ forwarder = "running" /\ fwdCh # << >>
    /\ fanned' = Append(fanned, Head(fwdCh))
    /\ fwdCh' = Tail(fwdCh)
    /\ UNCHANGED <<vars, direction, evVars, forwarder, pipeVars>>

(* Faulty: the forwarder exits before it forwards the sentinel state. *)
fanoutSwallowingEnd ==
    /\ forwarder = "running" /\ fwdCh # << >>
    /\ fanned' = IF Head(fwdCh) = Ended THEN fanned ELSE Append(fanned, Head(fwdCh))
    /\ forwarder' = IF Head(fwdCh) = Ended THEN "exited" ELSE "running"
    /\ fwdCh' = Tail(fwdCh)
    /\ UNCHANGED <<vars, direction, evVars, pipeVars>>

(* The forwarder of Manager.Register: fan out, and after "ended" return    *)
(* through the deferred Unsubscribe.                                       *)
fanout ==
    /\ forwarder = "running" /\ fwdCh # << >>
    /\ fanned' = Append(fanned, Head(fwdCh))
    /\ forwarder' = IF Head(fwdCh) = Ended THEN "exited" ELSE "running"
    /\ fwdCh' = IF Head(fwdCh) = Ended THEN << >> ELSE Tail(fwdCh)
    /\ UNCHANGED <<vars, direction, evVars, pipeVars>>
-----------------------------------------------------------------------------
(* pipeStateChanges subscribes, then reads State and emits it. *)
pipeSubscribe ==
    /\ pipe = "off"
    /\ pipe' = "subscribed"
    /\ UNCHANGED <<vars, direction, evVars, fwdVars, pipeCh, current, first, wire>>

pipeSnapshot ==
    /\ pipe = "subscribed"
    /\ current' = state
    /\ wire' = Append(wire, state)
    /\ pipe' = IF state = Ended THEN "done" ELSE "loop"
    /\ pipeCh' = IF state = Ended THEN << >> ELSE pipeCh
    /\ UNCHANGED <<vars, direction, evVars, fwdVars, first>>

(* Faulty: the first event is always taken for a repetition. *)
pipeEventDroppingFirst ==
    /\ pipe = "loop" /\ pipeCh # << >>
    /\ LET ev == Head(pipeCh)
       IN  /\ wire' = IF first THEN wire ELSE Append(wire, ev)
           /\ pipe' = IF ~first /\ ev = Ended THEN "done" ELSE "loop"
           /\ pipeCh' = IF ~first /\ ev = Ended THEN << >> ELSE Tail(pipeCh)
    /\ first' = FALSE
    /\ UNCHANGED <<vars, direction, evVars, fwdVars, current>>

(* One turn of its loop; the first event is dropped when it repeats the    *)
(* synthesized state, and the loop returns after emitting "ended".         *)
pipeEvent ==
    /\ pipe = "loop" /\ pipeCh # << >>
    /\ LET ev == Head(pipeCh)
           drop == first /\ ev = current
       IN  /\ wire' = IF drop THEN wire ELSE Append(wire, ev)
           /\ pipe' = IF ~drop /\ ev = Ended THEN "done" ELSE "loop"
           /\ pipeCh' = IF ~drop /\ ev = Ended THEN << >> ELSE Tail(pipeCh)
    /\ first' = FALSE
    /\ UNCHANGED <<vars, direction, evVars, fwdVars, current>>

(* The client disconnects and conn.Done wakes the loop. *)
pipeConnDone ==
    /\ pipe = "loop"
    /\ pipe' = "gone"
    /\ pipeCh' = << >>
    /\ UNCHANGED <<vars, direction, evVars, fwdVars, current, first, wire>>
-----------------------------------------------------------------------------
EventsInit ==
    /\ Init
    /\ direction \in {"Inbound", "Outbound"}
    /\ pending = [g \in Writers |-> NoChange]
    /\ answerer = Nobody
    /\ forwarder = "none" /\ fwdCh = << >> /\ fanned = << >>
    /\ pipe = "off" /\ pipeCh = << >> /\ current = Idle /\ first = TRUE /\ wire = << >>

WriterStep(g) == Answer(g) \/ Establish(g) \/ Finish(g) \/ broadcast(g)

EventsNext ==
    \/ Register \/ Ring
    \/ \E g \in Writers : WriterStep(g)
    \/ fanout
    \/ pipeSubscribe \/ pipeSnapshot \/ pipeEvent \/ pipeConnDone

(* Goroutines that can run do run; calls need not be answered or end.      *)
EventsFairness ==
    /\ \A g \in Writers : WF_allVars(broadcast(g))
    /\ WF_allVars(Register) /\ WF_allVars(fanout)
    /\ WF_allVars(pipeSnapshot \/ pipeEvent)

EventsSpec     == EventsInit /\ [][EventsNext]_allVars
FairEventsSpec == EventsSpec /\ EventsFairness
-----------------------------------------------------------------------------
Positions(log, ev) == {i \in DOMAIN log : log[i] = ev}

(* Manager-level subscribers never hear of a call after its "ended", even  *)
(* when End overtakes another writer's broadcast: the forwarder stops at   *)
(* the sentinel, whatever is still queued or on its way.                   *)
NothingAfterEnded ==
    \A i \in DOMAIN fanned : fanned[i] = Ended => i = Len(fanned)

(* No change is fanned out twice, and "connected" only after "connecting". *)
FannedInOrder ==
    /\ \A i, j \in DOMAIN fanned : fanned[i] = fanned[j] => i = j
    /\ \A j \in Positions(fanned, Connected) :
          \E i \in Positions(fanned, Connecting) : i < j

(* A call that rang and ends is reported as ended to the Manager's         *)
(* subscribers, in whichever goroutine and whenever it ends.               *)
EndIsFannedOut ==
    [](state = Ringing => (state = Ended ~> Positions(fanned, Ended) # {}))

(* A client that stays attached is told the end, whenever it attached:     *)
(* Subscribe comes before the snapshot, so no change falls in between.     *)
AttachedClientSeesEnd ==
    (pipe # "off" /\ state = Ended) ~> (Positions(wire, Ended) # {} \/ pipe = "gone")
=============================================================================
