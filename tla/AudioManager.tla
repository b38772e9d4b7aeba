---------------------------- MODULE AudioManager ----------------------------
(***************************************************************************)
(* audio.Manager (audio/manager.go): one loop starts an audio session when *)
(* a call is connected and closes it when the call has ended, from the     *)
(* events of a channel the call.Manager fills without ever blocking.       *)
(*                                                                         *)
(* Each call's forwarder delivers its events as SessionEvents shows:       *)
(* every event at most once, nothing after "ended".  NewSession opens      *)
(* devices and dials, so a long time may pass inside it; it runs without   *)
(* Manager.mu.                                                             *)
(***************************************************************************)
EXTENDS Naturals, Sequences, FiniteSets

CONSTANTS CallIDs,    \* the calls of the daemon
          ChanCap,    \* capacity of SubscribeStateChanges' channel (32)
          MayStop     \* TRUE when Manager.Stop may be called

ASSUME ChanAssumption == ChanCap \in Nat \ {0} /\ MayStop \in BOOLEAN

Kinds == {"ringing", "connecting", "connected", "ended"}
Events == [call : CallIDs, state : Kinds]
NoCall == "no call"
ASSUME NoCallAssumption == NoCall \notin CallIDs

VARIABLES
    told,        \* the events each call's forwarder has fanned out
    events,      \* the channel the loop reads
    missed,      \* calls whose "ended" was dropped on overflow
    loop,        \* pc of Start
    current,     \* the call Start is working on
    sessions,    \* keys of Manager.sessions
    open,        \* audio sessions constructed and not yet closed
    cancelled,   \* innerCtx is cancelled
    stop,        \* pc of Stop
    closing      \* sessions Stop has taken out of the map and not yet closed

callVars == <<told, events, missed>>
loopVars == <<loop, current>>
stopVars == <<cancelled, stop, closing>>
managerVars == <<told, events, missed, loop, current, sessions, open, cancelled, stop, closing>>

ManagerTypeOK ==
    /\ told \in [CallIDs -> SUBSET Kinds]
    /\ events \in Seq(Events) /\ Len(events) <= ChanCap
    /\ missed \subseteq CallIDs
    /\ loop \in {"off", "select", "create", "insert", "close", "done"}
    /\ current \in CallIDs \cup {NoCall}
    /\ sessions \subseteq CallIDs
    /\ open \subseteq CallIDs
    /\ cancelled \in BOOLEAN
    /\ stop \in {"idle", "closing", "done"}
    /\ closing \subseteq CallIDs
-----------------------------------------------------------------------------
(* call.Manager.fanout to the loop's channel, while it is subscribed. *)
fanout(c, k) ==
    /\ "ended" \notin told[c] /\ k \notin told[c]
    /\ k = "connected" => "connecting" \in told[c]
    /\ told' = [told EXCEPT ![c] = @ \cup {k}]
    /\ IF loop \in {"off", "done"} THEN UNCHANGED <<events, missed>>
       ELSE IF Len(events) < ChanCap
       THEN events' = Append(events, [call |-> c, state |-> k]) /\ UNCHANGED missed
       ELSE missed' = (IF k = "ended" THEN missed \cup {c} ELSE missed) /\ UNCHANGED events
    /\ UNCHANGED <<loopVars, sessions, open, stopVars>>

(* The head of Start: from here on the loop is subscribed. *)
Start ==
    /\ loop = "off"
    /\ loop' = "select"
    /\ UNCHANGED <<callVars, current, sessions, open, stopVars>>

(* One event; a "connected" for a call that has a session is ignored. *)
StartEvent ==
    /\ loop = "select" /\ events # << >>
    /\ LET ev == Head(events) IN
       /\ events' = Tail(events)
       /\ current' = ev.call
       /\ \/ /\ ev.state = "connected" /\ ev.call \notin sessions
             /\ loop' = "create"
             /\ UNCHANGED sessions
          \/ /\ ev.state = "ended" /\ ev.call \in sessions
             /\ loop' = "close"
             /\ sessions' = sessions \ {ev.call}
          \/ /\ ~(ev.state = "connected" /\ ev.call \notin sessions)
             /\ ~(ev.state = "ended" /\ ev.call \in sessions)
             /\ UNCHANGED <<loop, sessions>>
    /\ UNCHANGED <<told, missed, open, stopVars>>

(* NewSession returns, with an error (devices, dial, pipeline) or without. *)
startSessionCreate ==
    /\ loop = "create"
    /\ \/ loop' = "insert" /\ open' = open \cup {current}
       \/ loop' = "select" /\ UNCHANGED open
    /\ UNCHANGED <<callVars, current, sessions, stopVars>>

(* Faulty: NewSession returned and the map entry is forgotten. *)
startSessionForgotten ==
    /\ loop = "insert"
    /\ loop' = "select"
    /\ UNCHANGED <<callVars, current, sessions, open, stopVars>>

startSessionInsert ==
    /\ loop = "insert"
    /\ loop' = "select"
    /\ sessions' = sessions \cup {current}
    /\ UNCHANGED <<callVars, current, open, stopVars>>

(* Faulty: stopSession deletes the entry and does not close the session. *)
stopSessionUnclosed ==
    /\ loop = "close"
    /\ loop' = "select"
    /\ UNCHANGED <<callVars, current, sessions, open, stopVars>>

(* Session.Close, at the end of stopSession. *)
stopSessionClose ==
    /\ loop = "close"
    /\ loop' = "select"
    /\ open' = open \ {current}
    /\ UNCHANGED <<callVars, current, sessions, stopVars>>

(* select found innerCtx done; the deferred UnsubscribeStateChanges. *)
StartExits ==
    /\ loop = "select" /\ cancelled
    /\ loop' = "done"
    /\ events' = << >>
    /\ UNCHANGED <<told, missed, current, sessions, open, stopVars>>

(* Stop cancels, if Start has set cancel, and takes the map in one lock    *)
(* section ...                                                             *)
Stop ==
    /\ MayStop /\ stop = "idle"
    /\ stop' = "closing"
    /\ cancelled' = (loop # "off")
    /\ closing' = sessions
    /\ sessions' = {}
    /\ UNCHANGED <<callVars, loopVars, open>>

(* ... and closes the sessions it took. *)
StopClose ==
    /\ stop = "closing"
    /\ IF closing = {} THEN stop' = "done" /\ UNCHANGED <<closing, open>>
       ELSE \E c \in closing :
              closing' = closing \ {c} /\ open' = open \ {c} /\ UNCHANGED stop
    /\ UNCHANGED <<callVars, loopVars, sessions, cancelled>>
-----------------------------------------------------------------------------
ManagerInit ==
    /\ told = [c \in CallIDs |-> {}] /\ events = << >> /\ missed = {}
    /\ loop = "off" /\ current = NoCall
    /\ sessions = {} /\ open = {}
    /\ cancelled = FALSE /\ stop = "idle" /\ closing = {}

LoopStep ==
    \/ StartEvent \/ startSessionCreate \/ startSessionInsert
    \/ stopSessionClose \/ StartExits

ManagerNext ==
    \/ \E c \in CallIDs, k \in Kinds : fanout(c, k)
    \/ Start \/ LoopStep
    \/ Stop \/ StopClose

(* The loop's goroutine runs, NewSession and Close return. *)
ManagerFairness == WF_managerVars(LoopStep) /\ WF_managerVars(StopClose)

ManagerSpec     == ManagerInit /\ [][ManagerNext]_managerVars
ManagerFairSpec == ManagerSpec /\ ManagerFairness
-----------------------------------------------------------------------------
(* Every audio session that holds devices and streams is in the map, taken *)
(* by Stop, or in the hands of the loop, even when Stop runs in the middle *)
(* of startSession or stopSession: somebody can still find and close it.   *)
OpenIsReachable ==
    /\ sessions \cup closing \subseteq open
    /\ open \ (sessions \cup closing) \subseteq {current}
    /\ open # sessions \cup closing => loop \in {"insert", "close"}

(* The audio of a call does not outlive it: once its "ended" is in the     *)
(* loop's channel its audio session is closed for good, however long the   *)
(* loop was held up in NewSession for this or another call, unless Stop    *)
(* intervenes.                                                             *)
AudioEndsWithCall ==
    \A c \in CallIDs :
        ("ended" \in told[c] /\ c \notin missed /\ loop \notin {"off", "done"})
            ~> [](c \notin open \/ stop # "idle")
=============================================================================
