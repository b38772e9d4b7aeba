-------------------------------- MODULE Call --------------------------------
(***************************************************************************)
(* One call between two daemons, each running call.Engine and call.Manager *)
(* (call/streams.go, call/manager.go, call/session.go).                    *)
(*                                                                         *)
(* The caller's goroutine is Place followed by readLoop, the callee's is   *)
(* handleStream; both end in runScanner.  Requests are the accept and      *)
(* hangup requests that IPC clients issue on either side at any time while *)
(* the session is in the registry, each in a goroutine of its own.  One    *)
(* label of pc is the next lock section or stream operation of its         *)
(* goroutine; unlocked steps of one goroutine that no other can observe    *)
(* are merged into it.                                                     *)
(*                                                                         *)
(* The control stream is a FIFO in each direction.  Close flushes what was *)
(* written and ends both directions; a reader whose own end is closed, or  *)
(* whose connection is gone, may still see lines its scanner had buffered  *)
(* or fail at once, so both are allowed.                                   *)
(***************************************************************************)
EXTENDS SessionStates, Sequences

CONSTANTS Accepts,         \* accept requests issued at the callee
          CallerHangups,   \* hangup requests issued at the caller
          CalleeHangups,   \* hangup requests issued at the callee
          StopSides,       \* sides whose Engine.Stop may be called
          LossyNet         \* TRUE when the connection may break

Caller == "caller"
Callee == "callee"
Sides  == {Caller, Callee}
Other(s) == IF s = Caller THEN Callee ELSE Caller

Hangups  == CallerHangups \cup CalleeHangups
Requests == Accepts \cup Hangups

ASSUME RequestsAssumption ==
    /\ Accepts \cap Hangups = {}
    /\ CallerHangups \cap CalleeHangups = {}
    /\ Requests \cap Sides = {}

ASSUME StopSidesAssumption == StopSides \subseteq Sides /\ LossyNet \in BOOLEAN

NoReason      == "none"
Disconnected  == "remote disconnected"
InviteFailed  == "failed to send INVITE"

(* A hangup request's reason text is represented by the request itself. *)
ASSUME ReasonsAssumption ==
    {NoReason, Disconnected, InviteFailed} \cap Hangups = {}

Reasons == Hangups \cup {Disconnected, InviteFailed}

VARIABLES
    state, reason,   \* Session.state and Session.reason of each side
    registered,      \* the session is in Manager.sessions
    bound,           \* the session is in Engine.streams and Engine.encs
    pc,              \* next step of each goroutine
    inbox,           \* lines written to a side and not yet read
    closed,          \* the side has closed its end of the stream
    broken,          \* the connection broke or the stream was reset
    stopped,         \* Engine.Stop has run
    accepted,        \* history: requests whose ACCEPT was written
    heard            \* history: the caller has read an ACCEPT

sessionVars == <<state, reason>>
tableVars   == <<registered, bound>>
streamVars  == <<inbox, closed, broken>>
historyVars == <<accepted, heard>>
vars == <<state, reason, registered, bound, pc, inbox, closed, broken,
          stopped, accepted, heard>>

CallerSession == INSTANCE Session WITH state <- state[Caller], reason <- reason[Caller]
CalleeSession == INSTANCE Session WITH state <- state[Callee], reason <- reason[Callee]

(* The side whose engine a goroutine works on. *)
SideOf(g) == IF g \in Sides THEN g
             ELSE IF g \in CallerHangups THEN Caller ELSE Callee

Goroutines == Sides \cup Requests

Messages == [type : {"INVITE", "ACCEPT"}] \cup [type : {"HANGUP"}, reason : Hangups]

Labels == {"start", "bind", "register", "invite", "inviteFailed", "ringing",
           "readLoop", "wait", "scan", "mirror", "eof", "write", "connecting",
           "connected", "end", "unbind", "remove", "done"}

Goto(g, from, to) == pc[g] = from /\ pc' = [pc EXCEPT ![g] = to]
-----------------------------------------------------------------------------
(* Session operations on one side, as a goroutine sees them. *)

(* Faulty: any later state is accepted, not only the next one. *)
CanMoveSkipping(s, target) == state[s] # Ended /\ target > state[s]

CanMove(s, target) == state[s] # Ended /\ target = state[s] + 1

(* Session.transition: the caller learns from CanMove whether it returned nil. *)
transition(s, target) ==
    /\ state' = [state EXCEPT ![s] = IF CanMove(s, target) THEN target ELSE @]
    /\ UNCHANGED reason

(* Session.End: idempotent, the first reason is preserved. *)
End(s, r) ==
    /\ reason' = [reason EXCEPT ![s] = IF state[s] = Ended THEN @ ELSE r]
    /\ state'  = [state EXCEPT ![s] = Ended]

(* Engine.write found an encoder and Encode returned nil.  What reaches a   *)
(* stream the peer has closed is discarded there.                           *)
WriteOk(s, m) ==
    /\ bound[s] /\ ~closed[s] /\ ~broken
    /\ inbox' = IF closed[Other(s)] THEN inbox
                ELSE [inbox EXCEPT ![Other(s)] = Append(@, m)]
    /\ UNCHANGED <<closed, broken>>

(* Engine.write returned an error: no encoder, or a dead stream. *)
WriteFails(s) ==
    /\ ~bound[s] \/ closed[s] \/ broken \/ closed[Other(s)]
    /\ UNCHANGED streamVars

(* The scanner of side s has a next line m. *)
Scan(s, m) ==
    /\ inbox[s] # << >>
    /\ m = Head(inbox[s])
    /\ inbox' = [inbox EXCEPT ![s] = Tail(@)]
    /\ UNCHANGED <<closed, broken>>

(* Scan returns false: end of file, or an error on the stream. *)
ScanEnds(s) ==
    \/ inbox[s] = << >> /\ closed[Other(s)]
    \/ closed[s]
    \/ broken

(* Faulty: the tables are cleared and the stream is left open. *)
unbindOnly(s) ==
    /\ bound' = [bound EXCEPT ![s] = FALSE]
    /\ UNCHANGED streamVars

(* Engine.unbindAndClose: only the goroutine that finds the entry closes. *)
unbindAndClose(s) ==
    /\ bound'  = [bound EXCEPT ![s] = FALSE]
    /\ closed' = [closed EXCEPT ![s] = @ \/ bound[s]]
    /\ UNCHANGED <<inbox, broken>>
-----------------------------------------------------------------------------
(* The caller: Engine.Place. *)

(* The dial, its one retry included, succeeds or Place returns an error. *)
PlaceDial ==
    /\ \/ Goto(Caller, "start", "bind")
       \/ Goto(Caller, "start", "done")
    /\ UNCHANGED <<sessionVars, tableVars, streamVars, stopped, historyVars>>

(* NewSession and Engine.bind, on either side. *)
bind(s) ==
    /\ Goto(s, "bind", "register")
    /\ bound' = [bound EXCEPT ![s] = TRUE]
    /\ UNCHANGED <<sessionVars, registered, streamVars, stopped, historyVars>>

(* Manager.Register, before the first transition on either side. *)
Register(s) ==
    /\ Goto(s, "register", IF s = Caller THEN "invite" ELSE "ringing")
    /\ registered' = [registered EXCEPT ![s] = TRUE]
    /\ UNCHANGED <<sessionVars, bound, streamVars, stopped, historyVars>>

(* Faulty: the read loop runs before Place reaches ToRinging. *)
PlaceInviteReadingEarly ==
    /\ \/ WriteOk(Caller, [type |-> "INVITE"]) /\ Goto(Caller, "invite", "readLoop")
       \/ WriteFails(Caller) /\ Goto(Caller, "invite", "inviteFailed")
    /\ UNCHANGED <<sessionVars, tableVars, stopped, historyVars>>

(* The INVITE is written by Place itself, before any other goroutine of    *)
(* this call exists.                                                       *)
PlaceInvite ==
    /\ \/ WriteOk(Caller, [type |-> "INVITE"]) /\ Goto(Caller, "invite", "ringing")
       \/ WriteFails(Caller) /\ Goto(Caller, "invite", "inviteFailed")
    /\ UNCHANGED <<sessionVars, tableVars, stopped, historyVars>>

PlaceInviteFailed ==
    /\ Goto(Caller, "inviteFailed", "unbind")
    /\ End(Caller, InviteFailed)
    /\ UNCHANGED <<tableVars, streamVars, stopped, historyVars>>

(* ToRinging.  When it fails, Place returns and no read loop is started. *)
PlaceRinging ==
    /\ Goto(Caller, "ringing",
            IF CanMove(Caller, Ringing) THEN "readLoop" ELSE "done")
    /\ transition(Caller, Ringing)
    /\ UNCHANGED <<tableVars, streamVars, stopped, historyVars>>

(* readLoop gives up when streamFor finds nothing. *)
readLoop ==
    /\ Goto(Caller, "readLoop", IF bound[Caller] THEN "scan" ELSE "done")
    /\ UNCHANGED <<sessionVars, tableVars, streamVars, stopped, historyVars>>
-----------------------------------------------------------------------------
(* The callee: Engine.handleStream. *)

Opened == pc[Caller] \notin {"start", "bind", "register"}

(* The host hands a new stream to the handler, or refuses it after Stop. *)
handleStreamStart ==
    /\ Opened
    /\ \/ /\ ~stopped[Callee]
          /\ Goto(Callee, "start", "wait")
          /\ UNCHANGED streamVars
       \/ /\ stopped[Callee]
          /\ Goto(Callee, "start", "done")
          /\ broken' = TRUE
          /\ UNCHANGED <<inbox, closed>>
    /\ UNCHANGED <<sessionVars, tableVars, stopped, historyVars>>

handleStreamInvite ==
    /\ Goto(Callee, "wait", "bind")
    /\ Scan(Callee, [type |-> "INVITE"])
    /\ UNCHANGED <<sessionVars, tableVars, stopped, historyVars>>

(* Another first message, no first message within the read deadline, or an *)
(* ended stream: the stream is reset.                                      *)
handleStreamReset ==
    /\ Goto(Callee, "wait", "done")
    /\ \/ inbox[Callee] = << >>
       \/ inbox[Callee] # << >> /\ Head(inbox[Callee]).type # "INVITE"
       \/ ScanEnds(Callee)
    /\ broken' = TRUE
    /\ UNCHANGED <<sessionVars, tableVars, inbox, closed, stopped, historyVars>>

handleStreamRinging ==
    /\ transition(Callee, Ringing)
    /\ \/ /\ CanMove(Callee, Ringing)
          /\ Goto(Callee, "ringing", "scan")
          /\ UNCHANGED closed
       \/ /\ ~CanMove(Callee, Ringing)
          /\ Goto(Callee, "ringing", "done")
          /\ closed' = [closed EXCEPT ![Callee] = TRUE]
    /\ UNCHANGED <<tableVars, inbox, broken, stopped, historyVars>>
-----------------------------------------------------------------------------
(* Engine.runScanner, on either side. *)

(* ACCEPT: ToConnecting now, ToConnected in the next step, errors ignored. *)
runScannerAccept(s) ==
    /\ Goto(s, "scan", "mirror")
    /\ Scan(s, [type |-> "ACCEPT"])
    /\ transition(s, Connecting)
    /\ heard' = (heard \/ s = Caller)
    /\ UNCHANGED <<tableVars, stopped, accepted>>

runScannerMirror(s) ==
    /\ Goto(s, "mirror", "scan")
    /\ transition(s, Connected)
    /\ UNCHANGED <<tableVars, streamVars, stopped, historyVars>>

runScannerHangup(s) ==
    /\ Goto(s, "scan", "unbind")
    /\ \E r \in Hangups :
          Scan(s, [type |-> "HANGUP", reason |-> r]) /\ End(s, r)
    /\ UNCHANGED <<tableVars, stopped, historyVars>>

runScannerEnds(s) ==
    /\ Goto(s, "scan", "unbind")
    /\ ScanEnds(s)
    /\ End(s, Disconnected)
    /\ UNCHANGED <<tableVars, streamVars, stopped, historyVars>>

(* The deferred clean-up of runScanner, and the same two calls at the end   *)
(* of Hangup and of Place's INVITE failure.                                 *)
Unbind(g) ==
    /\ Goto(g, "unbind", "remove")
    /\ unbindAndClose(SideOf(g))
    /\ UNCHANGED <<sessionVars, registered, stopped, historyVars>>

Remove(g) ==
    /\ Goto(g, "remove", "done")
    /\ registered' = [registered EXCEPT ![SideOf(g)] = FALSE]
    /\ UNCHANGED <<sessionVars, bound, streamVars, stopped, historyVars>>
-----------------------------------------------------------------------------
(* Requests of IPC clients: Manager.Get, then Engine.Accept or Hangup. *)

Get(r) ==
    /\ registered[SideOf(r)]
    /\ Goto(r, "start", "write")
    /\ UNCHANGED <<sessionVars, tableVars, streamVars, stopped, historyVars>>

(* Faulty: the error of write is ignored, as Hangup ignores it. *)
AcceptWriteUnchecked(r) ==
    /\ Goto(r, "write", "connecting")
    /\ \/ WriteOk(Callee, [type |-> "ACCEPT"]) /\ accepted' = accepted \cup {r}
       \/ WriteFails(Callee) /\ UNCHANGED accepted
    /\ UNCHANGED <<sessionVars, tableVars, stopped, heard>>

(* ACCEPT is written before the local transitions are tried. *)
AcceptWrite(r) ==
    /\ \/ /\ WriteOk(Callee, [type |-> "ACCEPT"])
          /\ Goto(r, "write", "connecting")
          /\ accepted' = accepted \cup {r}
       \/ /\ WriteFails(Callee)
          /\ Goto(r, "write", "done")
          /\ UNCHANGED accepted
    /\ UNCHANGED <<sessionVars, tableVars, stopped, heard>>

AcceptConnecting(r) ==
    /\ Goto(r, "connecting",
            IF CanMove(Callee, Connecting) THEN "connected" ELSE "done")
    /\ transition(Callee, Connecting)
    /\ UNCHANGED <<tableVars, streamVars, stopped, historyVars>>

AcceptConnected(r) ==
    /\ Goto(r, "connected", "done")
    /\ transition(Callee, Connected)
    /\ UNCHANGED <<tableVars, streamVars, stopped, historyVars>>

(* Faulty: a failed HANGUP write skips End and goes to the clean-up. *)
HangupWriteSkippingEnd(r) ==
    /\ \/ WriteOk(SideOf(r), [type |-> "HANGUP", reason |-> r]) /\ Goto(r, "write", "end")
       \/ WriteFails(SideOf(r)) /\ Goto(r, "write", "unbind")
    /\ UNCHANGED <<sessionVars, tableVars, stopped, historyVars>>

(* The HANGUP line is best effort; the local end follows in any case. *)
HangupWrite(r) ==
    /\ Goto(r, "write", "end")
    /\ \/ WriteOk(SideOf(r), [type |-> "HANGUP", reason |-> r])
       \/ WriteFails(SideOf(r))
    /\ UNCHANGED <<sessionVars, tableVars, stopped, historyVars>>

HangupEnd(r) ==
    /\ Goto(r, "end", "unbind")
    /\ End(SideOf(r), r)
    /\ UNCHANGED <<tableVars, streamVars, stopped, historyVars>>
-----------------------------------------------------------------------------
(* Engine.Stop: the handler is removed, the tables cleared, streams closed. *)
Stop(s) ==
    /\ s \in StopSides /\ ~stopped[s]
    /\ stopped' = [stopped EXCEPT ![s] = TRUE]
    /\ unbindAndClose(s)
    /\ UNCHANGED <<sessionVars, registered, pc, historyVars>>

(* The connection under an open stream breaks. *)
Break ==
    /\ LossyNet /\ ~broken /\ pc[Caller] # "start"
    /\ broken' = TRUE
    /\ UNCHANGED <<sessionVars, tableVars, pc, inbox, closed, stopped, historyVars>>
-----------------------------------------------------------------------------
Init ==
    /\ state = [s \in Sides |-> Idle]
    /\ reason = [s \in Sides |-> NoReason]
    /\ registered = [s \in Sides |-> FALSE]
    /\ bound = [s \in Sides |-> FALSE]
    /\ pc = [g \in Goroutines |-> "start"]
    /\ inbox = [s \in Sides |-> << >>]
    /\ closed = [s \in Sides |-> FALSE]
    /\ broken = FALSE
    /\ stopped = [s \in Sides |-> FALSE]
    /\ accepted = {}
    /\ heard = FALSE

Place == PlaceDial \/ PlaceInvite \/ PlaceInviteFailed \/ PlaceRinging \/ readLoop

handleStream ==
    \/ handleStreamStart \/ handleStreamInvite
    \/ handleStreamReset \/ handleStreamRinging

(* Lines that are malformed, carry another call's ID or are a second       *)
(* INVITE are skipped by the scanner; a peer running this code sends none,  *)
(* and no DECLINE either: a call is declined with Hangup.                   *)
runScanner(s) ==
    \/ runScannerAccept(s) \/ runScannerMirror(s)
    \/ runScannerHangup(s) \/ runScannerEnds(s)

Accept(r) == AcceptWrite(r) \/ AcceptConnecting(r) \/ AcceptConnected(r)

Hangup(r) == HangupWrite(r) \/ HangupEnd(r)

Next ==
    \/ Place
    \/ handleStream
    \/ \E s \in Sides : bind(s) \/ Register(s) \/ runScanner(s) \/ Stop(s)
    \/ \E g \in Goroutines : Unbind(g) \/ Remove(g)
    \/ \E r \in Requests : Get(r)
    \/ \E r \in Accepts : Accept(r)
    \/ \E r \in Hangups : Hangup(r)
    \/ Break

(* A goroutine that can run does run, and a dialled stream reaches the     *)
(* peer's handler.  Users and the network owe nothing: Get, Stop, Break    *)
(* and the first step of Place are not fair.                               *)
Fairness ==
    /\ WF_vars(PlaceInvite \/ PlaceInviteFailed \/ PlaceRinging \/ readLoop)
    /\ WF_vars(handleStream)
    /\ \A s \in Sides : WF_vars(bind(s) \/ Register(s)) /\ WF_vars(runScanner(s))
    /\ \A g \in Goroutines : WF_vars(Unbind(g) \/ Remove(g))
    /\ \A r \in Accepts : WF_vars(Accept(r))
    /\ \A r \in Hangups : WF_vars(Hangup(r))

Spec     == Init /\ [][Next]_vars
FairSpec == Spec /\ Fairness
-----------------------------------------------------------------------------
(* Types of the variables. *)
TypeOK ==
    /\ state \in [Sides -> States]
    /\ reason \in [Sides -> Reasons \cup {NoReason}]
    /\ registered \in [Sides -> BOOLEAN]
    /\ bound \in [Sides -> BOOLEAN]
    /\ pc \in [Goroutines -> Labels]
    /\ inbox \in [Sides -> Seq(Messages)]
    /\ closed \in [Sides -> BOOLEAN]
    /\ broken \in BOOLEAN
    /\ stopped \in [Sides -> BOOLEAN]
    /\ accepted \subseteq Accepts
    /\ heard \in BOOLEAN

(* Neither side leaves Ringing for a call unless a user of the callee      *)
(* accepted it and the ACCEPT was written to the stream: Accept writes     *)
(* first and runScanner mirrors only what it reads.                        *)
Consent ==
    \A s \in Sides : state[s] \in {Connecting, Connected} => accepted # {}

(* An ACCEPT the caller reads is never lost: back in the scan loop its     *)
(* session is Connected or Ended, because Place reaches Ringing before it  *)
(* starts readLoop and nobody else moves an outbound session forward.      *)
AcceptHeard ==
    heard /\ pc[Caller] = "scan" => state[Caller] \in {Connected, Ended}

(* A live call can be found and hung up by its user: while the session is  *)
(* not over it is in the registry, and bound to its stream unless Stop has *)
(* cleared the tables.  Every clean-up path ends the session first.        *)
LiveCallsCanBeHungUp ==
    \A s \in Sides :
        state[s] \in Live => registered[s] /\ (bound[s] \/ stopped[s])

(* Seen through either side's Session, whatever the requests and the       *)
(* network do, states advance one at a time, Ended is final and the first  *)
(* reason is kept.                                                         *)
CallerIsSession == CallerSession!Spec
CalleeIsSession == CalleeSession!Spec
SidesAreSessions == CallerIsSession /\ CalleeIsSession

(* A call that is over on one side ends on both (HANGUP, end of stream or  *)
(* an error reaches the other read loop), and neither side keeps a         *)
(* registry entry or a stream for it.                                      *)
Released(s) == state[s] \in {Idle, Ended} /\ ~registered[s] /\ ~bound[s]
EndReachesBothSides ==
    (\E s \in Sides : state[s] = Ended) ~> [](\A s \in Sides : Released(s))
=============================================================================
