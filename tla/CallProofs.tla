----------------------------- MODULE CallProofs -----------------------------
(***************************************************************************)
(* Theorems about one call for any sets of accept and hangup requests,     *)
(* with or without Stop and a lossy network.                               *)
(***************************************************************************)
EXTENDS Call, TLAPS

(* Every goroutine works on one of the two sides. *)
LEMMA SideOfType == \A g \in Goroutines : SideOf(g) \in Sides
  BY DEF Goroutines, SideOf, Sides

(* The peer of a side is a side. *)
LEMMA OtherType == \A s \in Sides : Other(s) \in Sides
  BY DEF Other, Sides

(* The lines the engine writes are messages. *)
LEMMA MessageTypes ==
    /\ [type |-> "INVITE"] \in Messages
    /\ [type |-> "ACCEPT"] \in Messages
    /\ \A r \in Hangups : [type |-> "HANGUP", reason |-> r] \in Messages
  BY DEF Messages

(* The session operations keep the types of state and reason. *)
LEMMA TransitionType ==
    ASSUME TypeOK, NEW s \in Sides, NEW target \in States, transition(s, target)
    PROVE  state' \in [Sides -> States] /\ reason' = reason
  BY DEF TypeOK, transition

(* Session.End leaves a well-typed session. *)
LEMMA EndType ==
    ASSUME TypeOK, NEW s \in Sides, NEW r \in Reasons, End(s, r)
    PROVE  /\ state' \in [Sides -> States]
           /\ reason' \in [Sides -> Reasons \cup {NoReason}]
  BY DEF TypeOK, End, States, Ended, Idle

(* So do the stream operations with the stream's variables. *)
StreamOK ==
    /\ inbox \in [Sides -> Seq(Messages)]
    /\ closed \in [Sides -> BOOLEAN]
    /\ broken \in BOOLEAN

(* Engine.write, in either outcome, leaves a well-typed stream. *)
LEMMA WriteType ==
    ASSUME TypeOK, NEW s \in Sides, NEW m \in Messages, WriteOk(s, m) \/ WriteFails(s)
    PROVE  StreamOK'
  <1>1. CASE WriteFails(s)
    BY <1>1 DEF TypeOK, StreamOK, WriteFails, streamVars
  <1>2. CASE WriteOk(s, m)
    <2>1. Append(inbox[Other(s)], m) \in Seq(Messages)
      BY OtherType DEF TypeOK
    <2> QED
      BY <1>2, <2>1 DEF TypeOK, StreamOK, WriteOk
  <1> QED
    BY <1>1, <1>2

(* Reading a line leaves a well-typed stream. *)
LEMMA ScanType ==
    ASSUME TypeOK, NEW s \in Sides, NEW m, Scan(s, m)
    PROVE  StreamOK'
  <1>1. Tail(inbox[s]) \in Seq(Messages)
    BY DEF TypeOK, Scan
  <1> QED
    BY <1>1 DEF TypeOK, StreamOK, Scan

(* unbindAndClose leaves well-typed tables and streams. *)
LEMMA UnbindType ==
    ASSUME TypeOK, NEW s \in Sides, unbindAndClose(s)
    PROVE  StreamOK' /\ bound' \in [Sides -> BOOLEAN]
  BY DEF TypeOK, StreamOK, unbindAndClose

(* Moving a goroutine to a label leaves a well-typed pc. *)
LEMMA GotoType ==
    ASSUME TypeOK, NEW g \in Goroutines, NEW from, NEW to \in Labels, Goto(g, from, to)
    PROVE  pc' \in [Goroutines -> Labels]
  BY DEF TypeOK, Goto

(* The constants the steps below mention. *)
LEMMA ConstantFacts ==
    /\ Caller \in Sides /\ Callee \in Sides /\ Caller # Callee
    /\ Sides \subseteq Goroutines /\ Requests \subseteq Goroutines
    /\ Accepts \subseteq Requests /\ Hangups \subseteq Requests
    /\ Hangups \subseteq Reasons
    /\ Disconnected \in Reasons /\ InviteFailed \in Reasons
    /\ Ringing \in States /\ Connecting \in States /\ Connected \in States
    /\ \A s \in Sides : SideOf(s) = s
    /\ \A r \in Accepts : SideOf(r) = Callee
  <1>1. /\ Caller \in Sides /\ Callee \in Sides /\ Caller # Callee
        /\ \A s \in Sides : SideOf(s) = s
    BY DEF Caller, Callee, Sides, SideOf
  <1>2. /\ Sides \subseteq Goroutines /\ Requests \subseteq Goroutines
        /\ Accepts \subseteq Requests /\ Hangups \subseteq Requests
        /\ Hangups \subseteq Reasons
        /\ Disconnected \in Reasons /\ InviteFailed \in Reasons
    BY DEF Goroutines, Requests, Reasons
  <1>3. Ringing \in States /\ Connecting \in States /\ Connected \in States
    BY DEF Ringing, Connecting, Connected, States, Idle, Ended
  <1>4. ASSUME NEW r \in Accepts PROVE SideOf(r) = Callee
    BY RequestsAssumption DEF SideOf, Requests, Hangups
  <1> QED
    BY <1>1, <1>2, <1>3, <1>4

(* Every step keeps the types. *)
LEMMA TypeStep == TypeOK /\ [Next]_vars => TypeOK'
  <1> SUFFICES ASSUME TypeOK, [Next]_vars PROVE TypeOK'
    OBVIOUS
  <1> USE ConstantFacts, GotoType
  <1>1. CASE PlaceDial
    BY <1>1 DEF PlaceDial, TypeOK, sessionVars, tableVars, streamVars, historyVars, Labels
  <1>2. CASE PlaceInvite
    BY <1>2, WriteType, MessageTypes DEF PlaceInvite, TypeOK, sessionVars, tableVars, streamVars, historyVars, Labels, StreamOK
  <1>3. CASE PlaceInviteFailed
    BY <1>3, EndType DEF PlaceInviteFailed, TypeOK, sessionVars, tableVars, streamVars, historyVars, Labels
  <1>4. CASE PlaceRinging
    BY <1>4, TransitionType DEF PlaceRinging, TypeOK, sessionVars, tableVars, streamVars, historyVars, Labels
  <1>5. CASE readLoop
    BY <1>5 DEF readLoop, TypeOK, sessionVars, tableVars, streamVars, historyVars, Labels
  <1>6. CASE handleStreamStart
    BY <1>6 DEF handleStreamStart, TypeOK, sessionVars, tableVars, streamVars, historyVars, Labels
  <1>7. CASE handleStreamInvite
    BY <1>7, ScanType DEF handleStreamInvite, TypeOK, sessionVars, tableVars, streamVars, historyVars, Labels, StreamOK
  <1>8. CASE handleStreamReset
    BY <1>8 DEF handleStreamReset, TypeOK, sessionVars, tableVars, streamVars, historyVars, Labels
  <1>9. CASE handleStreamRinging
    BY <1>9, TransitionType DEF handleStreamRinging, TypeOK, sessionVars, tableVars, streamVars, historyVars, Labels
  <1>10. ASSUME NEW s \in Sides, bind(s) PROVE TypeOK'
    BY <1>10 DEF bind, TypeOK, sessionVars, tableVars, streamVars, historyVars, Labels
  <1>11. ASSUME NEW s \in Sides, Register(s) PROVE TypeOK'
    BY <1>11 DEF Register, TypeOK, sessionVars, tableVars, streamVars, historyVars, Labels
  <1>12. ASSUME NEW s \in Sides, runScannerAccept(s) PROVE TypeOK'
    BY <1>12, ScanType, TransitionType DEF runScannerAccept, TypeOK, sessionVars, tableVars, streamVars, historyVars, Labels, StreamOK
  <1>13. ASSUME NEW s \in Sides, runScannerMirror(s) PROVE TypeOK'
    BY <1>13, TransitionType DEF runScannerMirror, TypeOK, sessionVars, tableVars, streamVars, historyVars, Labels
  <1>14. ASSUME NEW s \in Sides, runScannerHangup(s) PROVE TypeOK'
    BY <1>14, ScanType, EndType DEF runScannerHangup, TypeOK, sessionVars, tableVars, streamVars, historyVars, Labels, StreamOK
  <1>15. ASSUME NEW s \in Sides, runScannerEnds(s) PROVE TypeOK'
    BY <1>15, EndType DEF runScannerEnds, TypeOK, sessionVars, tableVars, streamVars, historyVars, Labels
  <1>16. ASSUME NEW s \in Sides, Stop(s) PROVE TypeOK'
    BY <1>16, UnbindType DEF Stop, TypeOK, sessionVars, tableVars, streamVars, historyVars, StreamOK
  <1>17. ASSUME NEW g \in Goroutines, Unbind(g) PROVE TypeOK'
    BY <1>17, UnbindType, SideOfType DEF Unbind, TypeOK, sessionVars, tableVars, streamVars, historyVars, Labels, StreamOK
  <1>18. ASSUME NEW g \in Goroutines, Remove(g) PROVE TypeOK'
    BY <1>18, SideOfType DEF Remove, TypeOK, sessionVars, tableVars, streamVars, historyVars, Labels
  <1>19. ASSUME NEW r \in Requests, Get(r) PROVE TypeOK'
    BY <1>19 DEF Get, TypeOK, sessionVars, tableVars, streamVars, historyVars, Labels
  <1>20. ASSUME NEW r \in Accepts, AcceptWrite(r) PROVE TypeOK'
    BY <1>20, WriteType, MessageTypes DEF AcceptWrite, TypeOK, sessionVars, tableVars, streamVars, historyVars, Labels, StreamOK
  <1>21. ASSUME NEW r \in Accepts, AcceptConnecting(r) PROVE TypeOK'
    BY <1>21, TransitionType DEF AcceptConnecting, TypeOK, sessionVars, tableVars, streamVars, historyVars, Labels
  <1>22. ASSUME NEW r \in Accepts, AcceptConnected(r) PROVE TypeOK'
    BY <1>22, TransitionType DEF AcceptConnected, TypeOK, sessionVars, tableVars, streamVars, historyVars, Labels
  <1>23. ASSUME NEW r \in Hangups, HangupWrite(r) PROVE TypeOK'
    BY <1>23, WriteType, MessageTypes, SideOfType DEF HangupWrite, TypeOK, sessionVars, tableVars, streamVars, historyVars, Labels, StreamOK
  <1>24. ASSUME NEW r \in Hangups, HangupEnd(r) PROVE TypeOK'
    BY <1>24, EndType, SideOfType DEF HangupEnd, TypeOK, sessionVars, tableVars, streamVars, historyVars, Labels
  <1>25. CASE Break
    BY <1>25 DEF Break, TypeOK, sessionVars, tableVars, streamVars, historyVars
  <1>26. CASE UNCHANGED vars
    BY <1>26 DEF TypeOK, vars
  <1> QED
    BY <1>1, <1>2, <1>3, <1>4, <1>5, <1>6, <1>7, <1>8, <1>9, <1>10,
       <1>11, <1>12, <1>13, <1>14, <1>15, <1>16, <1>17, <1>18, <1>19,
       <1>20, <1>21, <1>22, <1>23, <1>24, <1>25, <1>26
    DEF Next, Place, handleStream, runScanner, Accept, Hangup

(* Types are kept in every behaviour of a call. *)
THEOREM TypeCorrect == Spec => []TypeOK
  <1>1. Init => TypeOK
    <2>1. << >> \in Seq(Messages)
      OBVIOUS
    <2>2. Idle \in States /\ "start" \in Labels
      BY DEF States, Idle, Ended, Labels
    <2> QED
      BY <2>1, <2>2 DEF Init, TypeOK
  <1> QED
    BY <1>1, TypeStep, PTL DEF Spec
-----------------------------------------------------------------------------
(* Consent.  It is not inductive by itself: what the caller will read and  *)
(* what a request is about to do count as well.                            *)
NobodyAccepted ==
    /\ \A s \in Sides : state[s] \notin {Connecting, Connected}
    /\ \A s \in Sides : \A i \in DOMAIN inbox[s] : inbox[s][i].type # "ACCEPT"
    /\ \A r \in Accepts : pc[r] \notin {"connecting", "connected"}

ConsentInv == accepted = {} => NobodyAccepted

(* A stream without an ACCEPT line. *)
NoAcceptLine ==
    \A s \in Sides : \A i \in DOMAIN inbox[s] : inbox[s][i].type # "ACCEPT"

(* A line that is not an ACCEPT puts no ACCEPT into an inbox. *)
LEMMA WriteOther ==
    ASSUME TypeOK, NoAcceptLine, NEW s \in Sides, NEW m \in Messages, m.type # "ACCEPT",
           WriteOk(s, m) \/ WriteFails(s)
    PROVE  NoAcceptLine'
  <1>1. CASE inbox' = inbox
    BY <1>1 DEF NoAcceptLine
  <1>2. CASE inbox' = [inbox EXCEPT ![Other(s)] = Append(@, m)]
    <2> SUFFICES ASSUME NEW t \in Sides, NEW i \in DOMAIN inbox'[t]
                 PROVE  inbox'[t][i].type # "ACCEPT"
      BY DEF NoAcceptLine
    <2>1. CASE t # Other(s)
      BY <1>2, <2>1 DEF NoAcceptLine, TypeOK
    <2>2. CASE t = Other(s)
      <3>1. inbox[t] \in Seq(Messages) /\ inbox'[t] = Append(inbox[t], m)
        BY <1>2, <2>2 DEF TypeOK
      <3>2. i = Len(inbox[t]) + 1 \/ i \in DOMAIN inbox[t]
        BY <3>1
      <3>3. CASE i = Len(inbox[t]) + 1
        BY <3>1, <3>3
      <3>4. CASE i \in DOMAIN inbox[t]
        BY <3>1, <3>4 DEF NoAcceptLine
      <3> QED
        BY <3>2, <3>3, <3>4
    <2> QED
      BY <2>1, <2>2
  <1> QED
    BY <1>1, <1>2 DEF WriteOk, WriteFails, streamVars

(* Reading a line puts no ACCEPT into an inbox. *)
LEMMA ScanOther ==
    ASSUME TypeOK, NoAcceptLine, NEW s \in Sides, NEW m, Scan(s, m)
    PROVE  NoAcceptLine' /\ m.type # "ACCEPT"
  <1>1. inbox[s] \in Seq(Messages) /\ inbox[s] # << >> /\ m = inbox[s][1]
    BY DEF Scan, TypeOK
  <1>2. 1 \in DOMAIN inbox[s]
    BY <1>1
  <1>3. m.type # "ACCEPT"
    BY <1>1, <1>2 DEF NoAcceptLine
  <1>4. ASSUME NEW t \in Sides, NEW i \in DOMAIN inbox'[t]
        PROVE  inbox'[t][i].type # "ACCEPT"
    <2>1. CASE t # s
      BY <2>1 DEF NoAcceptLine, TypeOK, Scan
    <2>2. CASE t = s
      <3>1. inbox'[s] = Tail(inbox[s])
        BY DEF Scan, TypeOK
      <3>2. i + 1 \in DOMAIN inbox[s] /\ inbox'[s][i] = inbox[s][i + 1]
        BY <1>1, <2>2, <3>1
      <3> QED
        BY <2>2, <3>2 DEF NoAcceptLine
    <2> QED
      BY <2>1, <2>2
  <1> QED
    BY <1>3, <1>4 DEF NoAcceptLine

(* ConsentInv is inductive: one step per action. *)
LEMMA ConsentStep == TypeOK /\ ConsentInv /\ [Next]_vars => ConsentInv'
  <1> SUFFICES ASSUME TypeOK, ConsentInv, [Next]_vars PROVE ConsentInv'
    OBVIOUS
  <1> USE ConstantFacts
  <1>1. CASE PlaceDial
    BY <1>1 DEF PlaceDial, ConsentInv, NobodyAccepted, NoAcceptLine,
       TypeOK, Goto, sessionVars, tableVars, streamVars, historyVars
  <1>2. CASE PlaceInvite
    BY <1>2, WriteOther, MessageTypes DEF PlaceInvite, ConsentInv,
       NobodyAccepted, NoAcceptLine, TypeOK, Goto, sessionVars, tableVars,
       streamVars, historyVars
  <1>3. CASE PlaceInviteFailed
    BY <1>3 DEF PlaceInviteFailed, ConsentInv, NobodyAccepted,
       NoAcceptLine, TypeOK, Goto, sessionVars, tableVars, streamVars,
       historyVars, End, Ringing, Connecting, Connected, Ended
  <1>4. CASE PlaceRinging
    BY <1>4 DEF PlaceRinging, ConsentInv, NobodyAccepted, NoAcceptLine,
       TypeOK, Goto, sessionVars, tableVars, streamVars, historyVars,
       transition, Ringing, Connecting, Connected, Ended
  <1>5. CASE readLoop
    BY <1>5 DEF readLoop, ConsentInv, NobodyAccepted, NoAcceptLine,
       TypeOK, Goto, sessionVars, tableVars, streamVars, historyVars
  <1>6. CASE handleStreamStart
    BY <1>6 DEF handleStreamStart, ConsentInv, NobodyAccepted,
       NoAcceptLine, TypeOK, Goto, sessionVars, tableVars, streamVars,
       historyVars
  <1>7. CASE handleStreamInvite
    BY <1>7, ScanOther DEF handleStreamInvite, ConsentInv, NobodyAccepted,
       NoAcceptLine, TypeOK, Goto, sessionVars, tableVars, streamVars,
       historyVars
  <1>8. CASE handleStreamReset
    BY <1>8 DEF handleStreamReset, ConsentInv, NobodyAccepted,
       NoAcceptLine, TypeOK, Goto, sessionVars, tableVars, streamVars,
       historyVars
  <1>9. CASE handleStreamRinging
    BY <1>9 DEF handleStreamRinging, ConsentInv, NobodyAccepted,
       NoAcceptLine, TypeOK, Goto, sessionVars, tableVars, streamVars,
       historyVars, transition, Ringing, Connecting, Connected, Ended
  <1>10. ASSUME NEW s \in Sides, bind(s) PROVE ConsentInv'
    BY <1>10 DEF bind, ConsentInv, NobodyAccepted, NoAcceptLine, TypeOK,
       Goto, sessionVars, tableVars, streamVars, historyVars
  <1>11. ASSUME NEW s \in Sides, Register(s) PROVE ConsentInv'
    BY <1>11 DEF Register, ConsentInv, NobodyAccepted, NoAcceptLine,
       TypeOK, Goto, sessionVars, tableVars, streamVars, historyVars
  <1>12. ASSUME NEW s \in Sides, runScannerAccept(s) PROVE ConsentInv'
    BY <1>12, ScanOther DEF runScannerAccept, ConsentInv, NobodyAccepted,
       NoAcceptLine, TypeOK, Goto, sessionVars, tableVars, streamVars,
       historyVars
  <1>13. ASSUME NEW s \in Sides, runScannerMirror(s) PROVE ConsentInv'
    <2> SUFFICES ASSUME accepted = {} PROVE NobodyAccepted'
      BY <1>13 DEF runScannerMirror, historyVars, ConsentInv
    <2>0. NobodyAccepted
      BY DEF ConsentInv
    <2>a. state[s] # Connecting
      BY <2>0, Zenon DEF NobodyAccepted
    <2>b. state \in [Sides -> States]
      BY DEF TypeOK
    <2>c. state[s] \in Nat
      BY <2>b DEF States, Idle, Ended
    <2>d. ~CanMove(s, Connected)
      BY <2>a, <2>c DEF CanMove, Connecting, Connected
    <2>1. NobodyAccepted /\ ~CanMove(s, Connected)
      BY <2>0, <2>d
    <2>2. state' = state
      BY <1>13, <2>1 DEF runScannerMirror, transition, TypeOK
    <2> QED
      BY <1>13, <2>1, <2>2 DEF runScannerMirror, NobodyAccepted, TypeOK, Goto, streamVars
  <1>14. ASSUME NEW s \in Sides, runScannerHangup(s) PROVE ConsentInv'
    BY <1>14, ScanOther DEF runScannerHangup, ConsentInv, NobodyAccepted,
       NoAcceptLine, TypeOK, Goto, sessionVars, tableVars, streamVars,
       historyVars, End, Ringing, Connecting, Connected, Ended
  <1>15. ASSUME NEW s \in Sides, runScannerEnds(s) PROVE ConsentInv'
    BY <1>15 DEF runScannerEnds, ConsentInv, NobodyAccepted, NoAcceptLine,
       TypeOK, Goto, sessionVars, tableVars, streamVars, historyVars, End,
       Ringing, Connecting, Connected, Ended
  <1>16. ASSUME NEW s \in Sides, Stop(s) PROVE ConsentInv'
    BY <1>16 DEF Stop, ConsentInv, NobodyAccepted, NoAcceptLine, TypeOK,
       Goto, sessionVars, tableVars, streamVars, historyVars,
       unbindAndClose
  <1>17. ASSUME NEW g \in Goroutines, Unbind(g) PROVE ConsentInv'
    BY <1>17 DEF Unbind, ConsentInv, NobodyAccepted, NoAcceptLine, TypeOK,
       Goto, sessionVars, tableVars, streamVars, historyVars,
       unbindAndClose
  <1>18. ASSUME NEW g \in Goroutines, Remove(g) PROVE ConsentInv'
    BY <1>18 DEF Remove, ConsentInv, NobodyAccepted, NoAcceptLine, TypeOK,
       Goto, sessionVars, tableVars, streamVars, historyVars
  <1>19. ASSUME NEW r \in Requests, Get(r) PROVE ConsentInv'
    BY <1>19 DEF Get, ConsentInv, NobodyAccepted, NoAcceptLine, TypeOK,
       Goto, sessionVars, tableVars, streamVars, historyVars
  <1>20. ASSUME NEW r \in Accepts, AcceptWrite(r) PROVE ConsentInv'
    BY <1>20 DEF AcceptWrite, ConsentInv, NobodyAccepted, NoAcceptLine,
       TypeOK, Goto, sessionVars, tableVars, streamVars, historyVars,
       WriteOk, WriteFails
  <1>21. ASSUME NEW r \in Accepts, AcceptConnecting(r) PROVE ConsentInv'
    BY <1>21 DEF AcceptConnecting, ConsentInv, NobodyAccepted,
       NoAcceptLine, TypeOK, Goto, sessionVars, tableVars, streamVars,
       historyVars
  <1>22. ASSUME NEW r \in Accepts, AcceptConnected(r) PROVE ConsentInv'
    BY <1>22 DEF AcceptConnected, ConsentInv, NobodyAccepted,
       NoAcceptLine, TypeOK, Goto, sessionVars, tableVars, streamVars,
       historyVars
  <1>23. ASSUME NEW r \in Hangups, HangupWrite(r) PROVE ConsentInv'
    BY <1>23, WriteOther, MessageTypes, SideOfType DEF HangupWrite,
       ConsentInv, NobodyAccepted, NoAcceptLine, TypeOK, Goto,
       sessionVars, tableVars, streamVars, historyVars
  <1>24. ASSUME NEW r \in Hangups, HangupEnd(r) PROVE ConsentInv'
    BY <1>24 DEF HangupEnd, ConsentInv, NobodyAccepted, NoAcceptLine,
       TypeOK, Goto, sessionVars, tableVars, streamVars, historyVars, End,
       Ringing, Connecting, Connected, Ended
  <1>25. CASE Break
    BY <1>25 DEF Break, ConsentInv, NobodyAccepted, NoAcceptLine, TypeOK,
       Goto, sessionVars, tableVars, streamVars, historyVars
  <1>26. CASE UNCHANGED vars
    BY <1>26 DEF ConsentInv, NobodyAccepted, NoAcceptLine, TypeOK, vars
  <1> QED
    BY <1>1, <1>2, <1>3, <1>4, <1>5, <1>6, <1>7, <1>8, <1>9, <1>10,
       <1>11, <1>12, <1>13, <1>14, <1>15, <1>16, <1>17, <1>18, <1>19,
       <1>20, <1>21, <1>22, <1>23, <1>24, <1>25, <1>26
    DEF Next, Place, handleStream, runScanner, Accept, Hangup

(* No call is answered without its user: neither side is Connecting or     *)
(* Connected unless an ACCEPT was written for an accept request.           *)
THEOREM ConsentHolds == Spec => []Consent
  <1>1. Init => ConsentInv
    <2> SUFFICES ASSUME Init PROVE NobodyAccepted
      BY DEF ConsentInv
    <2>1. \A s \in Sides : state[s] \notin {Connecting, Connected}
      BY DEF Init, Idle, Connecting, Connected
    <2>2. \A s \in Sides : inbox[s] = << >>
      BY DEF Init
    <2>3. \A r \in Accepts : pc[r] = "start"
      BY ConstantFacts DEF Init
    <2> QED
      BY <2>1, <2>2, <2>3 DEF NobodyAccepted
  <1>2. ConsentInv => Consent
    BY DEF ConsentInv, NobodyAccepted, Consent
  <1> QED
    BY <1>1, <1>2, TypeCorrect, ConsentStep, PTL DEF Spec
-----------------------------------------------------------------------------
(* What a session operation can do to a state, in the words of the         *)
(* invariants below.                                                       *)
LEMMA StateFacts ==
    /\ Ended \notin Live /\ Idle \notin Live /\ Idle # Ended
    /\ Ringing # Connecting /\ Ringing # Connected
  BY DEF Live, Idle, Ringing, Connecting, Connected, Ended

(* What a call of transition does to the two states. *)
LEMMA TransitionFacts ==
    ASSUME TypeOK, NEW s \in Sides, NEW target \in {Ringing, Connecting, Connected},
           transition(s, target), NEW t \in Sides
    PROVE  /\ state[t] = Ended => state'[t] = Ended
           /\ state'[t] = Idle => state[t] = Idle
           /\ state'[t] \in Live =>
                 state[t] \in Live \/ (t = s /\ target = Ringing /\ state[t] = Idle)
  BY DEF TypeOK, transition, CanMove, Live, States, Idle, Ringing, Connecting, Connected,
     Ended

(* What a call of End does to the two states. *)
LEMMA EndFacts ==
    ASSUME TypeOK, NEW s \in Sides, NEW r, End(s, r), NEW t \in Sides
    PROVE  /\ state'[s] = Ended
           /\ state[t] = Ended => state'[t] = Ended
           /\ state'[t] = Idle => state[t] = Idle
           /\ state'[t] \in Live => state[t] \in Live
  BY StateFacts DEF TypeOK, End

(* LiveCallsCanBeHungUp.  It rests on the order of the steps: a goroutine  *)
(* only cleans up after an ended session, and a session that is about to   *)
(* ring is already bound and registered.                                   *)
CleanUpAfterEnd ==
    \A g \in Goroutines : pc[g] \in {"unbind", "remove"} => state[SideOf(g)] = Ended

BoundBeforeRinging ==
    \A s \in Sides :
        state[s] \in Live
          \/ (state[s] = Idle
                /\ pc[s] \in {"register", "invite", "inviteFailed", "ringing"})
        => bound[s] \/ stopped[s]

RegisteredBeforeRinging ==
    \A s \in Sides :
        state[s] \in Live
          \/ (state[s] = Idle /\ pc[s] \in {"invite", "inviteFailed", "ringing"})
        => registered[s]

LiveInv == CleanUpAfterEnd /\ BoundBeforeRinging /\ RegisteredBeforeRinging

(* LiveInv is inductive: one step per action. *)
LEMMA LiveStep == TypeOK /\ LiveInv /\ [Next]_vars => LiveInv'
  <1> SUFFICES ASSUME TypeOK, LiveInv, [Next]_vars PROVE LiveInv'
    OBVIOUS
  <1> USE ConstantFacts, StateFacts, SideOfType
  <1> USE DEF LiveInv, CleanUpAfterEnd, BoundBeforeRinging, RegisteredBeforeRinging
  <1>1. CASE PlaceDial
    BY <1>1 DEF PlaceDial, TypeOK, Goto, sessionVars, tableVars,
       streamVars, historyVars
  <1>2. CASE PlaceInvite
    BY <1>2 DEF PlaceInvite, TypeOK, Goto, sessionVars, tableVars,
       streamVars, historyVars
  <1>3. CASE PlaceInviteFailed
    BY <1>3, EndFacts DEF PlaceInviteFailed, TypeOK, Goto, sessionVars,
       tableVars, streamVars, historyVars
  <1>4. CASE PlaceRinging
    BY <1>4, TransitionFacts DEF PlaceRinging, TypeOK, Goto, sessionVars,
       tableVars, streamVars, historyVars
  <1>5. CASE readLoop
    BY <1>5 DEF readLoop, TypeOK, Goto, sessionVars, tableVars,
       streamVars, historyVars
  <1>6. CASE handleStreamStart
    BY <1>6 DEF handleStreamStart, TypeOK, Goto, sessionVars, tableVars,
       streamVars, historyVars
  <1>7. CASE handleStreamInvite
    BY <1>7 DEF handleStreamInvite, TypeOK, Goto, sessionVars, tableVars,
       streamVars, historyVars
  <1>8. CASE handleStreamReset
    BY <1>8 DEF handleStreamReset, TypeOK, Goto, sessionVars, tableVars,
       streamVars, historyVars
  <1>9. CASE handleStreamRinging
    <2>1. /\ \A t \in Sides :
                /\ state[t] = Ended => state'[t] = Ended
                /\ state'[t] = Idle => state[t] = Idle
                /\ state'[t] \in Live => state[t] \in Live \/ (t = Callee /\ state[t] = Idle)
          /\ pc[Callee] = "ringing"
          /\ \/ pc' = [pc EXCEPT ![Callee] = "scan"]
             \/ pc' = [pc EXCEPT ![Callee] = "done"]
          /\ UNCHANGED <<bound, registered, stopped>>
      BY <1>9, TransitionFacts DEF handleStreamRinging, Goto, tableVars
    <2>2. CleanUpAfterEnd'
      BY <2>1 DEF TypeOK
    <2>3. BoundBeforeRinging' /\ RegisteredBeforeRinging'
      BY <2>1 DEF TypeOK
    <2> QED
      BY <2>2, <2>3
  <1>10. ASSUME NEW s \in Sides, bind(s) PROVE LiveInv'
    BY <1>10 DEF bind, TypeOK, Goto, sessionVars, tableVars, streamVars,
       historyVars
  <1>11. ASSUME NEW s \in Sides, Register(s) PROVE LiveInv'
    BY <1>11 DEF Register, TypeOK, Goto, sessionVars, tableVars,
       streamVars, historyVars
  <1>12. ASSUME NEW s \in Sides, runScannerAccept(s) PROVE LiveInv'
    BY <1>12, TransitionFacts DEF runScannerAccept, TypeOK, Goto,
       sessionVars, tableVars, streamVars, historyVars
  <1>13. ASSUME NEW s \in Sides, runScannerMirror(s) PROVE LiveInv'
    BY <1>13, TransitionFacts DEF runScannerMirror, TypeOK, Goto,
       sessionVars, tableVars, streamVars, historyVars
  <1>14. ASSUME NEW s \in Sides, runScannerHangup(s) PROVE LiveInv'
    BY <1>14, EndFacts DEF runScannerHangup, TypeOK, Goto, sessionVars,
       tableVars, streamVars, historyVars
  <1>15. ASSUME NEW s \in Sides, runScannerEnds(s) PROVE LiveInv'
    BY <1>15, EndFacts DEF runScannerEnds, TypeOK, Goto, sessionVars,
       tableVars, streamVars, historyVars
  <1>16. ASSUME NEW s \in Sides, Stop(s) PROVE LiveInv'
    BY <1>16 DEF Stop, TypeOK, Goto, sessionVars, tableVars, streamVars,
       historyVars, unbindAndClose
  <1>17. ASSUME NEW g \in Goroutines, Unbind(g) PROVE LiveInv'
    BY <1>17 DEF Unbind, TypeOK, Goto, sessionVars, tableVars, streamVars,
       historyVars, unbindAndClose
  <1>18. ASSUME NEW g \in Goroutines, Remove(g) PROVE LiveInv'
    BY <1>18 DEF Remove, TypeOK, Goto, sessionVars, tableVars, streamVars,
       historyVars
  <1>19. ASSUME NEW r \in Requests, Get(r) PROVE LiveInv'
    BY <1>19 DEF Get, TypeOK, Goto, sessionVars, tableVars, streamVars,
       historyVars
  <1>20. ASSUME NEW r \in Accepts, AcceptWrite(r) PROVE LiveInv'
    BY <1>20 DEF AcceptWrite, TypeOK, Goto, sessionVars, tableVars,
       streamVars, historyVars
  <1>21. ASSUME NEW r \in Accepts, AcceptConnecting(r) PROVE LiveInv'
    BY <1>21, TransitionFacts DEF AcceptConnecting, TypeOK, Goto,
       sessionVars, tableVars, streamVars, historyVars
  <1>22. ASSUME NEW r \in Accepts, AcceptConnected(r) PROVE LiveInv'
    BY <1>22, TransitionFacts DEF AcceptConnected, TypeOK, Goto,
       sessionVars, tableVars, streamVars, historyVars
  <1>23. ASSUME NEW r \in Hangups, HangupWrite(r) PROVE LiveInv'
    BY <1>23 DEF HangupWrite, TypeOK, Goto, sessionVars, tableVars,
       streamVars, historyVars
  <1>24. ASSUME NEW r \in Hangups, HangupEnd(r) PROVE LiveInv'
    BY <1>24, EndFacts DEF HangupEnd, TypeOK, Goto, sessionVars,
       tableVars, streamVars, historyVars
  <1>25. CASE Break
    BY <1>25 DEF Break, TypeOK, Goto, sessionVars, tableVars, streamVars,
       historyVars
  <1>26. CASE UNCHANGED vars
    BY <1>26 DEF LiveInv, vars
  <1> QED
    BY <1>1, <1>2, <1>3, <1>4, <1>5, <1>6, <1>7, <1>8, <1>9, <1>10,
       <1>11, <1>12, <1>13, <1>14, <1>15, <1>16, <1>17, <1>18, <1>19,
       <1>20, <1>21, <1>22, <1>23, <1>24, <1>25, <1>26
    DEF Next, Place, handleStream, runScanner, Accept, Hangup

(* A user can end every call that is not over: its session is in the       *)
(* registry, and bound to its stream unless Stop has cleared the tables.   *)
THEOREM LiveCallsStayReachable == Spec => []LiveCallsCanBeHungUp
  <1>1. Init => LiveInv
    BY StateFacts, ConstantFacts DEF Init, LiveInv, CleanUpAfterEnd, BoundBeforeRinging,
       RegisteredBeforeRinging
  <1>2. LiveInv => LiveCallsCanBeHungUp
    <2> SUFFICES ASSUME LiveInv, NEW s \in Sides, state[s] \in Live
                 PROVE  registered[s] /\ (bound[s] \/ stopped[s])
      BY DEF LiveCallsCanBeHungUp
    <2>1. registered[s]
      BY DEF LiveInv, RegisteredBeforeRinging
    <2>2. bound[s] \/ stopped[s]
      BY DEF LiveInv, BoundBeforeRinging
    <2> QED
      BY <2>1, <2>2
  <1> QED
    BY <1>1, <1>2, TypeCorrect, LiveStep, PTL DEF Spec
-----------------------------------------------------------------------------
(* AcceptHeard.  Until the read loop has an ACCEPT the caller's session is *)
(* at most Ringing, and it is past Idle before the loop starts.            *)
HeardInv ==
    /\ ~heard => state[Caller] \notin {Connecting, Connected} /\ pc[Caller] # "mirror"
    /\ heard => pc[Caller] \in {"scan", "mirror", "unbind", "remove", "done"}
    /\ pc[Caller] \in {"readLoop", "scan", "mirror"} => state[Caller] # Idle
    /\ pc[Caller] = "mirror" => state[Caller] \in {Connecting, Connected, Ended}
    /\ AcceptHeard

(* HeardInv is inductive: one step per action. *)
LEMMA HeardStep == TypeOK /\ HeardInv /\ [Next]_vars => HeardInv'
  <1> SUFFICES ASSUME TypeOK, HeardInv, [Next]_vars PROVE HeardInv'
    OBVIOUS
  <1> USE ConstantFacts, RequestsAssumption
  <1> USE DEF HeardInv, AcceptHeard
  <1>1. CASE PlaceDial
    BY <1>1 DEF PlaceDial, TypeOK, Goto, sessionVars, tableVars,
       streamVars, historyVars
  <1>2. CASE PlaceInvite
    BY <1>2 DEF PlaceInvite, TypeOK, Goto, sessionVars, tableVars,
       streamVars, historyVars
  <1>3. CASE PlaceInviteFailed
    BY <1>3 DEF PlaceInviteFailed, TypeOK, Goto, sessionVars, tableVars,
       streamVars, historyVars, End, States, Idle, Ringing, Connecting,
       Connected, Ended
  <1>4. CASE PlaceRinging
    BY <1>4 DEF PlaceRinging, TypeOK, Goto, sessionVars, tableVars,
       streamVars, historyVars, transition, CanMove, States, Idle,
       Ringing, Connecting, Connected, Ended
  <1>5. CASE readLoop
    BY <1>5 DEF readLoop, TypeOK, Goto, sessionVars, tableVars,
       streamVars, historyVars
  <1>6. CASE handleStreamStart
    BY <1>6 DEF handleStreamStart, TypeOK, Goto, sessionVars, tableVars,
       streamVars, historyVars
  <1>7. CASE handleStreamInvite
    BY <1>7 DEF handleStreamInvite, TypeOK, Goto, sessionVars, tableVars,
       streamVars, historyVars
  <1>8. CASE handleStreamReset
    BY <1>8 DEF handleStreamReset, TypeOK, Goto, sessionVars, tableVars,
       streamVars, historyVars
  <1>9. CASE handleStreamRinging
    BY <1>9 DEF handleStreamRinging, TypeOK, Goto, sessionVars, tableVars,
       streamVars, historyVars, transition, CanMove, States, Idle,
       Ringing, Connecting, Connected, Ended
  <1>10. ASSUME NEW s \in Sides, bind(s) PROVE HeardInv'
    BY <1>10 DEF bind, TypeOK, Goto, sessionVars, tableVars, streamVars,
       historyVars
  <1>11. ASSUME NEW s \in Sides, Register(s) PROVE HeardInv'
    BY <1>11 DEF Register, TypeOK, Goto, sessionVars, tableVars,
       streamVars, historyVars
  <1>12. ASSUME NEW s \in Sides, runScannerAccept(s) PROVE HeardInv'
    <2>1. CASE s = Callee
      <3>1. state'[Caller] = state[Caller] /\ pc'[Caller] = pc[Caller] /\ heard' = heard
        BY <1>12, <2>1 DEF runScannerAccept, transition, Goto, TypeOK
      <3> QED
        BY <3>1
    <2>2. CASE s = Caller
      <3>1. pc[Caller] = "scan" /\ pc'[Caller] = "mirror" /\ heard' = TRUE
        BY <1>12, <2>2 DEF runScannerAccept, Goto, TypeOK
      <3>2. state'[Caller] \in {Connecting, Connected, Ended}
        BY <1>12, <2>2, <3>1 DEF runScannerAccept, transition, CanMove, TypeOK, States, Idle,
           Ringing, Connecting, Connected, Ended
      <3> QED
        BY <3>1, <3>2 DEF Idle, Connecting, Connected, Ended
    <2> QED
      BY <2>1, <2>2 DEF Sides
  <1>13. ASSUME NEW s \in Sides, runScannerMirror(s) PROVE HeardInv'
    BY <1>13 DEF runScannerMirror, TypeOK, Goto, sessionVars, tableVars,
       streamVars, historyVars, transition, CanMove, States, Idle,
       Ringing, Connecting, Connected, Ended
  <1>14. ASSUME NEW s \in Sides, runScannerHangup(s) PROVE HeardInv'
    BY <1>14 DEF runScannerHangup, TypeOK, Goto, sessionVars, tableVars,
       streamVars, historyVars, End, States, Idle, Ringing, Connecting,
       Connected, Ended
  <1>15. ASSUME NEW s \in Sides, runScannerEnds(s) PROVE HeardInv'
    BY <1>15 DEF runScannerEnds, TypeOK, Goto, sessionVars, tableVars,
       streamVars, historyVars, End, States, Idle, Ringing, Connecting,
       Connected, Ended
  <1>16. ASSUME NEW s \in Sides, Stop(s) PROVE HeardInv'
    BY <1>16 DEF Stop, TypeOK, Goto, sessionVars, tableVars, streamVars,
       historyVars, unbindAndClose
  <1>17. ASSUME NEW g \in Goroutines, Unbind(g) PROVE HeardInv'
    BY <1>17 DEF Unbind, TypeOK, Goto, sessionVars, tableVars, streamVars,
       historyVars, unbindAndClose, Goroutines, Requests
  <1>18. ASSUME NEW g \in Goroutines, Remove(g) PROVE HeardInv'
    BY <1>18 DEF Remove, TypeOK, Goto, sessionVars, tableVars, streamVars,
       historyVars, Goroutines, Requests
  <1>19. ASSUME NEW r \in Requests, Get(r) PROVE HeardInv'
    BY <1>19 DEF Get, TypeOK, Goto, sessionVars, tableVars, streamVars,
       historyVars, Requests
  <1>20. ASSUME NEW r \in Accepts, AcceptWrite(r) PROVE HeardInv'
    BY <1>20 DEF AcceptWrite, TypeOK, Goto, sessionVars, tableVars,
       streamVars, historyVars, Requests
  <1>21. ASSUME NEW r \in Accepts, AcceptConnecting(r) PROVE HeardInv'
    BY <1>21 DEF AcceptConnecting, TypeOK, Goto, sessionVars, tableVars,
       streamVars, historyVars, transition, CanMove, States, Idle,
       Ringing, Connecting, Connected, Ended, Requests
  <1>22. ASSUME NEW r \in Accepts, AcceptConnected(r) PROVE HeardInv'
    BY <1>22 DEF AcceptConnected, TypeOK, Goto, sessionVars, tableVars,
       streamVars, historyVars, transition, CanMove, States, Idle,
       Ringing, Connecting, Connected, Ended, Requests
  <1>23. ASSUME NEW r \in Hangups, HangupWrite(r) PROVE HeardInv'
    BY <1>23 DEF HangupWrite, TypeOK, Goto, sessionVars, tableVars,
       streamVars, historyVars, Requests
  <1>24. ASSUME NEW r \in Hangups, HangupEnd(r) PROVE HeardInv'
    BY <1>24 DEF HangupEnd, TypeOK, Goto, sessionVars, tableVars,
       streamVars, historyVars, End, States, Idle, Ringing, Connecting,
       Connected, Ended, Requests
  <1>25. CASE Break
    BY <1>25 DEF Break, TypeOK, Goto, sessionVars, tableVars, streamVars,
       historyVars
  <1>26. CASE UNCHANGED vars
    BY <1>26 DEF vars
  <1> QED
    BY <1>1, <1>2, <1>3, <1>4, <1>5, <1>6, <1>7, <1>8, <1>9, <1>10,
       <1>11, <1>12, <1>13, <1>14, <1>15, <1>16, <1>17, <1>18, <1>19,
       <1>20, <1>21, <1>22, <1>23, <1>24, <1>25, <1>26
    DEF Next, Place, handleStream, runScanner, Accept, Hangup

(* An ACCEPT that reaches the caller's read loop always takes effect.      *)
THEOREM AcceptIsHeard == Spec => []AcceptHeard
  <1>1. Init => HeardInv
    BY ConstantFacts DEF Init, HeardInv, AcceptHeard, Idle, Connecting, Connected
  <1>2. HeardInv => AcceptHeard
    BY DEF HeardInv
  <1> QED
    BY <1>1, <1>2, TypeCorrect, HeardStep, PTL DEF Spec
-----------------------------------------------------------------------------
(* Refinement: each side of a call implements Session.  A step of the call *)
(* is a step of the side's session, or leaves it alone.                    *)
SessionSteps ==
    /\ [CallerSession!Next]_(CallerSession!vars)
    /\ [CalleeSession!Next]_(CalleeSession!vars)

(* The two instances count the states as Call does. *)
LEMMA SameStates ==
    /\ CallerSession!Idle = Idle /\ CalleeSession!Idle = Idle
    /\ CallerSession!Ringing = Ringing /\ CalleeSession!Ringing = Ringing
    /\ CallerSession!Connecting = Connecting /\ CalleeSession!Connecting = Connecting
    /\ CallerSession!Connected = Connected /\ CalleeSession!Connected = Connected
    /\ CallerSession!Ended = Ended /\ CalleeSession!Ended = Ended
  BY DEF Idle, Ringing, Connecting, Connected, Ended,
     CallerSession!Idle, CallerSession!Ringing, CallerSession!Connecting,
     CallerSession!Connected, CallerSession!Ended,
     CalleeSession!Idle, CalleeSession!Ringing, CalleeSession!Connecting,
     CalleeSession!Connected, CalleeSession!Ended

(* transition on one side is a step of that side's Session, or none. *)
LEMMA TransitionIsSession ==
    ASSUME TypeOK, NEW s \in Sides, NEW target \in {Ringing, Connecting, Connected},
           transition(s, target)
    PROVE  SessionSteps
  <1>1. ASSUME NEW t \in Sides
        PROVE  /\ reason'[t] = reason[t]
               /\ \/ state'[t] = state[t]
                  \/ state[t] # Ended /\ target = state[t] + 1 /\ state'[t] = target
    BY DEF transition, CanMove, TypeOK
  <1>2. [CallerSession!Next]_(CallerSession!vars)
    BY <1>1, ConstantFacts, SameStates
    DEF CallerSession!Next, CallerSession!vars, CallerSession!ToRinging, CallerSession!ToConnecting,
        CallerSession!ToConnected, CallerSession!transition, CallerSession!CanMove
  <1>3. [CalleeSession!Next]_(CalleeSession!vars)
    BY <1>1, ConstantFacts, SameStates
    DEF CalleeSession!Next, CalleeSession!vars, CalleeSession!ToRinging, CalleeSession!ToConnecting,
        CalleeSession!ToConnected, CalleeSession!transition, CalleeSession!CanMove
  <1> QED
    BY <1>2, <1>3 DEF SessionSteps

(* End on one side is a step of that side's Session, or none. *)
LEMMA EndIsSession ==
    ASSUME TypeOK, NEW s \in Sides, NEW r \in Reasons, End(s, r)
    PROVE  SessionSteps
  <1>1. ASSUME NEW t \in Sides
        PROVE  \/ state'[t] = state[t] /\ reason'[t] = reason[t]
               \/ state[t] # Ended /\ state'[t] = Ended /\ reason'[t] = r
    BY DEF End, TypeOK
  <1>2. [CallerSession!Next]_(CallerSession!vars)
    BY <1>1, ConstantFacts, SameStates DEF CallerSession!Next, CallerSession!vars, CallerSession!End
  <1>3. [CalleeSession!Next]_(CalleeSession!vars)
    BY <1>1, ConstantFacts, SameStates DEF CalleeSession!Next, CalleeSession!vars, CalleeSession!End
  <1> QED
    BY <1>2, <1>3 DEF SessionSteps

(* A step that leaves state and reason alone is a stutter of both. *)
LEMMA SessionsUntouched == UNCHANGED <<state, reason>> => SessionSteps
  BY DEF SessionSteps, CallerSession!vars, CalleeSession!vars

(* Every step of Call is a step of Session, or none, on each side. *)
LEMMA SessionStep == TypeOK /\ [Next]_vars => SessionSteps
  <1> SUFFICES ASSUME TypeOK, [Next]_vars PROVE SessionSteps
    OBVIOUS
  <1> USE ConstantFacts
  <1>1. CASE PlaceDial
    BY <1>1, SessionsUntouched DEF PlaceDial, sessionVars
  <1>2. CASE PlaceInvite
    BY <1>2, SessionsUntouched DEF PlaceInvite, sessionVars
  <1>3. CASE PlaceInviteFailed
    BY <1>3, EndIsSession, SideOfType DEF PlaceInviteFailed, sessionVars
  <1>4. CASE PlaceRinging
    BY <1>4, TransitionIsSession DEF PlaceRinging, sessionVars
  <1>5. CASE readLoop
    BY <1>5, SessionsUntouched DEF readLoop, sessionVars
  <1>6. CASE handleStreamStart
    BY <1>6, SessionsUntouched DEF handleStreamStart, sessionVars
  <1>7. CASE handleStreamInvite
    BY <1>7, SessionsUntouched DEF handleStreamInvite, sessionVars
  <1>8. CASE handleStreamReset
    BY <1>8, SessionsUntouched DEF handleStreamReset, sessionVars
  <1>9. CASE handleStreamRinging
    BY <1>9, TransitionIsSession DEF handleStreamRinging, sessionVars
  <1>10. ASSUME NEW s \in Sides, bind(s) PROVE SessionSteps
    BY <1>10, SessionsUntouched DEF bind, sessionVars
  <1>11. ASSUME NEW s \in Sides, Register(s) PROVE SessionSteps
    BY <1>11, SessionsUntouched DEF Register, sessionVars
  <1>12. ASSUME NEW s \in Sides, runScannerAccept(s) PROVE SessionSteps
    BY <1>12, TransitionIsSession DEF runScannerAccept, sessionVars
  <1>13. ASSUME NEW s \in Sides, runScannerMirror(s) PROVE SessionSteps
    BY <1>13, TransitionIsSession DEF runScannerMirror, sessionVars
  <1>14. ASSUME NEW s \in Sides, runScannerHangup(s) PROVE SessionSteps
    BY <1>14, EndIsSession, SideOfType DEF runScannerHangup, sessionVars
  <1>15. ASSUME NEW s \in Sides, runScannerEnds(s) PROVE SessionSteps
    BY <1>15, EndIsSession, SideOfType DEF runScannerEnds, sessionVars
  <1>16. ASSUME NEW s \in Sides, Stop(s) PROVE SessionSteps
    BY <1>16, SessionsUntouched DEF Stop, sessionVars
  <1>17. ASSUME NEW g \in Goroutines, Unbind(g) PROVE SessionSteps
    BY <1>17, SessionsUntouched DEF Unbind, sessionVars
  <1>18. ASSUME NEW g \in Goroutines, Remove(g) PROVE SessionSteps
    BY <1>18, SessionsUntouched DEF Remove, sessionVars
  <1>19. ASSUME NEW r \in Requests, Get(r) PROVE SessionSteps
    BY <1>19, SessionsUntouched DEF Get, sessionVars
  <1>20. ASSUME NEW r \in Accepts, AcceptWrite(r) PROVE SessionSteps
    BY <1>20, SessionsUntouched DEF AcceptWrite, sessionVars
  <1>21. ASSUME NEW r \in Accepts, AcceptConnecting(r) PROVE SessionSteps
    BY <1>21, TransitionIsSession DEF AcceptConnecting, sessionVars
  <1>22. ASSUME NEW r \in Accepts, AcceptConnected(r) PROVE SessionSteps
    BY <1>22, TransitionIsSession DEF AcceptConnected, sessionVars
  <1>23. ASSUME NEW r \in Hangups, HangupWrite(r) PROVE SessionSteps
    BY <1>23, SessionsUntouched DEF HangupWrite, sessionVars
  <1>24. ASSUME NEW r \in Hangups, HangupEnd(r) PROVE SessionSteps
    BY <1>24, EndIsSession, SideOfType DEF HangupEnd, sessionVars
  <1>25. CASE Break
    BY <1>25, SessionsUntouched DEF Break, sessionVars
  <1>26. CASE UNCHANGED vars
    BY <1>26, SessionsUntouched DEF vars
  <1> QED
    BY <1>1, <1>2, <1>3, <1>4, <1>5, <1>6, <1>7, <1>8, <1>9, <1>10,
       <1>11, <1>12, <1>13, <1>14, <1>15, <1>16, <1>17, <1>18, <1>19,
       <1>20, <1>21, <1>22, <1>23, <1>24, <1>25, <1>26
    DEF Next, Place, handleStream, runScanner, Accept, Hangup

(* The caller's side of every call is a Session: its states advance one at *)
(* a time, Ended is final and the first reason is kept.                    *)
THEOREM CallerRefinesSession == Spec => CallerIsSession
  <1>1. Init => CallerSession!Init
    BY ConstantFacts, SameStates DEF Init, CallerSession!Init
  <1>2. TypeOK /\ [Next]_vars => [CallerSession!Next]_(CallerSession!vars)
    BY SessionStep DEF SessionSteps
  <1> QED
    BY <1>1, <1>2, TypeCorrect, PTL DEF Spec, CallerIsSession, CallerSession!Spec

(* So is the callee's side. *)
THEOREM CalleeRefinesSession == Spec => CalleeIsSession
  <1>1. Init => CalleeSession!Init
    BY ConstantFacts, SameStates DEF Init, CalleeSession!Init
  <1>2. TypeOK /\ [Next]_vars => [CalleeSession!Next]_(CalleeSession!vars)
    BY SessionStep DEF SessionSteps
  <1> QED
    BY <1>1, <1>2, TypeCorrect, PTL DEF Spec, CalleeIsSession, CalleeSession!Spec

(* Call implements the abstract session lifecycle on both sides, for any   *)
(* number of requests, with Stop and connection loss.                      *)
THEOREM SidesRefineSession == Spec => SidesAreSessions
  BY CallerRefinesSession, CalleeRefinesSession, PTL DEF SidesAreSessions
=============================================================================
