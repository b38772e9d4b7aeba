------------------------ MODULE SessionEventsProofs ------------------------
(***************************************************************************)
(* What the Manager's subscribers hear, for any number of accept and       *)
(* hangup requests.                                                        *)
(*                                                                         *)
(* A change is made once, because the state only grows; Once follows it    *)
(* from the writer that made it, through the forwarder's channel, to the   *)
(* subscribers, and says that it is in one place at most.  Connecting      *)
(* travels before Connected because the goroutine that answers broadcasts  *)
(* the one before it makes the other: Answered.  A channel of two places   *)
(* suffices for that, since until then only Ringing can be in the way.     *)
(***************************************************************************)
EXTENDS SessionEvents, SequenceTheorems, TLAPS

Has(s, ev) == \E i \in 1 .. Len(s) : s[i] = ev
Distinct(s) == \A i, j \in 1 .. Len(s) : s[i] = s[j] => i = j

(* In s, Connected comes after Connecting. *)
Follows(s) ==
    \A j \in 1 .. Len(s) : s[j] = Connected => \E i \in 1 .. j - 1 : s[i] = Connecting

(* Every change that is under way or told has been made, and is in one     *)
(* place.                                                                  *)
Once ==
    /\ \A g \in Writers : pending[g] # NoChange =>
          /\ pending[g] <= state
          /\ ~Has(fwdCh, pending[g]) /\ ~Has(fanned, pending[g])
          /\ \A h \in Writers : pending[h] = pending[g] => h = g
    /\ \A ev \in Changes :
          /\ Has(fwdCh, ev) => ev <= state /\ ~Has(fanned, ev)
          /\ Has(fanned, ev) => ev <= state
    /\ Distinct(fwdCh) /\ Distinct(fanned)

(* The forwarder exits on Ended, and before it exists nobody answers. *)
Sentinel ==
    /\ Has(fanned, Ended) <=> forwarder = "exited"
    /\ forwarder # "running" => fwdCh = << >>
    /\ forwarder = "none" => state \in {Idle, Ended}
    /\ NothingAfterEnded

(* Connecting is on its way before Connected is made. *)
Sent(ev) == Has(fwdCh, ev) \/ Has(fanned, ev)
Answered ==
    /\ state = Connecting =>
          answerer \in Writers /\ (pending[answerer] = Connecting \/ Sent(Connecting))
    /\ (\E g \in Writers : pending[g] = Connected) => Sent(Connecting) \/ forwarder = "exited"
    /\ Has(fanned, Connecting) \/ Follows(fwdCh)
    /\ Follows(fanned)
-----------------------------------------------------------------------------
(* Lemmas about logs and channels. *)

LEMMA EmptyLog == Distinct(<< >>) /\ Follows(<< >>) /\ \A ev : ~Has(<< >>, ev)
  BY DEF Distinct, Follows, Has

(* A change at the end of a log. *)
LEMMA Appended ==
    ASSUME NEW s \in Seq(Changes), NEW ev \in Changes
    PROVE  /\ Append(s, ev) \in Seq(Changes)
           /\ \A x : Has(Append(s, ev), x) <=> Has(s, x) \/ x = ev
           /\ Distinct(s) /\ ~Has(s, ev) => Distinct(Append(s, ev))
           /\ Follows(s) /\ (ev = Connected => Has(s, Connecting)) => Follows(Append(s, ev))
  <1> DEFINE t == Append(s, ev)
  <1>1. /\ t \in Seq(Changes) /\ Len(s) \in Nat /\ Len(t) = Len(s) + 1
        /\ \A i \in 1 .. Len(s) : t[i] = s[i]
        /\ t[Len(t)] = ev
    OBVIOUS
  <1> HIDE DEF t
  <1>2. \A x : Has(t, x) <=> Has(s, x) \/ x = ev
    BY <1>1 DEF Has
  <1>3. Distinct(s) /\ ~Has(s, ev) => Distinct(t)
    BY <1>1 DEF Distinct, Has
  <1>4. ASSUME Follows(s), ev = Connected => Has(s, Connecting) PROVE Follows(t)
    <2> SUFFICES ASSUME NEW j \in 1 .. Len(t), t[j] = Connected
                 PROVE  \E i \in 1 .. j - 1 : t[i] = Connecting
      BY DEF Follows
    <2>1. CASE j \in 1 .. Len(s)
      <3>1. PICK i \in 1 .. j - 1 : s[i] = Connecting
        BY <1>1, <1>4, <2>1 DEF Follows
      <3>2. i \in 1 .. Len(s)
        BY <1>1, <2>1
      <3> QED
        BY <1>1, <3>1, <3>2
    <2>2. CASE j = Len(t)
      BY <1>1, <1>4, <2>2 DEF Has
    <2> QED
      BY <1>1, <2>1, <2>2
  <1> QED
    BY <1>1, <1>2, <1>3, <1>4 DEF t

(* A change taken from a channel. *)
LEMMA Taken ==
    ASSUME NEW s \in Seq(Changes), s # << >>
    PROVE  /\ Head(s) \in Changes /\ Tail(s) \in Seq(Changes)
           /\ \A x : Has(s, x) <=> Has(Tail(s), x) \/ x = Head(s)
           /\ Distinct(s) => Distinct(Tail(s)) /\ ~Has(Tail(s), Head(s))
           /\ Follows(s) => Head(s) # Connected
           /\ Follows(s) /\ Head(s) # Connecting => Follows(Tail(s))
  <1> DEFINE t == Tail(s)
             h == Head(s)
  <1>1. /\ h \in Changes /\ t \in Seq(Changes) /\ Len(s) \in Nat /\ Len(s) > 0
        /\ Len(t) = Len(s) - 1 /\ h = s[1]
        /\ \A i \in 1 .. Len(t) : t[i] = s[i + 1]
    BY HeadTailProperties
  <1> HIDE DEF t, h
  <1>2. \A i \in 1 .. Len(s) : i = 1 \/ (i - 1 \in 1 .. Len(t) /\ t[i - 1] = s[i])
    BY <1>1
  <1>3. ASSUME NEW x PROVE Has(s, x) <=> Has(t, x) \/ x = h
    <2>1. ASSUME Has(t, x) \/ x = h PROVE Has(s, x)
      BY <1>1, <2>1 DEF Has
    <2>2. ASSUME Has(s, x) PROVE Has(t, x) \/ x = h
      BY <1>1, <1>2, <2>2 DEF Has
    <2> QED
      BY <2>1, <2>2
  <1>4. ASSUME Distinct(s) PROVE Distinct(t) /\ ~Has(t, h)
    <2>1. ASSUME NEW i \in 1 .. Len(t), NEW j \in 1 .. Len(t), t[i] = t[j] PROVE i = j
      <3>1. i + 1 \in 1 .. Len(s) /\ j + 1 \in 1 .. Len(s) /\ s[i + 1] = s[j + 1]
        BY <1>1, <2>1
      <3> QED
        BY <1>4, <3>1 DEF Distinct
    <2>2. ASSUME NEW i \in 1 .. Len(t), t[i] = h PROVE FALSE
      <3>1. i + 1 \in 1 .. Len(s) /\ 1 \in 1 .. Len(s) /\ s[i + 1] = s[1]
        BY <1>1, <2>2
      <3> QED
        BY <1>4, <3>1 DEF Distinct
    <2> QED
      BY <2>1, <2>2 DEF Distinct, Has
  <1>5. Follows(s) => h # Connected
    BY <1>1 DEF Follows
  <1>6. ASSUME Follows(s), h # Connecting PROVE Follows(t)
    <2> SUFFICES ASSUME NEW j \in 1 .. Len(t), t[j] = Connected
                 PROVE  \E i \in 1 .. j - 1 : t[i] = Connecting
      BY DEF Follows
    <2>1. PICK i \in 1 .. j : s[i] = Connecting
      <3>1. j + 1 \in 1 .. Len(s) /\ s[j + 1] = Connected
        BY <1>1
      <3> QED
        BY <1>1, <1>6, <3>1 DEF Follows
    <2>2. i # 1 /\ i - 1 \in 1 .. j - 1 /\ i \in 1 .. Len(s)
      BY <1>1, <1>6, <2>1
    <2> QED
      BY <1>2, <2>1, <2>2
  <1> QED
    BY <1>1, <1>3, <1>4, <1>5, <1>6 DEF t, h
-----------------------------------------------------------------------------
(* The types. *)

LEMMA TypeInit == EventsInit => TypeOK
  <1> SUFFICES ASSUME EventsInit PROVE TypeOK
    OBVIOUS
  <1>1. pending \in [Writers -> Changes \cup {NoChange}]
    BY DEF EventsInit
  <1>2. state \in States /\ current \in States /\ reason \in Reasons \cup {NoReason}
    BY DEF EventsInit, Init, States, Idle, Ended
  <1>3. << >> \in Seq(Changes) /\ << >> \in Seq(States)
    OBVIOUS
  <1> QED
    BY <1>1, <1>2, <1>3 DEF EventsInit, TypeOK

LEMMA StateNumbers ==
    /\ States = 0 .. 4 /\ Changes = 1 .. 4 /\ NoChange = 0
    /\ Idle = 0 /\ Ringing = 1 /\ Connecting = 2 /\ Connected = 3 /\ Ended = 4
    /\ Changes \subseteq States
  BY DEF States, Changes, NoChange, Idle, Ringing, Connecting, Connected, Ended

LEMMA Offered ==
    ASSUME NEW ch \in Seq(Changes), NEW ev \in Changes
    PROVE  Offer(ch, ev) \in Seq(Changes)
  BY Appended DEF Offer

(* The change a writer makes is the next state, or Ended. *)
Makes(g, ev) ==
    /\ pending[g] = NoChange /\ (g = Main => forwarder # "none")
    /\ ev \in Changes /\ state < ev /\ state' = ev
    /\ pending' = [pending EXCEPT ![g] = ev]
    /\ UNCHANGED <<direction, fwdVars, pipeVars>>

LEMMA WritersMake ==
    ASSUME TypeOK
    PROVE  /\ Ring => Makes(Main, Ringing) /\ UNCHANGED <<reason, answerer>>
           /\ \A g \in Writers : Answer(g) =>
                 /\ Makes(g, Connecting) /\ state = Ringing /\ answerer' = g
                 /\ UNCHANGED reason
           /\ \A g \in Writers : Establish(g) =>
                 /\ Makes(g, Connected) /\ state = Connecting /\ answerer = g
                 /\ UNCHANGED <<reason, answerer>>
           /\ \A g \in Writers : Finish(g) =>
                 Makes(g, Ended) /\ UNCHANGED answerer /\ reason' \in Reasons
  <1> USE StateNumbers DEF TypeOK, Makes, Free
  <1>0. state \in 0 .. 4 /\ \A ev \in Changes : CanMove(state, ev) => state = ev - 1 /\ state < ev
    BY DEF CanMove
  <1>1. Ring => Makes(Main, Ringing) /\ UNCHANGED <<reason, answerer>>
    BY <1>0 DEF Ring, ToRinging, transition
  <1>2. ASSUME NEW g \in Writers, Answer(g)
        PROVE  /\ Makes(g, Connecting) /\ state = Ringing /\ answerer' = g
               /\ UNCHANGED reason
    BY <1>0, <1>2 DEF Answer, ToConnecting, transition
  <1>3. ASSUME NEW g \in Writers, Establish(g)
        PROVE  /\ Makes(g, Connected) /\ state = Connecting /\ answerer = g
               /\ UNCHANGED <<reason, answerer>>
    BY <1>0, <1>3 DEF Establish, ToConnected, transition
  <1>4. ASSUME NEW g \in Writers, Finish(g)
        PROVE  Makes(g, Ended) /\ UNCHANGED answerer /\ reason' \in Reasons
    BY <1>4 DEF Finish, End
  <1> QED
    BY <1>1, <1>2, <1>3, <1>4

LEMMA TypeStep == TypeOK /\ [EventsNext]_allVars => TypeOK'
  <1> SUFFICES ASSUME TypeOK, [EventsNext]_allVars PROVE TypeOK'
    OBVIOUS
  <1> USE StateNumbers DEF TypeOK
  <1>1. ASSUME NEW g \in Writers, NEW ev, Makes(g, ev),
               answerer' \in {answerer, g}, reason' \in Reasons \cup {reason}
        PROVE  TypeOK'
    BY <1>1 DEF Makes, fwdVars, pipeVars
  <1>2. Main \in Writers
    BY DEF Writers
  <1>3. CASE Ring
    BY <1>1, <1>2, <1>3, WritersMake
  <1>4. ASSUME NEW g \in Writers, Answer(g) \/ Establish(g) \/ Finish(g) PROVE TypeOK'
    BY <1>1, <1>4, WritersMake
  <1>5. ASSUME NEW g \in Writers, broadcast(g) PROVE TypeOK'
    <2>1. pending[g] \in Changes
      BY <1>5 DEF broadcast
    <2>2. fwdCh' \in Seq(Changes) /\ pipeCh' \in Seq(Changes)
      BY <1>5, <2>1, Offered DEF broadcast
    <2>3. pending' \in [Writers -> Changes \cup {NoChange}]
      BY <1>5 DEF broadcast
    <2> QED
      BY <1>5, <2>2, <2>3 DEF broadcast, vars
  <1>6. CASE Register
    BY <1>6 DEF Register, vars, evVars, pipeVars
  <1>7. CASE fanout
    <2>1. fanned' \in Seq(Changes) /\ fwdCh' \in Seq(Changes)
      BY <1>7, Taken, Appended DEF fanout
    <2> QED
      BY <1>7, <2>1 DEF fanout, vars, evVars, pipeVars
  <1>8. CASE pipeSubscribe \/ pipeConnDone
    <2>1. pipeCh' \in {pipeCh, << >>} /\ pipe' \in {"subscribed", "gone"}
      BY <1>8 DEF pipeSubscribe, pipeConnDone
    <2>2. UNCHANGED <<vars, direction, evVars, fwdVars, current, first, wire>>
      BY <1>8 DEF pipeSubscribe, pipeConnDone
    <2>3. << >> \in Seq(Changes)
      OBVIOUS
    <2> QED
      BY <2>1, <2>2, <2>3 DEF vars, evVars, fwdVars
  <1>9. CASE pipeSnapshot
    <2>1. wire' \in Seq(States) /\ pipeCh' \in Seq(Changes)
      BY <1>9 DEF pipeSnapshot
    <2> QED
      BY <1>9, <2>1 DEF pipeSnapshot, vars, evVars, fwdVars
  <1>10. CASE pipeEvent
    <2>1. Head(pipeCh) \in Changes /\ Tail(pipeCh) \in Seq(Changes)
      BY <1>10, Taken DEF pipeEvent
    <2>2. Append(wire, Head(pipeCh)) \in Seq(States)
      BY <2>1
    <2>3. wire' \in Seq(States) /\ pipeCh' \in Seq(Changes)
      BY <1>10, <2>1, <2>2 DEF pipeEvent
    <2>4. pipe' \in {"done", "loop"} /\ first' = FALSE
      BY <1>10 DEF pipeEvent
    <2>5. UNCHANGED <<vars, direction, evVars, fwdVars, current>>
      BY <1>10 DEF pipeEvent
    <2> QED
      BY <2>3, <2>4, <2>5 DEF vars, evVars, fwdVars
  <1>11. CASE UNCHANGED allVars
    BY <1>11 DEF allVars
  <1> QED
    BY <1>3, <1>4, <1>5, <1>6, <1>7, <1>8, <1>9, <1>10, <1>11 DEF EventsNext, WriterStep
-----------------------------------------------------------------------------
(* What the forwarder and its subscribers see of a step. *)
Unseen == UNCHANGED <<state, pending, answerer, forwarder, fwdCh, fanned>>

LEMMA StepCases ==
    ASSUME TypeOK, [EventsNext]_allVars
    PROVE  \/ Unseen \/ Register \/ Ring \/ fanout
           \/ \E g \in Writers : WriterStep(g)
  BY DEF EventsNext, Unseen, pipeSubscribe, pipeSnapshot, pipeEvent, pipeConnDone,
         vars, evVars, fwdVars, allVars

(* A broadcast puts its change into the channel, or nowhere. *)
LEMMA BroadcastPuts ==
    ASSUME TypeOK, NEW g \in Writers, broadcast(g)
    PROVE  /\ pending[g] \in Changes
           /\ pending' = [pending EXCEPT ![g] = NoChange]
           /\ fwdCh' = fwdCh \/ (forwarder = "running" /\ fwdCh' = Append(fwdCh, pending[g]))
           /\ forwarder = "running" /\ Len(fwdCh) < SubCap => fwdCh' = Append(fwdCh, pending[g])
           /\ UNCHANGED <<state, answerer, forwarder, fanned>>
  BY DEF broadcast, Offer, TypeOK, vars

(* What fanout does, in terms of the change it takes. *)
LEMMA FanoutTakes ==
    ASSUME TypeOK, fanout
    PROVE  /\ forwarder = "running" /\ fwdCh \in Seq(Changes) /\ fwdCh # << >>
           /\ fanned' = Append(fanned, Head(fwdCh))
           /\ Head(fwdCh) = Ended => forwarder' = "exited" /\ fwdCh' = << >>
           /\ Head(fwdCh) # Ended => forwarder' = "running" /\ fwdCh' = Tail(fwdCh)
           /\ UNCHANGED <<state, pending, answerer>>
  BY DEF fanout, TypeOK, vars, evVars

(* A change is made once and moves. *)
LEMMA OnceStep == TypeOK /\ Once /\ [EventsNext]_allVars => Once'
  <1> SUFFICES ASSUME TypeOK, Once, [EventsNext]_allVars PROVE Once'
    OBVIOUS
  <1>t. /\ pending \in [Writers -> 0 .. 4] /\ state \in 0 .. 4
        /\ fwdCh \in Seq(Changes) /\ fanned \in Seq(Changes)
    BY StateNumbers DEF TypeOK
  <1>1. CASE Unseen
    BY <1>1 DEF Unseen, Once
  <1>2. CASE Register
    BY <1>2 DEF Register, Once, vars, evVars
  <1>3. ASSUME NEW g \in Writers, NEW ev, Makes(g, ev) PROVE Once'
    <2>1. ~Has(fwdCh, ev) /\ ~Has(fanned, ev) /\ \A h \in Writers : pending[h] # ev
      BY <1>3, <1>t, StateNumbers DEF Makes, Once
    <2>2. UNCHANGED <<fwdCh, fanned>> /\ state' = ev /\ state < ev /\ ev \in 1 .. 4
      BY <1>3, StateNumbers DEF Makes, fwdVars
    <2>3. ASSUME NEW x \in Writers, pending'[x] # NoChange
          PROVE  /\ pending'[x] <= state'
                 /\ ~Has(fwdCh', pending'[x]) /\ ~Has(fanned', pending'[x])
                 /\ \A h \in Writers : pending'[h] = pending'[x] => h = x
      <3>1. pending' = [pending EXCEPT ![g] = ev]
        BY <1>3 DEF Makes
      <3>2. CASE x = g
        BY <1>t, <2>1, <2>2, <3>1, <3>2
      <3>3. CASE x # g
        BY <1>t, <2>1, <2>2, <2>3, <3>1, <3>3 DEF Once
      <3> QED
        BY <3>2, <3>3
    <2>4. \A x \in Changes : /\ Has(fwdCh', x) => x <= state' /\ ~Has(fanned', x)
                             /\ Has(fanned', x) => x <= state'
      BY <1>t, <2>2, StateNumbers DEF Once
    <2> QED
      BY <2>2, <2>3, <2>4 DEF Once
  <1>4. CASE Ring
    BY <1>3, <1>4, WritersMake DEF Writers
  <1>5. ASSUME NEW g \in Writers, Answer(g) \/ Establish(g) \/ Finish(g) PROVE Once'
    BY <1>3, <1>5, WritersMake
  <1>6. ASSUME NEW g \in Writers, broadcast(g) PROVE Once'
    <2>1. pending[g] \in Changes /\ pending[g] # NoChange
      BY <1>6, BroadcastPuts, StateNumbers
    <2>2. \A x : Has(fwdCh', x) => Has(fwdCh, x) \/ x = pending[g]
      BY <1>6, <1>t, <2>1, BroadcastPuts, Appended
    <2>3. Distinct(fwdCh')
      <3>1. Distinct(fwdCh) /\ Distinct(Append(fwdCh, pending[g]))
        BY <1>t, <2>1, Appended DEF Once
      <3> QED
        BY <1>6, <3>1, BroadcastPuts
    <2> QED
      BY <1>6, <1>t, <2>1, <2>2, <2>3, BroadcastPuts DEF Once
  <1>7. CASE fanout
    <2>1. /\ Head(fwdCh) \in Changes /\ Has(fwdCh, Head(fwdCh)) /\ ~Has(fanned, Head(fwdCh))
          /\ Distinct(Tail(fwdCh)) /\ ~Has(Tail(fwdCh), Head(fwdCh))
          /\ \A x : Has(Tail(fwdCh), x) => Has(fwdCh, x)
      BY <1>7, FanoutTakes, Taken DEF Once
    <2>f. fanned' = Append(fanned, Head(fwdCh))
      BY <1>7, FanoutTakes
    <2>2. \A x : Has(fanned', x) <=> Has(fanned, x) \/ x = Head(fwdCh)
      BY <1>t, <2>1, <2>f, Appended
    <2>3. Distinct(fanned')
      <3>1. Distinct(Append(fanned, Head(fwdCh)))
        BY <1>t, <2>1, Appended DEF Once
      <3> QED
        BY <2>f, <3>1
    <2>4. /\ \A x : Has(fwdCh', x) => Has(fwdCh, x) /\ x # Head(fwdCh)
          /\ Distinct(fwdCh')
      BY <1>7, <2>1, FanoutTakes, EmptyLog
    <2> QED
      BY <1>7, <2>1, <2>2, <2>3, <2>4, FanoutTakes DEF Once
  <1> QED
    BY <1>1, <1>2, <1>4, <1>5, <1>6, <1>7, StepCases DEF WriterStep

(* Nobody but the forwarder empties the channel, and it stops at Ended. *)
LEMMA SentinelStep == TypeOK /\ Once /\ Sentinel /\ [EventsNext]_allVars => Sentinel'
  <1> SUFFICES ASSUME TypeOK, Once, Sentinel, [EventsNext]_allVars PROVE Sentinel'
    OBVIOUS
  <1> USE StateNumbers
  <1>t. /\ pending \in [Writers -> 0 .. 4] /\ state \in 0 .. 4
        /\ fwdCh \in Seq(Changes) /\ fanned \in Seq(Changes)
    BY DEF TypeOK
  <1>1. CASE Unseen
    BY <1>1 DEF Unseen, Sentinel, NothingAfterEnded
  <1>2. CASE Register
    BY <1>2 DEF Register, Sentinel, NothingAfterEnded, vars
  <1>3. ASSUME NEW g \in Writers, NEW ev, Makes(g, ev),
               ev = Ended \/ g = Main \/ state \in {Ringing, Connecting}
        PROVE  Sentinel'
    BY <1>3 DEF Makes, Sentinel, NothingAfterEnded, fwdVars
  <1>4. CASE Ring
    BY <1>3, <1>4, WritersMake DEF Writers
  <1>5. ASSUME NEW g \in Writers, Answer(g) \/ Establish(g) \/ Finish(g) PROVE Sentinel'
    BY <1>3, <1>5, WritersMake
  <1>6. ASSUME NEW g \in Writers, broadcast(g) PROVE Sentinel'
    BY <1>6, BroadcastPuts DEF Sentinel, NothingAfterEnded
  <1>7. CASE fanout
    <2>1. /\ Head(fwdCh) \in Changes /\ fanned' = Append(fanned, Head(fwdCh))
          /\ forwarder = "running" /\ ~Has(fanned, Ended) /\ Has(fwdCh, Head(fwdCh))
      BY <1>7, FanoutTakes, Taken DEF Sentinel
    <2>2. Has(fanned', Ended) <=> Head(fwdCh) = Ended
      BY <1>t, <2>1, Appended
    <2>3. NothingAfterEnded'
      <3>1. /\ Len(fanned) \in Nat /\ Len(fanned') = Len(fanned) + 1
            /\ DOMAIN fanned' = 1 .. Len(fanned')
            /\ \A i \in 1 .. Len(fanned) : fanned'[i] = fanned[i]
        BY <1>t, <2>1
      <3>2. \A i \in 1 .. Len(fanned) : fanned[i] # Ended
        BY <2>1 DEF Has
      <3> QED
        BY <3>1, <3>2 DEF NothingAfterEnded
    <2> QED
      BY <1>7, <2>1, <2>2, <2>3, FanoutTakes DEF Sentinel
  <1> QED
    BY <1>1, <1>2, <1>4, <1>5, <1>6, <1>7, StepCases DEF WriterStep

(* With room for two changes, Connecting is not lost. *)
LEMMA RoomForConnecting ==
    ASSUME SubCap >= 2, TypeOK, Once, NEW g \in Writers,
           pending[g] = Connecting, state = Connecting
    PROVE  Len(fwdCh) < SubCap
  <1> USE StateNumbers
  <1>t. fwdCh \in Seq(1 .. 4) /\ Len(fwdCh) \in Nat /\ SubCap \in Nat
    BY SubCapAssumption DEF TypeOK
  <1>1. ASSUME NEW i \in 1 .. Len(fwdCh) PROVE fwdCh[i] = Ringing
    <2>1. fwdCh[i] \in 1 .. 4 /\ Has(fwdCh, fwdCh[i])
      BY <1>t, <1>1 DEF Has
    <2>2. fwdCh[i] <= state /\ fwdCh[i] # Connecting
      BY <2>1 DEF Once
    <2> QED
      BY <2>1, <2>2
  <1>2. Len(fwdCh) <= 1
    <2> SUFFICES ASSUME Len(fwdCh) > 1 PROVE FALSE
      BY <1>t
    <2>1. 1 \in 1 .. Len(fwdCh) /\ 2 \in 1 .. Len(fwdCh)
      BY <1>t
    <2>2. fwdCh[1] = fwdCh[2]
      BY <1>1, <2>1
    <2> QED
      BY <2>1, <2>2 DEF Once, Distinct
  <1> QED
    BY <1>t, <1>2

(* The forwarder is there for every answer. *)
LEMMA AnsweredStep ==
    ASSUME SubCap >= 2
    PROVE  TypeOK /\ Once /\ Sentinel /\ Answered /\ [EventsNext]_allVars => Answered'
  <1> SUFFICES ASSUME TypeOK, Once, Sentinel, Answered, [EventsNext]_allVars PROVE Answered'
    OBVIOUS
  <1> USE StateNumbers
  <1>t. /\ pending \in [Writers -> 0 .. 4] /\ state \in 0 .. 4
        /\ fwdCh \in Seq(Changes) /\ fanned \in Seq(Changes)
    BY DEF TypeOK
  <1>0. state # Ended => ~Has(fwdCh, Ended) /\ forwarder # "exited"
    BY <1>t DEF Once, Sentinel
  <1>1. CASE Unseen
    BY <1>1 DEF Unseen, Answered, Sent
  <1>2. CASE Register
    BY <1>2 DEF Register, Answered, Sent, Sentinel, vars, evVars
  <1>3. CASE Ring
    BY <1>3, <1>t, WritersMake DEF Makes, Answered, Sent, fwdVars
  <1>4. ASSUME NEW g \in Writers, Answer(g) PROVE Answered'
    BY <1>4, <1>t, WritersMake DEF Makes, Answered, Sent, fwdVars
  <1>5. ASSUME NEW g \in Writers, Establish(g) PROVE Answered'
    <2>1. Sent(Connecting)
      BY <1>5, <1>t, WritersMake DEF Makes, Answered
    <2> QED
      BY <1>5, <1>t, <2>1, WritersMake DEF Makes, Answered, Sent, fwdVars
  <1>6. ASSUME NEW g \in Writers, Finish(g) PROVE Answered'
    BY <1>6, <1>t, WritersMake DEF Makes, Answered, Sent, fwdVars
  <1>7. ASSUME NEW g \in Writers, broadcast(g) PROVE Answered'
    <2>p. pending' = [pending EXCEPT ![g] = NoChange] /\ pending[g] \in Changes
      BY <1>7, BroadcastPuts
    <2>u. UNCHANGED <<state, answerer, forwarder, fanned>>
      BY <1>7, BroadcastPuts
    <2>a. \A x : Has(Append(fwdCh, pending[g]), x) <=> Has(fwdCh, x) \/ x = pending[g]
      BY <1>t, <2>p, Appended
    <2>b. \A x : Has(fwdCh, x) => Has(fwdCh', x)
      BY <1>7, <2>a, BroadcastPuts
    <2>1. ASSUME state = Connecting
          PROVE  answerer \in Writers /\ (pending'[answerer] = Connecting \/ Sent(Connecting)')
      <3>1. CASE pending[g] = Connecting
        <4>1. forwarder = "running"
          BY <2>1, <1>0 DEF Sentinel, TypeOK
        <4>2. fwdCh' = Append(fwdCh, pending[g])
          BY <1>7, <2>1, <3>1, <4>1, RoomForConnecting, BroadcastPuts
        <4> QED
          BY <2>1, <2>a, <3>1, <4>2 DEF Answered, Sent
      <3>2. CASE pending[g] # Connecting
        BY <1>t, <2>1, <2>b, <2>p, <2>u, <3>2 DEF Answered, Sent
      <3> QED
        BY <3>1, <3>2
    <2>2. ASSUME NEW h \in Writers, pending'[h] = Connected
          PROVE  Sent(Connecting)' \/ forwarder' = "exited"
      <3>1. pending[h] = Connected
        BY <1>t, <2>2, <2>p
      <3> QED
        BY <2>b, <2>u, <3>1 DEF Answered, Sent
    <2>3. Has(fanned', Connecting) \/ Follows(fwdCh')
      <3>1. CASE fwdCh' = fwdCh
        BY <2>u, <3>1 DEF Answered
      <3>2. CASE forwarder = "running" /\ fwdCh' = Append(fwdCh, pending[g])
        <4>1. pending[g] = Connected => Has(fwdCh, Connecting) \/ Has(fanned, Connecting)
          BY <3>2 DEF Answered, Sent
        <4>2. Follows(fwdCh) /\ (pending[g] = Connected => Has(fwdCh, Connecting))
                => Follows(Append(fwdCh, pending[g]))
          BY <1>t, <2>p, Appended
        <4> QED
          BY <2>u, <3>2, <4>1, <4>2 DEF Answered
      <3> QED
        BY <1>7, <3>1, <3>2, BroadcastPuts
    <2> QED
      BY <2>1, <2>2, <2>3, <2>u DEF Answered
  <1>8. CASE fanout
    <2>1. /\ forwarder = "running" /\ fwdCh # << >>
          /\ fanned' = Append(fanned, Head(fwdCh)) /\ Head(fwdCh) \in Changes
          /\ UNCHANGED <<state, pending, answerer>>
      BY <1>8, <1>t, FanoutTakes, Taken
    <2>2. \A x : Has(fanned', x) <=> Has(fanned, x) \/ x = Head(fwdCh)
      BY <1>t, <2>1, Appended
    <2>3. Follows(fanned')
      <3>1. Head(fwdCh) = Connected => Has(fanned, Connecting)
        BY <1>t, <2>1, Taken DEF Answered
      <3>2. Follows(Append(fanned, Head(fwdCh)))
        BY <1>t, <2>1, <3>1, Appended DEF Answered
      <3> QED
        BY <2>1, <3>2
    <2>4. CASE Head(fwdCh) = Ended
      <3>1. forwarder' = "exited" /\ fwdCh' = << >> /\ state = Ended
        BY <1>8, <1>t, <1>0, <2>1, <2>4, FanoutTakes, Taken
      <3> QED
        BY <2>1, <2>3, <3>1, EmptyLog DEF Answered
    <2>5. CASE Head(fwdCh) # Ended
      <3>1. forwarder' = "running" /\ fwdCh' = Tail(fwdCh)
        BY <1>8, <2>5, FanoutTakes
      <3>2. \A x : Has(fwdCh, x) <=> Has(fwdCh', x) \/ x = Head(fwdCh)
        BY <1>t, <2>1, <3>1, Taken
      <3>3. Sent(Connecting) => Sent(Connecting)'
        BY <2>2, <3>2 DEF Sent
      <3>4. Has(fanned', Connecting) \/ Follows(fwdCh')
        BY <1>t, <2>1, <2>2, <3>1, Taken DEF Answered
      <3> QED
        BY <2>1, <2>3, <3>1, <3>3, <3>4 DEF Answered
    <2> QED
      BY <2>4, <2>5
  <1> QED
    BY <1>1, <1>2, <1>3, <1>4, <1>5, <1>6, <1>7, <1>8, StepCases DEF WriterStep
-----------------------------------------------------------------------------
LEMMA InvInit == EventsInit => TypeOK /\ Once /\ Sentinel /\ Answered
  <1> SUFFICES ASSUME EventsInit PROVE TypeOK /\ Once /\ Sentinel /\ Answered
    OBVIOUS
  <1> USE StateNumbers, EmptyLog DEF EventsInit, Init
  <1>1. Once
    BY DEF Once
  <1>2. Sentinel
    BY DEF Sentinel, NothingAfterEnded
  <1>3. Answered
    BY DEF Answered
  <1> QED
    BY <1>1, <1>2, <1>3, TypeInit

(* The variables of SessionEvents keep their types. *)
THEOREM TypeCorrect == EventsSpec => []TypeOK
  BY TypeInit, TypeStep, PTL DEF EventsSpec

(* The forwarder of Manager.Register fans out nothing after "ended",       *)
(* however the broadcasts of the writers overtake each other.              *)
THEOREM EndedIsLast == EventsSpec => [](Once /\ NothingAfterEnded)
  <1>1. Sentinel => NothingAfterEnded
    BY DEF Sentinel
  <1> QED
    BY <1>1, InvInit, OnceStep, SentinelStep, TypeCorrect, PTL DEF EventsSpec

(* With at least two places in the channel of Session.Subscribe (the code  *)
(* has 16), no change is fanned out twice and Connected after Connecting.  *)
THEOREM FannedOutInOrder ==
    ASSUME SubCap >= 2
    PROVE  EventsSpec => []FannedInOrder
  <1>1. TypeOK /\ Once /\ Sentinel /\ Answered /\ [EventsNext]_allVars => Answered'
    BY AnsweredStep
  <1>2. TypeOK /\ Once /\ Answered => FannedInOrder
    <2> SUFFICES ASSUME TypeOK, Once, Answered PROVE FannedInOrder
      OBVIOUS
    <2>1. DOMAIN fanned = 1 .. Len(fanned) /\ Len(fanned) \in Nat
      BY DEF TypeOK
    <2>2. \A i, j \in DOMAIN fanned : fanned[i] = fanned[j] => i = j
      BY <2>1 DEF Once, Distinct
    <2>3. ASSUME NEW j \in Positions(fanned, Connected)
          PROVE  \E i \in Positions(fanned, Connecting) : i < j
      <3>1. PICK i \in 1 .. j - 1 : fanned[i] = Connecting
        BY <2>1, <2>3 DEF Answered, Follows, Positions
      <3>2. i \in Positions(fanned, Connecting) /\ i < j
        BY <2>1, <2>3, <3>1 DEF Positions
      <3> QED
        BY <3>2
    <2> QED
      BY <2>2, <2>3 DEF FannedInOrder
  <1> QED
    BY <1>1, <1>2, InvInit, OnceStep, SentinelStep, TypeCorrect, PTL DEF EventsSpec
=============================================================================
