------------------------------ MODULE IpcProofs ------------------------------
(***************************************************************************)
(* Answers and events reach the right caller, for any number of requests,  *)
(* subscriptions and events, whatever the capacity of the buffers.         *)
(*                                                                         *)
(* Matching: an id belongs to one request, and the server echoes it, so    *)
(* what is registered, written, handled or answered under an id is about   *)
(* that request.                                                           *)
(*                                                                         *)
(* Keeping: as long as the client reads, the events of a subscription that *)
(* were emitted are those it has routed followed by those on the wire.     *)
(***************************************************************************)
EXTENDS Ipc, SequenceTheorems, TLAPS

Answered == {"ok", "error"}
Messages == Responses \cup Events \cup {Hello}

(* A handler works on a request. *)
HandlesRequest == handler = "handling" => handling \in Request

(* A Call has a number from its registration on. *)
Numbered == \A r \in Requests : call[r] = "new" <=> id[r] = 0

(* Every id in use is the id of one request, which is under way. *)
IdsUnique ==
    /\ \A r \in Requests : id[r] <= nextID
    /\ \A q, r \in Requests : id[q] = id[r] /\ id[r] # 0 => q = r
    /\ \A p \in pending : p[1] = id[p[2]]

(* Requests and responses carry the id of their request. *)
Echoed(m) == m.id = id[m.of]
WireEchoes ==
    /\ \A i \in 1 .. Len(toServer) : Echoed(toServer[i])
    /\ handler = "handling" => Echoed(handling)
    /\ \A i \in 1 .. Len(toClient) : toClient[i].kind \in Answered => Echoed(toClient[i])

(* A channel that was answered or closed is no longer registered. *)
AnsweredOnce ==
    \A r \in Requests :
        /\ answer[r].kind \in Answered => answer[r].of = r
        /\ answer[r].kind # "empty" => call[r] # "new" /\ \A p \in pending : p[2] # r
        /\ call[r] \in {"ok", "error", "subscribing"} => answer[r].kind \in Answered

Matching == IdsUnique /\ WireEchoes /\ AnsweredOnce
-----------------------------------------------------------------------------
Event(s, n) == [kind |-> "event", sub |-> s, n |-> n]
Has(q, m) == \E i \in 1 .. Len(q) : q[i] = m
Increasing(q) == \A i, j \in 1 .. Len(q) : i < j => q[i] < q[j]

(* On the wire the events of a subscription are in the order of emission. *)
WireInOrder(q) ==
    \A i, j \in 1 .. Len(q), s \in Subscribers, a, b \in 1 .. MaxEvents :
        i < j /\ q[i] = Event(s, a) /\ q[j] = Event(s, b) => a < b

(* Before the client has its hello nothing is asked and nothing is told. *)
Quiet ==
    /\ clientEnd = "none" => readLoop = "none" /\ handler = "none"
    /\ handler \in {"none", "queued", "hello"} => toClient = << >> /\ emitters = {}
    /\ readLoop \in {"none", "hello"} =>
          /\ emitters = {} /\ toServer = << >> /\ handler # "handling"
          /\ toClient \in {<< >>, <<Hello>>}
          /\ \A r \in Requests : call[r] = "new"
          /\ \A s \in Subscribers : emitted[s] = 0

(* The client still reads what comes. *)
Reading == clientEnd # "closed" /\ readLoop \notin {"closing", "ended"}

(* The events that readLoop has put somewhere or dropped. *)
Routed(s) == Range(Received(s)) \cup Range(pendEvs[s]) \cup dropped[s]

Keeping ==
    /\ WireInOrder(toClient)
    /\ \A s \in Subscribers :
         /\ \A n \in Routed(s) : n <= emitted[s]
         /\ \A n \in 1 .. MaxEvents : Has(toClient, Event(s, n)) => n <= emitted[s]
         /\ Reading =>
              /\ \A n \in 1 .. emitted[s] : n \in Routed(s) \/ Has(toClient, Event(s, n))
              /\ \A m \in Routed(s), n \in 1 .. MaxEvents : Has(toClient, Event(s, n)) => m < n

(* A subscription is filled by Subscribe, and from then on by readLoop. *)
Filled ==
    \A s \in Subscribers :
        /\ call[s] # "ok" => events[s] = << >> /\ taken[s] = << >>
        /\ s \in subs => call[s] = "ok" /\ pendEvs[s] = << >>
        /\ Increasing(Received(s)) /\ Increasing(pendEvs[s])
        /\ \A n \in Range(Received(s)) : 1 .. n \subseteq Range(Received(s)) \cup dropped[s]
        /\ \A n \in Range(pendEvs[s]) : 1 .. n \subseteq Routed(s)
-----------------------------------------------------------------------------
(* Lemmas about channels and the messages in them. *)

LEMMA Appended ==
    ASSUME NEW S, NEW q \in Seq(S), NEW x \in S
    PROVE  /\ Append(q, x) \in Seq(S) /\ Len(Append(q, x)) = Len(q) + 1 /\ Len(q) \in Nat
           /\ \A i \in 1 .. Len(q) : Append(q, x)[i] = q[i]
           /\ Append(q, x)[Len(q) + 1] = x
           /\ \A m : Has(Append(q, x), m) <=> Has(q, m) \/ m = x
           /\ Range(Append(q, x)) = Range(q) \cup {x}
  <1> DEFINE t == Append(q, x)
  <1>1. /\ t \in Seq(S) /\ Len(q) \in Nat /\ Len(t) = Len(q) + 1
        /\ \A i \in 1 .. Len(q) : t[i] = q[i]
        /\ t[Len(q) + 1] = x
        /\ DOMAIN t = 1 .. Len(t) /\ DOMAIN q = 1 .. Len(q)
    OBVIOUS
  <1> HIDE DEF t
  <1>2. \A m : Has(t, m) <=> Has(q, m) \/ m = x
    BY <1>1 DEF Has
  <1>3. \A m : (m \in Range(t) <=> Has(t, m)) /\ (m \in Range(q) <=> Has(q, m))
    BY <1>1 DEF Has, Range
  <1>4. Range(t) = Range(q) \cup {x}
    BY <1>2, <1>3
  <1> QED
    BY <1>1, <1>2, <1>4 DEF t

LEMMA RangeGrows ==
    ASSUME NEW S, NEW q \in Seq(S), NEW x \in S
    PROVE  Range(Append(q, x)) = Range(q) \cup {x}
  BY Appended

LEMMA RangeTyped ==
    ASSUME NEW S, NEW q \in Seq(S)
    PROVE  Range(q) \subseteq S
  <1>1. \A i \in DOMAIN q : q[i] \in S
    OBVIOUS
  <1> QED
    BY <1>1 DEF Range

LEMMA Taken ==
    ASSUME NEW S, NEW q \in Seq(S), q # << >>
    PROVE  /\ Head(q) \in S /\ Tail(q) \in Seq(S) /\ Len(q) \in Nat /\ Len(q) > 0
           /\ Len(Tail(q)) = Len(q) - 1 /\ Head(q) = q[1]
           /\ \A i \in 1 .. Len(Tail(q)) : Tail(q)[i] = q[i + 1]
           /\ \A m : Has(q, m) <=> Has(Tail(q), m) \/ m = Head(q)
  <1> DEFINE t == Tail(q)
             h == Head(q)
  <1>1. /\ h \in S /\ t \in Seq(S) /\ Len(q) \in Nat /\ Len(q) > 0
        /\ Len(t) = Len(q) - 1 /\ h = q[1]
        /\ \A i \in 1 .. Len(t) : t[i] = q[i + 1]
    BY HeadTailProperties
  <1> HIDE DEF t, h
  <1>2. \A i \in 1 .. Len(q) : i = 1 \/ (i - 1 \in 1 .. Len(t) /\ t[i - 1] = q[i])
    BY <1>1
  <1>3. ASSUME NEW m PROVE Has(q, m) <=> Has(t, m) \/ m = h
    <2>1. ASSUME Has(t, m) \/ m = h PROVE Has(q, m)
      BY <1>1, <2>1 DEF Has
    <2>2. ASSUME Has(q, m) PROVE Has(t, m) \/ m = h
      BY <1>1, <1>2, <2>2 DEF Has
    <2> QED
      BY <2>1, <2>2
  <1> QED
    BY <1>1, <1>3 DEF t, h

LEMMA Kinds ==
    ASSUME NEW m \in Messages
    PROVE  /\ m.kind \in Answered => m \in Responses /\ m.id \in Ids /\ m.of \in Requests
           /\ m.kind = "event" => /\ m \in Events /\ m.sub \in Subscribers
                                  /\ m.n \in 1 .. MaxEvents /\ m = Event(m.sub, m.n)
  BY DEF Messages, Responses, Events, Hello, Answered, Event

LEMMA EventFields ==
    ASSUME NEW s, NEW n
    PROVE  /\ Event(s, n).kind = "event"
           /\ \A t, m : Event(s, n) = Event(t, m) => s = t /\ n = m
           /\ s \in Subscribers /\ n \in 1 .. MaxEvents => Event(s, n) \in Messages
  <1>1. Event(s, n).kind = "event" /\ Event(s, n).sub = s /\ Event(s, n).n = n
    BY DEF Event
  <1>2. \A t, m : Event(t, m).sub = t /\ Event(t, m).n = m
    BY DEF Event
  <1>3. s \in Subscribers /\ n \in 1 .. MaxEvents => Event(s, n) \in Messages
    BY DEF Event, Messages, Events
  <1> QED
    BY <1>1, <1>2, <1>3

LEMMA Delivered ==
    ASSUME toClient \in Seq(Messages), NEW m \in Messages, Deliver(m)
    PROVE  toClient' \in Seq(Messages)
  BY DEF Deliver
-----------------------------------------------------------------------------
(* The types. *)

Typed == TypeOK /\ HandlesRequest /\ Numbered

LEMMA TypedInit == Init => Typed
  <1> SUFFICES ASSUME Init PROVE Typed
    OBVIOUS
  <1>1. << >> \in Seq(Request) /\ << >> \in Seq(Messages) /\ << >> \in Seq(1 .. MaxEvents)
    OBVIOUS
  <1>2. {events, pendEvs, taken} \subseteq [Subscribers -> Seq(1 .. MaxEvents)]
    BY <1>1 DEF Init
  <1>3. \A s \in Subscribers : Len(events[s]) <= EventCap /\ Len(pendEvs[s]) <= EventCap
    BY IpcAssumption DEF Init
  <1>4. emitted \in [Subscribers -> 0 .. MaxEvents]
    BY IpcAssumption DEF Init
  <1> QED
    BY <1>1, <1>2, <1>3, <1>4 DEF Init, Typed, TypeOK, HandlesRequest, Numbered, Messages, NoReturn

(* Steps of the server and of the two ends that touch neither a request    *)
(* nor an event.                                                           *)
LEMMA TypedControl ==
    ASSUME Typed,
           \/ Dial \/ Accept \/ HelloFails \/ Cancel \/ AcceptFails \/ ServeReturns
           \/ HandleConnExits \/ Close \/ UNCHANGED vars
    PROVE  Typed'
  BY DEF Dial, Accept, HelloFails, Cancel, AcceptFails, ServeReturns, HandleConnExits, Close,
         vars, serverVars, wireVars, callVars, subVars, Typed, TypeOK, HandlesRequest, Numbered

LEMMA TypedServer ==
    ASSUME Typed,
           \/ sendHello \/ Dispatch \/ HandlerReturns \/ \E s \in Subscribers : EmitEvent(s)
    PROVE  Typed'
  <1> USE DEF Typed
  <1>1. toClient \in Seq(Messages) /\ Hello \in Messages
    BY DEF TypeOK, Messages
  <1>2. CASE sendHello
    <2>1. toClient' \in Seq(Messages)
      BY <1>1, <1>2, Delivered DEF sendHello
    <2>2. handler' \in {"scanning", "exited"}
      BY <1>2 DEF sendHello
    <2> QED
      BY <1>2, <2>1, <2>2 DEF sendHello, callVars, subVars, TypeOK, HandlesRequest, Numbered, Messages
  <1>3. CASE Dispatch
    <2>1. handling' \in Request /\ toServer' \in Seq(Request)
      BY <1>3, Taken DEF Dispatch, TypeOK
    <2>2. emitters' \subseteq Subscribers
      BY <1>3 DEF Dispatch, TypeOK
    <2> QED
      BY <1>3, <2>1, <2>2 DEF Dispatch, callVars, subVars, TypeOK, HandlesRequest, Numbered
  <1>4. CASE HandlerReturns
    <2>1. handling \in Request
      BY <1>4 DEF HandlerReturns, HandlesRequest
    <2>2. \A k \in Answered : [kind |-> k, id |-> handling.id, of |-> handling.of] \in Messages
      BY <2>1 DEF Request, Messages, Responses, Answered
    <2>3. toClient' \in Seq(Messages)
      BY <1>1, <1>4, <2>2, Delivered DEF HandlerReturns, Respond, Answered
    <2> QED
      BY <1>4, <2>3 DEF HandlerReturns, callVars, subVars, TypeOK, HandlesRequest, Numbered, Messages
  <1>5. ASSUME NEW s \in Subscribers, EmitEvent(s) PROVE Typed'
    <2>1. emitted' \in [Subscribers -> 0 .. MaxEvents] /\ emitted'[s] \in 1 .. MaxEvents
      BY <1>5, IpcAssumption DEF EmitEvent, TypeOK
    <2>2. [kind |-> "event", sub |-> s, n |-> emitted'[s]] \in Messages
      BY <2>1 DEF Messages, Events
    <2>3. toClient' \in Seq(Messages)
      BY <1>1, <1>5, <2>2, Delivered DEF EmitEvent
    <2> QED
      BY <1>5, <2>1, <2>3 DEF EmitEvent, callVars, subVars, TypeOK, HandlesRequest, Numbered, Messages
  <1> QED
    BY <1>2, <1>3, <1>4, <1>5

LEMMA TypedCall ==
    ASSUME Typed, NEW r \in Requests,
           \/ CallRegister(r) \/ CallWrite(r) \/ CallCanceled(r) \/ CallFails(r)
           \/ CallAnswered(r)
    PROVE  Typed'
  <1> USE DEF Typed
  <1>1. UNCHANGED <<serverVars, clientEnd, toClient, answer, readLoop, subVars>>
    BY DEF CallRegister, CallWrite, CallCanceled, CallFails, CallAnswered, wireVars
  <1>2. nextID' \in Nat /\ id' \in [Requests -> Nat]
    <2>1. \/ UNCHANGED <<nextID, id>>
          \/ nextID' = nextID + 1 /\ id' = [id EXCEPT ![r] = nextID + 1]
      BY DEF CallRegister, NewID, CallWrite, CallCanceled, CallFails, CallAnswered
    <2> QED
      BY <2>1 DEF TypeOK
  <1>3. pending' \subseteq Ids \X Requests
    <2>1. CASE CallRegister(r)
      <3>1. id'[r] \in Ids
        BY <2>1 DEF CallRegister, NewID, TypeOK, Ids
      <3>2. pending' \subseteq pending \cup {<<id'[r], r>>}
        BY <2>1 DEF CallRegister
      <3> QED
        BY <3>1, <3>2 DEF TypeOK
    <2>2. CASE CallWrite(r) \/ CallCanceled(r) \/ CallFails(r) \/ CallAnswered(r)
      <3>1. pending' \subseteq pending
        BY <2>2 DEF CallWrite, CallCanceled, CallFails, CallAnswered, Forget
      <3> QED
        BY <3>1 DEF TypeOK
    <2> QED
      BY <2>1, <2>2
  <1>4. call' \in [Requests -> NoReturn \cup Returned]
    BY DEF CallRegister, CallWrite, CallCanceled, CallFails, CallAnswered, TypeOK, NoReturn,
           Returned
  <1>5. toServer' \in Seq(Request)
    <2>1. CASE UNCHANGED toServer
      BY <2>1 DEF TypeOK
    <2>2. CASE call[r] = "registered" /\ toServer' = Append(toServer, [id |-> id[r], of |-> r])
      <3>1. [id |-> id[r], of |-> r] \in Request
        BY <2>2 DEF TypeOK, Numbered, Request, Ids
      <3> QED
        BY <2>2, <3>1 DEF TypeOK
    <2> QED
      BY <2>1, <2>2 DEF CallRegister, CallWrite, CallCanceled, CallFails, CallAnswered, wireVars
  <1>6. Numbered'
    <2>1. CASE CallRegister(r)
      <3>1. /\ id' = [id EXCEPT ![r] = nextID + 1]
            /\ \E k \in {"failed", "registered"} : call' = [call EXCEPT ![r] = k]
        BY <2>1 DEF CallRegister, NewID
      <3> QED
        BY <3>1 DEF TypeOK, Numbered
    <2>2. CASE CallWrite(r) \/ CallCanceled(r) \/ CallFails(r) \/ CallAnswered(r)
      <3>1. /\ id' = id /\ call[r] # "new"
            /\ \E k \in Returned \cup {"sent", "subscribing"} : call' = [call EXCEPT ![r] = k]
        BY <2>2 DEF CallWrite, CallCanceled, CallFails, CallAnswered, Returned
      <3> QED
        BY <3>1 DEF TypeOK, Numbered, Returned
    <2> QED
      BY <2>1, <2>2
  <1> QED
    BY <1>1, <1>2, <1>3, <1>4, <1>5, <1>6 DEF TypeOK, HandlesRequest, serverVars, subVars

LEMMA TypedSubscription ==
    ASSUME Typed, NEW s \in Subscribers,
           Subscribe(s) \/ TakeEvent(s) \/ SubscriptionClose(s)
    PROVE  Typed'
  <1> USE DEF Typed
  <1>1. CASE Subscribe(s)
    <2>1. s \in Requests /\ << >> \in Seq(1 .. MaxEvents)
      BY IpcAssumption
    <2>2. /\ events' \in [Subscribers -> Seq(1 .. MaxEvents)]
          /\ pendEvs' \in [Subscribers -> Seq(1 .. MaxEvents)]
          /\ \A t \in Subscribers : Len(events'[t]) <= EventCap /\ Len(pendEvs'[t]) <= EventCap
      <3>1. \/ UNCHANGED <<events, pendEvs>>
            \/ /\ events' = [events EXCEPT ![s] = pendEvs[s]]
               /\ pendEvs' = [pendEvs EXCEPT ![s] = << >>]
        BY <1>1 DEF Subscribe, Drained
      <3>2. Len(<< >>) <= EventCap
        BY IpcAssumption
      <3> QED
        BY <2>1, <3>1, <3>2 DEF TypeOK
    <2>3. /\ call' \in [Requests -> NoReturn \cup Returned]
          /\ subs' \subseteq Subscribers
      BY <1>1, <2>1 DEF Subscribe, TypeOK, Returned
    <2>4. Numbered'
      BY <1>1, <2>1 DEF Subscribe, TypeOK, Numbered
    <2>5. UNCHANGED <<serverVars, wireVars, nextID, id, pending, answer, readLoop, closedSubs,
                      taken, dropped>>
      BY <1>1 DEF Subscribe
    <2> QED
      BY <2>2, <2>3, <2>4, <2>5 DEF serverVars, wireVars, TypeOK, HandlesRequest
  <1>2. CASE TakeEvent(s)
    <2>1. /\ Head(events[s]) \in 1 .. MaxEvents /\ Tail(events[s]) \in Seq(1 .. MaxEvents)
          /\ Len(Tail(events[s])) <= EventCap
      <3>1. events[s] \in Seq(1 .. MaxEvents) /\ events[s] # << >> /\ Len(events[s]) <= EventCap
        BY <1>2 DEF TakeEvent, TypeOK
      <3>2. /\ Head(events[s]) \in 1 .. MaxEvents /\ Tail(events[s]) \in Seq(1 .. MaxEvents)
            /\ Len(events[s]) \in Nat /\ Len(Tail(events[s])) = Len(events[s]) - 1
        BY <3>1, Taken
      <3> QED
        BY <3>1, <3>2, IpcAssumption
    <2>2. taken[s] \in Seq(1 .. MaxEvents)
      BY DEF TypeOK
    <2>3. Append(taken[s], Head(events[s])) \in Seq(1 .. MaxEvents)
      BY <2>1, <2>2, Appended
    <2>4. /\ events' \in [Subscribers -> Seq(1 .. MaxEvents)]
          /\ taken' \in [Subscribers -> Seq(1 .. MaxEvents)]
          /\ \A t \in Subscribers : Len(events'[t]) <= EventCap
      BY <1>2, <2>1, <2>3 DEF TakeEvent, TypeOK
    <2> QED
      BY <1>2, <2>4 DEF TakeEvent, serverVars, wireVars, callVars, TypeOK, HandlesRequest, Numbered
  <1>3. CASE SubscriptionClose(s)
    BY <1>3 DEF SubscriptionClose, serverVars, wireVars, callVars, TypeOK, HandlesRequest, Numbered
  <1> QED
    BY <1>1, <1>2, <1>3

(* An event that fits is at the end of its buffer. *)
LEMMA Offered ==
    ASSUME NEW f \in [Subscribers -> Seq(1 .. MaxEvents)], NEW s \in Subscribers,
           NEW n \in 1 .. MaxEvents, \A t \in Subscribers : Len(f[t]) <= EventCap
    PROVE  /\ Offer(f, s, n) \in [Subscribers -> Seq(1 .. MaxEvents)]
           /\ \A t \in Subscribers : Len(Offer(f, s, n)[t]) <= EventCap
           /\ \A t \in Subscribers : t # s => Offer(f, s, n)[t] = f[t]
           /\ Offer(f, s, n)[s] = IF Fits(f[s]) THEN Append(f[s], n) ELSE f[s]
  <1>1. f[s] \in Seq(1 .. MaxEvents)
    OBVIOUS
  <1>2. Append(f[s], n) \in Seq(1 .. MaxEvents) /\ Len(Append(f[s], n)) = Len(f[s]) + 1
    BY <1>1, Appended
  <1>3. Fits(f[s]) => Len(Append(f[s], n)) <= EventCap
    BY <1>1, <1>2, IpcAssumption DEF Fits
  <1> QED
    BY <1>2, <1>3 DEF Offer

LEMMA TypedRead ==
    ASSUME Typed,
           ReadHello \/ ReadResponse \/ ReadEvent \/ CallChannelsClose \/ SubChannelsClose
    PROVE  Typed'
  <1> USE DEF Typed
  <1>1. toClient \in Seq(Messages)
    BY DEF TypeOK, Messages
  <1>2. toClient # << >> => Head(toClient) \in Messages /\ Tail(toClient) \in Seq(Messages)
    BY <1>1, Taken
  <1>3. CASE ReadHello
    BY <1>2, <1>3 DEF ReadHello, serverVars, callVars, subVars, TypeOK, HandlesRequest, Numbered,
                      Messages
  <1>4. CASE ReadResponse
    <2>1. Head(toClient) \in Responses
      BY <1>2, <1>4, Kinds DEF ReadResponse, Answered
    <2>2. answer' \in [Requests -> Responses \cup {Empty, ClosedChannel}]
      BY <1>4, <2>1 DEF ReadResponse, TypeOK
    <2>3. pending' \subseteq pending
      BY <1>4 DEF ReadResponse
    <2>4. /\ toClient' = Tail(toClient) /\ toClient # << >>
          /\ UNCHANGED <<serverVars, clientEnd, toServer, nextID, id, call, readLoop, subVars>>
      BY <1>4 DEF ReadResponse
    <2> QED
      BY <1>2, <2>2, <2>3, <2>4 DEF serverVars, subVars, TypeOK, HandlesRequest, Numbered,
                                    Messages
  <1>5. CASE ReadEvent
    <2> DEFINE s == Head(toClient).sub
               n == Head(toClient).n
    <2>1. s \in Subscribers /\ n \in 1 .. MaxEvents
      BY <1>2, <1>5, Kinds DEF ReadEvent
    <2>2. Route(s, n)
      BY <1>5 DEF ReadEvent
    <2> HIDE DEF s, n
    <2>3. /\ events' \in [Subscribers -> Seq(1 .. MaxEvents)]
          /\ pendEvs' \in [Subscribers -> Seq(1 .. MaxEvents)]
          /\ \A t \in Subscribers : Len(events'[t]) <= EventCap /\ Len(pendEvs'[t]) <= EventCap
      BY <2>1, <2>2, Offered DEF Route, TypeOK
    <2>4. dropped' \in [Subscribers -> SUBSET (1 .. MaxEvents)]
      BY <2>1, <2>2 DEF Route, TypeOK
    <2> QED
      BY <1>2, <1>5, <2>3, <2>4 DEF ReadEvent, serverVars, callVars, TypeOK, HandlesRequest,
                                    Numbered, Messages
  <1>6. CASE CallChannelsClose
    BY <1>6 DEF CallChannelsClose, serverVars, wireVars, subVars, TypeOK, HandlesRequest, Numbered
  <1>7. CASE SubChannelsClose
    <2>1. << >> \in Seq(1 .. MaxEvents)
      OBVIOUS
    <2>2. /\ pendEvs' \in [Subscribers -> Seq(1 .. MaxEvents)]
          /\ \A s \in Subscribers : Len(pendEvs'[s]) <= EventCap
      BY <1>7, <2>1, IpcAssumption DEF SubChannelsClose
    <2> QED
      BY <1>7, <2>2 DEF SubChannelsClose, serverVars, wireVars, callVars, TypeOK, HandlesRequest,
                        Numbered
  <1> QED
    BY <1>3, <1>4, <1>5, <1>6, <1>7

LEMMA TypedStep == Typed /\ [Next]_vars => Typed'
  BY IpcAssumption, TypedControl, TypedServer, TypedCall, TypedSubscription, TypedRead
     DEF Next, ServeStep, HandlerStep, ReadStep, CallStep

(* Every variable has its type: the channels never exceed their capacity,  *)
(* a handler has a request, and a Call its number.                         *)
THEOREM TypeCorrect == Spec => []Typed
  BY TypedInit, TypedStep, PTL DEF Spec
-----------------------------------------------------------------------------
(* Requests and their responses. *)

LEMMA MatchingInit == Init => Matching
  BY DEF Init, Matching, IdsUnique, WireEchoes, AnsweredOnce, Empty, Answered

(* Only CallRegister gives out a number and registers a channel. *)
LEMMA Registering ==
    ASSUME [Next]_vars
    PROVE  \/ UNCHANGED <<nextID, id>> /\ pending' \subseteq pending
           \/ \E r \in Requests : CallRegister(r)
  <1> SUFFICES ASSUME \A r \in Requests : ~CallRegister(r)
               PROVE  UNCHANGED <<nextID, id>> /\ pending' \subseteq pending
    OBVIOUS
  <1>1. CASE UNCHANGED callVars
    BY <1>1 DEF callVars
  <1>2. ASSUME NEW r \in Requests,
               \/ CallWrite(r) \/ CallCanceled(r) \/ CallFails(r) \/ CallAnswered(r)
               \/ Subscribe(r)
        PROVE  UNCHANGED <<nextID, id>> /\ pending' \subseteq pending
    BY <1>2 DEF CallWrite, CallCanceled, CallFails, CallAnswered, Subscribe, Forget
  <1>3. ASSUME ReadResponse \/ CallChannelsClose
        PROVE  UNCHANGED <<nextID, id>> /\ pending' \subseteq pending
    BY <1>3 DEF ReadResponse, CallChannelsClose
  <1>4. ASSUME \/ Dial \/ Cancel \/ Close \/ ServeStep \/ HandlerStep \/ UNCHANGED vars
               \/ ReadHello \/ HelloFails \/ ReadEvent \/ SubChannelsClose
               \/ \E s \in Subscribers : EmitEvent(s) \/ TakeEvent(s) \/ SubscriptionClose(s)
        PROVE  UNCHANGED callVars
    BY <1>4 DEF Dial, Cancel, Close, ServeStep, Accept, AcceptFails, ServeReturns, HandlerStep,
                sendHello, Dispatch, HandlerReturns, HandleConnExits, ReadHello, HelloFails,
                ReadEvent, SubChannelsClose, EmitEvent, TakeEvent, SubscriptionClose, vars
  <1> QED
    BY <1>1, <1>2, <1>3, <1>4 DEF Next, ReadStep, CallStep

LEMMA IdsStep == Typed /\ IdsUnique /\ [Next]_vars => IdsUnique'
  <1> SUFFICES ASSUME Typed, IdsUnique, [Next]_vars PROVE IdsUnique'
    OBVIOUS
  <1>1. CASE UNCHANGED <<nextID, id>> /\ pending' \subseteq pending
    BY <1>1 DEF IdsUnique
  <1>2. ASSUME NEW r \in Requests, CallRegister(r) PROVE IdsUnique'
    <2>1. /\ id[r] = 0 /\ nextID' = nextID + 1 /\ id' = [id EXCEPT ![r] = nextID + 1]
          /\ pending' \subseteq pending \cup {<<id'[r], r>>}
      BY <1>2 DEF CallRegister, NewID, Typed, Numbered
    <2>2. id \in [Requests -> Nat] /\ nextID \in Nat
      BY DEF Typed, TypeOK
    <2>3. \A q \in Requests : id'[q] <= nextID'
      BY <2>1, <2>2 DEF IdsUnique
    <2>4. \A q, t \in Requests : id'[q] = id'[t] /\ id'[t] # 0 => q = t
      BY <2>1, <2>2 DEF IdsUnique
    <2>5. ASSUME NEW p \in pending' PROVE p[1] = id'[p[2]]
      <3>1. CASE p \in pending
        <4>1. p[1] = id[p[2]] /\ p[1] \in Ids /\ p[2] \in Requests
          BY <3>1 DEF IdsUnique, Typed, TypeOK
        <4>2. p[2] # r
          BY <2>1, <4>1 DEF Ids
        <4> QED
          BY <2>1, <2>2, <4>1, <4>2
      <3>2. CASE p = <<id'[r], r>>
        BY <3>2
      <3> QED
        BY <2>1, <2>5, <3>1, <3>2
    <2> QED
      BY <2>3, <2>4, <2>5 DEF IdsUnique
  <1> QED
    BY <1>1, <1>2, Registering

LEMMA WireStep == Typed /\ WireEchoes /\ [Next]_vars => WireEchoes'
  <1> SUFFICES ASSUME Typed, WireEchoes, [Next]_vars PROVE WireEchoes'
    OBVIOUS
  <1> DEFINE ServerPart == \A i \in 1 .. Len(toServer) : Echoed(toServer[i])
             HandlerPart == handler = "handling" => Echoed(handling)
             ClientPart == \A i \in 1 .. Len(toClient) :
                               toClient[i].kind \in Answered => Echoed(toClient[i])
  <1>1. toServer \in Seq(Request) /\ toClient \in Seq(Messages)
    BY DEF Typed, TypeOK, Messages
  <1>3. ASSUME UNCHANGED <<id, toServer>> PROVE ServerPart'
    BY <1>3 DEF WireEchoes, Echoed
  <1>4. ASSUME UNCHANGED <<id, handling>>, handler' = "handling" => handler = "handling"
        PROVE  HandlerPart'
    BY <1>4 DEF WireEchoes, Echoed
  <1>5. ASSUME UNCHANGED <<id, toClient>> PROVE ClientPart'
    BY <1>5 DEF WireEchoes, Echoed
  <1>6. ASSUME UNCHANGED <<id, toServer, handling>>, handler' = "handling" => handler = "handling",
               toClient' = Tail(toClient), toClient # << >>
        PROVE  WireEchoes'
    <2>1. \A i \in 1 .. Len(toClient') :
             i + 1 \in 1 .. Len(toClient) /\ toClient'[i] = toClient[i + 1]
      BY <1>1, <1>6, Taken
    <2>2. ClientPart'
      BY <1>6, <2>1 DEF WireEchoes, Echoed
    <2> QED
      BY <1>3, <1>4, <1>6, <2>2 DEF WireEchoes
  <1>7. ASSUME UNCHANGED id, NEW m \in Messages, m.kind \in Answered => Echoed(m), Deliver(m)
        PROVE  ClientPart'
    <2>1. CASE toClient' = toClient
      BY <1>5, <1>7, <2>1
    <2>2. CASE toClient' = Append(toClient, m)
      <3>1. /\ Len(toClient') = Len(toClient) + 1 /\ Len(toClient) \in Nat
            /\ \A i \in 1 .. Len(toClient) : toClient'[i] = toClient[i]
            /\ toClient'[Len(toClient) + 1] = m
        BY <1>1, <1>7, <2>2, Appended
      <3> QED
        BY <1>7, <3>1 DEF WireEchoes, Echoed
    <2> QED
      BY <1>7, <2>1, <2>2 DEF Deliver
  <1>8. CASE UNCHANGED <<id, toServer, handling, toClient>>
             /\ (handler' = "handling" => handler = "handling")
    BY <1>3, <1>4, <1>5, <1>8 DEF WireEchoes
  <1>9. CASE ReadHello \/ ReadResponse \/ ReadEvent
    BY <1>6, <1>9 DEF ReadHello, ReadResponse, ReadEvent, serverVars, callVars
  <1>10. ASSUME sendHello \/ \E s \in Subscribers : EmitEvent(s) PROVE WireEchoes'
    <2>1. \E m \in Messages : Deliver(m) /\ m.kind \notin Answered
      <3>1. CASE sendHello
        BY <3>1 DEF sendHello, Messages, Hello, Answered
      <3>2. ASSUME NEW s \in Subscribers, EmitEvent(s)
            PROVE  \E m \in Messages : Deliver(m) /\ m.kind \notin Answered
        <4>1. emitted'[s] \in 1 .. MaxEvents /\ Deliver(Event(s, emitted'[s]))
          BY <3>2, IpcAssumption DEF EmitEvent, Event, Typed, TypeOK
        <4>2. Event(s, emitted'[s]) \in Messages /\ Event(s, emitted'[s]).kind \notin Answered
          BY <4>1, EventFields DEF Answered
        <4> QED
          BY <4>1, <4>2
      <3> QED
        BY <1>10, <3>1, <3>2
    <2>2. UNCHANGED <<id, toServer, handling>> /\ (handler' = "handling" => handler = "handling")
      BY <1>10 DEF sendHello, EmitEvent, callVars
    <2> QED
      BY <1>3, <1>4, <1>7, <2>1, <2>2 DEF WireEchoes
  <1>11. CASE Dispatch
    <2>1. /\ UNCHANGED <<id, toClient>> /\ toServer # << >>
          /\ handling' = Head(toServer) /\ toServer' = Tail(toServer)
      BY <1>11 DEF Dispatch, callVars
    <2>2. /\ handling' = toServer[1] /\ 1 \in 1 .. Len(toServer)
          /\ \A i \in 1 .. Len(toServer') :
                i + 1 \in 1 .. Len(toServer) /\ toServer'[i] = toServer[i + 1]
      BY <1>1, <2>1, Taken
    <2>3. ServerPart' /\ HandlerPart'
      BY <2>1, <2>2 DEF WireEchoes, Echoed
    <2> QED
      BY <1>5, <2>1, <2>3 DEF WireEchoes
  <1>12. CASE HandlerReturns
    <2>1. handling \in Request /\ Echoed(handling)
      BY <1>12 DEF HandlerReturns, Typed, HandlesRequest, WireEchoes
    <2>2. PICK k \in Answered : Deliver([kind |-> k, id |-> handling.id, of |-> handling.of])
      BY <1>12 DEF HandlerReturns, Respond, Answered
    <2> DEFINE m == [kind |-> k, id |-> handling.id, of |-> handling.of]
    <2>3. m \in Messages /\ Echoed(m)
      BY <2>1 DEF Messages, Responses, Answered, Request, Echoed
    <2>4. UNCHANGED <<id, toServer>> /\ handler' # "handling" /\ Deliver(m)
      BY <1>12, <2>2 DEF HandlerReturns, callVars
    <2> HIDE DEF m
    <2>5. ClientPart'
      BY <1>7, <2>3, <2>4
    <2> QED
      BY <1>3, <2>4, <2>5 DEF WireEchoes
  <1>13. ASSUME NEW r \in Requests, CallWrite(r), toServer' # toServer PROVE WireEchoes'
    <2> DEFINE m == [id |-> id[r], of |-> r]
    <2>1. /\ call[r] = "registered" /\ toServer' = Append(toServer, m)
          /\ UNCHANGED <<id, handler, handling, toClient>>
      BY <1>13 DEF CallWrite, serverVars
    <2>2. m \in Request /\ Echoed(m)
      BY <2>1 DEF Typed, TypeOK, Numbered, Request, Ids, Echoed
    <2> HIDE DEF m
    <2>3. /\ Len(toServer') = Len(toServer) + 1 /\ Len(toServer) \in Nat
          /\ \A i \in 1 .. Len(toServer) : toServer'[i] = toServer[i]
          /\ toServer'[Len(toServer) + 1] = m
      BY <1>1, <2>1, <2>2, Appended
    <2>4. ServerPart'
      BY <2>1, <2>2, <2>3 DEF WireEchoes, Echoed
    <2> QED
      BY <1>4, <1>5, <2>1, <2>4 DEF WireEchoes
  <1>14. ASSUME NEW r \in Requests, CallRegister(r) PROVE WireEchoes'
    <2>1. /\ id[r] = 0 /\ id' = [id EXCEPT ![r] = nextID + 1]
          /\ UNCHANGED <<toServer, handler, handling, toClient>>
      BY <1>14 DEF CallRegister, NewID, serverVars, wireVars, Typed, Numbered
    <2>2. ASSUME NEW m, m.id \in Ids, m.of \in Requests, Echoed(m) PROVE Echoed(m)'
      <3>1. m.of # r
        BY <2>1, <2>2 DEF Echoed, Ids
      <3> QED
        BY <2>1, <2>2, <3>1 DEF Echoed, Typed, TypeOK
    <2>3. ASSUME NEW m \in Request, Echoed(m) PROVE Echoed(m)'
      BY <2>2, <2>3 DEF Request
    <2>4. ServerPart'
      BY <1>1, <2>1, <2>3 DEF WireEchoes, Echoed
    <2>5. HandlerPart'
      BY <2>1, <2>3 DEF WireEchoes, Echoed, Typed, HandlesRequest
    <2>6. ClientPart'
      BY <1>1, <2>1, <2>2, Kinds DEF WireEchoes, Echoed
    <2> QED
      BY <2>4, <2>5, <2>6 DEF WireEchoes
  <1>15. ASSUME \/ Dial \/ Cancel \/ Close \/ ServeStep \/ HandleConnExits
                \/ HelloFails \/ CallChannelsClose \/ SubChannelsClose
                \/ \E r \in Requests :
                      \/ CallCanceled(r) \/ CallFails(r) \/ CallAnswered(r) \/ Subscribe(r)
                      \/ CallWrite(r) /\ toServer' = toServer
                \/ \E s \in Subscribers : TakeEvent(s) \/ SubscriptionClose(s)
                \/ UNCHANGED vars
         PROVE  /\ UNCHANGED <<id, toServer, handling, toClient>>
                /\ handler' = "handling" => handler = "handling"
    BY <1>15 DEF Dial, Cancel, Close, ServeStep, Accept, AcceptFails, ServeReturns,
                 HandleConnExits, HelloFails, CallChannelsClose, SubChannelsClose, CallCanceled,
                 CallFails, CallAnswered, Subscribe, CallWrite, TakeEvent, SubscriptionClose,
                 vars, serverVars, wireVars, callVars
  <1> QED
    BY <1>8, <1>9, <1>10, <1>11, <1>12, <1>13, <1>14, <1>15 DEF Next, HandlerStep, ReadStep, CallStep

LEMMA AnsweredStep ==
    Typed /\ IdsUnique /\ WireEchoes /\ AnsweredOnce /\ [Next]_vars => AnsweredOnce'
  <1> SUFFICES ASSUME Typed, IdsUnique, WireEchoes, AnsweredOnce, [Next]_vars PROVE AnsweredOnce'
    OBVIOUS
  <1> USE DEF Answered
  <1>1. CASE UNCHANGED <<call, pending, answer>>
    BY <1>1 DEF AnsweredOnce
  <1>2. ASSUME NEW r \in Requests, CallRegister(r) PROVE AnsweredOnce'
    <2>1. /\ call[r] = "new" /\ answer' = answer
          /\ \E k \in {"failed", "registered"} : call' = [call EXCEPT ![r] = k]
          /\ pending' \subseteq pending \cup {<<id'[r], r>>}
      BY <1>2 DEF CallRegister
    <2>2. answer[r].kind = "empty"
      BY <2>1 DEF AnsweredOnce
    <2>3. \A p \in pending' : p \in pending \/ p[2] = r
      BY <2>1
    <2> QED
      BY <2>1, <2>2, <2>3 DEF AnsweredOnce, Typed, TypeOK
  <1>3. ASSUME NEW r \in Requests, CallWrite(r) \/ CallCanceled(r) \/ CallFails(r)
        PROVE  AnsweredOnce'
    <2>1. /\ call[r] # "new" /\ answer' = answer /\ pending' \subseteq pending
          /\ \E k \in {"sent", "failed", "canceled"} : call' = [call EXCEPT ![r] = k]
      BY <1>3 DEF CallWrite, CallCanceled, CallFails, Forget
    <2> QED
      BY <2>1 DEF AnsweredOnce, Typed, TypeOK
  <1>4. ASSUME NEW r \in Requests, CallAnswered(r) \/ Subscribe(r) PROVE AnsweredOnce'
    <2>1. /\ call[r] # "new" /\ UNCHANGED <<answer, pending>> /\ answer[r].kind \in Answered
          /\ \E k \in {"ok", "error", "subscribing", "failed"} : call' = [call EXCEPT ![r] = k]
      BY <1>4 DEF CallAnswered, Subscribe, AnsweredOnce
    <2> QED
      BY <2>1 DEF AnsweredOnce, Typed, TypeOK
  <1>5. CASE ReadResponse
    <2> DEFINE m == Head(toClient)
    <2>1. /\ toClient # << >> /\ m.kind \in Answered /\ UNCHANGED <<id, call>>
          /\ pending' = pending \ Matches(m)
          /\ answer' = [r \in Requests |->
                          IF \E p \in Matches(m) : p[2] = r THEN m ELSE answer[r]]
      BY <1>5 DEF ReadResponse
    <2>2. m \in Messages /\ m = toClient[1] /\ 1 \in 1 .. Len(toClient)
      BY <2>1, Taken DEF Typed, TypeOK, Messages
    <2>3. m.id \in Ids /\ m.of \in Requests /\ m.id = id[m.of]
      BY <2>1, <2>2, Kinds DEF WireEchoes, Echoed
    <2> HIDE DEF m
    <2>4. ASSUME NEW r \in Requests, NEW p \in Matches(m), p[2] = r
          PROVE  /\ m.of = r /\ answer'[r] = m /\ call[r] # "new"
                 /\ \A q \in pending' : q[2] # r
      <3>1. p \in pending /\ p[1] = m.id /\ p[1] = id[r]
        BY <2>4 DEF Matches, IdsUnique
      <3>2. m.of = r /\ id[r] # 0
        BY <2>3, <3>1 DEF IdsUnique, Ids
      <3>3. \A q \in pending' : q[2] # r
        BY <2>1, <3>1 DEF Matches, IdsUnique
      <3> QED
        BY <2>1, <2>4, <3>2, <3>3 DEF Typed, Numbered
    <2>5. ASSUME NEW r \in Requests, ~\E p \in Matches(m) : p[2] = r
          PROVE  answer'[r] = answer[r]
      BY <2>1, <2>5
    <2>6. pending' \subseteq pending
      BY <2>1
    <2> QED
      BY <2>1, <2>4, <2>5, <2>6 DEF AnsweredOnce
  <1>6. CASE CallChannelsClose
    <2>1. /\ pending' = {} /\ UNCHANGED call
          /\ answer' = [r \in Requests |-> IF <<id[r], r>> \in pending THEN ClosedChannel
                                                                      ELSE answer[r]]
      BY <1>6 DEF CallChannelsClose
    <2>2. ASSUME NEW r \in Requests, <<id[r], r>> \in pending
          PROVE  call[r] # "new" /\ answer[r].kind = "empty"
      <3>1. id[r] # 0
        BY <2>2 DEF Typed, TypeOK, Ids
      <3>2. <<id[r], r>>[2] = r
        OBVIOUS
      <3> QED
        BY <2>2, <3>1, <3>2 DEF Typed, Numbered, AnsweredOnce
    <2> QED
      BY <2>1, <2>2 DEF AnsweredOnce, ClosedChannel
  <1>7. ASSUME \/ Dial \/ Cancel \/ Close \/ ServeStep \/ HandlerStep \/ UNCHANGED vars
               \/ ReadHello \/ HelloFails \/ ReadEvent \/ SubChannelsClose
               \/ \E s \in Subscribers : EmitEvent(s) \/ TakeEvent(s) \/ SubscriptionClose(s)
        PROVE  UNCHANGED <<call, pending, answer>>
    BY <1>7 DEF Dial, Cancel, Close, ServeStep, Accept, AcceptFails, ServeReturns, HandlerStep,
                sendHello, Dispatch, HandlerReturns, HandleConnExits, ReadHello, HelloFails,
                ReadEvent, SubChannelsClose, EmitEvent, TakeEvent, SubscriptionClose, vars, callVars
  <1> QED
    BY <1>1, <1>2, <1>3, <1>4, <1>5, <1>6, <1>7 DEF Next, ReadStep, CallStep

(* A Call returns the response to its own request, for any number of Calls *)
(* in flight at the same time and however late the responses of those that *)
(* gave up are.                                                            *)
THEOREM ResponseIsItsOwn == Spec => []AnswersMatch
  <1>1. Init => Typed /\ Matching
    BY TypedInit, MatchingInit
  <1>2. Typed /\ Matching /\ [Next]_vars => (Typed /\ Matching)'
    BY TypedStep, IdsStep, WireStep, AnsweredStep DEF Matching
  <1>3. Typed /\ Matching => AnswersMatch
    BY DEF Matching, AnsweredOnce, AnswersMatch
  <1> QED
    BY <1>1, <1>2, <1>3, PTL DEF Spec
-----------------------------------------------------------------------------
(* Events. *)

LEMMA QuietInit == Init => Quiet
  BY DEF Init, Quiet

LEMMA QuietStep == Typed /\ Quiet /\ [Next]_vars => Quiet'
  <1> SUFFICES ASSUME Typed, Quiet, [Next]_vars PROVE Quiet'
    OBVIOUS
  <1>1. CASE Dial \/ Accept \/ Cancel \/ AcceptFails \/ ServeReturns \/ HandleConnExits \/ Close
    BY <1>1 DEF Dial, Accept, Cancel, AcceptFails, ServeReturns, HandleConnExits, Close,
                serverVars, wireVars, callVars, Quiet, Typed, TypeOK
  <1>2. CASE sendHello
    <2>1. Append(<< >>, Hello) = <<Hello>>
      OBVIOUS
    <2> QED
      BY <1>2, <2>1 DEF sendHello, Deliver, callVars, Quiet, Typed, TypeOK
  <1>3. CASE Dispatch \/ HandlerReturns
    BY <1>3 DEF Dispatch, HandlerReturns, callVars, Quiet
  <1>4. CASE ReadHello \/ HelloFails
    BY <1>4 DEF ReadHello, HelloFails, serverVars, callVars, Quiet
  <1>5. ASSUME readLoop \in {"running", "closing", "ended"}, readLoop' # "hello", readLoop' # "none",
               UNCHANGED <<handler, clientEnd, emitters>>,
               handler \in {"none", "queued", "hello"} => toClient' = << >>
        PROVE  Quiet'
    BY <1>5 DEF Quiet
  <1>6. CASE ReadResponse \/ ReadEvent \/ CallChannelsClose \/ SubChannelsClose
    BY <1>5, <1>6 DEF ReadResponse, ReadEvent, CallChannelsClose, SubChannelsClose, serverVars,
                      wireVars, Quiet
  <1>7. ASSUME NEW r \in Requests, CallStep(r) \/ CallCanceled(r) PROVE Quiet'
    <2>1. /\ call[r] # "new" \/ readLoop \in {"running", "closing", "ended"}
          /\ UNCHANGED <<handler, clientEnd, emitters, toClient, readLoop>>
      BY <1>7 DEF CallStep, CallRegister, CallWrite, CallCanceled, CallFails, CallAnswered,
                  Subscribe, serverVars, wireVars
    <2>2. readLoop \in {"running", "closing", "ended"}
      BY <2>1 DEF Quiet, Typed, TypeOK
    <2> QED
      BY <1>5, <2>1, <2>2 DEF Quiet
  <1>8. ASSUME NEW s \in Subscribers, EmitEvent(s) PROVE Quiet'
    BY <1>8 DEF EmitEvent, callVars, Quiet
  <1>9. ASSUME \/ UNCHANGED vars
               \/ \E s \in Subscribers : TakeEvent(s) \/ SubscriptionClose(s)
        PROVE  Quiet'
    BY <1>9 DEF vars, TakeEvent, SubscriptionClose, serverVars, wireVars, callVars, Quiet
  <1> QED
    BY <1>1, <1>2, <1>3, <1>4, <1>6, <1>7, <1>8, <1>9 DEF Next, ServeStep, HandlerStep, ReadStep

(* What is taken and what is in the channel, as one sequence. *)
LEMMA Joined ==
    ASSUME NEW S, NEW t \in Seq(S), NEW e \in Seq(S)
    PROVE  /\ t \o e \in Seq(S) /\ << >> \o e = e
           /\ e # << >> => Append(t, Head(e)) \o Tail(e) = t \o e
  <1>1. t \o e \in Seq(S) /\ << >> \o e = e
    BY ConcatProperties, ConcatEmptySeq
  <1>2. ASSUME e # << >> PROVE Append(t, Head(e)) \o Tail(e) = t \o e
    <2>1. Head(e) \in S /\ Tail(e) \in Seq(S) /\ <<Head(e)>> \in Seq(S)
      BY <1>2, HeadTailProperties
    <2>2. Append(t, Head(e)) = t \o <<Head(e)>>
      BY <2>1, AppendIsConcat
    <2>3. e = <<Head(e)>> \o Tail(e)
      <3> DEFINE u == <<Head(e)>> \o Tail(e)
      <3>1. /\ u \in Seq(S) /\ Len(u) = 1 + Len(Tail(e))
            /\ \A i \in 1 .. 1 + Len(Tail(e)) :
                 u[i] = IF i <= 1 THEN <<Head(e)>>[i] ELSE Tail(e)[i - 1]
        BY <2>1, ConcatProperties
      <3>2. /\ Len(e) \in Nat /\ Len(e) > 0 /\ Len(Tail(e)) = Len(e) - 1 /\ Head(e) = e[1]
            /\ \A i \in 1 .. Len(Tail(e)) : Tail(e)[i] = e[i + 1]
        BY <1>2, Taken
      <3> HIDE DEF u
      <3>3. Len(u) = Len(e)
        BY <3>1, <3>2
      <3>4. ASSUME NEW i \in 1 .. Len(e) PROVE u[i] = e[i]
        <4>1. CASE i = 1
          BY <3>1, <3>2, <4>1
        <4>2. CASE i # 1
          <5>1. i - 1 \in 1 .. Len(Tail(e)) /\ (i - 1) + 1 = i
            BY <3>2, <4>2
          <5>2. Tail(e)[i - 1] = e[i]
            BY <3>2, <5>1
          <5> QED
            BY <3>1, <3>2, <4>2, <5>2
        <4> QED
          BY <4>1, <4>2
      <3>5. u = e
        BY <3>1, <3>3, <3>4, SeqEqual
      <3> QED
        BY <3>5 DEF u
    <2>4. (t \o <<Head(e)>>) \o Tail(e) = t \o (<<Head(e)>> \o Tail(e))
      BY <2>1, ConcatAssociative
    <2> QED
      BY <2>2, <2>3, <2>4
  <1> QED
    BY <1>1, <1>2

LEMMA JoinedGrows ==
    ASSUME NEW S, NEW t \in Seq(S), NEW e \in Seq(S), NEW x \in S
    PROVE  t \o Append(e, x) = Append(t \o e, x)
  <1>1. t \o e \in Seq(S) /\ <<x>> \in Seq(S)
    BY ConcatProperties
  <1>2. Append(e, x) = e \o <<x>> /\ Append(t \o e, x) = (t \o e) \o <<x>>
    BY <1>1, AppendIsConcat
  <1> QED
    BY <1>1, <1>2, ConcatAssociative

LEMMA IncreasingGrows ==
    ASSUME NEW q \in Seq(1 .. MaxEvents), NEW n \in 1 .. MaxEvents, Increasing(q),
           \A m \in Range(q) : m < n
    PROVE  Increasing(Append(q, n))
  <1> DEFINE t == Append(q, n)
  <1>1. /\ Len(t) = Len(q) + 1 /\ Len(q) \in Nat
        /\ \A i \in 1 .. Len(q) : t[i] = q[i]
        /\ t[Len(q) + 1] = n
    BY Appended
  <1>2. \A i \in 1 .. Len(q) : q[i] < n
    BY DEF Range
  <1> HIDE DEF t
  <1>3. Increasing(t)
    BY <1>1, <1>2 DEF Increasing
  <1> QED
    BY <1>3 DEF t

LEMMA WireGrows ==
    ASSUME NEW q \in Seq(Messages), NEW m \in Messages, WireInOrder(q),
           \A s \in Subscribers, a, b \in 1 .. MaxEvents :
              m = Event(s, b) /\ Has(q, Event(s, a)) => a < b
    PROVE  WireInOrder(Append(q, m))
  <1> DEFINE t == Append(q, m)
  <1>1. /\ Len(t) = Len(q) + 1 /\ Len(q) \in Nat
        /\ \A i \in 1 .. Len(q) : t[i] = q[i]
        /\ t[Len(q) + 1] = m
    BY Appended
  <1> HIDE DEF t
  <1>2. SUFFICES ASSUME NEW i \in 1 .. Len(t), NEW j \in 1 .. Len(t), NEW s \in Subscribers,
                        NEW a \in 1 .. MaxEvents, NEW b \in 1 .. MaxEvents,
                        i < j, t[i] = Event(s, a), t[j] = Event(s, b)
                 PROVE  a < b
    BY DEF WireInOrder, t
  <1>3. i \in 1 .. Len(q) /\ q[i] = Event(s, a)
    BY <1>1, <1>2
  <1>4. CASE j \in 1 .. Len(q)
    BY <1>1, <1>2, <1>3, <1>4 DEF WireInOrder
  <1>5. CASE j = Len(q) + 1
    BY <1>1, <1>2, <1>3, <1>5 DEF Has
  <1> QED
    BY <1>1, <1>4, <1>5

LEMMA WireShrinks ==
    ASSUME NEW q \in Seq(Messages), q # << >>, WireInOrder(q)
    PROVE  /\ WireInOrder(Tail(q))
           /\ \A s \in Subscribers, a, b \in 1 .. MaxEvents :
                 Head(q) = Event(s, a) /\ Has(Tail(q), Event(s, b)) => a < b
  <1> DEFINE t == Tail(q)
  <1>1. /\ Len(q) \in Nat /\ Len(q) > 0 /\ Len(t) = Len(q) - 1 /\ Head(q) = q[1]
        /\ \A i \in 1 .. Len(t) : t[i] = q[i + 1]
    BY Taken
  <1> HIDE DEF t
  <1>2. \A i \in 1 .. Len(t) : i + 1 \in 1 .. Len(q) /\ 1 < i + 1
    BY <1>1
  <1>3. 1 \in 1 .. Len(q)
    BY <1>1
  <1>4. WireInOrder(t)
    <2> SUFFICES ASSUME NEW i \in 1 .. Len(t), NEW j \in 1 .. Len(t), NEW s \in Subscribers,
                        NEW a \in 1 .. MaxEvents, NEW b \in 1 .. MaxEvents,
                        i < j, t[i] = Event(s, a), t[j] = Event(s, b)
                 PROVE  a < b
      BY DEF WireInOrder
    <2>1. i + 1 \in 1 .. Len(q) /\ j + 1 \in 1 .. Len(q) /\ i + 1 < j + 1
      BY <1>1, <1>2
    <2>2. q[i + 1] = Event(s, a) /\ q[j + 1] = Event(s, b)
      BY <1>1
    <2> QED
      BY <2>1, <2>2 DEF WireInOrder
  <1>5. ASSUME NEW s \in Subscribers, NEW a \in 1 .. MaxEvents, NEW b \in 1 .. MaxEvents,
               Head(q) = Event(s, a), Has(t, Event(s, b))
        PROVE  a < b
    <2>1. PICK i \in 1 .. Len(t) : t[i] = Event(s, b)
      BY <1>5 DEF Has
    <2>2. q[1] = Event(s, a) /\ q[i + 1] = Event(s, b)
      BY <1>1, <1>5, <2>1
    <2> QED
      BY <1>2, <1>3, <2>2 DEF WireInOrder
  <1> QED
    BY <1>4, <1>5 DEF t

LEMMA RoutedTyped ==
    ASSUME Typed, NEW s \in Subscribers
    PROVE  /\ Received(s) \in Seq(1 .. MaxEvents) /\ pendEvs[s] \in Seq(1 .. MaxEvents)
           /\ Range(Received(s)) \subseteq 1 .. MaxEvents
           /\ Routed(s) \subseteq 1 .. MaxEvents
  <1>1. /\ taken[s] \in Seq(1 .. MaxEvents) /\ events[s] \in Seq(1 .. MaxEvents)
        /\ pendEvs[s] \in Seq(1 .. MaxEvents) /\ dropped[s] \subseteq 1 .. MaxEvents
    BY DEF Typed, TypeOK
  <1>2. Received(s) \in Seq(1 .. MaxEvents)
    BY <1>1, Joined DEF Received
  <1>3. ASSUME NEW q \in Seq(1 .. MaxEvents) PROVE Range(q) \subseteq 1 .. MaxEvents
    BY RangeTyped
  <1> QED
    BY <1>1, <1>2, <1>3 DEF Routed

(* A step that moves no event keeps the books. *)
LEMMA KeepingTransfers ==
    ASSUME Typed, Keeping, WireInOrder(toClient'), UNCHANGED emitted,
           \A s \in Subscribers, n \in 1 .. MaxEvents :
              Has(toClient', Event(s, n)) <=> Has(toClient, Event(s, n)),
           \A s \in Subscribers : Routed(s)' \subseteq Routed(s),
           Reading' => Reading /\ \A s \in Subscribers : Routed(s)' = Routed(s)
    PROVE  Keeping'
  <1>1. SUFFICES ASSUME NEW s \in Subscribers
                 PROVE  /\ \A n \in Routed(s)' : n <= emitted[s]
                        /\ \A n \in 1 .. MaxEvents : Has(toClient', Event(s, n)) => n <= emitted[s]
                        /\ Reading' =>
                             /\ \A n \in 1 .. emitted[s] :
                                   n \in Routed(s)' \/ Has(toClient', Event(s, n))
                             /\ \A m \in Routed(s)', n \in 1 .. MaxEvents :
                                   Has(toClient', Event(s, n)) => m < n
    BY DEF Keeping
  <1>2. \A n \in Routed(s)' : n <= emitted[s]
    BY DEF Keeping
  <1>3. \A n \in 1 .. MaxEvents : Has(toClient', Event(s, n)) => n <= emitted[s]
    BY DEF Keeping
  <1>4. ASSUME Reading' PROVE Routed(s)' = Routed(s) /\ Reading
    BY <1>4
  <1>5. ASSUME Reading', NEW n \in 1 .. emitted[s]
        PROVE  n \in Routed(s)' \/ Has(toClient', Event(s, n))
    <2>1. Reading /\ Routed(s)' = Routed(s)
      BY <1>4, <1>5
    <2>2. n \in Routed(s) \/ Has(toClient, Event(s, n))
      BY <1>5, <2>1 DEF Keeping
    <2>3. CASE n \in Routed(s)
      BY <2>1, <2>3
    <2>4. CASE Has(toClient, Event(s, n))
      <3>1. n \in 1 .. MaxEvents
        BY <1>1, <1>5, IpcAssumption DEF Typed, TypeOK
      <3> QED
        BY <2>4, <3>1
    <2> QED
      BY <2>2, <2>3, <2>4
  <1>6. ASSUME Reading', NEW m \in Routed(s)', NEW n \in 1 .. MaxEvents, Has(toClient', Event(s, n))
        PROVE  m < n
    BY <1>4, <1>6 DEF Keeping
  <1> QED
    BY <1>2, <1>3, <1>5, <1>6

(* Taking an event and draining the early ones route nothing. *)
LEMMA NothingRouted ==
    ASSUME Typed, Filled, NEW s \in Subscribers,
           Subscribe(s) \/ TakeEvent(s) \/ SubscriptionClose(s)
    PROVE  /\ \A t \in Subscribers : Routed(t)' = Routed(t)
           /\ UNCHANGED <<toClient, emitted, readLoop, clientEnd, dropped>>
           /\ ~Subscribe(s) => UNCHANGED <<call, pendEvs>>
                               /\ \A t \in Subscribers : Received(t)' = Received(t)
  <1>1. UNCHANGED <<toClient, emitted, readLoop, clientEnd, dropped>>
    BY DEF Subscribe, TakeEvent, SubscriptionClose, serverVars, wireVars
  <1>2. \A t \in Subscribers : taken[t] \in Seq(1 .. MaxEvents) /\ events[t] \in Seq(1 .. MaxEvents)
                                /\ pendEvs[t] \in Seq(1 .. MaxEvents)
    BY DEF Typed, TypeOK
  <1>3. CASE Subscribe(s)
    <2>1. CASE UNCHANGED <<events, taken, pendEvs>>
      BY <1>1, <1>3, <2>1 DEF Routed, Received
    <2>2. CASE ~UNCHANGED <<events, taken, pendEvs>>
      <3>1. /\ call[s] = "subscribing" /\ taken' = taken
            /\ events' = [events EXCEPT ![s] = pendEvs[s]]
            /\ pendEvs' = [pendEvs EXCEPT ![s] = << >>]
        BY <1>3, <2>2 DEF Subscribe, Drained
      <3>2. events[s] = << >> /\ taken[s] = << >>
        BY <3>1 DEF Filled
      <3>3. events'[s] = pendEvs[s] /\ pendEvs'[s] = << >>
        BY <3>1 DEF Typed, TypeOK
      <3>4. Received(s) = << >> /\ Received(s)' = pendEvs[s]
        BY <1>2, <3>1, <3>2, <3>3, ConcatEmptySeq DEF Received
      <3>5. Range(<< >>) = {}
        BY DEF Range
      <3>6. Routed(s)' = Routed(s)
        BY <1>1, <3>3, <3>4, <3>5 DEF Routed
      <3>7. \A t \in Subscribers : t # s => events'[t] = events[t] /\ pendEvs'[t] = pendEvs[t]
        BY <3>1 DEF Typed, TypeOK
      <3>8. \A t \in Subscribers : t # s => Routed(t)' = Routed(t)
        BY <1>1, <3>1, <3>7 DEF Routed, Received
      <3> QED
        BY <1>1, <1>3, <3>6, <3>8
    <2> QED
      BY <1>1, <1>3, <2>1, <2>2
  <1>4. CASE TakeEvent(s)
    <2>1. /\ events[s] # << >>
          /\ taken' = [taken EXCEPT ![s] = Append(taken[s], Head(events[s]))]
          /\ events' = [events EXCEPT ![s] = Tail(events[s])]
          /\ UNCHANGED <<call, pendEvs>>
      BY <1>4 DEF TakeEvent, callVars
    <2>2. taken'[s] = Append(taken[s], Head(events[s])) /\ events'[s] = Tail(events[s])
      BY <2>1 DEF Typed, TypeOK
    <2>3. Received(s)' = Received(s)
      <3>1. Append(taken[s], Head(events[s])) \o Tail(events[s]) = taken[s] \o events[s]
        BY <1>2, <2>1, Joined
      <3> QED
        BY <2>2, <3>1 DEF Received
    <2>4. \A t \in Subscribers : t # s => Received(t)' = Received(t)
      BY <2>1 DEF Typed, TypeOK, Received
    <2>5. \A t \in Subscribers : Received(t)' = Received(t)
      BY <2>3, <2>4
    <2> QED
      BY <1>1, <2>1, <2>5 DEF Routed
  <1>5. CASE SubscriptionClose(s)
    BY <1>1, <1>5 DEF SubscriptionClose, callVars, Routed, Received
  <1> QED
    BY <1>3, <1>4, <1>5

(* readLoop routes the event n of s: it becomes the last of its buffer, or *)
(* it is dropped.                                                          *)
Routes(s, n) ==
    /\ Head(toClient) = Event(s, n) /\ toClient' = Tail(toClient) /\ toClient # << >>
    /\ UNCHANGED <<call, subs, emitted, readLoop, clientEnd, taken>>
    /\ \A t \in Subscribers :
          t # s => /\ Received(t)' = Received(t) /\ events'[t] = events[t]
                   /\ pendEvs'[t] = pendEvs[t] /\ dropped'[t] = dropped[t]
    /\ \/ /\ s \in subs /\ Received(s)' = Append(Received(s), n)
          /\ pendEvs'[s] = pendEvs[s] /\ dropped'[s] = dropped[s]
       \/ /\ s \notin subs /\ pendEvs'[s] = Append(pendEvs[s], n)
          /\ Received(s)' = Received(s) /\ dropped'[s] = dropped[s]
          /\ events'[s] = events[s]
       \/ /\ dropped'[s] = dropped[s] \cup {n} /\ pendEvs'[s] = pendEvs[s]
          /\ Received(s)' = Received(s) /\ events'[s] = events[s]

LEMMA OneRouted ==
    ASSUME Typed, ReadEvent
    PROVE  \E s \in Subscribers, n \in 1 .. MaxEvents : Routes(s, n)
  <1>1. Head(toClient) \in Messages
    BY Taken DEF ReadEvent, Typed, TypeOK, Messages
  <1>2. PICK s \in Subscribers, n \in 1 .. MaxEvents :
           Head(toClient) = Event(s, n) /\ s = Head(toClient).sub /\ n = Head(toClient).n
    BY <1>1, Kinds DEF ReadEvent
  <1>0. s \in Subscribers /\ n \in 1 .. MaxEvents
    BY <1>2
  <1>3. Route(s, n) /\ taken' = taken /\ toClient' = Tail(toClient) /\ toClient # << >>
        /\ UNCHANGED <<call, subs, emitted, readLoop, clientEnd>>
    BY <1>2 DEF ReadEvent, serverVars, callVars
  <1>4. /\ events \in [Subscribers -> Seq(1 .. MaxEvents)]
        /\ pendEvs \in [Subscribers -> Seq(1 .. MaxEvents)]
        /\ taken \in [Subscribers -> Seq(1 .. MaxEvents)]
        /\ dropped \in [Subscribers -> SUBSET (1 .. MaxEvents)]
    BY DEF Typed, TypeOK
  <1>5. /\ events' \in {events, Offer(events, s, n)} /\ pendEvs' \in {pendEvs, Offer(pendEvs, s, n)}
        /\ dropped' \in {dropped, [dropped EXCEPT ![s] = @ \cup {n}]}
    BY <1>3 DEF Route
  <1>6. /\ \A t \in Subscribers : t # s => Offer(events, s, n)[t] = events[t]
                                          /\ Offer(pendEvs, s, n)[t] = pendEvs[t]
        /\ Offer(events, s, n)[s] = IF Fits(events[s]) THEN Append(events[s], n) ELSE events[s]
        /\ Offer(pendEvs, s, n)[s] = IF Fits(pendEvs[s]) THEN Append(pendEvs[s], n) ELSE pendEvs[s]
    <2>1. \A t \in Subscribers : Len(events[t]) <= EventCap /\ Len(pendEvs[t]) <= EventCap
      BY DEF Typed, TypeOK
    <2>2. /\ \A t \in Subscribers : t # s => Offer(events, s, n)[t] = events[t]
          /\ Offer(events, s, n)[s] = IF Fits(events[s]) THEN Append(events[s], n) ELSE events[s]
      BY <1>0, <1>4, <2>1, Offered
    <2>3. /\ \A t \in Subscribers : t # s => Offer(pendEvs, s, n)[t] = pendEvs[t]
          /\ Offer(pendEvs, s, n)[s] = IF Fits(pendEvs[s]) THEN Append(pendEvs[s], n)
                                                          ELSE pendEvs[s]
      BY <1>0, <1>4, <2>1, Offered
    <2> QED
      BY <2>2, <2>3
  <1>7. \A t \in Subscribers :
           t # s => /\ Received(t)' = Received(t) /\ events'[t] = events[t]
                    /\ pendEvs'[t] = pendEvs[t] /\ dropped'[t] = dropped[t]
    BY <1>2, <1>3, <1>4, <1>5, <1>6 DEF Received
  <1>8. CASE s \in subs /\ Fits(events[s])
    <2>1. events'[s] = Append(events[s], n) /\ pendEvs' = pendEvs /\ dropped' = dropped
      BY <1>3, <1>6, <1>8 DEF Route
    <2>2. taken[s] \in Seq(1 .. MaxEvents) /\ events[s] \in Seq(1 .. MaxEvents)
      BY <1>2, <1>4
    <2>3. Received(s)' = Append(Received(s), n)
      <3>1. \A t, e \in Seq(1 .. MaxEvents) : t \o Append(e, n) = Append(t \o e, n)
        BY <1>0, JoinedGrows
      <3>2. taken[s] \o Append(events[s], n) = Append(taken[s] \o events[s], n)
        BY <2>2, <3>1
      <3> QED
        BY <1>3, <2>1, <3>2 DEF Received
    <2> QED
      BY <1>2, <1>3, <1>7, <1>8, <2>1, <2>3 DEF Routes
  <1>9. CASE s \notin subs /\ Fits(pendEvs[s])
    <2>1. pendEvs'[s] = Append(pendEvs[s], n) /\ events' = events /\ dropped' = dropped
      BY <1>3, <1>6, <1>9 DEF Route
    <2>2. Received(s)' = Received(s)
      BY <1>3, <2>1 DEF Received
    <2> QED
      BY <1>2, <1>3, <1>7, <1>9, <2>1, <2>2 DEF Routes
  <1>10. CASE ~Fits(IF s \in subs THEN events[s] ELSE pendEvs[s])
    <2>1. /\ events'[s] = events[s] /\ pendEvs'[s] = pendEvs[s]
          /\ dropped'[s] = dropped[s] \cup {n}
      BY <1>2, <1>3, <1>4, <1>6, <1>10 DEF Route
    <2>2. Received(s)' = Received(s)
      BY <1>3, <2>1 DEF Received
    <2> QED
      BY <1>2, <1>3, <1>7, <2>1, <2>2 DEF Routes
  <1> QED
    BY <1>8, <1>9, <1>10

LEMMA RoutedGrows ==
    ASSUME Typed, NEW s \in Subscribers, NEW n \in 1 .. MaxEvents, Routes(s, n)
    PROVE  /\ \A t \in Subscribers : t # s => Routed(t)' = Routed(t)
           /\ Routed(s)' = Routed(s) \cup {n}
           /\ Received(s)' # Received(s) => Range(Received(s)') = Range(Received(s)) \cup {n}
           /\ pendEvs'[s] # pendEvs[s] => Range(pendEvs'[s]) = Range(pendEvs[s]) \cup {n}
  <1>1. \A t \in Subscribers : t # s => Routed(t)' = Routed(t)
    BY DEF Routes, Routed
  <1>2. /\ Range(Append(Received(s), n)) = Range(Received(s)) \cup {n}
        /\ Range(Append(pendEvs[s], n)) = Range(pendEvs[s]) \cup {n}
    <2> DEFINE S == 1 .. MaxEvents
    <2>1. n \in S /\ Received(s) \in Seq(S) /\ pendEvs[s] \in Seq(S)
      BY RoutedTyped
    <2> HIDE DEF S
    <2> QED
      BY <2>1, RangeGrows
  <1>3. Routed(s)' = Range(Received(s)') \cup Range(pendEvs'[s]) \cup dropped'[s]
    BY DEF Routed
  <1> QED
    BY <1>1, <1>2, <1>3 DEF Routes, Routed

LEMMA KeepingStep == Typed /\ Quiet /\ Filled /\ Keeping /\ [Next]_vars => Keeping'
  <1> SUFFICES ASSUME Typed, Quiet, Filled, Keeping, [Next]_vars PROVE Keeping'
    OBVIOUS
  <1>1. toClient \in Seq(Messages) /\ emitted \in [Subscribers -> 0 .. MaxEvents]
    BY DEF Typed, TypeOK, Messages
  <1>2. WireInOrder(toClient)
    BY DEF Keeping
  <1>3. UNCHANGED <<events, taken, pendEvs, dropped>> => \A s \in Subscribers : Routed(s)' = Routed(s)
    BY DEF Routed, Received
  <1>4. ASSUME UNCHANGED <<toClient, emitted, events, taken, pendEvs, dropped>>, Reading' => Reading
        PROVE  Keeping'
    BY <1>2, <1>3, <1>4, KeepingTransfers
  <1>5. ASSUME UNCHANGED <<emitted, events, taken, pendEvs, dropped, clientEnd, readLoop>>,
               NEW m \in Messages, m.kind # "event", Deliver(m)
        PROVE  Keeping'
    <2>1. CASE toClient' = toClient
      BY <1>4, <1>5, <2>1 DEF Reading
    <2>2. CASE toClient' = Append(toClient, m)
      <3>1. \A s, n : Event(s, n) # m
        BY <1>5, EventFields
      <3>2. \A x : Has(toClient', x) <=> Has(toClient, x) \/ x = m
        BY <1>1, <2>2, Appended
      <3>3. \A s, n : Has(toClient', Event(s, n)) <=> Has(toClient, Event(s, n))
        BY <3>1, <3>2
      <3>4. WireInOrder(toClient')
        BY <1>1, <1>2, <2>2, <3>1, WireGrows
      <3>5. Reading' <=> Reading
        BY <1>5 DEF Reading
      <3> QED
        BY <1>3, <1>5, <3>3, <3>4, <3>5, KeepingTransfers
    <2> QED
      BY <1>5, <2>1, <2>2 DEF Deliver
  <1>6. CASE sendHello
    BY <1>5, <1>6 DEF sendHello, Messages, Hello, subVars
  <1>7. CASE HandlerReturns
    <2>1. handling \in Request
      BY <1>7 DEF HandlerReturns, Typed, HandlesRequest
    <2>2. PICK k \in Answered : Deliver([kind |-> k, id |-> handling.id, of |-> handling.of])
      BY <1>7 DEF HandlerReturns, Respond, Answered
    <2>3. /\ [kind |-> k, id |-> handling.id, of |-> handling.of] \in Messages
          /\ [kind |-> k, id |-> handling.id, of |-> handling.of].kind # "event"
      BY <2>1 DEF Messages, Responses, Answered, Request
    <2>4. UNCHANGED <<emitted, events, taken, pendEvs, dropped, clientEnd, readLoop>>
      BY <1>7 DEF HandlerReturns, subVars
    <2> QED
      BY <1>5, <2>2, <2>3, <2>4
  <1>8. CASE ReadHello \/ ReadResponse
    <2>1. /\ toClient # << >> /\ toClient' = Tail(toClient)
          /\ UNCHANGED <<emitted, events, taken, pendEvs, dropped, clientEnd>>
          /\ readLoop \in {"hello", "running"}
      BY <1>8 DEF ReadHello, ReadResponse, serverVars, subVars
    <2>2. Head(toClient).kind # "event"
      <3>1. CASE ReadHello
        <4>1. toClient = <<Hello>>
          BY <2>1, <3>1 DEF ReadHello, Quiet
        <4> QED
          BY <4>1 DEF Hello
      <3>2. CASE ReadResponse
        BY <3>2 DEF ReadResponse
      <3> QED
        BY <1>8, <3>1, <3>2
    <2>3. \A s, n : Event(s, n) # Head(toClient)
      BY <2>2, EventFields
    <2>4. \A x : Has(toClient, x) <=> Has(toClient', x) \/ x = Head(toClient)
      BY <1>1, <2>1, Taken
    <2>5. \A s, n : Has(toClient', Event(s, n)) <=> Has(toClient, Event(s, n))
      BY <2>3, <2>4
    <2>6. WireInOrder(toClient')
      BY <1>1, <1>2, <2>1, WireShrinks
    <2>7. Reading' => Reading
      BY <2>1 DEF Reading
    <2> QED
      BY <1>3, <2>1, <2>5, <2>6, <2>7, KeepingTransfers
  <1>9. ASSUME NEW s \in Subscribers, EmitEvent(s) PROVE Keeping'
    <2> DEFINE k == emitted[s] + 1
    <2>1. /\ k \in 1 .. MaxEvents /\ emitted' = [emitted EXCEPT ![s] = k]
          /\ emitted'[s] = k /\ Deliver(Event(s, k)) /\ emitted[s] \in Nat
          /\ \A t \in Subscribers : t # s => emitted'[t] = emitted[t]
      BY <1>1, <1>9, IpcAssumption DEF EmitEvent, Event
    <2>2. UNCHANGED <<events, taken, pendEvs, dropped, clientEnd, readLoop>>
      BY <1>9 DEF EmitEvent, subVars
    <2>3. (\A t \in Subscribers : Routed(t)' = Routed(t)) /\ (Reading' <=> Reading)
      BY <1>3, <2>2 DEF Reading
    <2>4. Reading => Connected
      BY <1>9 DEF EmitEvent, ConnDone, Reading, Quiet, Connected, ServerEnd, Typed, TypeOK
    <2> HIDE DEF k
    <2>5. Event(s, k) \in Messages
      BY <2>1, EventFields
    <2>6. \A a \in 1 .. MaxEvents : Has(toClient, Event(s, a)) => a < k
      BY <2>1 DEF Keeping, k
    <2>7. \A t \in Subscribers : /\ emitted[t] <= emitted'[t] /\ emitted[t] \in Nat
                                 /\ emitted'[t] \in Nat /\ Routed(t) \subseteq 1 .. MaxEvents
      BY <1>1, <2>1, RoutedTyped DEF k
    <2>8. \A t \in Subscribers : \A n \in Routed(t)' : n <= emitted'[t]
      BY <2>3, <2>7 DEF Keeping
    <2>9. CASE toClient' = toClient /\ ~Reading
      <3>1. \A t \in Subscribers, n \in 1 .. MaxEvents :
               Has(toClient, Event(t, n)) => n <= emitted'[t]
        BY <2>7 DEF Keeping
      <3> QED
        BY <2>3, <2>8, <2>9, <3>1 DEF Keeping
    <2>10. CASE toClient' = Append(toClient, Event(s, k))
      <3>1. \A x : Has(toClient', x) <=> Has(toClient, x) \/ x = Event(s, k)
        BY <1>1, <2>5, <2>10, Appended
      <3>2. \A t, n : Has(toClient', Event(t, n)) <=> Has(toClient, Event(t, n)) \/ (t = s /\ n = k)
        BY <3>1, EventFields
      <3>3. WireInOrder(toClient')
        BY <1>1, <1>2, <2>5, <2>6, <2>10, WireGrows, EventFields
      <3>4. ASSUME NEW t \in Subscribers, NEW n \in 1 .. MaxEvents, Has(toClient', Event(t, n))
            PROVE  n <= emitted'[t]
        BY <2>1, <2>7, <3>2, <3>4 DEF Keeping
      <3>5. ASSUME Reading, NEW t \in Subscribers, NEW n \in 1 .. emitted'[t]
            PROVE  n \in Routed(t) \/ Has(toClient', Event(t, n))
        <4>1. CASE n \in 1 .. emitted[t]
          BY <3>2, <3>5, <4>1 DEF Keeping
        <4>2. CASE t = s /\ n = k
          BY <3>2, <4>2
        <4> QED
          BY <2>1, <2>7, <4>1, <4>2 DEF k
      <3>6. ASSUME Reading, NEW t \in Subscribers, NEW m \in Routed(t), NEW n \in 1 .. MaxEvents,
                   Has(toClient', Event(t, n))
            PROVE  m < n
        <4>1. CASE Has(toClient, Event(t, n))
          BY <3>6, <4>1 DEF Keeping
        <4>2. CASE t = s /\ n = k
          <5>1. m <= emitted[s] /\ m \in 1 .. MaxEvents
            BY <2>7, <3>6, <4>2 DEF Keeping
          <5> QED
            BY <2>1, <4>2, <5>1 DEF k
        <4> QED
          BY <3>2, <3>6, <4>1, <4>2
      <3> QED
        BY <2>3, <2>8, <3>3, <3>4, <3>5, <3>6 DEF Keeping
    <2> QED
      BY <2>1, <2>4, <2>9, <2>10 DEF Deliver
  <1>10. CASE ReadEvent
    <2>0. PICK s \in Subscribers, n \in 1 .. MaxEvents : Routes(s, n)
      BY <1>10, OneRouted
    <2>1. /\ Head(toClient) = Event(s, n) /\ toClient' = Tail(toClient) /\ toClient # << >>
          /\ UNCHANGED <<emitted, readLoop, clientEnd>>
          /\ \A t \in Subscribers : t # s => Routed(t)' = Routed(t)
          /\ Routed(s)' = Routed(s) \cup {n}
          /\ s \in Subscribers /\ n \in 1 .. MaxEvents
      BY <2>0, RoutedGrows DEF Routes
    <2>2. \A x : Has(toClient, x) <=> Has(toClient', x) \/ x = Event(s, n)
      BY <1>1, <2>1, Taken
    <2>3. /\ WireInOrder(toClient')
          /\ \A b \in 1 .. MaxEvents : Has(toClient', Event(s, b)) => n < b
      BY <1>1, <1>2, <2>1, WireShrinks
    <2>4. n \in 1 .. MaxEvents /\ n <= emitted[s]
      BY <2>1, <2>2 DEF Keeping
    <2>5. Reading' <=> Reading
      BY <2>1 DEF Reading
    <2>6. \A t \in Subscribers : \A m \in Routed(t)' : m <= emitted[t]
      BY <2>1, <2>4 DEF Keeping
    <2>7. \A t \in Subscribers, m \in 1 .. MaxEvents : Has(toClient', Event(t, m)) => m <= emitted[t]
      BY <2>2 DEF Keeping
    <2>8. ASSUME Reading, NEW t \in Subscribers, NEW m \in 1 .. emitted[t]
          PROVE  m \in Routed(t)' \/ Has(toClient', Event(t, m))
      <3>1. m \in Routed(t) \/ Has(toClient, Event(t, m))
        BY <2>8 DEF Keeping
      <3>2. Routed(t) \subseteq Routed(t)'
        BY <2>1
      <3>3. Event(t, m) = Event(s, n) => m \in Routed(t)'
        BY <2>1, EventFields
      <3> QED
        BY <2>2, <3>1, <3>2, <3>3
    <2>9. ASSUME Reading, NEW t \in Subscribers, NEW m \in Routed(t)', NEW b \in 1 .. MaxEvents,
                 Has(toClient', Event(t, b))
          PROVE  m < b
      <3>1. CASE m \in Routed(t)
        BY <2>2, <2>9, <3>1 DEF Keeping
      <3>2. CASE t = s /\ m = n
        BY <2>3, <2>9, <3>2
      <3> QED
        BY <2>1, <2>9, <3>1, <3>2
    <2> QED
      BY <2>1, <2>3, <2>5, <2>6, <2>7, <2>8, <2>9 DEF Keeping
  <1>11. ASSUME NEW s \in Subscribers, Subscribe(s) \/ TakeEvent(s) \/ SubscriptionClose(s)
         PROVE  Keeping'
    <2>1. /\ \A t \in Subscribers : Routed(t)' = Routed(t)
          /\ UNCHANGED <<toClient, emitted, readLoop, clientEnd>>
      BY <1>11, NothingRouted
    <2> QED
      BY <1>2, <2>1, KeepingTransfers DEF Reading
  <1>12. CASE SubChannelsClose
    <2>1. /\ UNCHANGED <<toClient, emitted, events, taken, dropped>>
          /\ \A s \in Subscribers : pendEvs'[s] = << >>
          /\ ~Reading'
      BY <1>12 DEF SubChannelsClose, serverVars, wireVars, Reading
    <2>2. Range(<< >>) = {}
      BY DEF Range
    <2>3. \A s \in Subscribers : Routed(s)' \subseteq Routed(s)
      BY <2>1, <2>2 DEF Routed, Received
    <2> QED
      BY <1>2, <2>1, <2>3, KeepingTransfers
  <1>13. ASSUME \/ Dial \/ Cancel \/ Close \/ ServeStep \/ Dispatch \/ HandleConnExits
                \/ HelloFails \/ CallChannelsClose \/ UNCHANGED vars
                \/ \E r \in Requests :
                      \/ CallRegister(r) \/ CallWrite(r) \/ CallCanceled(r) \/ CallFails(r)
                      \/ CallAnswered(r)
         PROVE  UNCHANGED <<toClient, emitted, events, taken, pendEvs, dropped>>
                /\ (Reading' => Reading)
    BY <1>13 DEF Dial, Cancel, Close, ServeStep, Accept, AcceptFails, ServeReturns, Dispatch,
                 HandleConnExits, HelloFails, CallChannelsClose, CallRegister, CallWrite,
                 CallCanceled, CallFails, CallAnswered, vars, serverVars, wireVars, callVars,
                 subVars, Reading, Quiet
  <1> QED
    BY <1>4, <1>6, <1>7, <1>8, <1>9, <1>10, <1>11, <1>12, <1>13
       DEF Next, HandlerStep, ReadStep, CallStep

LEMMA EmptyBuffer == Increasing(<< >>) /\ Range(<< >>) = {}
  BY DEF Increasing, Range

(* An event is routed when all the earlier ones have been. *)
LEMMA RoutedInOrder ==
    ASSUME Typed, Keeping, ReadEvent,
           NEW s \in Subscribers, NEW n \in 1 .. MaxEvents, Routes(s, n)
    PROVE  /\ \A m \in Routed(s) : m < n
           /\ 1 .. n \subseteq Routed(s) \cup {n}
  <1>1. Reading
    BY DEF ReadEvent, Reading
  <1>2. /\ toClient \in Seq(Messages) /\ toClient # << >> /\ Head(toClient) = Event(s, n)
        /\ emitted[s] \in Nat
    BY IpcAssumption DEF Routes, Typed, TypeOK, Messages
  <1>3. \A x : Has(toClient, x) <=> Has(Tail(toClient), x) \/ x = Event(s, n)
    BY <1>2, Taken
  <1>4. \A b \in 1 .. MaxEvents : Has(Tail(toClient), Event(s, b)) => n < b
    BY <1>2, WireShrinks DEF Keeping
  <1>5. \A m \in Routed(s) : m < n
    BY <1>1, <1>3 DEF Keeping
  <1>6. n <= emitted[s]
    BY <1>3 DEF Keeping
  <1>7. ASSUME NEW m \in 1 .. n PROVE m \in Routed(s) \/ m = n
    <2>1. m \in 1 .. emitted[s] /\ m \in 1 .. MaxEvents /\ ~(n < m)
      BY <1>2, <1>6, IpcAssumption
    <2>2. m \in Routed(s) \/ Has(toClient, Event(s, m))
      BY <1>1, <2>1 DEF Keeping
    <2>3. ~Has(Tail(toClient), Event(s, m))
      BY <1>4, <2>1
    <2> QED
      BY <1>3, <2>2, <2>3, EventFields
  <1> QED
    BY <1>5, <1>7

LEMMA FilledInit == Init => Filled
  <1> SUFFICES ASSUME Init, NEW s \in Subscribers
               PROVE  /\ events[s] = << >> /\ taken[s] = << >> /\ pendEvs[s] = << >> /\ subs = {}
                      /\ Received(s) = << >>
    BY EmptyBuffer DEF Filled
  <1>1. events[s] = << >> /\ taken[s] = << >> /\ pendEvs[s] = << >> /\ subs = {}
    BY DEF Init
  <1> QED
    BY <1>1 DEF Received

LEMMA KeepingInit == Init => Keeping
  <1> SUFFICES ASSUME Init PROVE Keeping
    OBVIOUS
  <1>1. WireInOrder(toClient) /\ \A m : ~Has(toClient, m)
    BY DEF Init, WireInOrder, Has
  <1>2. ASSUME NEW s \in Subscribers PROVE Routed(s) = {} /\ emitted[s] = 0
    <2>1. events[s] = << >> /\ taken[s] = << >> /\ pendEvs[s] = << >> /\ dropped[s] = {}
      BY DEF Init
    <2>2. Received(s) = << >>
      BY <2>1 DEF Received
    <2> QED
      BY <2>1, <2>2, EmptyBuffer DEF Routed, Init
  <1> QED
    BY <1>1, <1>2 DEF Keeping

LEMMA FilledStep == Typed /\ Keeping /\ Filled /\ [Next]_vars => Filled'
  <1> SUFFICES ASSUME Typed, Keeping, Filled, [Next]_vars PROVE Filled'
    OBVIOUS
  <1> USE DEF Filled
  <1>1. ASSUME UNCHANGED <<events, taken, pendEvs, dropped>>, subs' \subseteq subs,
               \A s \in Subscribers : call'[s] = "ok" <=> call[s] = "ok"
        PROVE  Filled'
    <2>1. \A s \in Subscribers : Received(s)' = Received(s) /\ Routed(s)' = Routed(s)
      BY <1>1 DEF Received, Routed
    <2> QED
      BY <1>1, <2>1
  <1>2. ASSUME NEW s \in Subscribers, Subscribe(s) PROVE Filled'
    <2>1. s \in Requests /\ call[s] = "subscribing" /\ taken' = taken /\ dropped' = dropped
      BY <1>2, IpcAssumption DEF Subscribe
    <2>2. CASE SubsNil
      <3>1. /\ call' = [call EXCEPT ![s] = "failed"]
            /\ UNCHANGED <<events, taken, pendEvs, dropped, subs>>
        BY <1>2, <2>2 DEF Subscribe
      <3>2. \A t \in Subscribers : call'[t] = "ok" <=> call[t] = "ok"
        BY <2>1, <3>1, IpcAssumption DEF Typed, TypeOK
      <3> QED
        BY <1>1, <3>1, <3>2
    <2>3. CASE ~SubsNil
      <3>1. /\ subs' = subs \cup {s} /\ call' = [call EXCEPT ![s] = "ok"]
            /\ events' = [events EXCEPT ![s] = pendEvs[s]]
            /\ pendEvs' = [pendEvs EXCEPT ![s] = << >>]
        BY <1>2, <2>3 DEF Subscribe, Drained
      <3>2. /\ call'[s] = "ok" /\ events'[s] = pendEvs[s] /\ pendEvs'[s] = << >>
            /\ \A t \in Subscribers : t # s => /\ events'[t] = events[t] /\ pendEvs'[t] = pendEvs[t]
                                              /\ call'[t] = call[t] /\ (t \in subs' => t \in subs)
        BY <2>1, <3>1, IpcAssumption DEF Typed, TypeOK
      <3>3. taken[s] = << >> /\ events[s] = << >> /\ pendEvs[s] \in Seq(1 .. MaxEvents)
        BY <2>1 DEF Typed, TypeOK
      <3>4. Received(s) = << >> /\ Received(s)' = pendEvs[s]
        BY <2>1, <3>2, <3>3, ConcatEmptySeq DEF Received
      <3>5. Routed(s) = Range(pendEvs[s]) \cup dropped[s]
        BY <3>4, EmptyBuffer DEF Routed
      <3>6. \A t \in Subscribers : t # s => Received(t)' = Received(t) /\ Routed(t)' = Routed(t)
        BY <2>1, <3>2 DEF Received, Routed
      <3> QED
        BY <2>1, <3>2, <3>4, <3>5, <3>6, EmptyBuffer
    <2> QED
      BY <2>2, <2>3
  <1>3. ASSUME NEW s \in Subscribers, TakeEvent(s) PROVE Filled'
    <2>1. /\ \A t \in Subscribers : Routed(t)' = Routed(t) /\ Received(t)' = Received(t)
          /\ UNCHANGED <<call, pendEvs, dropped, subs>>
      BY <1>3, NothingRouted DEF TakeEvent, Subscribe
    <2>2. call[s] = "ok"
      BY <1>3 DEF TakeEvent
    <2>3. \A t \in Subscribers : t # s => events'[t] = events[t] /\ taken'[t] = taken[t]
      BY <1>3 DEF TakeEvent, Typed, TypeOK
    <2> QED
      BY <2>1, <2>2, <2>3
  <1>4. CASE ReadEvent
    <2>1. PICK s \in Subscribers, n \in 1 .. MaxEvents : Routes(s, n)
      BY <1>4, OneRouted
    <2>2. /\ \A t \in Subscribers : t # s => Routed(t)' = Routed(t)
          /\ Routed(s)' = Routed(s) \cup {n}
          /\ Received(s)' # Received(s) => Range(Received(s)') = Range(Received(s)) \cup {n}
          /\ pendEvs'[s] # pendEvs[s] => Range(pendEvs'[s]) = Range(pendEvs[s]) \cup {n}
      BY <2>1, RoutedGrows
    <2>3. /\ \A m \in Routed(s) : m < n
          /\ 1 .. n \subseteq Routed(s) \cup {n}
      BY <1>4, <2>1, RoutedInOrder
    <2>4. Received(s) \in Seq(1 .. MaxEvents) /\ pendEvs[s] \in Seq(1 .. MaxEvents)
      BY RoutedTyped
    <2>5. /\ Increasing(Append(Received(s), n))
          /\ Increasing(Append(pendEvs[s], n))
      BY <2>3, <2>4, IncreasingGrows DEF Routed
    <2>6. ASSUME NEW t \in Subscribers, t # s
          PROVE  /\ call'[t] # "ok" => events'[t] = << >> /\ taken'[t] = << >>
                 /\ t \in subs' => call'[t] = "ok" /\ pendEvs'[t] = << >>
                 /\ Increasing(Received(t)') /\ Increasing(pendEvs'[t])
                 /\ \A m \in Range(Received(t)') : 1 .. m \subseteq Range(Received(t)') \cup dropped'[t]
                 /\ \A m \in Range(pendEvs'[t]) : 1 .. m \subseteq Routed(t)'
      BY <2>1, <2>2, <2>6 DEF Routes
    <2>7. /\ call'[s] # "ok" => events'[s] = << >> /\ taken'[s] = << >>
          /\ s \in subs' => call'[s] = "ok" /\ pendEvs'[s] = << >>
          /\ Increasing(Received(s)') /\ Increasing(pendEvs'[s])
      BY <2>1, <2>5 DEF Routes
    <2>8. \A m \in Range(Received(s)') : 1 .. m \subseteq Range(Received(s)') \cup dropped'[s]
      <3>1. CASE s \in subs /\ Received(s)' = Append(Received(s), n) /\ dropped'[s] = dropped[s]
        <4>1. Received(s)' # Received(s)
          BY <2>4, <3>1, Appended
        <4>2. Routed(s) = Range(Received(s)) \cup dropped[s]
          BY <3>1, EmptyBuffer DEF Routed
        <4> QED
          BY <2>2, <2>3, <3>1, <4>1, <4>2
      <3>2. CASE Received(s)' = Received(s) /\ dropped[s] \subseteq dropped'[s]
        BY <3>2
      <3> QED
        BY <2>1, <3>1, <3>2 DEF Routes
    <2>9. \A m \in Range(pendEvs'[s]) : 1 .. m \subseteq Routed(s)'
      BY <2>2, <2>3
    <2> QED
      BY <2>6, <2>7, <2>8, <2>9
  <1>5. CASE SubChannelsClose
    <2>1. /\ UNCHANGED <<call, events, taken, dropped>> /\ subs' = {}
          /\ \A s \in Subscribers : pendEvs'[s] = << >>
      BY <1>5 DEF SubChannelsClose, callVars
    <2>2. \A s \in Subscribers : Received(s)' = Received(s)
      BY <2>1 DEF Received
    <2> QED
      BY <2>1, <2>2, EmptyBuffer
  <1>6. ASSUME NEW r \in Requests,
               \/ CallRegister(r) \/ CallWrite(r) \/ CallCanceled(r) \/ CallFails(r)
               \/ CallAnswered(r)
        PROVE  Filled'
    <2>1. /\ call[r] # "ok" /\ UNCHANGED subVars
          /\ \E k : call' = [call EXCEPT ![r] = k] /\ (r \in Subscribers => k # "ok")
      BY <1>6 DEF CallRegister, CallWrite, CallCanceled, CallFails, CallAnswered
    <2>2. \A s \in Subscribers : call'[s] = "ok" <=> call[s] = "ok"
      BY <2>1, IpcAssumption DEF Typed, TypeOK
    <2> QED
      BY <1>1, <2>1, <2>2 DEF subVars
  <1>7. ASSUME \/ Dial \/ Cancel \/ Close \/ ServeStep \/ HandlerStep \/ UNCHANGED vars
               \/ ReadHello \/ HelloFails \/ ReadResponse \/ CallChannelsClose
               \/ \E s \in Subscribers : EmitEvent(s) \/ SubscriptionClose(s)
        PROVE  UNCHANGED <<call, events, taken, pendEvs, dropped>> /\ subs' \subseteq subs
    BY <1>7 DEF Dial, Cancel, Close, ServeStep, Accept, AcceptFails, ServeReturns, HandlerStep,
                sendHello, Dispatch, HandlerReturns, HandleConnExits, ReadHello, HelloFails,
                ReadResponse, CallChannelsClose, EmitEvent, SubscriptionClose, vars, callVars,
                subVars
  <1> QED
    BY <1>1, <1>2, <1>3, <1>4, <1>5, <1>6, <1>7 DEF Next, ReadStep, CallStep

(* What a subscriber has taken or can take are the events in the order of  *)
(* emission, without a gap that no full buffer explains, for any number of *)
(* subscriptions and events: the ones that readLoop met before Subscribe   *)
(* had registered its channel are handed over.                             *)
THEOREM EventsArriveInOrder == Spec => []EarlyEventsKept
  <1> DEFINE Inv == Typed /\ Quiet /\ Keeping /\ Filled
  <1>1. Init => Inv
    BY TypedInit, QuietInit, KeepingInit, FilledInit
  <1>2. Inv /\ [Next]_vars => Inv'
    BY TypedStep, QuietStep, KeepingStep, FilledStep
  <1>3. ASSUME Inv PROVE EarlyEventsKept
    <2> SUFFICES ASSUME NEW s \in Subscribers
                 PROVE  /\ \A i, j \in DOMAIN Received(s) : i < j => Received(s)[i] < Received(s)[j]
                        /\ \A i \in DOMAIN Received(s) :
                              1 .. Received(s)[i] \subseteq Range(Received(s)) \cup dropped[s]
      BY DEF EarlyEventsKept
    <2>1. DOMAIN Received(s) = 1 .. Len(Received(s))
      BY <1>3, RoutedTyped
    <2>2. \A i \in DOMAIN Received(s) : Received(s)[i] \in Range(Received(s))
      BY DEF Range
    <2> QED
      BY <1>3, <2>1, <2>2 DEF Filled, Increasing
  <1>4. Inv => EarlyEventsKept
    BY <1>3
  <1> HIDE DEF Inv
  <1> QED
    BY <1>1, <1>2, <1>4, PTL DEF Spec
=============================================================================
