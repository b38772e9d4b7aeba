--------------------------------- MODULE Ipc ---------------------------------
(***************************************************************************)
(* The socket between the daemon and one client: Server.Serve and          *)
(* handleConn (ipc/server.go), EmitEvent (ipc/conn.go), and Dial, Call,    *)
(* Subscribe, readLoop and Close of the client (ipc/client.go).            *)
(*                                                                         *)
(* A request is a Call of one of the client's goroutines; the ones in      *)
(* Subscribers are Subscribe calls, whose handler starts a goroutine that  *)
(* emits events, which may overtake the response.  Events of a             *)
(* subscription are numbered in the order of emission, and a response      *)
(* carries the request that it answers, which the client cannot see: it    *)
(* goes by the id alone.                                                   *)
(***************************************************************************)
EXTENDS Integers, Sequences, SequencesExt

CONSTANTS Requests,     \* the Call invocations of the client
          Subscribers,  \* those among them that are Subscribe calls
          MaxEvents,    \* bound: events emitted per subscription
          EventCap      \* capacity of Events and of a pendEvs entry (16)

ASSUME IpcAssumption ==
    /\ Subscribers \subseteq Requests
    /\ MaxEvents \in Nat /\ EventCap \in Nat \ {0}

Ids == Nat \ {0}
Request == [id : Ids, of : Requests]
Responses == [kind : {"ok", "error"}, id : Ids, of : Requests]
Events == [kind : {"event"}, sub : Subscribers, n : 1 .. MaxEvents]
Hello == [kind |-> "hello"]

VARIABLES
    ctx,        \* the daemon's context: "live" or "canceled"
    serve,      \* Serve: "accepting", "waiting" in wg.Wait, "returned"
    handler,    \* the connection's handleConn goroutine
    handling,   \* the request its handler works on
    emitters,   \* subscriptions with an emitting goroutine in the daemon
    emitted,    \* per subscription: events emitted
    clientEnd,  \* the client's end of the connection: "none", "open", "closed"
    toServer,   \* requests written and not read
    toClient,   \* what the server wrote and the client has not read
    nextID,     \* Client.nextID
    id,         \* per request: its id
    call,       \* per request: where its Call is
    pending,    \* Client.pending: ids with the request waiting for them
    answer,     \* per request: its channel
    readLoop,   \* the client's reading goroutine
    subs,       \* Client.subs: the subscriptions events are routed to
    closedSubs, \* subscriptions whose Events channel is closed
    events,     \* per subscription: the Events channel
    pendEvs,    \* per subscription: events that came before Subscribe had registered it
    taken,      \* history, per subscription: events the subscriber took
    dropped     \* history, per subscription: events that met a full buffer

serverVars == <<ctx, serve, handler, handling, emitters, emitted>>
wireVars == <<clientEnd, toServer, toClient>>
callVars == <<nextID, id, call, pending, answer>>
subVars == <<subs, closedSubs, events, pendEvs, taken, dropped>>
vars == <<serverVars, wireVars, callVars, readLoop, subVars>>

NoRequest == [id |-> 0]
Empty == [kind |-> "empty"]
ClosedChannel == [kind |-> "closed"]
NoReturn == {"new", "registered", "sent", "subscribing"}
Returned == {"ok", "error", "failed", "canceled"}

TypeOK ==
    /\ ctx \in {"live", "canceled"} /\ serve \in {"accepting", "waiting", "returned"}
    /\ handler \in {"none", "queued", "hello", "scanning", "handling", "exited"}
    /\ handling \in Request \cup {NoRequest}
    /\ emitters \subseteq Subscribers
    /\ emitted \in [Subscribers -> 0 .. MaxEvents]
    /\ clientEnd \in {"none", "open", "closed"}
    /\ toServer \in Seq(Request) /\ toClient \in Seq(Responses \cup Events \cup {Hello})
    /\ nextID \in Nat /\ id \in [Requests -> Nat]
    /\ call \in [Requests -> NoReturn \cup Returned]
    /\ pending \subseteq Ids \X Requests
    /\ answer \in [Requests -> Responses \cup {Empty, ClosedChannel}]
    /\ readLoop \in {"none", "hello", "running", "closing", "ended"}
    /\ subs \subseteq Subscribers
    /\ closedSubs \subseteq Subscribers
    /\ {events, pendEvs, taken} \subseteq [Subscribers -> Seq(1 .. MaxEvents)]
    /\ \A s \in Subscribers : Len(events[s]) <= EventCap /\ Len(pendEvs[s]) <= EventCap
    /\ dropped \in [Subscribers -> SUBSET (1 .. MaxEvents)]

(* When readLoop ends it sets both maps to nil, one after the other. *)
PendingNil == readLoop \in {"closing", "ended"}

(* Faulty: the map stays usable after its channels are closed. *)
SubsNilNever == FALSE

SubsNil == readLoop = "ended"

ServerEnd == IF handler = "exited" THEN "closed" ELSE "open"
ConnDone == handler = "exited" \/ ctx = "canceled"

(* A write succeeds while both ends are open; the callers ignore failures  *)
(* except where they say so.                                               *)
Connected == clientEnd = "open" /\ ServerEnd = "open"
Deliver(m) == toClient' = IF Connected THEN Append(toClient, m) ELSE toClient
-----------------------------------------------------------------------------
(* Dial and Accept: a connection that is not accepted before the listener  *)
(* closes is reset.                                                        *)
Dial ==
    /\ clientEnd = "none" /\ serve = "accepting"
    /\ clientEnd' = "open" /\ readLoop' = "hello" /\ handler' = "queued"
    /\ UNCHANGED <<ctx, serve, handling, emitters, emitted, toServer, toClient, callVars,
                   subVars>>

Accept ==
    /\ serve = "accepting" /\ handler = "queued"
    /\ handler' = "hello"
    /\ UNCHANGED <<ctx, serve, handling, emitters, emitted, wireVars, callVars, readLoop,
                   subVars>>

(* The hello is read, or times out, or names another version: then Dial    *)
(* closes the connection and there is no client.                           *)
ReadHello ==
    /\ readLoop = "hello" /\ toClient # <<>> /\ clientEnd = "open"
    /\ toClient' = Tail(toClient) /\ readLoop' = "running"
    /\ UNCHANGED <<serverVars, clientEnd, toServer, callVars, subVars>>

HelloFails ==
    /\ readLoop = "hello"
    /\ clientEnd' = "closed" /\ readLoop' = "none"
    /\ UNCHANGED <<serverVars, toServer, toClient, callVars, subVars>>
-----------------------------------------------------------------------------
(* Serve: daemon.shutdown or a signal cancels the context, the listener is *)
(* closed, and Serve waits for the connections.                            *)
Cancel ==
    /\ ctx = "live"
    /\ ctx' = "canceled"
    /\ UNCHANGED <<serve, handler, handling, emitters, emitted, wireVars, callVars,
                   readLoop, subVars>>

AcceptFails ==
    /\ serve = "accepting" /\ ctx = "canceled"
    /\ serve' = "waiting"
    /\ handler' = IF handler = "queued" THEN "exited" ELSE handler
    /\ UNCHANGED <<ctx, handling, emitters, emitted, wireVars, callVars, readLoop, subVars>>

ServeReturns ==
    /\ serve = "waiting" /\ handler \in {"none", "exited"}
    /\ serve' = "returned"
    /\ UNCHANGED <<ctx, handler, handling, emitters, emitted, wireVars, callVars, readLoop,
                   subVars>>

(* handleConn: hello, then one request after the other. *)
sendHello ==
    /\ handler = "hello"
    /\ Deliver(Hello)
    /\ handler' = IF Connected THEN "scanning" ELSE "exited"
    /\ UNCHANGED <<ctx, serve, handling, emitters, emitted, clientEnd, toServer, callVars,
                   readLoop, subVars>>

(* The handler of a subscription may refuse; otherwise it has started its  *)
(* goroutine before it returns.                                            *)
Dispatch ==
    /\ handler = "scanning" /\ toServer # <<>>
    /\ handling' = Head(toServer) /\ toServer' = Tail(toServer)
    /\ handler' = "handling"
    /\ emitters' \in {emitters, emitters \cup (Subscribers \cap {handling'.of})}
    /\ UNCHANGED <<ctx, serve, emitted, clientEnd, toClient, callVars, readLoop, subVars>>

Refuses == \/ handling.of \in Requests \ Subscribers
           \/ handling.of \in Subscribers \ emitters
Accepts == handling.of \notin Subscribers \ emitters
Respond(kind) == Deliver([kind |-> kind, id |-> handling.id, of |-> handling.of])

(* Faulty: a method that does not exist gets no response. *)
HandlerReturnsSilently ==
    /\ handler = "handling"
    /\ \/ Accepts /\ Respond("ok")
       \/ Refuses /\ UNCHANGED toClient
    /\ handler' = "scanning" /\ handling' = NoRequest
    /\ UNCHANGED <<ctx, serve, emitters, emitted, clientEnd, toServer, callVars, readLoop,
                   subVars>>

(* respondOKLocked or respondErrLocked. *)
HandlerReturns ==
    /\ handler = "handling"
    /\ \/ Accepts /\ Respond("ok")
       \/ Refuses /\ Respond("error")
    /\ handler' = "scanning" /\ handling' = NoRequest
    /\ UNCHANGED <<ctx, serve, emitters, emitted, clientEnd, toServer, callVars, readLoop,
                   subVars>>

(* Scan fails only when the client is gone. *)
HandleConnExits ==
    /\ handler = "scanning" /\ toServer = <<>> /\ clientEnd = "closed"
    /\ handler' = "exited"
    /\ UNCHANGED <<ctx, serve, handling, emitters, emitted, wireVars, callVars, readLoop,
                   subVars>>

EmitEvent(s) ==
    /\ s \in emitters /\ ~ConnDone /\ emitted[s] < MaxEvents
    /\ emitted' = [emitted EXCEPT ![s] = @ + 1]
    /\ Deliver([kind |-> "event", sub |-> s, n |-> emitted'[s]])
    /\ UNCHANGED <<ctx, serve, handler, handling, emitters, clientEnd, toServer, callVars,
                   readLoop, subVars>>
-----------------------------------------------------------------------------
(* Faulty: two callers read the counter before either has written it. *)
NewIDRacy(r) ==
    \/ nextID' = nextID + 1 /\ id' = [id EXCEPT ![r] = nextID + 1]
    \/ nextID > 0 /\ nextID' = nextID /\ id' = [id EXCEPT ![r] = nextID]

NewID(r) == nextID' = nextID + 1 /\ id' = [id EXCEPT ![r] = nextID + 1]

(* Call: take an id and register a channel, unless readLoop has ended. *)
CallRegister(r) ==
    /\ call[r] = "new" /\ readLoop \in {"running", "closing", "ended"}
    /\ NewID(r)
    /\ IF PendingNil
       THEN call' = [call EXCEPT ![r] = "failed"] /\ UNCHANGED pending
       ELSE /\ call' = [call EXCEPT ![r] = "registered"]
            /\ pending' = {p \in pending : p[1] # id'[r]} \cup {<<id'[r], r>>}
    /\ UNCHANGED <<serverVars, wireVars, answer, readLoop, subVars>>

Forget(r) == pending' = {p \in pending : p[1] # id[r]}

CallWrite(r) ==
    /\ call[r] = "registered"
    /\ IF Connected
       THEN /\ toServer' = Append(toServer, [id |-> id[r], of |-> r])
            /\ call' = [call EXCEPT ![r] = "sent"]
            /\ UNCHANGED pending
       ELSE call' = [call EXCEPT ![r] = "failed"] /\ Forget(r) /\ UNCHANGED toServer
    /\ UNCHANGED <<serverVars, clientEnd, toClient, nextID, id, answer, readLoop, subVars>>

(* The select of Call: the caller gives up ... *)
CallCanceled(r) ==
    /\ call[r] = "sent"
    /\ call' = [call EXCEPT ![r] = "canceled"] /\ Forget(r)
    /\ UNCHANGED <<serverVars, wireVars, nextID, id, answer, readLoop, subVars>>

(* ... or the client is closed, or the channel is ... *)
CallFails(r) ==
    /\ call[r] = "sent" /\ (readLoop = "ended" \/ answer[r] = ClosedChannel)
    /\ call' = [call EXCEPT ![r] = "failed"]
    /\ UNCHANGED <<serverVars, wireVars, nextID, id, pending, answer, readLoop, subVars>>

(* ... or the response is there. *)
CallAnswered(r) ==
    /\ call[r] = "sent" /\ answer[r].kind \in {"ok", "error"}
    /\ call' = [call EXCEPT ![r] = IF answer[r].kind = "ok" /\ r \in Subscribers
                                   THEN "subscribing" ELSE answer[r].kind]
    /\ UNCHANGED <<serverVars, wireVars, nextID, id, pending, answer, readLoop, subVars>>
-----------------------------------------------------------------------------
(* Subscribe: make the channel known, and put into it what came early, in  *)
(* one section under subsMu.                                               *)
(* Faulty: what came early stays where it is. *)
DrainedNever(s) == <<>>

Drained(s) == pendEvs[s]

Subscribe(s) ==
    /\ call[s] = "subscribing"
    /\ IF SubsNil
       THEN call' = [call EXCEPT ![s] = "failed"] /\ UNCHANGED <<subs, events, pendEvs>>
       ELSE /\ subs' = subs \cup {s}
            /\ events' = [events EXCEPT ![s] = Drained(s)]
            /\ pendEvs' = [pendEvs EXCEPT ![s] = <<>>]
            /\ call' = [call EXCEPT ![s] = "ok"]
    /\ UNCHANGED <<serverVars, wireVars, nextID, id, pending, answer, readLoop, closedSubs,
                   taken, dropped>>

TakeEvent(s) ==
    /\ events[s] # <<>>
    /\ taken' = [taken EXCEPT ![s] = Append(@, Head(events[s]))]
    /\ events' = [events EXCEPT ![s] = Tail(@)]
    /\ UNCHANGED <<serverVars, wireVars, callVars, readLoop, subs, closedSubs, pendEvs,
                   dropped>>

(* Subscription.Close: out of the map, and closed. *)
SubscriptionClose(s) ==
    /\ s \in subs
    /\ subs' = subs \ {s} /\ closedSubs' = closedSubs \cup {s}
    /\ UNCHANGED <<serverVars, wireVars, callVars, readLoop, events, pendEvs, taken,
                   dropped>>

Close ==
    /\ clientEnd = "open" /\ readLoop # "hello"
    /\ clientEnd' = "closed"
    /\ UNCHANGED <<serverVars, toServer, toClient, callVars, readLoop, subVars>>
-----------------------------------------------------------------------------
(* readLoop: a response goes to the channel registered under its id. *)
Matches(m) == {p \in pending : p[1] = m.id}

ReadResponse ==
    /\ readLoop = "running" /\ clientEnd = "open" /\ toClient # <<>>
    /\ LET m == Head(toClient) IN
         /\ m.kind \in {"ok", "error"}
         /\ pending' = pending \ Matches(m)
         /\ answer' = [r \in Requests |->
                         IF \E p \in Matches(m) : p[2] = r THEN m ELSE answer[r]]
    /\ toClient' = Tail(toClient)
    /\ UNCHANGED <<serverVars, clientEnd, toServer, nextID, id, call, readLoop, subVars>>

Fits(buffer) == Len(buffer) < EventCap

(* An event goes to its channel, or is kept for a Subscribe under way; a   *)
(* full buffer drops it.                                                   *)
Offer(buffers, s, n) == IF Fits(buffers[s]) THEN [buffers EXCEPT ![s] = Append(@, n)]
                                            ELSE buffers

Route(s, n) ==
    LET buffer == IF s \in subs THEN events[s] ELSE pendEvs[s]
    IN  /\ events' = IF s \in subs THEN Offer(events, s, n) ELSE events
        /\ pendEvs' = IF s \in subs THEN pendEvs ELSE Offer(pendEvs, s, n)
        /\ dropped' = IF Fits(buffer) THEN dropped ELSE [dropped EXCEPT ![s] = @ \cup {n}]

ReadEvent ==
    /\ readLoop = "running" /\ clientEnd = "open" /\ toClient # <<>>
    /\ Head(toClient).kind = "event"
    /\ Route(Head(toClient).sub, Head(toClient).n)
    /\ toClient' = Tail(toClient)
    /\ UNCHANGED <<serverVars, clientEnd, toServer, callVars, readLoop, subs, closedSubs,
                   taken>>

(* Scan fails: the client was closed, or the server was and all is read.   *)
(* First every Call is told, then every subscription and c.closed.         *)
CallChannelsClose ==
    /\ readLoop = "running"
    /\ clientEnd = "closed" \/ (ServerEnd = "closed" /\ toClient = <<>>)
    /\ answer' = [r \in Requests |-> IF <<id[r], r>> \in pending THEN ClosedChannel
                                                                 ELSE answer[r]]
    /\ pending' = {} /\ readLoop' = "closing"
    /\ UNCHANGED <<serverVars, wireVars, nextID, id, call, subVars>>

SubChannelsClose ==
    /\ readLoop = "closing"
    /\ closedSubs' = closedSubs \cup subs /\ subs' = {}
    /\ pendEvs' = [s \in Subscribers |-> <<>>]
    /\ readLoop' = "ended"
    /\ UNCHANGED <<serverVars, wireVars, callVars, events, taken, dropped>>
-----------------------------------------------------------------------------
Init ==
    /\ ctx = "live" /\ serve = "accepting" /\ handler = "none" /\ handling = NoRequest
    /\ emitters = {} /\ emitted = [s \in Subscribers |-> 0]
    /\ clientEnd = "none" /\ toServer = <<>> /\ toClient = <<>>
    /\ nextID = 0 /\ id = [r \in Requests |-> 0]
    /\ call = [r \in Requests |-> "new"]
    /\ pending = {} /\ answer = [r \in Requests |-> Empty]
    /\ readLoop = "none"
    /\ subs = {} /\ closedSubs = {}
    /\ events = [s \in Subscribers |-> <<>>] /\ pendEvs = [s \in Subscribers |-> <<>>]
    /\ taken = [s \in Subscribers |-> <<>>] /\ dropped = [s \in Subscribers |-> {}]

ServeStep == Accept \/ AcceptFails \/ ServeReturns
HandlerStep == sendHello \/ Dispatch \/ HandlerReturns \/ HandleConnExits
ReadStep == \/ ReadHello \/ HelloFails
            \/ ReadResponse \/ ReadEvent \/ CallChannelsClose \/ SubChannelsClose
CallStep(r) == \/ CallRegister(r) \/ CallWrite(r) \/ CallFails(r) \/ CallAnswered(r)
               \/ r \in Subscribers /\ Subscribe(r)

Next ==
    \/ Dial \/ Cancel \/ Close
    \/ ServeStep \/ HandlerStep \/ ReadStep
    \/ \E r \in Requests : CallStep(r) \/ CallCanceled(r)
    \/ \E s \in Subscribers : EmitEvent(s) \/ TakeEvent(s) \/ SubscriptionClose(s)

Spec == Init /\ [][Next]_vars

(* The daemon's and the client's goroutines run and handlers return.       *)
(* Nobody has to dial, to call, to cancel, to emit or to close.            *)
Fairness ==
    /\ WF_vars(ServeStep) /\ WF_vars(HandlerStep) /\ WF_vars(ReadStep)
    /\ \A r \in Requests : WF_vars(call[r] # "new" /\ CallStep(r))

FairSpec == Spec /\ Fairness
-----------------------------------------------------------------------------
(* A Call returns the response to its own request, also when several are   *)
(* in flight, some gave up, and their responses come late.                 *)
AnswersMatch == \A r \in Requests : call[r] \in {"ok", "error", "subscribing"} => answer[r].of = r

(* What a subscriber has taken or can take are the events in the order of  *)
(* emission, and one is missing only if a buffer was full: those that came *)
(* before Subscribe had registered the subscription are not lost.          *)
Received(s) == taken[s] \o events[s]
EarlyEventsKept ==
    \A s \in Subscribers : call[s] = "ok" =>
        /\ \A i, j \in DOMAIN Received(s) : i < j => Received(s)[i] < Received(s)[j]
        /\ \A i \in DOMAIN Received(s) :
              1 .. Received(s)[i] \subseteq Range(Received(s)) \cup dropped[s]

(* Every Call returns: with the response, or an error once the connection  *)
(* is gone, whether it registered before, during or after the tear-down.   *)
CallsReturn == \A r \in Requests : call[r] # "new" ~> call[r] \in Returned

(* The end of the connection reaches every subscriber: its channel is      *)
(* closed, also when Subscribe runs at the same time as the tear-down.     *)
SubscribersSeeEnd ==
    \A s \in Subscribers : call[s] = "ok" /\ readLoop = "ended" ~> s \in closedSubs
=============================================================================
