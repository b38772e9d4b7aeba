--------------------------- MODULE MediaTransport ---------------------------
(***************************************************************************)
(* The transport under a call's audio (audio/transport.go), in one         *)
(* direction: a sending daemon and a receiving daemon with several calls   *)
(* between them, one libp2pTransport per call and daemon.                  *)
(*                                                                         *)
(* The receiving host puts the media streams of a peer into one queue, and *)
(* whichever transport waits there takes the next one.  A direct QUIC      *)
(* connection may come and go; when a transport has attached it, frames    *)
(* travel as datagrams instead of on the media stream.  A stream rides on  *)
(* the direct connection if there was one when it was opened, on a relay   *)
(* otherwise.  The control streams are queued and closed in the same way;  *)
(* what they carry is in MediaPath.                                        *)
(***************************************************************************)
EXTENDS Integers, FiniteSets, Sequences, SequencesExt

CONSTANTS Calls,       \* calls between the two daemons
          Earlier,     \* a sequence of calls that are over at the start
          MaxMedia,    \* bound: frames captured, over all calls
          MaxConns,    \* bound: direct connections that come up
          SendCap,     \* capacity of sendCh (16)
          RecvCap,     \* capacity of recvCh (16)
          InboundCap   \* capacity of a registry channel (8)

TransportConstants ==
    /\ {MaxMedia, MaxConns} \subseteq Nat
    /\ {SendCap, RecvCap, InboundCap} \subseteq Nat \ {0}
    /\ Earlier \in Seq(Calls) /\ IsInjective(Earlier)
    /\ Len(Earlier) <= InboundCap /\ Len(Earlier) <= MaxMedia
ASSUME TransportAssumption == TransportConstants

Paths == {"stream", "datagram"}
Ends == {"sender", "receiver"}
NoConn == 0
Frames == [call : Calls, n : 1 .. MaxMedia, via : Paths]

VARIABLES
    transport,  \* per end and call: the libp2pTransport
    sent,       \* frames handed to SendMedia; a frame is its number
    sendCh,     \* per call: the sender's queue
    sendPumpOn, \* per call: the sendPump goroutine runs
    stream,     \* per call: the sender's end of the media stream, and the connection under it
    data,       \* per call: media frames written and not yet read
    arriving,   \* calls with a stream opened whose handler has not deposited them
    inbound,    \* the registry channel for this peer: calls whose stream waits in it
    direct,     \* the number of the latest direct connection, and whether it is up
    dconn,      \* per end and call: the attached direct connection
    watching,   \* ends and calls whose datagramWatcher runs
    datagrams,  \* datagrams under way, each with its connection
    reader,     \* per call: the receiver's waitAndReadMediaLoop
    dgramPump,  \* calls whose recvPumpDatagram runs
    deliver,    \* per call and path: the deliverRecv in progress
    recvCh,     \* per call: the receiver's queue
    heard       \* history, per call: what RecvMedia returned

sendVars == <<sent, sendCh, sendPumpOn>>
streamVars == <<stream, data, arriving, inbound>>
directVars == <<direct, datagrams>>
attachVars == <<dconn, watching, dgramPump>>
recvVars == <<deliver, recvCh, heard>>
transportVars == <<transport, sendVars, streamVars, directVars, attachVars, reader, recvVars>>

Idle == [stage |-> "idle"]
Deliveries == [stage : {"try", "evict", "retry"}, frame : Frames] \cup {Idle}

TransportTypeOK ==
    /\ transport \in [Ends -> [Calls -> {"none", "open", "closed"}]]
    /\ sent \in 0 .. MaxMedia
    /\ sendCh \in [Calls -> Seq(1 .. MaxMedia)]
    /\ \A c \in Calls : Len(sendCh[c]) <= SendCap
    /\ sendPumpOn \subseteq Calls
    /\ stream \in [Calls ->
                     [state : {"unopened", "open", "closed", "reset"}, conn : 0 .. MaxConns]]
    /\ data \in [Calls -> Seq(Frames)]
    /\ arriving \subseteq Calls
    /\ inbound \in Seq(Calls) /\ Len(inbound) <= InboundCap
    /\ direct \in [conn : 0 .. MaxConns, up : BOOLEAN]
    /\ dconn \in [Ends -> [Calls -> 0 .. MaxConns]]
    /\ watching \subseteq Ends \X Calls
    /\ datagrams \subseteq [conn : 1 .. MaxConns, frame : Frames]
    /\ reader \in [Calls -> [state : {"none", "waiting", "exited"}]
                                        \cup [state : {"reading", "exited"}, of : Calls]]
    /\ dgramPump \subseteq Calls
    /\ deliver \in [Calls -> [Paths -> Deliveries]]
    /\ recvCh \in [Calls -> Seq(Frames)]
    /\ \A c \in Calls : Len(recvCh[c]) <= RecvCap
    /\ heard \in [Calls -> Seq(Frames)]

Sender(c) == transport["sender"][c]
Receiver(c) == transport["receiver"][c]
Reading(c) == reader[c].state = "reading"
StreamOf(c) == stream[reader[c].of]
-----------------------------------------------------------------------------
(* NewLibp2pTransport at the sender: it opens the streams and starts the   *)
(* goroutines.  When a stream cannot be opened there is no transport.      *)
NewSender(c) ==
    /\ Sender(c) = "none"
    /\ stream' = [stream EXCEPT ![c] =
                    [state |-> "open", conn |-> IF direct.up THEN direct.conn ELSE NoConn]]
    /\ arriving' = arriving \cup {c}
    /\ transport' = [transport EXCEPT !["sender"][c] = "open"]
    /\ sendPumpOn' = sendPumpOn \cup {c}
    /\ watching' = watching \cup {<<"sender", c>>}
    /\ UNCHANGED <<sent, sendCh, data, inbound, directVars, dconn, dgramPump,
                   reader, recvVars>>

(* NewLibp2pTransport at the receiver, as far as this direction goes.  It  *)
(* may never come to it: a device may fail, or the stream back.            *)
NewReceiver(c) ==
    /\ c \notin Range(Earlier) /\ Receiver(c) = "none"
    /\ transport' = [transport EXCEPT !["receiver"][c] = "open"]
    /\ reader' = [reader EXCEPT ![c] = [state |-> "waiting"]]
    /\ watching' = watching \cup {<<"receiver", c>>}
    /\ UNCHANGED <<sendVars, streamVars, directVars, dconn, dgramPump, recvVars>>

(* Faulty: resets a stream no transport waits for. *)
registerProtoUnbuffered(c) ==
    /\ c \in arriving /\ Len(inbound) < InboundCap
    /\ arriving' = arriving \ {c}
    /\ inbound' = IF \E k \in Calls : reader[k].state = "waiting"
                  THEN Append(inbound, c) ELSE inbound
    /\ UNCHANGED <<transport, sendVars, stream, data, directVars, attachVars,
                   reader, recvVars>>

(* The handler registerProto installed: it blocks while the channel is full. *)
registerProto(c) ==
    /\ c \in arriving /\ Len(inbound) < InboundCap
    /\ arriving' = arriving \ {c}
    /\ inbound' = Append(inbound, c)
    /\ UNCHANGED <<transport, sendVars, stream, data, directVars, attachVars,
                   reader, recvVars>>
-----------------------------------------------------------------------------
(* SendMedia, called by the sender's pipeline: a full queue drops the frame. *)
SendMedia(c) ==
    /\ Sender(c) = "open" /\ sent < MaxMedia
    /\ sent' = sent + 1
    /\ sendCh' = IF Len(sendCh[c]) < SendCap
                 THEN [sendCh EXCEPT ![c] = Append(@, sent')]
                 ELSE sendCh
    /\ UNCHANGED <<transport, sendPumpOn, streamVars, directVars, attachVars,
                   reader, recvVars>>

(* sendPump takes the datagram path if one is attached, the stream         *)
(* otherwise.  Errors of SendDatagram and writeFramedMedia are dropped,    *)
(* and the frame with them; a datagram may also be lost under way.         *)
Alive(conn) == direct.up /\ direct.conn = conn
AsDatagram(c, n) == [conn  |-> dconn["sender"][c],
                     frame |-> [call |-> c, n |-> n, via |-> "datagram"]]

SendOnDatagram(c) ==
    /\ \/ /\ Alive(dconn["sender"][c])
          /\ datagrams' = datagrams \cup {AsDatagram(c, Head(sendCh[c]))}
       \/ UNCHANGED datagrams
    /\ UNCHANGED data

SendOnStream(c) ==
    /\ data' = IF stream[c].state = "open"
               THEN [data EXCEPT ![c] = Append(@, [call |-> c, n |-> Head(sendCh[c]),
                                                   via |-> "stream"])]
               ELSE data
    /\ UNCHANGED datagrams

(* Faulty: falls through to the stream after the datagram. *)
RouteBoth(c) ==
    /\ datagrams' = IF dconn["sender"][c] # NoConn
                    THEN datagrams \cup {AsDatagram(c, Head(sendCh[c]))} ELSE datagrams
    /\ data' = [data EXCEPT ![c] = Append(@, [call |-> c, n |-> Head(sendCh[c]),
                                              via |-> "stream"])]

Route(c) == IF dconn["sender"][c] # NoConn THEN SendOnDatagram(c) ELSE SendOnStream(c)

sendPump(c) ==
    /\ c \in sendPumpOn /\ sendCh[c] # <<>>
    /\ Route(c)
    /\ sendCh' = [sendCh EXCEPT ![c] = Tail(@)]
    /\ UNCHANGED <<transport, sent, sendPumpOn, stream, arriving, inbound, direct,
                   attachVars, reader, recvVars>>

sendPumpExits(c) ==
    /\ c \in sendPumpOn /\ Sender(c) = "closed"
    /\ sendPumpOn' = sendPumpOn \ {c}
    /\ UNCHANGED <<transport, sent, sendCh, streamVars, directVars, attachVars,
                   reader, recvVars>>
-----------------------------------------------------------------------------
(* datagramWatcher: it may still attach after Close, when the timer and    *)
(* the context are both ready; the pump then ends at once.                 *)
tryAttachDatagram(e, c) ==
    /\ <<e, c>> \in watching /\ direct.up
    /\ dconn' = [dconn EXCEPT ![e][c] = direct.conn]
    /\ watching' = watching \ {<<e, c>>}
    /\ dgramPump' = IF e = "receiver" THEN dgramPump \cup {c} ELSE dgramPump
    /\ UNCHANGED <<transport, sendVars, streamVars, directVars, reader, recvVars>>

datagramWatcherExits(e, c) ==
    /\ <<e, c>> \in watching /\ transport[e][c] = "closed"
    /\ watching' = watching \ {<<e, c>>}
    /\ UNCHANGED <<transport, sendVars, streamVars, directVars, dconn, dgramPump,
                   reader, recvVars>>

(* The library: a hole punch succeeds; a direct connection is lost with    *)
(* the streams on it.                                                      *)
DirectUp ==
    /\ ~direct.up /\ direct.conn < MaxConns
    /\ direct' = [conn |-> direct.conn + 1, up |-> TRUE]
    /\ UNCHANGED <<transport, sendVars, streamVars, datagrams, attachVars, reader,
                   recvVars>>

DirectDown ==
    /\ direct.up
    /\ direct' = [direct EXCEPT !.up = FALSE]
    /\ stream' = [s \in Calls |->
                    IF stream[s].conn = direct.conn
                    THEN [stream[s] EXCEPT !.state = "reset"] ELSE stream[s]]
    /\ UNCHANGED <<transport, sendVars, data, arriving, inbound, datagrams, attachVars,
                   reader, recvVars>>
-----------------------------------------------------------------------------
(* waitAndReadMediaLoop: take the next stream of the peer, or give up when *)
(* the transport is closed.                                                *)
TakeStream(c) ==
    /\ reader[c].state = "waiting" /\ inbound # <<>>
    /\ reader' = [reader EXCEPT ![c] = [state |-> "reading", of |-> Head(inbound)]]
    /\ inbound' = Tail(inbound)
    /\ UNCHANGED <<transport, sendVars, stream, data, arriving, directVars, attachVars,
                   recvVars>>

(* Faulty: nothing force-closes the stream when the transport closes. *)
UnblockedByPeerOnly(c) ==
    \/ Receiver(c) = "closed" /\ reader[c].state = "waiting"
    \/ /\ Reading(c)
       /\ \/ StreamOf(c).state = "reset"
          \/ StreamOf(c).state = "closed" /\ data[reader[c].of] = <<>>

(* The loop ends: closed before a stream came; the stream was force-closed *)
(* when the transport was; its end was read; or it was reset.              *)
Unblocked(c) ==
    \/ Receiver(c) = "closed"
    \/ /\ Reading(c)
       /\ \/ StreamOf(c).state = "reset"
          \/ StreamOf(c).state = "closed" /\ data[reader[c].of] = <<>>

ReaderExits(c) ==
    /\ reader[c].state \in {"waiting", "reading"}
    /\ deliver[c]["stream"] = Idle
    /\ Unblocked(c)
    /\ reader' = [reader EXCEPT ![c].state = "exited"]
    /\ UNCHANGED <<transport, sendVars, streamVars, directVars, attachVars, recvVars>>

recvPumpStream(c) ==
    /\ Reading(c) /\ deliver[c]["stream"] = Idle
    /\ StreamOf(c).state # "reset"
    /\ LET s == reader[c].of IN
         /\ data[s] # <<>>
         /\ deliver' = [deliver EXCEPT ![c]["stream"] = [stage |-> "try",
                                                         frame |-> Head(data[s])]]
         /\ data' = [data EXCEPT ![s] = Tail(@)]
    /\ UNCHANGED <<transport, sendVars, stream, arriving, inbound, directVars,
                   attachVars, reader, recvCh, heard>>

recvPumpDatagram(c, d) ==
    /\ c \in dgramPump /\ deliver[c]["datagram"] = Idle
    /\ d \in datagrams /\ d.conn = dconn["receiver"][c]
    /\ deliver' = [deliver EXCEPT ![c]["datagram"] = [stage |-> "try", frame |-> d.frame]]
    /\ datagrams' = datagrams \ {d}
    /\ UNCHANGED <<transport, sendVars, streamVars, direct, attachVars, reader, recvCh,
                   heard>>

recvPumpDatagramExits(c) ==
    /\ c \in dgramPump /\ deliver[c]["datagram"] = Idle
    /\ Receiver(c) = "closed" \/ ~Alive(dconn["receiver"][c])
    /\ dgramPump' = dgramPump \ {c}
    /\ UNCHANGED <<transport, sendVars, streamVars, directVars, dconn, watching, reader,
                   recvVars>>
-----------------------------------------------------------------------------
(* deliverRecv is three selects: push; on a full queue pop the oldest;     *)
(* push again or give up.  The other pump and RecvMedia run in between.    *)
HasRoom(c) == Len(recvCh[c]) < RecvCap
PushRecv(c, path) ==
    /\ recvCh' = [recvCh EXCEPT ![c] = Append(@, deliver[c][path].frame)]
    /\ deliver' = [deliver EXCEPT ![c][path] = Idle]

(* Faulty: leaves the oldest frame where it is. *)
EvictNothing(c, path) ==
    /\ deliver' = [deliver EXCEPT ![c][path].stage = "retry"]
    /\ UNCHANGED recvCh

Evict(c, path) ==
    /\ recvCh' = [recvCh EXCEPT ![c] = IF @ = <<>> THEN @ ELSE Tail(@)]
    /\ deliver' = [deliver EXCEPT ![c][path].stage = "retry"]

deliverRecv(c, path) ==
    /\ \/ /\ deliver[c][path].stage \in {"try", "retry"} /\ HasRoom(c)
          /\ PushRecv(c, path)
       \/ /\ deliver[c][path].stage = "try" /\ ~HasRoom(c)
          /\ deliver' = [deliver EXCEPT ![c][path].stage = "evict"]
          /\ UNCHANGED recvCh
       \/ /\ deliver[c][path].stage = "evict"
          /\ Evict(c, path)
       \/ /\ deliver[c][path].stage = "retry" /\ ~HasRoom(c)
          /\ deliver' = [deliver EXCEPT ![c][path] = Idle]
          /\ UNCHANGED recvCh
    /\ UNCHANGED <<transport, sendVars, streamVars, directVars, attachVars, reader, heard>>

(* RecvMedia, called by the pipeline until the session closes. *)
RecvMedia(c) ==
    /\ Receiver(c) = "open" /\ recvCh[c] # <<>>
    /\ heard' = [heard EXCEPT ![c] = Append(@, Head(recvCh[c]))]
    /\ recvCh' = [recvCh EXCEPT ![c] = Tail(@)]
    /\ UNCHANGED <<transport, sendVars, streamVars, directVars, attachVars, reader,
                   deliver>>

(* Close: cancels the context and closes the outgoing streams. *)
Close(e, c) ==
    /\ transport[e][c] = "open"
    /\ transport' = [transport EXCEPT ![e][c] = "closed"]
    /\ stream' = IF e = "sender" /\ stream[c].state = "open"
                 THEN [stream EXCEPT ![c].state = "closed"] ELSE stream
    /\ UNCHANGED <<sendVars, data, arriving, inbound, directVars, attachVars, reader,
                   recvVars>>
-----------------------------------------------------------------------------
(* The registry starts out empty, or with the streams of earlier calls     *)
(* that ended before their receiver had a transport, a frame in each.      *)
Left(c) == [call |-> c, n |-> CHOOSE i \in DOMAIN Earlier : Earlier[i] = c,
            via |-> "stream"]

InitWith(queue) ==
    LET over == Range(Earlier)
        left == Range(queue)
    IN  /\ transport = [e \in Ends |-> [c \in Calls |->
             IF c \in over /\ ~(e = "receiver" /\ c \in left) THEN "closed" ELSE "none"]]
        /\ stream = [c \in Calls |-> [state |-> IF c \in over THEN "closed" ELSE "unopened",
                                      conn  |-> NoConn]]
        /\ data = [c \in Calls |-> IF c \in left THEN <<Left(c)>> ELSE <<>>]
        /\ inbound = queue /\ sent = Len(queue)
        /\ reader = [c \in Calls |-> IF c \in over \ left
                                     THEN [state |-> "exited", of |-> c]
                                     ELSE [state |-> "none"]]

TransportInit ==
    /\ \E queue \in {<<>>, Earlier} : InitWith(queue)
    /\ sendCh = [c \in Calls |-> <<>>]
    /\ sendPumpOn = {} /\ arriving = {}
    /\ direct = [conn |-> NoConn, up |-> FALSE]
    /\ dconn = [e \in Ends |-> [c \in Calls |-> NoConn]]
    /\ watching = {} /\ dgramPump = {} /\ datagrams = {}
    /\ deliver = [c \in Calls |-> [path \in Paths |-> Idle]]
    /\ recvCh = [c \in Calls |-> <<>>] /\ heard = [c \in Calls |-> <<>>]

Goroutine(c) ==
    \/ sendPump(c) \/ sendPumpExits(c) \/ recvPumpStream(c) \/ recvPumpDatagramExits(c)
    \/ \E d \in datagrams : recvPumpDatagram(c, d)
    \/ \E e \in Ends : tryAttachDatagram(e, c) \/ datagramWatcherExits(e, c)
    \/ registerProto(c) \/ TakeStream(c) \/ ReaderExits(c)
    \/ \E path \in Paths : deliverRecv(c, path)

User(c) ==
    \/ NewSender(c) \/ NewReceiver(c) \/ SendMedia(c) \/ RecvMedia(c)
    \/ \E e \in Ends : Close(e, c)

Network == DirectUp \/ DirectDown

TransportNext == Network \/ \E c \in Calls : Goroutine(c) \/ User(c)

TransportSpec == TransportInit /\ [][TransportNext]_transportVars

(* Every goroutine of a transport and every stream handler gets to run. *)
TransportFairness ==
    \A c \in Calls :
      /\ WF_transportVars(sendPump(c) \/ sendPumpExits(c))
      /\ \A e \in Ends : WF_transportVars(tryAttachDatagram(e, c) \/ datagramWatcherExits(e, c))
      /\ WF_transportVars(registerProto(c))
      /\ WF_transportVars(\/ TakeStream(c) \/ ReaderExits(c)
                          \/ recvPumpStream(c) \/ deliverRecv(c, "stream"))
      /\ WF_transportVars(\/ \E d \in datagrams : recvPumpDatagram(c, d)
                          \/ recvPumpDatagramExits(c) \/ deliverRecv(c, "datagram"))

TransportFairSpec == TransportSpec /\ TransportFairness
-----------------------------------------------------------------------------
(* Over all calls, RecvMedia never returns a frame twice, and what came    *)
(* over a media stream comes out in the order in which it was sent, even   *)
(* while sendPump moves between the paths, deliverRecv evicts, and a       *)
(* transport reads a stream that another call left in the registry.        *)
Heard == {h \in Calls \X (1 .. MaxMedia) : h[2] <= Len(heard[h[1]])}
FrameAt(h) == heard[h[1]][h[2]]
SameStream(g, h) == g[1] = h[1] /\ {FrameAt(g).via, FrameAt(h).via} = {"stream"}

HeardOnceInOrder ==
    \A g, h \in Heard : g # h =>
        /\ FrameAt(g).n # FrameAt(h).n
        /\ SameStream(g, h) /\ g[2] < h[2] => FrameAt(g).n < FrameAt(h).n

(* deliverRecv gives up a fresh frame only for one that the other path     *)
(* has just delivered, never for a stale one of its own.                   *)
FreshFrameKept ==
    [][\A c \in Calls, path \in Paths :
         /\ deliver[c][path].stage = "retry" /\ deliver'[c][path] = Idle
         /\ recvCh'[c] = recvCh[c]
         => Last(recvCh[c]).via # path]_transportVars

(* The order in which the two daemons create their transports does not     *)
(* matter: a stream that was opened does not stay untaken while a          *)
(* transport waits for one (audio/transport.go:32).                        *)
Untaken(c) ==
    /\ stream[c].state = "open"
    /\ \A k \in Calls : "of" \in DOMAIN reader[k] => reader[k].of # c
SomeoneWaits == \E k \in Calls : reader[k].state = "waiting"

StreamsAreTaken ==
    \A c \in Calls :
        Untaken(c) /\ SomeoneWaits ~> ~Untaken(c) \/ ~SomeoneWaits

(* Close ends every goroutine of the transport, also those blocked reading *)
(* a stream that the peer keeps open, and a pump attached during Close.    *)
Stopped(e, c) ==
    /\ <<e, c>> \notin watching
    /\ e = "sender" => c \notin sendPumpOn
    /\ e = "receiver" => /\ c \notin dgramPump
                         /\ reader[c].state = "exited"
                         /\ \A path \in Paths : deliver[c][path] = Idle

CloseStopsGoroutines ==
    \A e \in Ends, c \in Calls : transport[e][c] = "closed" ~> Stopped(e, c)

=============================================================================
