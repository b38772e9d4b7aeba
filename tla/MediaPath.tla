------------------------------ MODULE MediaPath ------------------------------
(***************************************************************************)
(* One direction of a call's audio: the sender's Pipeline.onCapture and    *)
(* SetMuted, the media and control transport, the receiver's               *)
(* Pipeline.recvLoop with its jitter buffer, and onPull of its sink        *)
(* (audio/pipeline.go, audio/jitter.go, audio/session.go).                 *)
(*                                                                         *)
(* A packet's payload is its number in the order of capture; its sequence  *)
(* number is that number on the circle of 2*Half values.  Media may be     *)
(* lost, reordered and duplicated, as the hybrid transport says it may     *)
(* while the sender moves from the media stream to datagrams; the control  *)
(* stream is reliable and in order.  The statistics sent on it once a      *)
(* second are left out.                                                    *)
(***************************************************************************)
EXTENDS JitterBuffer, Sequences

CONSTANTS MaxPackets,   \* bound: packets captured
          MaxFlight,    \* bound: how far a packet in the network can fall behind
          MaxLost,      \* bound: packets lost
          MaxDups,      \* bound: copies that arrive besides the first
          MaxToggles,   \* bound: mute requests
          PullCap       \* capacity of Pipeline.pullQ (4)

ASSUME MediaAssumption ==
    /\ MaxPackets \in Nat /\ MaxFlight \in Nat /\ MaxLost \in Nat
    /\ MaxDups \in Nat /\ MaxToggles \in Nat
    /\ PullCap \in Nat \ {0}
    /\ Packets = 1 .. MaxPackets

(* The packets under way, their copies, those lost and the pre-roll stay   *)
(* well within half the sequence space (32768 packets).                    *)
WindowFits ==
    /\ MaxFlight >= 1 /\ 2 * MaxFlight + MaxDups <= Half
    /\ MaxFlight + MaxLost + TargetFrames < Half

VARIABLES
    txSeq,       \* Pipeline.txSeq before truncation: packets captured
    muted,       \* the sender's Pipeline.muted
    toggles,     \* mute requests so far
    flight,      \* packets in the network, in one or more copies
    lost,        \* packets lost so far
    dups,        \* copies received while another one was still under way
    notices,     \* mute requests that have set the flag and not yet told the peer
    wire,        \* mute messages on the control stream
    control,     \* the receiver's controlCh
    peerMuted,   \* the receiver's statsCore.peerMuted
    pullQ,       \* decoded frames waiting for the sink; 0 is a concealed one
    pulled       \* history: the last packet played

mediaVars == <<jb, txSeq, muted, toggles, notices, flight, lost, dups, wire,
               control, peerMuted, pullQ, pulled>>
senderVars == <<txSeq, muted, toggles, notices>>
networkVars == <<flight, lost, dups, wire>>
receiverVars == <<jb, control, peerMuted>>
playVars == <<pullQ, pulled>>

Concealed == 0
SeqNumber(n) == n % (2 * Half)

MediaTypeOK ==
    /\ TypeOK
    /\ txSeq \in 0 .. MaxPackets
    /\ muted \in BOOLEAN
    /\ toggles \in 0 .. MaxToggles
    /\ notices \subseteq [request : 1 .. MaxToggles, value : BOOLEAN]
    /\ flight \subseteq Packets
    /\ lost \in 0 .. MaxLost /\ dups \in 0 .. MaxDups
    /\ wire \in Seq(BOOLEAN)
    /\ control \in Seq(BOOLEAN)
    /\ peerMuted \in BOOLEAN
    /\ pullQ \in Seq(Packets \cup {Concealed}) /\ Len(pullQ) <= PullCap
    /\ pulled \in 0 .. MaxPackets
-----------------------------------------------------------------------------
(* onCapture: a muted source sends nothing and uses no sequence number. *)
onCapture ==
    /\ ~muted /\ txSeq < MaxPackets
    /\ \A n \in flight : txSeq + 1 - n < MaxFlight
    /\ txSeq' = txSeq + 1
    /\ flight' = flight \cup {txSeq'}
    /\ UNCHANGED <<muted, toggles, notices, lost, dups, wire, playVars, receiverVars>>

(* Session.SetMuted, of one IPC request: first the pipeline's flag ... *)
SetMuted(b) ==
    /\ toggles < MaxToggles
    /\ toggles' = toggles + 1
    /\ muted' = b
    /\ notices' = notices \cup {[request |-> toggles', value |-> b]}
    /\ UNCHANGED <<txSeq, networkVars, playVars, receiverVars>>

(* ... then the control message; requests may overtake each other here. *)
SendControl(m) ==
    /\ m \in notices
    /\ notices' = notices \ {m}
    /\ wire' = Append(wire, m.value)
    /\ UNCHANGED <<txSeq, muted, toggles, flight, lost, dups, playVars, receiverVars>>

(* One turn of the peer's waitAndReadControlLoop. *)
readControl ==
    /\ wire # << >>
    /\ wire' = Tail(wire)
    /\ control' = Append(control, Head(wire))
    /\ UNCHANGED <<senderVars, flight, lost, dups, playVars, jb, peerMuted>>

Lose(n) ==
    /\ n \in flight /\ lost < MaxLost
    /\ flight' = flight \ {n}
    /\ lost' = lost + 1
    /\ UNCHANGED <<senderVars, dups, wire, playVars, receiverVars>>

(* The frame Pop returned, or the concealment Decode makes from nil. *)
Decoded(frames) == IF frames = {} THEN Concealed ELSE CHOOSE n \in frames : TRUE

(* The oldest frame makes room in a full pullQ. *)
Enqueue(q, f) == Append(IF Len(q) >= PullCap THEN Tail(q) ELSE q, f)

(* One turn of recvLoop, with the last copy of n or with another one still *)
(* to come: Push, Pop, decode, enqueue, and at most one control message.   *)
recvLoop(n) ==
    LET pushed == Push(jb, SeqNumber(n), n)
    IN  /\ n \in flight
        /\ \/ flight' = flight \ {n} /\ UNCHANGED dups
           \/ dups < MaxDups /\ dups' = dups + 1 /\ UNCHANGED flight
        /\ jb' = Pop(pushed)
        /\ pullQ' = Enqueue(pullQ, Decoded(PopFrame(pushed)))
        /\ IF control = << >> THEN UNCHANGED <<control, peerMuted>>
           ELSE control' = Tail(control) /\ peerMuted' = Head(control)
        /\ UNCHANGED <<senderVars, lost, wire, pulled>>

(* onPull: the sink takes the next frame, or silence. *)
onPull ==
    /\ pullQ # << >>
    /\ pullQ' = Tail(pullQ)
    /\ pulled' = IF Head(pullQ) = Concealed THEN pulled ELSE Head(pullQ)
    /\ UNCHANGED <<senderVars, networkVars, receiverVars>>
-----------------------------------------------------------------------------
MediaInit ==
    /\ Init
    /\ txSeq = 0 /\ muted = FALSE /\ toggles = 0
    /\ notices = {} /\ flight = {} /\ lost = 0 /\ dups = 0 /\ wire = << >>
    /\ control = << >> /\ peerMuted = FALSE
    /\ pullQ = << >> /\ pulled = 0

MediaNext ==
    \/ onCapture \/ onPull \/ readControl
    \/ \E b \in BOOLEAN : SetMuted(b)
    \/ \E m \in notices : SendControl(m)
    \/ \E n \in flight : Lose(n) \/ recvLoop(n)

MediaSpec     == MediaInit /\ [][MediaNext]_mediaVars
-----------------------------------------------------------------------------
(* What the user hears is in the order it was captured, across reordering, *)
(* loss, duplicates, overflow of either queue and the wrap-around of the   *)
(* sequence numbers: no packet is played twice, not even twice in a row,   *)
(* or after a later one.                                                   *)
PlayoutInOrder == [][onPull /\ Head(pullQ) # Concealed => Head(pullQ) > pulled]_mediaVars
=============================================================================
