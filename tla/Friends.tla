------------------------------ MODULE Friends ------------------------------
(***************************************************************************)
(* The friends of one daemon and whether they are online: friends.Store    *)
(* (friends/store.go), friends.Presence (presence.go), the connection      *)
(* notifications of the host that drive it (transport/p2p/host.go), and    *)
(* the friends.* methods with their presence subscriptions                 *)
(* (ipc/methods/friends.go).                                               *)
(*                                                                         *)
(* libp2p adds a connection before it notifies Connected and removes it    *)
(* before it notifies Disconnected; the two notifications of one           *)
(* connection do not overlap, those of different connections do.           *)
(***************************************************************************)
EXTENDS Integers, FiniteSets

CONSTANTS Peers, Names,
          Conns,          \* connections
          PeerOf,         \* PeerOf[c]: the remote peer of c
          Subs,           \* clients that subscribe to presence
          SubCap,         \* capacity of a subscriber's channel (16)
          MaxFaults       \* bound on failing writes and restarts

ASSUME ConnsAssumption == PeerOf \in [Conns -> Peers]
ASSUME BoundsAssumption == SubCap \in Nat \ {0} /\ MaxFaults \in Nat

Entries == [name : Names, peer : Peers]

VARIABLES
    friends,    \* Store.friends
    disk,       \* the friends file
    faults,     \* failed writes and restarts so far (bound)
    open,       \* connections of the swarm
    note,       \* note[c]: position in the notifications of c
    online,     \* peers whose Presence.online is true
    known,      \* keys of Presence.online
    client,     \* client[s]: its connection and its forwarder
    subs,       \* keys of Presence.subs
    queued,     \* queued[s]: events in the channel of s
    net,        \* net[s][p]: online minus offline events put there (ghost)
    lossy,      \* subscribers whose channel has overflowed (ghost)
    excused     \* see PresenceAgrees (ghost)

storeVars == <<friends, disk, faults>>
connVars == <<open, note>>
presVars == <<online, known>>
subVars == <<client, subs, queued, net, lossy>>
vars == <<friends, disk, faults, open, note, online, known,
          client, subs, queued, net, lossy, excused>>

Notes == {"none", "connected", "markOn", "tellOn", "settled",
          "disconnected", "markOff", "tellOff"}

TypeOK ==
    /\ friends \subseteq Entries /\ disk \subseteq Entries /\ faults \in Nat
    /\ open \subseteq Conns /\ note \in [Conns -> Notes]
    /\ online \subseteq known /\ known \subseteq Peers
    /\ client \in [Subs -> {"away", "here", "gone"}]
    /\ subs \subseteq Subs
    /\ queued \in [Subs -> 0 .. SubCap]
    /\ net \in [Subs -> [Peers -> Int]]
    /\ lossy \subseteq Subs /\ excused \subseteq Peers
-----------------------------------------------------------------------------
(* The store. *)

(* persistLocked, with the new list already in memory: the write fails, or *)
(* replaces the file.  The error leaves the memory as it is.               *)
persistLocked(list) ==
    /\ friends' = list
    /\ \/ disk' = list /\ UNCHANGED faults
       \/ faults < MaxFaults /\ faults' = faults + 1 /\ UNCHANGED disk

(* Connections to p, or notifications about them that are still running. *)
ConnsTo(p) == {c \in open : PeerOf[c] = p}
Busy(p) == \E c \in Conns : PeerOf[c] = p /\ note[c] \notin {"none", "settled"}
Present(p) == ConnsTo(p) # {} \/ \E c \in Conns : PeerOf[c] = p /\ note[c] # "none"

(* ErrFriendNameTaken or ErrFriendPeerIDTaken. *)
Taken(n, p) == \E f \in friends : f.name = n \/ f.peer = p

(* friends.add, once the public key was read, and Store.Add by an accepted *)
(* invite.                                                                 *)
Add(n, p) ==
    /\ ~Taken(n, p)
    /\ persistLocked(friends \cup {[name |-> n, peer |-> p]})
    /\ excused' = IF Present(p) THEN excused \cup {p} ELSE excused
    /\ UNCHANGED <<connVars, presVars, subVars>>

(* friends.remove: Store.Remove; presence is not told. *)
Remove(n) ==
    \E f \in friends :
       /\ f.name = n
       /\ persistLocked(friends \ {f})
       /\ excused' = IF Present(f.peer) THEN excused \cup {f.peer} ELSE excused
       /\ UNCHANGED <<connVars, presVars, subVars>>

(* friends.rename: Store.Rename. *)
Rename(n, m) ==
    /\ ~\E f \in friends : f.name = m
    /\ \E f \in friends :
          /\ f.name = n
          /\ persistLocked((friends \ {f}) \cup {[f EXCEPT !.name = m]})
    /\ UNCHANGED <<connVars, presVars, subVars, excused>>

GetByPeerID(p) == \E f \in friends : f.peer = p
-----------------------------------------------------------------------------
(* Presence. *)

(* Faulty: a call that changes nothing is broadcast as well. *)
transitionAlways(c, on) ==
    LET p == PeerOf[c]
    IN IF p \notin known /\ ~on
       THEN /\ note' = [note EXCEPT ![c] = "none"]
            /\ UNCHANGED presVars
       ELSE /\ known' = known \cup {p}
            /\ online' = IF on THEN online \cup {p} ELSE online \ {p}
            /\ note' = [note EXCEPT ![c] = IF on THEN "tellOn" ELSE "tellOff"]

(* transition under mu; changed is what is broadcast after the unlock. *)
transition(c, on) ==
    LET p == PeerOf[c]
        changed == (p \in online) # on
    IN IF p \notin known /\ ~on
       THEN /\ note' = [note EXCEPT ![c] = "none"]
            /\ UNCHANGED presVars
       ELSE /\ known' = known \cup {p}
            /\ online' = IF on THEN online \cup {p} ELSE online \ {p}
            /\ note' = [note EXCEPT ![c] =
                          IF changed THEN (IF on THEN "tellOn" ELSE "tellOff")
                          ELSE IF on THEN "settled" ELSE "none"]

(* broadcast, under subsMu: a full channel misses the event. *)
broadcast(c, on) ==
    LET room == {s \in subs : queued[s] < SubCap}
        d == IF on THEN 1 ELSE -1
    IN /\ queued' = [s \in Subs |-> IF s \in room THEN queued[s] + 1 ELSE queued[s]]
       /\ net' = [s \in Subs |-> IF s \in room \ lossy
                                 THEN [net[s] EXCEPT ![PeerOf[c]] = @ + d] ELSE net[s]]
       /\ lossy' = lossy \cup (subs \ room)
       /\ note' = [note EXCEPT ![c] = IF on THEN "settled" ELSE "none"]
       /\ UNCHANGED <<client, subs>>
-----------------------------------------------------------------------------
(* The host: connections come and go, one notification at a time for each. *)

ConnUp(c) ==
    /\ c \notin open /\ note[c] = "none"
    /\ open' = open \cup {c}
    /\ note' = [note EXCEPT ![c] = "connected"]
    /\ UNCHANGED <<storeVars, presVars, subVars, excused>>

ConnDown(c) ==
    /\ c \in open
    /\ open' = open \ {c}
    /\ UNCHANGED <<storeVars, note, presVars, subVars, excused>>

(* The filter of Connected: strangers are ignored. *)
Connected(c) ==
    /\ note[c] = "connected"
    /\ note' = [note EXCEPT ![c] = IF GetByPeerID(PeerOf[c]) THEN "markOn" ELSE "settled"]
    /\ UNCHANGED <<storeVars, open, presVars, subVars, excused>>

MarkOnline(c) ==
    /\ note[c] = "markOn"
    /\ transition(c, TRUE)
    /\ excused' = IF \E d \in Conns : PeerOf[d] = PeerOf[c] /\ note[d] = "markOff"
                  THEN excused \cup {PeerOf[c]} ELSE excused
    /\ UNCHANGED <<storeVars, open, subVars>>

(* Disconnected follows Connected of the same connection. *)
DisconnectedStart(c) ==
    /\ note[c] = "settled" /\ c \notin open
    /\ note' = [note EXCEPT ![c] = "disconnected"]
    /\ UNCHANGED <<storeVars, open, presVars, subVars, excused>>

(* Faulty: every connection that goes away marks the peer offline. *)
DisconnectedAny(c) ==
    /\ note[c] = "disconnected"
    /\ note' = [note EXCEPT ![c] = IF GetByPeerID(PeerOf[c]) THEN "markOff" ELSE "none"]
    /\ UNCHANGED <<storeVars, open, presVars, subVars, excused>>

(* The filter and the check for other connections. *)
Disconnected(c) ==
    /\ note[c] = "disconnected"
    /\ note' = [note EXCEPT ![c] = IF GetByPeerID(PeerOf[c]) /\ ConnsTo(PeerOf[c]) = {}
                                   THEN "markOff" ELSE "none"]
    /\ UNCHANGED <<storeVars, open, presVars, subVars, excused>>

MarkOffline(c) ==
    /\ note[c] = "markOff"
    /\ transition(c, FALSE)
    /\ UNCHANGED <<storeVars, open, subVars, excused>>

Tell(c) ==
    /\ \/ note[c] = "tellOn" /\ broadcast(c, TRUE)
       \/ note[c] = "tellOff" /\ broadcast(c, FALSE)
    /\ UNCHANGED <<storeVars, open, presVars, excused>>
-----------------------------------------------------------------------------
(* friends.subscribe_presence and its forwarder. *)

(* Changes made under mu and not yet broadcast, as a number. *)
Untold(p) == Cardinality({c \in Conns : PeerOf[c] = p /\ note[c] = "tellOn"})
             - Cardinality({c \in Conns : PeerOf[c] = p /\ note[c] = "tellOff"})
Now(p) == IF p \in online THEN 1 ELSE 0

Subscribe(s) ==
    /\ client[s] = "away"
    /\ client' = [client EXCEPT ![s] = "here"]
    /\ subs' = subs \cup {s}
    /\ net' = [net EXCEPT ![s] = [p \in Peers |-> Now(p) - Untold(p)]]
    /\ UNCHANGED <<storeVars, connVars, presVars, queued, lossy, excused>>

(* The client closes its connection: conn.Done. *)
Disconnect(s) ==
    /\ client[s] = "here"
    /\ client' = [client EXCEPT ![s] = "gone"]
    /\ UNCHANGED <<storeVars, connVars, presVars, subs, queued, net, lossy, excused>>

(* EmitEvent; after Done it fails and the error is ignored. *)
forward(s) ==
    /\ s \in subs /\ queued[s] > 0
    /\ queued' = [queued EXCEPT ![s] = @ - 1]
    /\ UNCHANGED <<storeVars, connVars, presVars, client, subs, net, lossy, excused>>

(* Faulty: the forwarder returns and leaves its channel in subs. *)
forwarderLeaves(s) ==
    /\ s \in subs /\ client[s] = "gone"
    /\ queued' = [queued EXCEPT ![s] = 0]
    /\ UNCHANGED <<storeVars, connVars, presVars, client, subs, net, lossy, excused>>

(* The forwarder chooses Done and runs its deferred Unsubscribe. *)
forwarderDone(s) ==
    /\ s \in subs /\ client[s] = "gone"
    /\ subs' = subs \ {s}
    /\ queued' = [queued EXCEPT ![s] = 0]
    /\ net' = [net EXCEPT ![s] = [p \in Peers |-> 0]]
    /\ lossy' = lossy \ {s}
    /\ UNCHANGED <<storeVars, connVars, presVars, client, excused>>

(* The daemon stops and starts again: Open reads the file, NewPresence     *)
(* knows nobody, all connections are gone.                                 *)
Restart ==
    /\ faults < MaxFaults /\ faults' = faults + 1
    /\ friends' = disk
    /\ open' = {} /\ note' = [c \in Conns |-> "none"]
    /\ online' = {} /\ known' = {}
    /\ client' = [s \in Subs |-> IF client[s] = "here" THEN "gone" ELSE client[s]]
    /\ subs' = {} /\ queued' = [s \in Subs |-> 0]
    /\ excused' = {}
    /\ UNCHANGED <<disk, net, lossy>>
-----------------------------------------------------------------------------
Init ==
    /\ friends = {} /\ disk = {} /\ faults = 0
    /\ open = {} /\ note = [c \in Conns |-> "none"]
    /\ online = {} /\ known = {}
    /\ client = [s \in Subs |-> "away"] /\ subs = {}
    /\ queued = [s \in Subs |-> 0]
    /\ net = [s \in Subs |-> [p \in Peers |-> 0]]
    /\ lossy = {} /\ excused = {}

NoteStep(c) ==
    \/ Connected(c) \/ MarkOnline(c) \/ DisconnectedStart(c)
    \/ Disconnected(c) \/ MarkOffline(c) \/ Tell(c)

Next ==
    \/ \E n \in Names, p \in Peers : Add(n, p)
    \/ \E n \in Names : Remove(n)
    \/ \E n, m \in Names : Rename(n, m)
    \/ \E c \in Conns : ConnUp(c) \/ ConnDown(c) \/ NoteStep(c)
    \/ \E s \in Subs : Subscribe(s) \/ Disconnect(s) \/ forward(s) \/ forwarderDone(s)
    \/ Restart

(* The forwarder runs; its select, with both cases ready again and again,  *)
(* does not pass over Done forever.                                        *)
Fairness == \A s \in Subs : WF_vars(forward(s)) /\ SF_vars(forwarderDone(s))

Spec     == Init /\ [][Next]_vars
FairSpec == Spec /\ Fairness
-----------------------------------------------------------------------------
(* What friends.list shows. *)
FriendsList == {[name |-> f.name, peer |-> f.peer, online |-> f.peer \in online] : f \in friends}

(* When no notification about a friend is running, friends.list shows it   *)
(* online exactly while there is a connection to it, however its           *)
(* connections overlapped.  The code has two gaps, which excuse a peer:    *)
(* it was added or removed while connected (the filter hides its           *)
(* notifications), or a new connection marked it online after the last one *)
(* had found none left and before that marked it offline.                  *)
PresenceAgrees ==
    \A row \in FriendsList :
        ~Busy(row.peer) /\ row.peer \notin excused
          /\ (\A c \in Conns : PeerOf[c] = row.peer /\ note[c] = "settled" => c \in open)
            => (row.online <=> ConnsTo(row.peer) # {})

(* A subscriber is told of every transition exactly once, even though they *)
(* are broadcast after the lock is released and so in any order: what it   *)
(* was sent, with what is still to be broadcast, adds up to the state.     *)
ToldOnce ==
    \A s \in subs \ lossy, p \in Peers : net[s][p] + Untold(p) = Now(p)

(* The subscription of a client that has gone away is released, although   *)
(* events keep coming.                                                     *)
SubscriptionReleased ==
    \A s \in Subs : client[s] = "gone" ~> s \notin subs
=============================================================================
