--------------------------- MODULE FriendsProofs ---------------------------
(***************************************************************************)
(* What friends.list shows and what the presence subscribers are told, for *)
(* any friends, any connections and any number of subscribers.             *)
(*                                                                         *)
(* Settled follows the notifications of a connection against the friends,  *)
(* the swarm and the online set: the connections of a friend that is not   *)
(* excused all went through the filter while it was a friend, so each      *)
(* marked it online, and one that is about to mark it offline found none   *)
(* left.  ToldOnce is about counting: a transition moves the state and the *)
(* number of changes to be told together, a broadcast moves the second and *)
(* what was told.                                                          *)
(***************************************************************************)
EXTENDS Friends, FiniteSetTheorems, TLAPS

(* A connection is open until its Disconnected. *)
OpenIsNotified ==
    \A c \in open : note[c] \in {"connected", "markOn", "tellOn", "settled"}

(* Only the connections of friends reach Presence. *)
FilterHolds ==
    /\ \A c \in Conns : note[c] \in {"markOn", "markOff"} /\ PeerOf[c] \notin excused
                          => GetByPeerID(PeerOf[c])
    /\ \A p \in online : p \notin excused => GetByPeerID(p)

(* An open connection to a friend has marked it online, ... *)
OpenMarksOnline ==
    \A c \in open :
        note[c] \in {"tellOn", "settled"} /\ PeerOf[c] \notin excused /\ GetByPeerID(PeerOf[c])
            => PeerOf[c] \in online

(* ... and who is about to mark it offline was the last one. *)
LastMarksOffline ==
    \A c \in Conns, d \in open :
        note[c] = "markOff" /\ PeerOf[c] = PeerOf[d] /\ PeerOf[c] \notin excused
          => note[d] \in {"connected", "markOn"}

(* Somebody is left to mark a friend offline. *)
OnlineIsHeld ==
    \A p \in online : p \notin excused =>
        \E c \in Conns : PeerOf[c] = p /\ note[c] \notin {"none", "tellOff"}

Settled ==
    /\ OpenIsNotified /\ FilterHolds /\ OpenMarksOnline /\ LastMarksOffline /\ OnlineIsHeld

(* Finitely many connections have notifications at a time. *)
FewNotified == IsFiniteSet({c \in Conns : note[c] # "none"})
-----------------------------------------------------------------------------
(* The types. *)

LEMMA TypeInit == Init => TypeOK
  BY ConnsAssumption, BoundsAssumption DEF Init, TypeOK, Notes

(* The notifications about p that are at position k. *)
At(p, k) == {c \in Conns : PeerOf[c] = p /\ note[c] = k}

LEMMA AtFinite ==
    ASSUME FewNotified, NEW p, NEW k, k # "none"
    PROVE  IsFiniteSet(At(p, k)) /\ Cardinality(At(p, k)) \in Nat
  <1>1. At(p, k) \in SUBSET {c \in Conns : note[c] # "none"}
    BY DEF At
  <1>2. IsFiniteSet(At(p, k))
    BY <1>1, FS_Subset DEF FewNotified
  <1> QED
    BY <1>2, FS_CardinalityType

LEMMA CountsAreNumbers ==
    ASSUME FewNotified, NEW p
    PROVE  Now(p) \in Int /\ Untold(p) \in Int
  <1>1. Cardinality(At(p, "tellOn")) \in Nat /\ Cardinality(At(p, "tellOff")) \in Nat
    BY AtFinite
  <1> QED
    BY <1>1 DEF Now, Untold, At

LEMMA TypeStep == TypeOK /\ FewNotified /\ [Next]_vars => TypeOK'
  <1> SUFFICES ASSUME TypeOK, FewNotified, [Next]_vars PROVE TypeOK'
    OBVIOUS
  <1> USE ConnsAssumption, BoundsAssumption
  <1>1. ASSUME NEW n \in Names, NEW p \in Peers, Add(n, p) PROVE TypeOK'
    BY <1>1 DEF Add, persistLocked, connVars, presVars, subVars, TypeOK, Entries
  <1>2. ASSUME NEW n \in Names, Remove(n) PROVE TypeOK'
    BY <1>2 DEF Remove, persistLocked, connVars, presVars, subVars, TypeOK, Entries
  <1>3. ASSUME NEW n \in Names, NEW m \in Names, Rename(n, m) PROVE TypeOK'
    <2>1. PICK f \in friends : persistLocked((friends \ {f}) \cup {[f EXCEPT !.name = m]})
      BY <1>3 DEF Rename
    <2>2. [f EXCEPT !.name = m] \in Entries
      BY DEF TypeOK, Entries
    <2> QED
      BY <1>3, <2>1, <2>2 DEF Rename, persistLocked, connVars, presVars, subVars, TypeOK
  <1>4. ASSUME NEW c \in Conns, ConnUp(c) \/ ConnDown(c) PROVE TypeOK'
    BY <1>4 DEF ConnUp, ConnDown, storeVars, presVars, subVars, TypeOK, Notes
  <1>5. ASSUME NEW c \in Conns, Connected(c) \/ DisconnectedStart(c) \/ Disconnected(c)
        PROVE  TypeOK'
    BY <1>5 DEF Connected, DisconnectedStart, Disconnected, storeVars, presVars, subVars,
                TypeOK, Notes
  <1>6. ASSUME NEW c \in Conns, MarkOnline(c) \/ MarkOffline(c) PROVE TypeOK'
    <2>1. PICK on \in BOOLEAN : transition(c, on)
      BY <1>6 DEF MarkOnline, MarkOffline
    <2>2. note' \in [Conns -> Notes]
      BY <2>1 DEF transition, TypeOK, Notes
    <2> PeerOf[c] \in Peers
      OBVIOUS
    <2>3. online' \subseteq known' /\ known' \subseteq Peers
      <3>1. \/ online' = online /\ known' = known
            \/ /\ known' = known \cup {PeerOf[c]}
               /\ online' \in {online \cup {PeerOf[c]}, online \ {PeerOf[c]}}
        BY <2>1 DEF transition, presVars
      <3> QED
        BY <3>1 DEF TypeOK
    <2>4. excused' \in {excused, excused \cup {PeerOf[c]}}
      BY <1>6 DEF MarkOnline, MarkOffline
    <2> QED
      BY <1>6, <2>2, <2>3, <2>4 DEF MarkOnline, MarkOffline, storeVars, subVars, TypeOK
  <1>7. ASSUME NEW c \in Conns, Tell(c) PROVE TypeOK'
    <2>1. PICK on \in BOOLEAN : broadcast(c, on)
      BY <1>7 DEF Tell
    <2>2. net' \in [Subs -> [Peers -> Int]]
      BY <2>1 DEF broadcast, TypeOK
    <2>3. queued' \in [Subs -> 0 .. SubCap]
      BY <2>1 DEF broadcast, TypeOK
    <2> QED
      BY <1>7, <2>1, <2>2, <2>3 DEF Tell, broadcast, storeVars, presVars, TypeOK, Notes
  <1>8. ASSUME NEW s \in Subs, Subscribe(s) PROVE TypeOK'
    <2>1. [p \in Peers |-> Now(p) - Untold(p)] \in [Peers -> Int]
      BY CountsAreNumbers
    <2>2. net' \in [Subs -> [Peers -> Int]]
      BY <1>8, <2>1 DEF Subscribe, TypeOK
    <2> QED
      BY <1>8, <2>2 DEF Subscribe, storeVars, connVars, presVars, TypeOK
  <1>9. ASSUME NEW s \in Subs, Disconnect(s) \/ forward(s) \/ forwarderDone(s) PROVE TypeOK'
    <2>1. queued' \in [Subs -> 0 .. SubCap]
      BY <1>9 DEF Disconnect, forward, forwarderDone, TypeOK
    <2>2. net' \in [Subs -> [Peers -> Int]]
      BY <1>9 DEF Disconnect, forward, forwarderDone, TypeOK
    <2> QED
      BY <1>9, <2>1, <2>2 DEF Disconnect, forward, forwarderDone, storeVars, connVars, presVars,
                              TypeOK
  <1>10. ASSUME Restart PROVE TypeOK'
    BY <1>10 DEF Restart, TypeOK, Notes
  <1>11. ASSUME UNCHANGED vars PROVE TypeOK'
    BY <1>11 DEF vars, TypeOK
  <1> QED
    BY <1>1, <1>2, <1>3, <1>4, <1>5, <1>6, <1>7, <1>8, <1>9, <1>10, <1>11 DEF Next, NoteStep

(* A step notifies about one more connection, if any. *)
LEMMA OneNote ==
    TypeOK /\ [Next]_vars =>
        \/ note' = note
        \/ note' = [c \in Conns |-> "none"]
        \/ \E c \in Conns, k \in Notes : note' = [note EXCEPT ![c] = k]
  <1> SUFFICES ASSUME TypeOK, [Next]_vars, note' # note, note' # [c \in Conns |-> "none"]
               PROVE  \E c \in Conns, k \in Notes : note' = [note EXCEPT ![c] = k]
    OBVIOUS
  <1>1. PICK c \in Conns : ConnUp(c) \/ NoteStep(c)
    BY DEF Next, Add, Remove, Rename, ConnDown, Subscribe, Disconnect, forward, forwarderDone,
           Restart, vars, connVars
  <1>2. \E k \in Notes : note' = [note EXCEPT ![c] = k]
    BY <1>1 DEF ConnUp, NoteStep, Connected, MarkOnline, DisconnectedStart, Disconnected,
                MarkOffline, Tell, transition, broadcast, Notes
  <1> QED
    BY <1>2

LEMMA FewInit == Init => FewNotified
  <1> SUFFICES ASSUME Init PROVE FewNotified
    OBVIOUS
  <1>1. {c \in Conns : note[c] # "none"} = {}
    BY DEF Init
  <1> QED
    BY <1>1, FS_EmptySet DEF FewNotified

LEMMA FewStep == TypeOK /\ FewNotified /\ [Next]_vars => FewNotified'
  <1> SUFFICES ASSUME TypeOK, FewNotified, [Next]_vars PROVE FewNotified'
    OBVIOUS
  <1> DEFINE N == {c \in Conns : note[c] # "none"}
  <1>1. CASE note' = note
    BY <1>1 DEF FewNotified
  <1>2. CASE note' = [c \in Conns |-> "none"]
    <2>1. N' = {}
      BY <1>2
    <2> QED
      BY <2>1, FS_EmptySet DEF FewNotified
  <1>3. ASSUME NEW c \in Conns, NEW k \in Notes, note' = [note EXCEPT ![c] = k]
        PROVE  FewNotified'
    <2>1. N' \in SUBSET (N \cup {c})
      BY <1>3 DEF TypeOK
    <2>2. IsFiniteSet(N \cup {c})
      BY FS_AddElement DEF FewNotified
    <2> QED
      BY <2>1, <2>2, FS_Subset DEF FewNotified
  <1> QED
    BY OneNote, <1>1, <1>2, <1>3

(* Every variable has its type, and finitely many connections are notified *)
(* about at a time.                                                        *)
THEOREM TypeCorrect == Spec => [](TypeOK /\ FewNotified)
  <1>1. Init => TypeOK /\ FewNotified
    BY TypeInit, FewInit
  <1>2. TypeOK /\ FewNotified /\ [Next]_vars => (TypeOK /\ FewNotified)'
    BY TypeStep, FewStep
  <1> QED
    BY <1>1, <1>2, PTL DEF Spec
-----------------------------------------------------------------------------
(* Friends and connections. *)

LEMMA SettledInit == Init => Settled
  BY DEF Init, Settled, OpenIsNotified, FilterHolds, OpenMarksOnline, LastMarksOffline,
         OnlineIsHeld

(* The store may change its mind about one peer, which is excused if it is *)
(* connected.                                                              *)
LEMMA StoreChanges ==
    ASSUME TypeOK, Settled, NEW q,
           UNCHANGED <<open, note, online>>,
           \A p : p # q => (GetByPeerID(p)' <=> GetByPeerID(p)),
           excused' = IF Present(q) THEN excused \cup {q} ELSE excused
    PROVE  Settled'
  <1>1. \A c \in Conns : PeerOf[c] = q /\ q \notin excused' => note[c] = "none" /\ c \notin open
    BY DEF Present, ConnsTo
  <1>2. q \notin excused' => q \notin online
    BY <1>1 DEF Settled, OnlineIsHeld
  <1>3. excused \subseteq excused' /\ \A p : p \notin excused' => p \notin excused
    OBVIOUS
  <1>4. open \subseteq Conns
    BY DEF TypeOK
  <1>5. OpenIsNotified' /\ LastMarksOffline' /\ OnlineIsHeld'
    BY <1>3 DEF Settled, OpenIsNotified, LastMarksOffline, OnlineIsHeld
  <1>6. FilterHolds'
    BY <1>1, <1>2, <1>3 DEF Settled, FilterHolds
  <1>7. OpenMarksOnline'
    BY <1>1, <1>3, <1>4 DEF Settled, OpenMarksOnline
  <1> QED
    BY <1>5, <1>6, <1>7 DEF Settled

LEMMA SettledStep == TypeOK /\ Settled /\ [Next]_vars => Settled'
  <1> SUFFICES ASSUME TypeOK, Settled, [Next]_vars PROVE Settled'
    OBVIOUS
  <1> USE ConnsAssumption
  <1>1. ASSUME NEW n \in Names, NEW p \in Peers, Add(n, p) PROVE Settled'
    <2>1. \A q : q # p => (GetByPeerID(q)' <=> GetByPeerID(q))
      BY <1>1 DEF Add, persistLocked, GetByPeerID
    <2> QED
      BY <1>1, <2>1, StoreChanges DEF Add, connVars, presVars
  <1>2. ASSUME NEW n \in Names, Remove(n) PROVE Settled'
    <2>1. PICK f \in friends :
             /\ persistLocked(friends \ {f})
             /\ excused' = IF Present(f.peer) THEN excused \cup {f.peer} ELSE excused
             /\ UNCHANGED <<connVars, presVars>>
      BY <1>2 DEF Remove
    <2>2. \A q : q # f.peer => (GetByPeerID(q)' <=> GetByPeerID(q))
      BY <2>1 DEF persistLocked, GetByPeerID
    <2> QED
      BY <2>1, <2>2, StoreChanges DEF connVars, presVars
  <1>3. ASSUME NEW n \in Names, NEW m \in Names, Rename(n, m) PROVE Settled'
    <2>1. PICK f \in friends : friends' = (friends \ {f}) \cup {[f EXCEPT !.name = m]}
      BY <1>3 DEF Rename, persistLocked
    <2>2. [f EXCEPT !.name = m].peer = f.peer
      BY DEF TypeOK, Entries
    <2>3. \A q : GetByPeerID(q)' <=> GetByPeerID(q)
      BY <2>1, <2>2 DEF GetByPeerID
    <2>4. UNCHANGED <<open, note, online, excused>>
      BY <1>3 DEF Rename, connVars, presVars
    <2> QED
      BY <2>3, <2>4 DEF Settled, OpenIsNotified, FilterHolds, OpenMarksOnline,
                        LastMarksOffline, OnlineIsHeld
  <1>4. ASSUME NEW c \in Conns, ConnUp(c) PROVE Settled'
    BY <1>4 DEF ConnUp, storeVars, presVars, GetByPeerID, TypeOK, Settled, OpenIsNotified,
                FilterHolds, OpenMarksOnline, LastMarksOffline, OnlineIsHeld
  <1>5. ASSUME NEW c \in Conns, ConnDown(c) PROVE Settled'
    BY <1>5 DEF ConnDown, storeVars, presVars, GetByPeerID, TypeOK, Settled, OpenIsNotified,
                FilterHolds, OpenMarksOnline, LastMarksOffline, OnlineIsHeld
  <1>6. ASSUME NEW c \in Conns, Connected(c) PROVE Settled'
    <2>1. /\ note[c] = "connected"
          /\ IF GetByPeerID(PeerOf[c]) THEN note' = [note EXCEPT ![c] = "markOn"]
                                       ELSE note' = [note EXCEPT ![c] = "settled"]
      BY <1>6 DEF Connected
    <2>2. UNCHANGED <<friends, open, online, excused>> /\ \A p : GetByPeerID(p)' <=> GetByPeerID(p)
      BY <1>6 DEF Connected, storeVars, presVars, GetByPeerID
    <2>3. OpenIsNotified' /\ FilterHolds' /\ OpenMarksOnline'
      BY <2>1, <2>2 DEF TypeOK, Settled, OpenIsNotified, FilterHolds, OpenMarksOnline
    <2>4. LastMarksOffline'
      BY <2>1, <2>2 DEF TypeOK, Settled, LastMarksOffline, OpenMarksOnline, FilterHolds
    <2>5. OnlineIsHeld'
      BY <2>1, <2>2 DEF TypeOK, Settled, OnlineIsHeld
    <2> QED
      BY <2>3, <2>4, <2>5 DEF Settled
  <1>7. ASSUME NEW c \in Conns, MarkOnline(c) PROVE Settled'
    <2> DEFINE p == PeerOf[c]
    <2>1. \E k \in {"tellOn", "settled"} : note' = [note EXCEPT ![c] = k]
      BY <1>7 DEF MarkOnline, transition
    <2>2. /\ note[c] = "markOn" /\ online' = online \cup {p}
          /\ UNCHANGED <<friends, open>>
          /\ \A q : q \notin excused' => q \notin excused
          /\ p \notin excused' => \A d \in Conns : PeerOf[d] = p => note[d] # "markOff"
      BY <1>7 DEF MarkOnline, transition, storeVars
    <2>3. OpenIsNotified' /\ OpenMarksOnline'
      BY <2>1, <2>2 DEF TypeOK, Settled, OpenIsNotified, OpenMarksOnline, GetByPeerID
    <2>4. FilterHolds'
      BY <2>1, <2>2 DEF TypeOK, Settled, FilterHolds, GetByPeerID
    <2>5. LastMarksOffline'
      BY <2>1, <2>2 DEF TypeOK, Settled, LastMarksOffline
    <2>6. OnlineIsHeld'
      BY <2>1, <2>2 DEF TypeOK, Settled, OnlineIsHeld
    <2> QED
      BY <2>3, <2>4, <2>5, <2>6 DEF Settled
  <1>8. ASSUME NEW c \in Conns, DisconnectedStart(c) PROVE Settled'
    BY <1>8 DEF DisconnectedStart, storeVars, presVars, GetByPeerID, TypeOK, Settled,
                OpenIsNotified, FilterHolds, OpenMarksOnline, LastMarksOffline, OnlineIsHeld
  <1>9. ASSUME NEW c \in Conns, Disconnected(c) PROVE Settled'
    <2>1. note[c] = "disconnected" /\ UNCHANGED <<friends, open, online, excused>> /\ c \notin open
      BY <1>9 DEF Disconnected, storeVars, presVars, Settled, OpenIsNotified
    <2>2. \/ /\ note' = [note EXCEPT ![c] = "markOff"]
             /\ GetByPeerID(PeerOf[c]) /\ ConnsTo(PeerOf[c]) = {}
          \/ /\ note' = [note EXCEPT ![c] = "none"]
             /\ GetByPeerID(PeerOf[c]) => ConnsTo(PeerOf[c]) # {}
      BY <1>9 DEF Disconnected
    <2>3. OpenIsNotified' /\ OpenMarksOnline' /\ FilterHolds' /\ LastMarksOffline'
      BY <2>1, <2>2 DEF TypeOK, Settled, OpenIsNotified, OpenMarksOnline, FilterHolds,
                        LastMarksOffline, GetByPeerID, ConnsTo
    <2>4. OnlineIsHeld'
      BY <2>1, <2>2 DEF TypeOK, Settled, OnlineIsHeld, OpenIsNotified, FilterHolds, ConnsTo
    <2> QED
      BY <2>3, <2>4 DEF Settled
  <1>10. ASSUME NEW c \in Conns, MarkOffline(c) PROVE Settled'
    <2> DEFINE p == PeerOf[c]
    <2>1. \E k \in {"tellOff", "none"} : note' = [note EXCEPT ![c] = k]
      BY <1>10 DEF MarkOffline, transition
    <2>2. /\ note[c] = "markOff" /\ online' = online \ {p} /\ c \notin open
          /\ UNCHANGED <<friends, open, excused>>
      BY <1>10 DEF MarkOffline, transition, storeVars, presVars, TypeOK, Settled, OpenIsNotified
    <2>3. OpenIsNotified' /\ FilterHolds' /\ LastMarksOffline' /\ OnlineIsHeld'
      BY <2>1, <2>2 DEF TypeOK, Settled, OpenIsNotified, FilterHolds, LastMarksOffline,
                        OnlineIsHeld, GetByPeerID
    <2>4. OpenMarksOnline'
      BY <2>1, <2>2 DEF TypeOK, Settled, OpenMarksOnline, LastMarksOffline, GetByPeerID
    <2> QED
      BY <2>3, <2>4 DEF Settled
  <1>11. ASSUME NEW c \in Conns, Tell(c) PROVE Settled'
    <2>1. \/ note[c] = "tellOn" /\ note' = [note EXCEPT ![c] = "settled"]
          \/ note[c] = "tellOff" /\ note' = [note EXCEPT ![c] = "none"]
      BY <1>11 DEF Tell, broadcast
    <2>2. UNCHANGED <<friends, open, online, excused>>
      BY <1>11 DEF Tell, storeVars, presVars
    <2> QED
      <3>1. OpenIsNotified' /\ OpenMarksOnline'
        BY <2>1, <2>2 DEF TypeOK, Settled, OpenIsNotified, OpenMarksOnline, GetByPeerID
      <3>2. FilterHolds' /\ LastMarksOffline'
        BY <2>1, <2>2 DEF TypeOK, Settled, FilterHolds, LastMarksOffline, GetByPeerID
      <3>3. OnlineIsHeld'
        BY <2>1, <2>2 DEF TypeOK, Settled, OnlineIsHeld
      <3> QED
        BY <3>1, <3>2, <3>3 DEF Settled
  <1>12. ASSUME Restart PROVE Settled'
    BY <1>12 DEF Restart, Settled, OpenIsNotified, FilterHolds, OpenMarksOnline,
                 LastMarksOffline, OnlineIsHeld
  <1>13. CASE UNCHANGED <<friends, open, note, online, excused>>
    BY <1>13 DEF Settled, OpenIsNotified, FilterHolds, OpenMarksOnline,
                 LastMarksOffline, OnlineIsHeld, GetByPeerID
  <1>14. ASSUME NEW s \in Subs, Subscribe(s) \/ Disconnect(s) \/ forward(s) \/ forwarderDone(s)
         PROVE  UNCHANGED <<friends, open, note, online, excused>>
    BY <1>14 DEF Subscribe, Disconnect, forward, forwarderDone, storeVars, connVars, presVars
  <1> QED
    BY <1>1, <1>2, <1>3, <1>4, <1>5, <1>6, <1>7, <1>8, <1>9, <1>10, <1>11, <1>12, <1>13, <1>14
       DEF Next, NoteStep, vars

(* The list and the swarm agree about every friend whose notifications     *)
(* have run and that falls in neither gap of the code.                     *)
LEMMA SettledAgrees == TypeOK /\ Settled => PresenceAgrees
  <1> SUFFICES ASSUME TypeOK, Settled, NEW row \in FriendsList,
                      ~Busy(row.peer), row.peer \notin excused,
                      \A c \in Conns : PeerOf[c] = row.peer /\ note[c] = "settled" => c \in open
               PROVE  row.online <=> ConnsTo(row.peer) # {}
    BY DEF PresenceAgrees
  <1> PICK f \in friends : row = [name |-> f.name, peer |-> f.peer, online |-> f.peer \in online]
    BY DEF FriendsList
  <1> row.peer = f.peer /\ (row.online <=> f.peer \in online)
    OBVIOUS
  <1>1. ASSUME NEW c \in open, PeerOf[c] = f.peer PROVE f.peer \in online
    BY <1>1 DEF TypeOK, Settled, OpenIsNotified, OpenMarksOnline, GetByPeerID, Busy
  <1>2. ASSUME f.peer \in online PROVE \E c \in open : PeerOf[c] = f.peer
    BY <1>2 DEF Settled, OnlineIsHeld, Busy
  <1> QED
    BY <1>1, <1>2 DEF ConnsTo

(* friends.list shows a friend online exactly while there is a connection  *)
(* to it, once its notifications have run, however the connections of any  *)
(* number of peers overlapped, and across restarts and failed writes.      *)
THEOREM ListShowsTheSwarm == Spec => []PresenceAgrees
  <1>1. Init => TypeOK /\ FewNotified /\ Settled
    BY TypeInit, FewInit, SettledInit
  <1>2. TypeOK /\ FewNotified /\ Settled /\ [Next]_vars => (TypeOK /\ FewNotified /\ Settled)'
    BY TypeStep, FewStep, SettledStep
  <1>3. TypeOK /\ FewNotified /\ Settled => PresenceAgrees
    BY SettledAgrees
  <1> QED
    BY <1>1, <1>2, <1>3, PTL DEF Spec
-----------------------------------------------------------------------------
(* What subscribers are told. *)

(* What a notification has yet to tell. *)
Weight(k) == CASE k = "tellOn" -> 1 [] k = "tellOff" -> -1 [] OTHER -> 0
One(b) == IF b THEN 1 ELSE 0

(* One notification moves. *)
LEMMA AtMoves ==
    ASSUME TypeOK, FewNotified, NEW p, NEW k, k # "none",
           NEW c \in Conns, NEW j, note' = [note EXCEPT ![c] = j]
    PROVE  Cardinality(At(p, k))' = Cardinality(At(p, k))
               + One(PeerOf[c] = p /\ j = k) - One(PeerOf[c] = p /\ note[c] = k)
  <1> DEFINE S == At(p, k)
             T == At(p, k)'
  <1>1. IsFiniteSet(S) /\ Cardinality(S) \in Nat
    BY AtFinite
  <1>2. c \in S <=> PeerOf[c] = p /\ note[c] = k
    BY DEF At
  <1>3. T = IF PeerOf[c] = p /\ j = k THEN S \cup {c} ELSE S \ {c}
    BY DEF At, TypeOK
  <1>4. /\ Cardinality(S \cup {c}) = IF c \in S THEN Cardinality(S) ELSE Cardinality(S) + 1
        /\ Cardinality(S \ {c}) = IF c \in S THEN Cardinality(S) - 1 ELSE Cardinality(S)
    BY <1>1, FS_AddElement, FS_RemoveElement
  <1>5. Cardinality(At(p, k))' = Cardinality(T)
    OBVIOUS
  <1> HIDE DEF S, T
  <1>6. Cardinality(T) = Cardinality(S)
               + One(PeerOf[c] = p /\ j = k) - One(PeerOf[c] = p /\ note[c] = k)
    BY <1>1, <1>2, <1>3, <1>4 DEF One
  <1> QED
    BY <1>5, <1>6 DEF S

LEMMA UntoldMoves ==
    ASSUME TypeOK, FewNotified, NEW p,
           NEW c \in Conns, NEW j, note' = [note EXCEPT ![c] = j]
    PROVE  /\ Untold(p) \in Int
           /\ Untold(p)' = IF PeerOf[c] = p THEN Untold(p) + Weight(j) - Weight(note[c])
                                            ELSE Untold(p)
  <1>1. /\ Untold(p) = Cardinality(At(p, "tellOn")) - Cardinality(At(p, "tellOff"))
        /\ Untold(p)' = Cardinality(At(p, "tellOn"))' - Cardinality(At(p, "tellOff"))'
    BY DEF Untold, At
  <1>2. Cardinality(At(p, "tellOn")) \in Nat /\ Cardinality(At(p, "tellOff")) \in Nat
    BY AtFinite
  <1>3. Cardinality(At(p, "tellOn"))' = Cardinality(At(p, "tellOn"))
             + One(PeerOf[c] = p /\ j = "tellOn") - One(PeerOf[c] = p /\ note[c] = "tellOn")
    BY AtMoves
  <1>4. Cardinality(At(p, "tellOff"))' = Cardinality(At(p, "tellOff"))
             + One(PeerOf[c] = p /\ j = "tellOff") - One(PeerOf[c] = p /\ note[c] = "tellOff")
    BY AtMoves
  <1> QED
    BY <1>1, <1>2, <1>3, <1>4 DEF One, Weight

(* A step that neither tells nor subscribes keeps, for each peer, the      *)
(* difference between the state and what is yet to be told.                *)
LEMMA BalanceKept ==
    ASSUME TypeOK, FewNotified, NEW c \in Conns, NEW p \in Peers,
           \/ ConnUp(c) \/ Connected(c) \/ DisconnectedStart(c) \/ Disconnected(c)
           \/ MarkOnline(c) \/ MarkOffline(c)
    PROVE  /\ Untold(p) \in Int /\ Untold(p)' \in Int
           /\ Now(p)' - Untold(p)' = Now(p) - Untold(p)
  <1> DEFINE j == note'[c]
  <1>1. /\ note' = [note EXCEPT ![c] = j]
        /\ Weight(note[c]) = 0
        /\ Weight(j) = Now(PeerOf[c])' - Now(PeerOf[c])
        /\ \A q : q # PeerOf[c] => Now(q)' = Now(q)
    <2>1. CASE ConnUp(c) \/ Connected(c) \/ DisconnectedStart(c) \/ Disconnected(c)
      <3>1. PICK k \in {"connected", "markOn", "settled", "disconnected", "markOff", "none"} :
               note' = [note EXCEPT ![c] = k]
        BY <2>1 DEF ConnUp, Connected, DisconnectedStart, Disconnected
      <3>2. note[c] \in {"none", "connected", "settled", "disconnected"} /\ online' = online
        BY <2>1 DEF ConnUp, Connected, DisconnectedStart, Disconnected, presVars
      <3>3. j = k
        BY <3>1 DEF TypeOK
      <3> HIDE DEF j
      <3> QED
        BY <3>1, <3>2, <3>3 DEF Weight, Now
    <2>2. CASE MarkOnline(c)
      <3>1. /\ note[c] = "markOn" /\ online' = online \cup {PeerOf[c]}
            /\ note' = [note EXCEPT ![c] = IF PeerOf[c] \in online THEN "settled" ELSE "tellOn"]
        BY <2>2 DEF MarkOnline, transition
      <3>2. j = IF PeerOf[c] \in online THEN "settled" ELSE "tellOn"
        BY <3>1 DEF TypeOK
      <3> HIDE DEF j
      <3> QED
        BY <3>1, <3>2 DEF Weight, Now
    <2>3. CASE MarkOffline(c)
      <3>1. transition(c, FALSE) /\ note[c] = "markOff"
        BY <2>3 DEF MarkOffline
      <3>2. online' = online \ {PeerOf[c]}
        BY <3>1 DEF transition, presVars, TypeOK
      <3>3. note' = [note EXCEPT ![c] = IF PeerOf[c] \in online THEN "tellOff" ELSE "none"]
        <4>1. CASE PeerOf[c] \in online
          BY <3>1, <4>1 DEF transition, TypeOK
        <4>2. CASE PeerOf[c] \notin online
          <5>1. (PeerOf[c] \in online) = FALSE
            BY <4>2
          <5> QED
            BY <3>1, <5>1 DEF transition
        <4> QED
          BY <4>1, <4>2
      <3>4. j = IF PeerOf[c] \in online THEN "tellOff" ELSE "none"
        BY <3>3 DEF TypeOK
      <3> HIDE DEF j
      <3> QED
        BY <3>1, <3>2, <3>3, <3>4 DEF Weight, Now
    <2> QED
      BY <2>1, <2>2, <2>3
  <1>2. /\ Untold(p) \in Int
        /\ Untold(p)' = IF PeerOf[c] = p THEN Untold(p) + Weight(j) - Weight(note[c])
                                         ELSE Untold(p)
    BY <1>1, UntoldMoves
  <1>3. Now(p) \in Int /\ Now(p)' \in Int /\ Weight(j) \in Int
    BY DEF Now, Weight
  <1> QED
    BY <1>1, <1>2, <1>3

LEMMA ToldStep == TypeOK /\ FewNotified /\ ToldOnce /\ [Next]_vars => ToldOnce'
  <1> SUFFICES ASSUME TypeOK, FewNotified, ToldOnce, [Next]_vars,
                      NEW s \in subs' \ lossy', NEW p \in Peers
               PROVE  net'[s][p] + Untold(p)' = Now(p)'
    BY DEF ToldOnce
  <1> USE ConnsAssumption
  <1>1. s \in subs \ lossy => net[s][p] + Untold(p) = Now(p) /\ net[s][p] \in Int
    BY DEF ToldOnce, TypeOK
  <1>2. Untold(p) \in Int /\ Now(p) \in Int
    BY CountsAreNumbers
  <1>3. UNCHANGED <<note, online>> => Untold(p)' = Untold(p) /\ Now(p)' = Now(p)
    BY DEF Untold, Now
  <1>4. CASE UNCHANGED <<note, online, subs, net, lossy>>
    BY <1>1, <1>3, <1>4
  <1>5. ASSUME NEW c \in Conns,
               \/ ConnUp(c) \/ Connected(c) \/ DisconnectedStart(c) \/ Disconnected(c)
               \/ MarkOnline(c) \/ MarkOffline(c)
        PROVE  net'[s][p] + Untold(p)' = Now(p)'
    <2>1. UNCHANGED subVars
      BY <1>5 DEF ConnUp, Connected, DisconnectedStart, Disconnected, MarkOnline, MarkOffline
    <2>2. Untold(p)' \in Int /\ Now(p)' - Untold(p)' = Now(p) - Untold(p)
      BY <1>5, BalanceKept
    <2>3. Now(p)' \in Int
      BY DEF Now
    <2> QED
      BY <1>1, <1>2, <2>1, <2>2, <2>3 DEF subVars
  <1>6. ASSUME NEW c \in Conns, Tell(c) PROVE net'[s][p] + Untold(p)' = Now(p)'
    <2>1. PICK on \in BOOLEAN :
             broadcast(c, on) /\ note[c] = IF on THEN "tellOn" ELSE "tellOff"
      BY <1>6 DEF Tell
    <2>2. note' = [note EXCEPT ![c] = IF on THEN "settled" ELSE "none"] /\ Now(p)' = Now(p)
      BY <1>6, <2>1 DEF Tell, broadcast, presVars, Now
    <2>3. Untold(p)' = IF PeerOf[c] = p THEN Untold(p) - (IF on THEN 1 ELSE -1) ELSE Untold(p)
      <3> DEFINE j == IF on THEN "settled" ELSE "none"
      <3>1. Untold(p)' = IF PeerOf[c] = p THEN Untold(p) + Weight(j) - Weight(note[c])
                                          ELSE Untold(p)
        BY <2>2, UntoldMoves
      <3>2. Weight(j) = 0 /\ Weight(note[c]) = IF on THEN 1 ELSE -1
        BY <2>1 DEF Weight
      <3> HIDE DEF j
      <3> QED
        BY <1>2, <3>1, <3>2
    <2>4. s \in subs \ lossy
      BY <2>1 DEF broadcast
    <2>5. net'[s][p] = IF PeerOf[c] = p THEN net[s][p] + (IF on THEN 1 ELSE -1) ELSE net[s][p]
      BY <2>1, <2>4 DEF broadcast, TypeOK
    <2> QED
      BY <1>1, <1>2, <2>2, <2>3, <2>4, <2>5
  <1>7. ASSUME NEW t \in Subs, Subscribe(t) PROVE net'[s][p] + Untold(p)' = Now(p)'
    <2>1. UNCHANGED <<note, online, lossy>> /\ subs' = subs \cup {t}
      BY <1>7 DEF Subscribe, connVars, presVars
    <2>2. net'[s] = IF s = t THEN [q \in Peers |-> Now(q) - Untold(q)] ELSE net[s]
      BY <1>7 DEF Subscribe, TypeOK
    <2>3. CASE s = t
      BY <1>2, <1>3, <2>1, <2>2, <2>3
    <2>4. CASE s # t
      BY <1>1, <1>3, <2>1, <2>2, <2>4
    <2> QED
      BY <2>3, <2>4
  <1>8. ASSUME NEW t \in Subs, forwarderDone(t) PROVE net'[s][p] + Untold(p)' = Now(p)'
    <2>1. UNCHANGED <<note, online>> /\ s \in subs \ {t} /\ s \in subs \ lossy
      BY <1>8 DEF forwarderDone, connVars, presVars
    <2>2. net'[s] = net[s]
      BY <1>8, <2>1 DEF forwarderDone, TypeOK
    <2> QED
      BY <1>1, <1>3, <2>1, <2>2
  <1>9. ASSUME Restart PROVE FALSE
    BY <1>9 DEF Restart
  <1>10. ASSUME \/ UNCHANGED vars
                \/ \E n \in Names, q \in Peers : Add(n, q)
                \/ \E n \in Names : Remove(n)
                \/ \E n, m \in Names : Rename(n, m)
                \/ \E c \in Conns : ConnDown(c)
                \/ \E t \in Subs : Disconnect(t) \/ forward(t)
         PROVE  UNCHANGED <<note, online, subs, net, lossy>>
    BY <1>10 DEF vars, Add, Remove, Rename, ConnDown, Disconnect, forward, connVars, presVars,
                 subVars
  <1> QED
    BY <1>4, <1>5, <1>6, <1>7, <1>8, <1>9, <1>10 DEF Next, NoteStep

(* A subscriber whose channel never overflowed is told of every transition *)
(* exactly once, although MarkOnline and MarkOffline broadcast after they  *)
(* have released the lock, for any number of overlapping notifications.    *)
THEOREM TransitionsToldOnce == Spec => []ToldOnce
  <1>1. Init => TypeOK /\ FewNotified /\ ToldOnce
    BY TypeInit, FewInit DEF Init, ToldOnce
  <1>2. TypeOK /\ FewNotified /\ ToldOnce /\ [Next]_vars => (TypeOK /\ FewNotified /\ ToldOnce)'
    BY TypeStep, FewStep, ToldStep
  <1> QED
    BY <1>1, <1>2, PTL DEF Spec
=============================================================================
