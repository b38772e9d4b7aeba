------------------------------- MODULE Invite -------------------------------
(***************************************************************************)
(* The life of one invite code (invite/manager.go, invite/store.go) and    *)
(* the friends it makes (friends/store.go), from Create on the inviter's   *)
(* daemon through concurrent redemptions, Revoke, expiry, crashes and      *)
(* restarts.  Codes are independent: each has its own entry.               *)
(*                                                                         *)
(* An attempt is one run of dialAndHandshake by an invitee together with   *)
(* the inviter's handleStream goroutine that serves it.  Store mutations   *)
(* are made under Store.mu and then written by flush, whose snapshot and   *)
(* write are separate steps under flushMu; flush ignores write errors.     *)
(* friends.Store persists inside its critical section, reports an error,   *)
(* which may happen at any time, and keeps the new friend in memory either *)
(* way.                                                                    *)
(***************************************************************************)
EXTENDS Naturals, FiniteSets

CONSTANTS Attempts,     \* redemption attempts
          Invitees,     \* peers that hold the code
          Who,          \* the invitee an attempt belongs to
          MaxCrashes,   \* bound: crashes of the inviter's daemon
          DiskFaults    \* TRUE when a write of the invites file may fail

ASSUME AttemptsAssumption ==
    /\ Who \in [Attempts -> Invitees]
    /\ MaxCrashes \in Nat /\ DiskFaults \in BOOLEAN

Creator == "create"
Revoker == "revoke"
Nobody  == "nobody"
Tasks   == Attempts \cup {Creator, Revoker}
ASSUME TasksAssumption == {Creator, Revoker, Nobody} \cap Attempts = {} /\ Creator # Revoker

VARIABLES
    entry,      \* the code's entry in Store.entries
    disk,       \* the code's entry in the invites file
    snap,       \* the snapshot of the flush in progress
    flusher,    \* the holder of flushMu
    expired,    \* ExpiresAt has passed
    pc,         \* next step of each task on the inviter's daemon
    friends,    \* invitees in friends.Store
    savedFriends,   \* invitees in the friends file
    clash,      \* invitees whose display name another friend already has
    resp,       \* the response an attempt has been sent
    client,     \* pc of dialAndHandshake
    befriended, \* invitees that have added the inviter with this code
    notified,   \* attempts whose RedemptionEvent was fanned out
    up,         \* the inviter's daemon runs
    crashes,    \* crashes so far
    redeemers   \* history: invitees for whom MarkConsumed and Add succeeded

storeVars  == <<entry, disk, snap, flusher>>
friendVars == <<friends, savedFriends, clash>>
clientVars == <<client, befriended>>
envVars    == <<expired, up, crashes>>
vars == <<entry, disk, snap, flusher, expired, pc, friends, savedFriends, clash,
          resp, client, befriended, notified, up, crashes, redeemers>>

Entry == [known : BOOLEAN, consumed : BOOLEAN]
Absent == [known |-> FALSE, consumed |-> FALSE]
Fresh  == [known |-> TRUE, consumed |-> FALSE]

SnapLabels  == {"addSnap", "markSnap", "unmarkSnap", "removeSnap"}
WriteLabels == {"addWrite", "markWrite", "unmarkWrite", "removeWrite"}
Labels == SnapLabels \cup WriteLabels \cup
          {"idle", "get", "mark", "friend", "unmark", "reject", "respond", "fanout",
           "done", "lost"}

TypeOK ==
    /\ entry \in Entry /\ disk \in Entry /\ snap \in Entry
    /\ flusher \in Tasks \cup {Nobody}
    /\ expired \in BOOLEAN
    /\ pc \in [Tasks -> Labels]
    /\ friends \subseteq Invitees /\ savedFriends \subseteq Invitees
    /\ clash \subseteq Invitees
    /\ resp \in [Attempts -> {"none", "accept", "reject"}]
    /\ client \in [Attempts -> {"idle", "waiting", "done", "failed"}]
    /\ befriended \subseteq Invitees
    /\ notified \subseteq Attempts
    /\ up \in BOOLEAN
    /\ crashes \in 0 .. MaxCrashes
    /\ redeemers \subseteq Invitees

Goto(t, from, to) == up /\ pc[t] = from /\ pc' = [pc EXCEPT ![t] = to]
-----------------------------------------------------------------------------
(* Store.flush: the label a task continues with after the write. *)
WriteOf(l) ==
    CASE l = "addSnap" -> "addWrite" [] l = "markSnap" -> "markWrite"
      [] l = "unmarkSnap" -> "unmarkWrite" [] l = "removeSnap" -> "removeWrite"
After(l) ==
    CASE l = "addWrite" -> "done" [] l = "markWrite" -> "friend"
      [] l = "unmarkWrite" -> "reject" [] l = "removeWrite" -> "done"

(* Faulty: two flushes may overlap. *)
flushSnapshotUnlocked(t) ==
    /\ up /\ pc[t] \in SnapLabels
    /\ pc' = [pc EXCEPT ![t] = WriteOf(pc[t])]
    /\ flusher' = t
    /\ snap' = IF flusher = Nobody THEN entry ELSE snap
    /\ UNCHANGED <<entry, disk, expired, friendVars, resp, clientVars, notified,
                   up, crashes, redeemers>>

flushSnapshot(t) ==
    /\ up /\ pc[t] \in SnapLabels
    /\ flusher = Nobody
    /\ pc' = [pc EXCEPT ![t] = WriteOf(pc[t])]
    /\ flusher' = t
    /\ snap' = entry
    /\ UNCHANGED <<entry, disk, expired, friendVars, resp, clientVars, notified,
                   up, crashes, redeemers>>

(* AtomicWriteFile replaces the file or leaves it; its error is ignored. *)
flushWrite(t) ==
    /\ up /\ pc[t] \in WriteLabels
    /\ pc' = [pc EXCEPT ![t] = After(pc[t])]
    /\ flusher' = Nobody
    /\ \/ disk' = snap
       \/ DiskFaults /\ UNCHANGED disk
    /\ UNCHANGED <<entry, snap, expired, friendVars, resp, clientVars, notified,
                   up, crashes, redeemers>>
-----------------------------------------------------------------------------
(* Manager.Create puts the code into the store before it is handed out. *)
Create ==
    /\ Goto(Creator, "idle", "addSnap")
    /\ entry' = Fresh
    /\ UNCHANGED <<disk, snap, flusher, expired, friendVars, resp, clientVars,
                   notified, up, crashes, redeemers>>

Created == pc[Creator] = "done"

(* Manager.Revoke: an unknown code is reported as not found.  A user whose *)
(* Revoke was lost in a crash may call it again.                           *)
Revoke ==
    /\ Created /\ pc[Revoker] \in {"idle", "lost"}
    /\ Goto(Revoker, pc[Revoker], IF entry.known THEN "removeSnap" ELSE pc[Revoker])
    /\ entry' = Absent
    /\ UNCHANGED <<disk, snap, flusher, expired, friendVars, resp, clientVars,
                   notified, up, crashes, redeemers>>

Expire ==
    /\ ~expired
    /\ expired' = TRUE
    /\ UNCHANGED <<storeVars, pc, friendVars, resp, clientVars, notified, up,
                   crashes, redeemers>>
-----------------------------------------------------------------------------
(* The inviter's handleStream. *)
Valid == entry.known /\ ~entry.consumed /\ ~expired

(* Hello read, entry looked up, the invitee's public key checked: a bad    *)
(* key or one of another peer is rejected before the code is touched.      *)
handleGet(a) ==
    /\ \/ Valid /\ Goto(a, "get", "mark")
       \/ Goto(a, "get", "reject")
    /\ UNCHANGED <<storeVars, friendVars, resp, clientVars, notified, envVars, redeemers>>

(* Faulty: the check made by handleGet is trusted. *)
MarkConsumedUnchecked(a) ==
    /\ Goto(a, "mark", "markSnap")
    /\ entry' = [entry EXCEPT !.consumed = TRUE]
    /\ UNCHANGED <<disk, snap, flusher, friendVars, resp, clientVars, notified,
                   envVars, redeemers>>

(* Store.MarkConsumed, the compare-and-set. *)
MarkConsumed(a) ==
    /\ Goto(a, "mark", IF Valid THEN "markSnap" ELSE "reject")
    /\ entry' = IF Valid THEN [entry EXCEPT !.consumed = TRUE] ELSE entry
    /\ UNCHANGED <<disk, snap, flusher, friendVars, resp, clientVars, notified,
                   envVars, redeemers>>

Duplicate(i) == i \in clash \cup friends

(* friends.Store.Add: a duplicate name or peer, a stored friend, or a       *)
(* friend that is in memory although writing the file failed.              *)
friendAdd(a) ==
    /\ \/ /\ Duplicate(Who[a])
          /\ Goto(a, "friend", "unmark")
          /\ UNCHANGED <<friendVars, redeemers>>
       \/ /\ ~Duplicate(Who[a])
          /\ Goto(a, "friend", "respond")
          /\ friends' = friends \cup {Who[a]}
          /\ savedFriends' = friends'
          /\ redeemers' = redeemers \cup {Who[a]}
          /\ UNCHANGED clash
       \/ /\ ~Duplicate(Who[a])
          /\ Goto(a, "friend", "unmark")
          /\ friends' = friends \cup {Who[a]}
          /\ UNCHANGED <<savedFriends, clash, redeemers>>
    /\ UNCHANGED <<storeVars, resp, clientVars, notified, envVars>>

(* Faulty: a failed Add goes on to the rejection and keeps the code burnt. *)
UnmarkConsumedForgotten(a) ==
    /\ Goto(a, "unmark", "reject")
    /\ UNCHANGED <<storeVars, friendVars, resp, clientVars, notified, envVars, redeemers>>

(* Faulty: the entry is restored in memory and not flushed. *)
UnmarkConsumedUnflushed(a) ==
    /\ Goto(a, "unmark", "reject")
    /\ entry' = [entry EXCEPT !.consumed = FALSE]
    /\ UNCHANGED <<disk, snap, flusher, friendVars, resp, clientVars, notified,
                   envVars, redeemers>>

(* Store.UnmarkConsumed. *)
UnmarkConsumed(a) ==
    /\ Goto(a, "unmark", IF entry.known /\ entry.consumed THEN "unmarkSnap" ELSE "reject")
    /\ entry' = [entry EXCEPT !.consumed = FALSE]
    /\ UNCHANGED <<disk, snap, flusher, friendVars, resp, clientVars, notified,
                   envVars, redeemers>>

handleReject(a) ==
    /\ Goto(a, "reject", "done")
    /\ resp' = [resp EXCEPT ![a] = "reject"]
    /\ UNCHANGED <<storeVars, friendVars, clientVars, notified, envVars, redeemers>>

(* The Accept response.  Marshalling the daemon's own key does not fail. *)
handleAccept(a) ==
    /\ Goto(a, "respond", "fanout")
    /\ resp' = [resp EXCEPT ![a] = "accept"]
    /\ UNCHANGED <<storeVars, friendVars, clientVars, notified, envVars, redeemers>>

fanoutRedemption(a) ==
    /\ Goto(a, "fanout", "done")
    /\ notified' = notified \cup {a}
    /\ UNCHANGED <<storeVars, friendVars, resp, clientVars, envVars, redeemers>>

handleStream(a) ==
    \/ handleGet(a) \/ MarkConsumed(a) \/ friendAdd(a)
    \/ UnmarkConsumed(a) \/ handleReject(a) \/ handleAccept(a)
    \/ fanoutRedemption(a)
-----------------------------------------------------------------------------
(* The invitee's dialAndHandshake. *)

(* Redeem or RedeemURL returns before the Hello: no record, a record that  *)
(* does not verify or has expired by the invitee's clock, a failed dial.   *)
RedeemFails(a) ==
    /\ client[a] = "idle"
    /\ client' = [client EXCEPT ![a] = "failed"]
    /\ UNCHANGED <<storeVars, pc, friendVars, resp, befriended, notified, envVars, redeemers>>

(* Dial and Hello; the inviter's handler starts. *)
SendHello(a) ==
    /\ Created /\ client[a] = "idle"
    /\ Goto(a, "idle", "get")
    /\ client' = [client EXCEPT ![a] = "waiting"]
    /\ UNCHANGED <<storeVars, friendVars, resp, befriended, notified, envVars, redeemers>>

(* Faulty: the type of the response is not looked at. *)
ReadResponseLenient(a) ==
    /\ client[a] = "waiting" /\ resp[a] # "none"
    /\ client' = [client EXCEPT ![a] = "done"]
    /\ befriended' = befriended \cup {Who[a]}
    /\ UNCHANGED <<storeVars, pc, friendVars, resp, notified, envVars, redeemers>>

(* Accept: friends.Add on the invitee's side, which may fail as well. *)
ReadResponse(a) ==
    /\ client[a] = "waiting" /\ resp[a] # "none"
    /\ \/ /\ resp[a] = "accept" /\ Who[a] \notin befriended
          /\ client' = [client EXCEPT ![a] = "done"]
          /\ befriended' = befriended \cup {Who[a]}
       \/ /\ client' = [client EXCEPT ![a] = "failed"]
          /\ UNCHANGED befriended
    /\ UNCHANGED <<storeVars, pc, friendVars, resp, notified, envVars, redeemers>>

(* The read deadline passes or the stream is lost. *)
ReadTimeout(a) ==
    /\ client[a] = "waiting"
    /\ client' = [client EXCEPT ![a] = "failed"]
    /\ UNCHANGED <<storeVars, pc, friendVars, resp, befriended, notified, envVars, redeemers>>
-----------------------------------------------------------------------------
(* The inviter renames the friend whose name stood in the way. *)
Rename(i) ==
    /\ up /\ i \in clash
    /\ clash' = clash \ {i}
    /\ UNCHANGED <<storeVars, pc, friends, savedFriends, resp, clientVars, notified,
                   envVars, redeemers>>

(* The inviter adds an invitee by other means; writing the file may fail. *)
AddFriend(i) ==
    /\ up /\ ~Duplicate(i)
    /\ friends' = friends \cup {i}
    /\ savedFriends' \in {savedFriends, friends'}
    /\ UNCHANGED <<storeVars, pc, clash, resp, clientVars, notified, envVars, redeemers>>

(* The daemon dies: goroutines, locks and memory are gone. *)
Crash ==
    /\ up /\ crashes < MaxCrashes
    /\ up' = FALSE
    /\ crashes' = crashes + 1
    /\ flusher' = Nobody /\ snap' = Absent
    /\ entry' = Absent /\ friends' = {}
    /\ pc' = [t \in Tasks |-> IF pc[t] \in {"idle", "done"} THEN pc[t] ELSE "lost"]
    /\ UNCHANGED <<disk, expired, savedFriends, clash, resp, clientVars, notified, redeemers>>

(* OpenStore and friends.Open read the files. *)
Restart ==
    /\ ~up
    /\ up' = TRUE
    /\ entry' = disk
    /\ friends' = savedFriends
    /\ UNCHANGED <<disk, snap, flusher, expired, pc, savedFriends, clash, resp,
                   clientVars, notified, crashes, redeemers>>
-----------------------------------------------------------------------------
Init ==
    /\ entry = Absent /\ disk = Absent /\ snap = Absent /\ flusher = Nobody
    /\ expired = FALSE
    /\ pc = [t \in Tasks |-> "idle"]
    /\ savedFriends \in SUBSET Invitees /\ friends = savedFriends
    /\ clash \in SUBSET Invitees
    /\ resp = [a \in Attempts |-> "none"]
    /\ client = [a \in Attempts |-> "idle"] /\ befriended = {}
    /\ notified = {}
    /\ up = TRUE /\ crashes = 0
    /\ redeemers = {}

Next ==
    \/ Create \/ Revoke \/ Expire \/ Crash \/ Restart
    \/ \E t \in Tasks : flushSnapshot(t) \/ flushWrite(t)
    \/ \E a \in Attempts : handleStream(a) \/ RedeemFails(a) \/ SendHello(a)
                         \/ ReadResponse(a) \/ ReadTimeout(a)
    \/ \E i \in Invitees : Rename(i) \/ AddFriend(i)

Spec == Init /\ [][Next]_vars
-----------------------------------------------------------------------------
Busy(a) == pc[a] \in {"markSnap", "markWrite", "friend", "unmark"}

(* A code is redeemed at most once, however many peers try it at once,     *)
(* whatever rollbacks, crashes and restarts come in between: MarkConsumed  *)
(* admits one handler and is on disk before friends.Add runs.  A friend    *)
(* that Add keeps although it reports a failed write has not redeemed it.  *)
SingleUse == Cardinality(redeemers) <= 1

(* A peer that has added the inviter is in the inviter's friends file: the *)
(* Accept is sent only after friends.Add has persisted, so no crash can    *)
(* leave the invitee alone with the friendship.                            *)
AcceptedIsMutual == befriended \subseteq savedFriends

(* While the daemon has not crashed, a consumed code with no handler       *)
(* working on it has made a friend: no failure path burns the invite.      *)
ConsumedMadeFriend ==
    crashes = 0 /\ entry.consumed /\ (\A a \in Attempts : ~Busy(a)) => redeemers # {}

(* A code whose Revoke has returned stays revoked, in memory, on disk and  *)
(* after any restart: flushMu keeps an older snapshot from being written   *)
(* over a newer one.                                                       *)
RevokedStaysRevoked == pc[Revoker] = "done" => ~entry.known /\ ~disk.known

AtWork(t) == pc[t] \in SnapLabels \cup WriteLabels \cup {"friend", "unmark"}

(* The comment over MarkConsumed in handleStream: when friends.Add fails   *)
(* the entry is restored, so that the code remains valid.  It does so for  *)
(* good: when every handler is through and none was cut off by a crash, a  *)
(* code that the invites file calls consumed has been redeemed.  The       *)
(* snapshots of concurrent redemptions and of Revoke may be written in any *)
(* order that flushMu lets them, and none brings back a mark that was      *)
(* rolled back.                                                            *)
RollbackIsDurable ==
    disk.consumed /\ (\A t \in Tasks : ~AtWork(t) /\ pc[t] # "lost") => redeemers # {}
=============================================================================
