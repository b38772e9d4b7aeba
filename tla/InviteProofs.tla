---------------------------- MODULE InviteProofs ----------------------------
(***************************************************************************)
(* The invariants of Invite for any attempts, invitees and crashes.        *)
(*                                                                         *)
(* The life of a code is decided in three places that a crash tells apart: *)
(* the entry in memory, the entry in the file, and the snapshot a flush is *)
(* about to write.  Redeeming follows a code that is in hand: from         *)
(* MarkConsumed on it is unusable in memory, then in the snapshot, then on *)
(* disk, and only then friends.Add runs.  Revoking says the same of a code *)
(* that Revoke has removed.  RollingBack follows a mark the other way: as  *)
(* long as one is left in memory, in a snapshot or in the file of a code   *)
(* that made no friend, some task still has a flush before it that writes  *)
(* a later state, or was cut off by a crash.  All three need an invites    *)
(* file that can be written, because Store.flush ignores write errors.     *)
(* AcceptedIsMutual and ConsumedMadeFriend hold on any disk.               *)
(***************************************************************************)
EXTENDS Invite, FiniteSetTheorems, TLAPS

(* Each task keeps to its own part of the labels. *)
Paths ==
    /\ pc[Creator] \in {"idle", "addSnap", "addWrite", "done", "lost"}
    /\ pc[Revoker] \in {"idle", "removeSnap", "removeWrite", "done", "lost"}
    /\ \A a \in Attempts :
          pc[a] \notin {"addSnap", "addWrite", "removeSnap", "removeWrite"}

(* Nothing runs in a dead daemon, and nothing before the code exists. *)
RunsWhileUp == ~up => \A t \in Tasks : pc[t] \in {"idle", "done", "lost"}
NothingBeforeCreate ==
    ~Created => redeemers = {} /\ pc[Revoker] = "idle" /\ \A a \in Attempts : pc[a] = "idle"

Usable(e) == e.known /\ ~e.consumed

(* One handler at a time has the code in hand, and the code becomes        *)
(* unusable in memory, in the snapshot and in the file, in this order.     *)
OneBusy == \A a, b \in Attempts : Busy(a) /\ Busy(b) => a = b
InHand ==
    \A a \in Attempts :
        /\ Busy(a) => ~Usable(entry)
        /\ pc[a] \in {"markWrite", "friend", "unmark"} => ~Usable(snap)
        /\ pc[a] \in {"friend", "unmark"} => ~Usable(disk)

(* A code that has made a friend is unusable everywhere and in no hand. *)
Spent ==
    redeemers # {} =>
        /\ ~Usable(entry) /\ ~Usable(snap) /\ ~Usable(disk)
        /\ \A a \in Attempts : ~Busy(a)
OneRedeemer == \A i, j \in redeemers : i = j

Redeeming == OneBusy /\ InHand /\ Spent /\ OneRedeemer

(* A removed code is gone from memory, from the snapshot, from the file. *)
Revoking ==
    /\ pc[Revoker] \in {"removeSnap", "removeWrite", "done"} => ~entry.known
    /\ pc[Revoker] \in {"removeWrite", "done"} => ~snap.known
    /\ pc[Revoker] = "done" => ~disk.known

(* The store marks only what it knows; flushMu is held by the one writer. *)
Sane == \A e \in {entry, snap, disk} : e.consumed => e.known
Writes == \A t \in Tasks : pc[t] \in WriteLabels <=> flusher = t

(* A handler with the code in hand finds its mark, or the code revoked. *)
Restorable ==
    \A a \in Attempts :
        Busy(a) => \/ entry.known /\ entry.consumed
                   \/ pc[Revoker] \in {"removeSnap", "removeWrite", "done", "lost"}

(* A flush is still to be begun, or was lost in a crash. *)
Owing(t) == pc[t] \in SnapLabels \cup {"markWrite", "friend", "unmark"}
Open == \E t \in Tasks : Owing(t) \/ pc[t] = "lost"

(* Where a mark that made no friend may still be found. *)
MarkInMemory ==
    entry.consumed /\ redeemers = {} =>
        (\E a \in Attempts : Busy(a)) \/ (\E t \in Tasks : pc[t] = "lost")
MarkInSnapshot == flusher # Nobody /\ snap.consumed /\ redeemers = {} => Open
MarkInFile == disk.consumed /\ redeemers = {} => Open \/ flusher # Nobody

RollingBack ==
    Sane /\ Writes /\ Restorable /\ MarkInMemory /\ MarkInSnapshot /\ MarkInFile

(* Whoever is told Accept is in the friends file. *)
Told ==
    /\ up => savedFriends \subseteq friends
    /\ \A a \in Attempts :
          pc[a] \in {"respond", "fanout"} \/ resp[a] = "accept" => Who[a] \in savedFriends
    /\ befriended \subseteq savedFriends

(* Until a crash, a consumed code is in hand or has made a friend. *)
Accounted ==
    /\ crashes = 0 => up
    /\ crashes = 0 /\ entry.consumed => redeemers # {} \/ \E a \in Attempts : Busy(a)

Base == TypeOK /\ Paths /\ RunsWhileUp /\ NothingBeforeCreate
-----------------------------------------------------------------------------
(* A task is an attempt, the creator or the revoker, and only one of them. *)
LEMMA TasksApart ==
    /\ Creator \in Tasks /\ Revoker \in Tasks /\ Creator # Revoker
    /\ Attempts \subseteq Tasks /\ Creator \notin Attempts /\ Revoker \notin Attempts
    /\ \A t \in Tasks : t \in Attempts \/ t = Creator \/ t = Revoker
    /\ Nobody \notin Tasks
  BY TasksAssumption DEF Tasks, Creator, Revoker, Nobody

(* Where the two steps of Store.flush lead. *)
LEMMA FlushLabels ==
    /\ \A l \in SnapLabels :
          /\ WriteOf(l) \in WriteLabels
          /\ WriteOf(l) = "addWrite" <=> l = "addSnap"
          /\ WriteOf(l) = "markWrite" <=> l = "markSnap"
          /\ WriteOf(l) = "removeWrite" <=> l = "removeSnap"
    /\ \A l \in WriteLabels :
          /\ After(l) \in {"done", "friend", "reject"}
          /\ After(l) = "friend" <=> l = "markWrite"
          /\ After(l) = "reject" <=> l = "unmarkWrite"
  BY DEF SnapLabels, WriteLabels, WriteOf, After

(* The store starts empty and no handler runs. *)
LEMMA InitBase == Init => Base
  <1> SUFFICES ASSUME Init PROVE Base
    OBVIOUS
  <1>1. TypeOK
    <2>1. pc \in [Tasks -> Labels]
      BY DEF Init, Labels
    <2>2. entry \in Entry /\ disk \in Entry /\ snap \in Entry
      BY DEF Init, Entry, Absent
    <2>3. /\ resp \in [Attempts -> {"none", "accept", "reject"}]
          /\ client \in [Attempts -> {"idle", "waiting", "done", "failed"}]
      BY DEF Init
    <2>4. crashes \in 0 .. MaxCrashes
      BY AttemptsAssumption DEF Init
    <2>5. expired \in BOOLEAN /\ up \in BOOLEAN
      BY DEF Init
    <2> QED
      BY <2>1, <2>2, <2>3, <2>4, <2>5 DEF Init, TypeOK
  <1>2. Paths
    BY TasksApart DEF Init, Paths
  <1>3. RunsWhileUp /\ NothingBeforeCreate
    BY TasksApart DEF Init, RunsWhileUp, NothingBeforeCreate
  <1> QED
    BY <1>1, <1>2, <1>3 DEF Base

(* Every step keeps the types. *)
LEMMA TypeStep == TypeOK /\ [Next]_vars => TypeOK'
  <1> SUFFICES ASSUME TypeOK, [Next]_vars PROVE TypeOK'
    OBVIOUS
  <1> USE TasksApart, AttemptsAssumption
  <1>1. CASE Create
    BY <1>1 DEF Create, Goto, TypeOK, Entry, Fresh, friendVars, clientVars, Labels, SnapLabels
  <1>2. CASE Revoke
    BY <1>2 DEF Revoke, Goto, TypeOK, Entry, Absent, friendVars, clientVars, Labels, SnapLabels
  <1>3. CASE Expire
    BY <1>3 DEF Expire, TypeOK, storeVars, friendVars, clientVars
  <1>4. CASE Crash
    <2>1. pc' \in [Tasks -> Labels]
      BY <1>4 DEF Crash, TypeOK, Labels
    <2>2. entry' \in Entry /\ snap' \in Entry
      BY <1>4 DEF Crash, Entry, Absent
    <2>3. crashes' \in 0 .. MaxCrashes
      BY <1>4 DEF Crash, TypeOK
    <2> QED
      BY <1>4, <2>1, <2>2, <2>3 DEF Crash, TypeOK, clientVars
  <1>5. CASE Restart
    BY <1>5 DEF Restart, TypeOK, clientVars
  <1>6. ASSUME NEW t \in Tasks, flushSnapshot(t) PROVE TypeOK'
    BY <1>6, FlushLabels DEF flushSnapshot, TypeOK, friendVars, clientVars, Labels
  <1>7. ASSUME NEW t \in Tasks, flushWrite(t) PROVE TypeOK'
    BY <1>7, FlushLabels DEF flushWrite, TypeOK, friendVars, clientVars, Labels
  <1>8. ASSUME NEW a \in Attempts, handleStream(a) PROVE TypeOK'
    <2>1. CASE handleGet(a)
      BY <2>1 DEF handleGet, Goto, TypeOK, storeVars, friendVars, clientVars, envVars, Labels
    <2>2. CASE MarkConsumed(a)
      BY <2>2 DEF MarkConsumed, Goto, TypeOK, Entry, friendVars, clientVars, envVars, Labels, SnapLabels
    <2>3. CASE friendAdd(a)
      BY <2>3 DEF friendAdd, Goto, TypeOK, storeVars, friendVars, clientVars, envVars, Labels
    <2>4. CASE UnmarkConsumed(a)
      BY <2>4 DEF UnmarkConsumed, Goto, TypeOK, Entry, friendVars, clientVars, envVars, Labels, SnapLabels
    <2>5. CASE handleReject(a)
      BY <2>5 DEF handleReject, Goto, TypeOK, storeVars, friendVars, clientVars, envVars, Labels
    <2>6. CASE handleAccept(a)
      BY <2>6 DEF handleAccept, Goto, TypeOK, storeVars, friendVars, clientVars, envVars, Labels
    <2>7. CASE fanoutRedemption(a)
      BY <2>7 DEF fanoutRedemption, Goto, TypeOK, storeVars, friendVars, clientVars, envVars, Labels
    <2> QED
      BY <1>8, <2>1, <2>2, <2>3, <2>4, <2>5, <2>6, <2>7 DEF handleStream
  <1>9. ASSUME NEW a \in Attempts, RedeemFails(a) \/ ReadTimeout(a) PROVE TypeOK'
    BY <1>9 DEF RedeemFails, ReadTimeout, TypeOK, storeVars, friendVars, envVars
  <1>10. ASSUME NEW a \in Attempts, SendHello(a) PROVE TypeOK'
    BY <1>10 DEF SendHello, Goto, TypeOK, storeVars, friendVars, envVars, Labels
  <1>11. ASSUME NEW a \in Attempts, ReadResponse(a) PROVE TypeOK'
    BY <1>11 DEF ReadResponse, TypeOK, storeVars, friendVars, envVars
  <1>12. ASSUME NEW i \in Invitees, Rename(i) PROVE TypeOK'
    BY <1>12 DEF Rename, TypeOK, storeVars, clientVars, envVars
  <1>13. ASSUME NEW i \in Invitees, AddFriend(i) PROVE TypeOK'
    BY <1>13 DEF AddFriend, TypeOK, storeVars, clientVars, envVars
  <1>14. CASE UNCHANGED vars
    BY <1>14 DEF vars, TypeOK
  <1> QED
    BY <1>1, <1>2, <1>3, <1>4, <1>5, <1>6, <1>7, <1>8, <1>9, <1>10, <1>11, <1>12, <1>13, <1>14
       DEF Next
-----------------------------------------------------------------------------
(* What the store and the tasks see of a step. *)

(* A handler goes on without touching the store. *)
Passing(a) ==
    /\ up /\ pc[a] \in {"idle", "get", "reject", "respond", "fanout"}
    /\ pc[a] = "idle" => Created
    /\ \E l \in {"get", "mark", "reject", "fanout", "done"} : pc' = [pc EXCEPT ![a] = l]
    /\ UNCHANGED <<entry, disk, snap, flusher, up, crashes, redeemers>>

(* The clock, the invitees and the inviter's other friends. *)
Aside == UNCHANGED <<entry, disk, snap, flusher, pc, up, crashes, redeemers>>

LEMMA StepCases ==
    ASSUME [Next]_vars
    PROVE  \/ Create \/ Revoke \/ Crash \/ Restart \/ Aside
           \/ \E t \in Tasks : flushSnapshot(t) \/ flushWrite(t)
           \/ \E a \in Attempts : MarkConsumed(a) \/ friendAdd(a) \/ UnmarkConsumed(a)
           \/ \E a \in Attempts : Passing(a)
  <1>1. Expire \/ UNCHANGED vars => Aside
    BY DEF Expire, vars, Aside, storeVars, friendVars
  <1>2. ASSUME NEW i \in Invitees, Rename(i) \/ AddFriend(i) PROVE Aside
    BY <1>2 DEF Rename, AddFriend, Aside, storeVars, envVars
  <1>3. ASSUME NEW a \in Attempts, RedeemFails(a) \/ ReadResponse(a) \/ ReadTimeout(a)
        PROVE  Aside
    BY <1>3 DEF RedeemFails, ReadResponse, ReadTimeout, Aside, storeVars, friendVars, envVars
  <1>4. ASSUME NEW a \in Attempts,
               handleGet(a) \/ handleReject(a) \/ handleAccept(a) \/ fanoutRedemption(a)
        PROVE  Passing(a)
    BY <1>4 DEF handleGet, handleReject, handleAccept, fanoutRedemption, Goto, Passing,
                storeVars, friendVars, envVars
  <1>5. ASSUME NEW a \in Attempts, SendHello(a) PROVE Passing(a)
    BY <1>5 DEF SendHello, Goto, Passing, storeVars, friendVars, envVars
  <1> QED
    BY <1>1, <1>2, <1>3, <1>4, <1>5 DEF Next, handleStream

(* The order of the tasks' steps. *)
LEMMA BaseStep == Base /\ [Next]_vars => Base'
  <1> SUFFICES ASSUME Base, [Next]_vars PROVE Base'
    OBVIOUS
  <1> USE TasksApart DEF Base
  <1>1. TypeOK'
    BY TypeStep
  <1>p. pc \in [Tasks -> Labels]
    BY DEF TypeOK
  <1> DEFINE Order == Paths /\ RunsWhileUp /\ NothingBeforeCreate
  <1>2. ASSUME Create PROVE Order'
    BY <1>2, <1>p DEF Create, Goto, Paths, RunsWhileUp, NothingBeforeCreate, Created
  <1>3. ASSUME Revoke PROVE Order'
    BY <1>3, <1>p DEF Revoke, Goto, Paths, RunsWhileUp, NothingBeforeCreate, Created
  <1>4. ASSUME Crash PROVE Order'
    BY <1>4, <1>p DEF Crash, Paths, RunsWhileUp, NothingBeforeCreate, Created
  <1>5. ASSUME Restart PROVE Order'
    BY <1>5, <1>p DEF Restart, Paths, RunsWhileUp, NothingBeforeCreate, Created
  <1>6. ASSUME Aside PROVE Order'
    BY <1>6 DEF Aside, Paths, RunsWhileUp, NothingBeforeCreate, Created
  <1>7. ASSUME NEW t \in Tasks, flushSnapshot(t) PROVE Order'
    BY <1>7, <1>p, FlushLabels
       DEF flushSnapshot, Paths, RunsWhileUp, NothingBeforeCreate, Created, SnapLabels, WriteLabels
  <1>8. ASSUME NEW t \in Tasks, flushWrite(t) PROVE Order'
    BY <1>8, <1>p, FlushLabels
       DEF flushWrite, Paths, RunsWhileUp, NothingBeforeCreate, Created, WriteLabels, After
  <1>9. ASSUME NEW a \in Attempts, MarkConsumed(a) \/ friendAdd(a) \/ UnmarkConsumed(a) 
        PROVE  Order'
    BY <1>9, <1>p DEF MarkConsumed, friendAdd, UnmarkConsumed, Goto, envVars, Paths, RunsWhileUp,
                      NothingBeforeCreate, Created
  <1>10. ASSUME NEW a \in Attempts, Passing(a) PROVE Order'
    BY <1>10, <1>p DEF Passing, Paths, RunsWhileUp, NothingBeforeCreate, Created
  <1> QED
    BY <1>1, <1>2, <1>3, <1>4, <1>5, <1>6, <1>7, <1>8, <1>9, <1>10, StepCases
-----------------------------------------------------------------------------
(* Only the one handler that has it in hand can make a code usable again,  *)
(* and friends.Add runs when no restart can.                               *)
LEMMA RedeemingStep ==
    ASSUME ~DiskFaults
    PROVE  Base /\ Redeeming /\ [Next]_vars => Redeeming'
  <1> SUFFICES ASSUME Base, Redeeming, [Next]_vars PROVE Redeeming'
    OBVIOUS
  <1> USE TasksApart DEF Base, Redeeming, Busy, Usable
  <1>t. /\ pc \in [Tasks -> Labels]
        /\ entry \in Entry /\ snap \in Entry /\ disk \in Entry
    BY DEF TypeOK
  <1>1. ASSUME Create PROVE Redeeming'
    BY <1>1, <1>t DEF Create, Goto, friendVars, NothingBeforeCreate, Created,
                      OneBusy, InHand, Spent, OneRedeemer
  <1>2. ASSUME Revoke PROVE Redeeming'
    BY <1>2, <1>t DEF Revoke, Goto, friendVars, Absent,
                      OneBusy, InHand, Spent, OneRedeemer
  <1>3. ASSUME Crash PROVE Redeeming'
    BY <1>3, <1>t DEF Crash, Absent, OneBusy, InHand, Spent, OneRedeemer
  <1>4. ASSUME Restart PROVE Redeeming'
    BY <1>4, <1>t DEF Restart, RunsWhileUp, OneBusy, InHand, Spent, OneRedeemer
  <1>5. ASSUME Aside PROVE Redeeming'
    BY <1>5 DEF Aside, OneBusy, InHand, Spent, OneRedeemer
  <1>6. ASSUME NEW t \in Tasks, flushSnapshot(t) PROVE Redeeming'
    BY <1>6, <1>t, FlushLabels
       DEF flushSnapshot, friendVars, SnapLabels, WriteLabels,
           OneBusy, InHand, Spent, OneRedeemer
  <1>7. ASSUME NEW t \in Tasks, flushWrite(t) PROVE Redeeming'
    BY <1>7, <1>t, FlushLabels
       DEF flushWrite, friendVars, WriteLabels,
           OneBusy, InHand, Spent, OneRedeemer
  <1>8. ASSUME NEW a \in Attempts, MarkConsumed(a) PROVE Redeeming'
    BY <1>8, <1>t DEF MarkConsumed, Goto, Valid, friendVars, Entry,
                      OneBusy, InHand, Spent, OneRedeemer
  <1>9. ASSUME NEW a \in Attempts, friendAdd(a) PROVE Redeeming'
    BY <1>9, <1>t DEF friendAdd, Goto, friendVars, storeVars,
                      OneBusy, InHand, Spent, OneRedeemer
  <1>10. ASSUME NEW a \in Attempts, UnmarkConsumed(a) PROVE Redeeming'
    BY <1>10, <1>t DEF UnmarkConsumed, Goto, friendVars, Entry,
                       OneBusy, InHand, Spent, OneRedeemer
  <1>11. ASSUME NEW a \in Attempts, Passing(a) PROVE Redeeming'
    BY <1>11, <1>t DEF Passing, OneBusy, InHand, Spent, OneRedeemer
  <1> QED
    BY <1>1, <1>2, <1>3, <1>4, <1>5, <1>6, <1>7, <1>8, <1>9, <1>10, <1>11, StepCases

(* Nothing brings a removed entry back. *)
LEMMA RevokingStep ==
    ASSUME ~DiskFaults
    PROVE  Base /\ Revoking /\ [Next]_vars => Revoking'
  <1> SUFFICES ASSUME Base, Revoking, [Next]_vars PROVE Revoking'
    OBVIOUS
  <1> USE TasksApart DEF Base, Revoking
  <1>t. /\ pc \in [Tasks -> Labels]
        /\ entry \in Entry /\ snap \in Entry /\ disk \in Entry
    BY DEF TypeOK
  <1>1. ASSUME Create PROVE Revoking'
    BY <1>1, <1>t DEF Create, Goto, NothingBeforeCreate, Created
  <1>2. ASSUME Revoke PROVE Revoking'
    BY <1>2, <1>t DEF Revoke, Goto, Absent
  <1>3. ASSUME Crash PROVE Revoking'
    BY <1>3, <1>t DEF Crash, Absent
  <1>4. ASSUME Restart PROVE Revoking'
    BY <1>4, <1>t DEF Restart, RunsWhileUp
  <1>5. ASSUME Aside PROVE Revoking'
    BY <1>5 DEF Aside
  <1>6. ASSUME NEW t \in Tasks, flushSnapshot(t) PROVE Revoking'
    BY <1>6, <1>t, FlushLabels DEF flushSnapshot, SnapLabels, WriteLabels
  <1>7. ASSUME NEW t \in Tasks, flushWrite(t) PROVE Revoking'
    BY <1>7, <1>t, FlushLabels DEF flushWrite, WriteLabels, Paths
  <1>8. ASSUME NEW a \in Attempts, MarkConsumed(a) \/ UnmarkConsumed(a) PROVE Revoking'
    BY <1>8, <1>t DEF MarkConsumed, UnmarkConsumed, Goto, Valid, Entry
  <1>9. ASSUME NEW a \in Attempts, friendAdd(a) PROVE Revoking'
    BY <1>9, <1>t DEF friendAdd, Goto, storeVars
  <1>10. ASSUME NEW a \in Attempts, Passing(a) PROVE Revoking'
    BY <1>10, <1>t DEF Passing
  <1> QED
    BY <1>1, <1>2, <1>3, <1>4, <1>5, <1>6, <1>7, <1>8, <1>9, <1>10, StepCases

(* Whatever follows in this order: the mark of a failed Add is still in    *)
(* memory when it is restored, unless Revoke was there first; the later    *)
(* flush is one that begins after the step that made it necessary.         *)
LEMMA RollingBackStep ==
    ASSUME ~DiskFaults
    PROVE  Base /\ Redeeming /\ Revoking /\ RollingBack /\ [Next]_vars => RollingBack'
  <1> SUFFICES ASSUME Base, Redeeming, Revoking, RollingBack, [Next]_vars PROVE RollingBack'
    OBVIOUS
  <1> USE TasksApart DEF Base, RollingBack, Busy, Owing
  <1>t. /\ pc \in [Tasks -> Labels]
        /\ entry \in Entry /\ snap \in Entry /\ disk \in Entry
        /\ flusher \in Tasks \cup {Nobody}
    BY DEF TypeOK
  <1>1. ASSUME Create PROVE RollingBack'
    <2>1. (Sane /\ Writes)'
      BY <1>1, <1>t DEF Create, Goto, Fresh, Sane, Writes, WriteLabels
    <2>2. Owing(Creator)'
      BY <1>1, <1>t DEF Create, Goto, SnapLabels
    <2>3. Open'
      BY <2>2 DEF Open
    <2>4. (Restorable /\ MarkInMemory)'
      BY <1>1, <1>t DEF Create, Goto, Fresh, NothingBeforeCreate, Created, Restorable, MarkInMemory
    <2> QED
      BY <2>1, <2>3, <2>4 DEF MarkInSnapshot, MarkInFile
  <1>2. ASSUME Revoke PROVE RollingBack'
    <2>1. (Sane /\ Writes)'
      BY <1>2, <1>t DEF Revoke, Goto, Absent, Sane, Writes, WriteLabels
    <2>2. Open => Open'
      BY <1>2, <1>t DEF Revoke, Goto, Open, SnapLabels
    <2>3. (Restorable /\ MarkInMemory)'
      BY <1>2, <1>t DEF Revoke, Goto, Absent, Restorable, MarkInMemory
    <2> QED
      BY <1>2, <2>1, <2>2, <2>3 DEF Revoke, MarkInSnapshot, MarkInFile
  <1>3. ASSUME Crash PROVE RollingBack'
    <2>1. (Sane /\ Writes)'
      BY <1>3, <1>t DEF Crash, Absent, Sane, Writes, WriteLabels
    <2>2. Open \/ flusher # Nobody => Open'
      <3>1. ASSUME NEW t \in Tasks, Owing(t) \/ pc[t] = "lost" \/ pc[t] \in WriteLabels
            PROVE  pc'[t] = "lost"
        BY <1>3, <1>t, <3>1 DEF Crash, SnapLabels, WriteLabels
      <3> QED
        BY <3>1, <1>t DEF Open, Writes
    <2>3. (Restorable /\ MarkInMemory)'
      BY <1>3, <1>t DEF Crash, Absent, Restorable, MarkInMemory
    <2> QED
      BY <1>3, <2>1, <2>2, <2>3 DEF Crash, MarkInSnapshot, MarkInFile
  <1>4. ASSUME Restart PROVE RollingBack'
    <2>1. (Sane /\ Writes /\ Restorable)'
      BY <1>4, <1>t DEF Restart, RunsWhileUp, Sane, Writes, Restorable
    <2>2. Open <=> Open'
      BY <1>4 DEF Restart, Open
    <2>3. \A t \in Tasks : ~Owing(t) /\ pc[t] \notin WriteLabels
      BY <1>4 DEF Restart, RunsWhileUp, SnapLabels, WriteLabels
    <2>4. flusher = Nobody
      BY <2>3, <1>t DEF Writes
    <2>5. MarkInMemory'
      BY <1>4, <2>3, <2>4 DEF Restart, MarkInMemory, MarkInFile, Open
    <2> QED
      BY <1>4, <2>1, <2>2, <2>5 DEF Restart, MarkInSnapshot, MarkInFile
  <1>5. ASSUME Aside PROVE RollingBack'
    BY <1>5 DEF Aside, Sane, Writes, Restorable, MarkInMemory, MarkInSnapshot, MarkInFile, Open
  <1>6. ASSUME NEW t \in Tasks, flushSnapshot(t) PROVE RollingBack'
    <2>0. pc[t] \in SnapLabels /\ pc' = [pc EXCEPT ![t] = WriteOf(pc[t])]
      BY <1>6 DEF flushSnapshot
    <2>1. (Sane /\ Writes)'
      BY <1>6, <1>t, FlushLabels DEF flushSnapshot, Sane, Writes
    <2>2. \A a \in Attempts : Busy(a) <=> Busy(a)'
      BY <2>0, <1>t, FlushLabels DEF SnapLabels, WriteLabels
    <2>3. (Restorable /\ MarkInMemory)'
      BY <1>6, <2>0, <2>2, <1>t, FlushLabels
         DEF flushSnapshot, Restorable, MarkInMemory, SnapLabels, WriteLabels
    <2>4. \A a \in Attempts : Busy(a)' => Owing(a)'
      BY DEF SnapLabels
    <2>5. MarkInSnapshot'
      BY <1>6, <2>3, <2>4 DEF flushSnapshot, MarkInMemory, MarkInSnapshot, Open
    <2>6. MarkInFile'
      BY <1>6 DEF flushSnapshot, MarkInFile
    <2> QED
      BY <2>1, <2>3, <2>5, <2>6
  <1>7. ASSUME NEW t \in Tasks, flushWrite(t) PROVE RollingBack'
    <2>0. /\ pc[t] \in WriteLabels /\ pc' = [pc EXCEPT ![t] = After(pc[t])]
          /\ flusher = t /\ flusher # Nobody
      BY <1>7 DEF flushWrite, Writes
    <2>1. (Sane /\ Writes)'
      BY <1>7, <2>0, <1>t, FlushLabels DEF flushWrite, Sane, Writes, WriteLabels
    <2>2. \A a \in Attempts : Busy(a) <=> Busy(a)'
      BY <2>0, <1>t, FlushLabels DEF WriteLabels
    <2>3. (Restorable /\ MarkInMemory)'
      BY <1>7, <2>0, <2>2, <1>t, FlushLabels
         DEF flushWrite, Restorable, MarkInMemory, WriteLabels, After, Paths
    <2>4. Open => Open'
      <3>1. ASSUME NEW u \in Tasks, Owing(u) \/ pc[u] = "lost" PROVE (Owing(u) \/ pc[u] = "lost")'
        BY <2>0, <3>1, <1>t, FlushLabels DEF WriteLabels, SnapLabels
      <3> QED
        BY <3>1 DEF Open
    <2>5. (MarkInSnapshot /\ MarkInFile)'
      BY <1>7, <2>0, <2>4 DEF flushWrite, MarkInSnapshot, MarkInFile
    <2> QED
      BY <2>1, <2>3, <2>5
  <1>8. ASSUME NEW a \in Attempts, MarkConsumed(a) PROVE RollingBack'
    <2>1. (Sane /\ Writes)'
      BY <1>8, <1>t DEF MarkConsumed, Goto, Valid, Entry, Sane, Writes, WriteLabels
    <2>2. Restorable'
      BY <1>8, <1>t DEF MarkConsumed, Goto, Valid, Entry, Restorable
    <2>3. MarkInMemory'
      BY <1>8, <1>t DEF MarkConsumed, Goto, Entry, MarkInMemory
    <2>4. Open => Open'
      <3>1. ASSUME NEW u \in Tasks, Owing(u) \/ pc[u] = "lost" PROVE (Owing(u) \/ pc[u] = "lost")'
        BY <1>8, <3>1, <1>t DEF MarkConsumed, Goto, SnapLabels
      <3> QED
        BY <3>1 DEF Open
    <2> QED
      BY <1>8, <2>1, <2>2, <2>3, <2>4 DEF MarkConsumed, MarkInSnapshot, MarkInFile
  <1>9. ASSUME NEW a \in Attempts, friendAdd(a) PROVE RollingBack'
    <2>1. (Sane /\ Writes)'
      BY <1>9, <1>t DEF friendAdd, Goto, storeVars, Sane, Writes, WriteLabels
    <2>2. Restorable'
      BY <1>9, <1>t DEF friendAdd, Goto, storeVars, Restorable
    <2>3. redeemers' = {} => pc' = [pc EXCEPT ![a] = "unmark"] /\ redeemers = {}
      BY <1>9 DEF friendAdd, Goto
    <2>4. redeemers' = {} => Open'
      BY <2>3, <1>t DEF Open
    <2>5. MarkInMemory'
      BY <2>3, <1>t DEF MarkInMemory
    <2> QED
      BY <2>1, <2>2, <2>4, <2>5 DEF MarkInSnapshot, MarkInFile
  <1>10. ASSUME NEW a \in Attempts, UnmarkConsumed(a) PROVE RollingBack'
    <2>0. /\ pc[a] = "unmark" /\ Busy(a) /\ ~entry'.consumed
          /\ UNCHANGED <<disk, snap, flusher, redeemers>>
      BY <1>10, <1>t DEF UnmarkConsumed, Goto, Entry
    <2>1. (Sane /\ Writes)'
      BY <1>10, <1>t DEF UnmarkConsumed, Goto, Entry, Sane, Writes, WriteLabels
    <2>2. Restorable'
      BY <1>10, <2>0, <1>t DEF UnmarkConsumed, Goto, Restorable, Redeeming, OneBusy
    <2>3. MarkInMemory'
      BY <2>0 DEF MarkInMemory
    <2>4. CASE entry.known /\ entry.consumed
      <3>1. Owing(a)'
        BY <1>10, <2>4, <1>t DEF UnmarkConsumed, Goto, SnapLabels
      <3>2. Open'
        BY <3>1 DEF Open
      <3> QED
        BY <2>1, <2>2, <2>3, <3>2 DEF MarkInSnapshot, MarkInFile
    <2>5. CASE ~(entry.known /\ entry.consumed)
      <3>1. pc[Revoker] \in {"removeSnap", "removeWrite", "done", "lost"}
        BY <2>0, <2>5 DEF Restorable
      <3>2. pc'[Revoker] = pc[Revoker]
        BY <1>10, <1>t DEF UnmarkConsumed, Goto
      <3>3. CASE pc[Revoker] \in {"removeSnap", "lost"}
        <4>1. Open'
          BY <3>2, <3>3 DEF Open, SnapLabels
        <4> QED
          BY <2>1, <2>2, <2>3, <4>1 DEF MarkInSnapshot, MarkInFile
      <3>4. CASE pc[Revoker] = "removeWrite"
        <4>1. ~snap.consumed /\ flusher # Nobody
          BY <3>4 DEF Revoking, Sane, Writes, WriteLabels
        <4> QED
          BY <2>0, <2>1, <2>2, <2>3, <4>1 DEF MarkInSnapshot, MarkInFile
      <3>5. CASE pc[Revoker] = "done"
        <4>1. ~snap.consumed /\ ~disk.consumed
          BY <3>5 DEF Revoking, Sane
        <4> QED
          BY <2>0, <2>1, <2>2, <2>3, <4>1 DEF MarkInSnapshot, MarkInFile
      <3> QED
        BY <3>1, <3>3, <3>4, <3>5
    <2> QED
      BY <2>4, <2>5
  <1>11. ASSUME NEW a \in Attempts, Passing(a) PROVE RollingBack'
    <2>1. (Sane /\ Writes)'
      BY <1>11, <1>t DEF Passing, Sane, Writes, WriteLabels
    <2>2. (Restorable /\ MarkInMemory)'
      BY <1>11, <1>t DEF Passing, Restorable, MarkInMemory
    <2>3. Open => Open'
      <3>1. ASSUME NEW u \in Tasks, Owing(u) \/ pc[u] = "lost" PROVE (Owing(u) \/ pc[u] = "lost")'
        BY <1>11, <3>1, <1>t DEF Passing, SnapLabels
      <3> QED
        BY <3>1 DEF Open
    <2> QED
      BY <1>11, <2>1, <2>2, <2>3 DEF Passing, MarkInSnapshot, MarkInFile
  <1> QED
    BY <1>1, <1>2, <1>3, <1>4, <1>5, <1>6, <1>7, <1>8, <1>9, <1>10, <1>11, StepCases

(* With every task through, no flush is owed and none is in progress. *)
LEMMA DurableFromMarks == Base /\ RollingBack => RollbackIsDurable
  <1> SUFFICES ASSUME Base, RollingBack, \A t \in Tasks : ~AtWork(t) /\ pc[t] # "lost"
               PROVE  disk.consumed => redeemers # {}
    BY DEF RollbackIsDurable
  <1>1. ~Open
    BY DEF Open, Owing, AtWork, WriteLabels
  <1>2. flusher = Nobody
    BY DEF Base, TypeOK, RollingBack, Writes, AtWork
  <1> QED
    BY <1>1, <1>2 DEF RollingBack, MarkInFile

(* A handler leaves a consumed code only with a friend or restored. *)
LEMMA AccountedStep == Base /\ Accounted /\ [Next]_vars => Accounted'
  <1> SUFFICES ASSUME Base, Accounted, [Next]_vars PROVE Accounted'
    OBVIOUS
  <1> USE TasksApart DEF Base, Accounted, Busy
  <1>t. /\ pc \in [Tasks -> Labels]
        /\ entry \in Entry /\ crashes \in Nat
    BY DEF TypeOK
  <1>1. ASSUME Create \/ Revoke PROVE Accounted'
    BY <1>1, <1>t DEF Create, Revoke, Goto, Absent, Fresh
  <1>2. ASSUME Crash \/ Restart PROVE Accounted'
    BY <1>2, <1>t DEF Crash, Restart
  <1>3. ASSUME Aside PROVE Accounted'
    BY <1>3 DEF Aside
  <1>4. ASSUME NEW t \in Tasks, flushSnapshot(t) PROVE Accounted'
    BY <1>4, <1>t, FlushLabels DEF flushSnapshot, SnapLabels
  <1>5. ASSUME NEW t \in Tasks, flushWrite(t) PROVE Accounted'
    BY <1>5, <1>t, FlushLabels DEF flushWrite, WriteLabels
  <1>6. ASSUME NEW a \in Attempts, MarkConsumed(a) PROVE Accounted'
    BY <1>6, <1>t DEF MarkConsumed, Goto, Valid, Entry, envVars
  <1>7. ASSUME NEW a \in Attempts, UnmarkConsumed(a) PROVE Accounted'
    BY <1>7, <1>t DEF UnmarkConsumed, Goto, Entry, envVars
  <1>8. ASSUME NEW a \in Attempts, friendAdd(a) PROVE Accounted'
    BY <1>8, <1>t DEF friendAdd, Goto, storeVars, friendVars, envVars
  <1>9. ASSUME NEW a \in Attempts, Passing(a) PROVE Accounted'
    BY <1>9, <1>t DEF Passing
  <1> QED
    BY <1>1, <1>2, <1>3, <1>4, <1>5, <1>6, <1>7, <1>8, <1>9, StepCases

(* friends.Add writes the file before the handler goes on to the Accept. *)
LEMMA ToldStep == TypeOK /\ Told /\ [Next]_vars => Told'
  <1> SUFFICES ASSUME TypeOK, Told, [Next]_vars PROVE Told'
    OBVIOUS
  <1> USE TasksApart, AttemptsAssumption DEF Told
  <1>t. pc \in [Tasks -> Labels] /\ resp \in [Attempts -> {"none", "accept", "reject"}]
    BY DEF TypeOK
  <1>1. ASSUME Create \/ Revoke PROVE Told'
    BY <1>1, <1>t DEF Create, Revoke, Goto, friendVars, clientVars
  <1>2. ASSUME Crash \/ Restart PROVE Told'
    BY <1>2, <1>t DEF Crash, Restart, clientVars
  <1>3. ASSUME Expire \/ UNCHANGED vars PROVE Told'
    BY <1>3 DEF Expire, vars, friendVars, clientVars
  <1>4. ASSUME NEW t \in Tasks, flushSnapshot(t) PROVE Told'
    BY <1>4, <1>t, FlushLabels DEF flushSnapshot, WriteLabels, friendVars, clientVars
  <1>5. ASSUME NEW t \in Tasks, flushWrite(t) PROVE Told'
    BY <1>5, <1>t, FlushLabels DEF flushWrite, friendVars, clientVars
  <1>6. ASSUME NEW a \in Attempts, handleStream(a) PROVE Told'
    <2>1. CASE handleGet(a) \/ fanoutRedemption(a)
      BY <2>1, <1>t DEF handleGet, fanoutRedemption, Goto, friendVars, clientVars, envVars
    <2>2. CASE MarkConsumed(a) \/ UnmarkConsumed(a)
      BY <2>2, <1>t DEF MarkConsumed, UnmarkConsumed, Goto, friendVars, clientVars, envVars
    <2>3. CASE friendAdd(a)
      BY <2>3, <1>t DEF friendAdd, Goto, friendVars, clientVars, envVars
    <2>4. CASE handleReject(a) \/ handleAccept(a)
      BY <2>4, <1>t DEF handleReject, handleAccept, Goto, friendVars, clientVars, envVars
    <2> QED
      BY <1>6, <2>1, <2>2, <2>3, <2>4 DEF handleStream
  <1>7. ASSUME NEW a \in Attempts, RedeemFails(a) \/ ReadTimeout(a) PROVE Told'
    BY <1>7, <1>t DEF RedeemFails, ReadTimeout, friendVars, envVars
  <1>8. ASSUME NEW a \in Attempts, SendHello(a) PROVE Told'
    BY <1>8, <1>t DEF SendHello, Goto, friendVars, envVars
  <1>9. ASSUME NEW a \in Attempts, ReadResponse(a) PROVE Told'
    BY <1>9, <1>t DEF ReadResponse, friendVars, envVars
  <1>10. ASSUME NEW i \in Invitees, Rename(i) PROVE Told'
    BY <1>10, <1>t DEF Rename, clientVars, envVars
  <1>11. ASSUME NEW i \in Invitees, AddFriend(i) PROVE Told'
    BY <1>11, <1>t DEF AddFriend, clientVars, envVars
  <1> QED
    BY <1>1, <1>2, <1>3, <1>4, <1>5, <1>6, <1>7, <1>8, <1>9, <1>10, <1>11 DEF Next

(* None of this is asked of a program that has just started. *)
LEMMA InitRest == Init => Redeeming /\ Revoking /\ RollingBack /\ Told /\ Accounted
  <1> SUFFICES ASSUME Init PROVE Redeeming /\ Revoking /\ RollingBack /\ Told /\ Accounted
    OBVIOUS
  <1> USE TasksApart DEF Init
  <1>1. Redeeming
    BY DEF Redeeming, OneBusy, InHand, Spent, OneRedeemer, Busy
  <1>2. Revoking
    BY DEF Revoking
  <1>3. Told
    BY DEF Told
  <1>4. Accounted
    BY DEF Accounted, Absent
  <1>5. RollingBack
    BY DEF RollingBack, Sane, Writes, Restorable, MarkInMemory, MarkInSnapshot, MarkInFile,
           Absent, Busy, WriteLabels
  <1> QED
    BY <1>1, <1>2, <1>3, <1>4, <1>5

(* A set whose members are all equal has at most one. *)
LEMMA AtMostOne == ASSUME OneRedeemer PROVE SingleUse
  <1>1. CASE redeemers = {}
    BY <1>1, FS_EmptySet DEF SingleUse
  <1>2. CASE redeemers # {}
    <2>1. PICK i \in redeemers : TRUE
      BY <1>2
    <2>2. redeemers = {i}
      BY <2>1 DEF OneRedeemer
    <2>3. Cardinality({i}) = 1
      BY FS_Singleton, Zenon
    <2> QED
      BY <2>2, <2>3 DEF SingleUse
  <1> QED
    BY <1>1, <1>2
-----------------------------------------------------------------------------
(* Every variable of Invite keeps its type, and the tasks their order. *)
THEOREM BaseHolds == Spec => []Base
  BY InitBase, BaseStep, PTL DEF Spec

(* On a disk that does not fail, the code in hand of handleStream is       *)
(* unusable in memory, in the flush and on disk before friends.Add runs.   *)
THEOREM RedeemingHolds ==
    ASSUME ~DiskFaults
    PROVE  Spec => []Redeeming
  <1>1. Base /\ Redeeming /\ [Next]_vars => Redeeming'
    BY RedeemingStep
  <1> QED
    BY <1>1, InitRest, BaseHolds, PTL DEF Spec

(* A code that Revoke removed stays out of memory, flush and file. *)
THEOREM RevokingHolds ==
    ASSUME ~DiskFaults
    PROVE  Spec => []Revoking
  <1>1. Base /\ Revoking /\ [Next]_vars => Revoking'
    BY RevokingStep
  <1> QED
    BY <1>1, InitRest, BaseHolds, PTL DEF Spec

(* MarkConsumed and friends.Add make at most one friend of a code, for any *)
(* number of concurrent redemptions, rollbacks, crashes and restarts.      *)
THEOREM CodeIsSingleUse ==
    ASSUME ~DiskFaults
    PROVE  Spec => []SingleUse
  <1>1. Redeeming => SingleUse
    BY AtMostOne DEF Redeeming
  <1> QED
    BY <1>1, RedeemingHolds, PTL

(* The rollback of handleStream is for good: once every task is through    *)
(* and none was cut off by a crash, no snapshot that was taken before      *)
(* UnmarkConsumed or Revoke has left its mark in the invites file, for any *)
(* number of concurrent redemptions, failing Adds and restarts.            *)
THEOREM RollbackSurvives ==
    ASSUME ~DiskFaults
    PROVE  Spec => []RollbackIsDurable
  <1>1. Base /\ Redeeming /\ Revoking /\ RollingBack /\ [Next]_vars => RollingBack'
    BY RollingBackStep
  <1>2. Base /\ RollingBack => RollbackIsDurable
    BY DurableFromMarks
  <1> QED
    BY <1>1, <1>2, InitRest, BaseHolds, RedeemingHolds, RevokingHolds, PTL DEF Spec

(* Once Manager.Revoke has returned, no flush in progress, crash or        *)
(* restart brings the code back.                                           *)
THEOREM RevokeIsFinal ==
    ASSUME ~DiskFaults
    PROVE  Spec => []RevokedStaysRevoked
  <1>1. Revoking => RevokedStaysRevoked
    BY DEF Revoking, RevokedStaysRevoked
  <1> QED
    BY <1>1, RevokingHolds, PTL

(* Whatever the disk does, an invitee that has added the inviter is in the *)
(* inviter's friends file.                                                 *)
THEOREM FriendshipIsMutual == Spec => []AcceptedIsMutual
  <1>1. Base => TypeOK
    BY DEF Base
  <1>2. Told => AcceptedIsMutual
    BY DEF Told, AcceptedIsMutual
  <1> QED
    BY <1>1, <1>2, ToldStep, InitRest, BaseHolds, PTL DEF Spec

(* Whatever the disk does, a daemon that has not crashed has no burnt code *)
(* without a friend, unless a handler is still working on it.              *)
THEOREM NoCodeIsBurnt == Spec => []ConsumedMadeFriend
  <1>1. Accounted => ConsumedMadeFriend
    BY DEF Accounted, ConsumedMadeFriend
  <1> QED
    BY <1>1, AccountedStep, InitRest, BaseHolds, PTL DEF Spec
=============================================================================
