-------------------------- MODULE DiscoveryProofs --------------------------
(***************************************************************************)
(* The three properties of Discovery for any users, calls, clocks and      *)
(* bounds.                                                                 *)
(*                                                                         *)
(* Authentic and HandedOutInTime are about addresses that travel: from a   *)
(* publication round to the DHT, to the cache, to a snapshot a call holds  *)
(* between two steps of Cache.flush, to the file and back at a restart.    *)
(* Neither is inductive by itself.  Own says of each of these stations     *)
(* whose address it holds, Timely how old it can be.  Travelled says which *)
(* station a step can have filled from which, and is all that either needs *)
(* to know of the actions.                                                 *)
(*                                                                         *)
(* DiskFollowsCache is about the two locks of the cache; FlushInv adds     *)
(* what the holder of flushMu is about to write.                           *)
(***************************************************************************)
EXTENDS Discovery, TLAPS

Writing == {"write", "dropwrite"}              \* positions that hold flushMu
Quiet == {"idle", "dropped", "dropwrite"}      \* positions without addresses

(* What a publisher is about to put, and what the DHT holds: an address of *)
(* the one who signed it.                                                  *)
RoundsSigned ==
    \A u \in Users, l \in Loops :
        round[u][l] # NoRound => round[u][l].rec.by = u /\ round[u][l].rec.addr[1] = u
DhtSigned == \A k \in Keys : \A r \in dht[k] : r.addr[1] = r.by

(* Every entry of a cache or a snapshot is the peer's own address. *)
OwnEntries(e) == \A t \in Others : e[t] # NoEntry => e[t].addr[1] = t
CachesOwn == OwnEntries(cache) /\ OwnEntries(disk)
SnapshotsOwn == \A p \in Places : pc[p] \in Writing => OwnEntries(flushing[p])

(* A call that may change its target holds no addresses. *)
HandedOut == \A p \in Places : addrs[p] # NoAddr => addrs[p][1] = target[p]
IdleHoldsNone == \A p \in Places : pc[p] \in Quiet => addrs[p] = NoAddr

Own ==
    /\ RoundsSigned /\ DhtSigned
    /\ CachesOwn /\ SnapshotsOwn
    /\ HandedOut /\ IdleHoldsNone

(* At time n, with the moves m and l: a was in use at time t or later. *)
UsedSince(a, t, m, l) == m[a[1]] = a[2] \/ l[a[1]][a[2]] >= t

(* No record is from the future of its signer, and its address was in use  *)
(* when it was signed; no entry is younger than its record allows.         *)
RecordTimely(r, n, m, l) ==
    r.time - Skew[r.by] <= n /\ UsedSince(r.addr, r.time - Skew[r.by], m, l)
EntryTimely(t, e, n, m, l) ==
    /\ e.fetchedAt - TTL - Skew[t] <= n
    /\ UsedSince(e.addr, e.fetchedAt - TTL - Skew[t], m, l)
CacheTimely(c, n, m, l) ==
    \A t \in Others : c[t] # NoEntry => EntryTimely(t, c[t], n, m, l)

RoundsTimely ==
    \A u \in Users, v \in Loops :
        round[u][v] # NoRound => RecordTimely(round[u][v].rec, now, moves, leftAt)
DhtTimely == \A k \in Keys : \A r \in dht[k] : RecordTimely(r, now, moves, leftAt)
CachesTimely == CacheTimely(cache, now, moves, leftAt) /\ CacheTimely(disk, now, moves, leftAt)
SnapshotsTimely ==
    \A p \in Places : pc[p] \in Writing => CacheTimely(flushing[p], now, moves, leftAt)

Timely == RoundsTimely /\ DhtTimely /\ CachesTimely /\ SnapshotsTimely
-----------------------------------------------------------------------------
(* Where a step can have taken what it leaves behind. *)

(* A record that a lookup for t accepts. *)
Acceptable(t) == {r \in dht[DeriveDHTKey(Me, t)] : Decode(r, t)}

RecordsTravel ==
    /\ \A u \in Users, l \in Loops : round'[u][l] # NoRound =>
          \/ round'[u][l].rec = Encode(u)
          \/ round[u][l] # NoRound /\ round'[u][l].rec = round[u][l].rec
    /\ \A k \in Keys : \A r \in dht'[k] :
          \/ r \in dht[k]
          \/ \E u \in Users, l \in Loops : round[u][l] # NoRound /\ r = round[u][l].rec

EntriesTravel ==
    /\ \A t \in Others :
          \/ cache'[t] \in {NoEntry, cache[t], disk[t]}
          \/ \E r \in Acceptable(t) : cache'[t] = [addr |-> r.addr, fetchedAt |-> Clock(Me)]
    /\ disk' = disk \/ \E p \in Places : pc[p] \in Writing /\ disk' = flushing[p]
    /\ \A p \in Places : pc'[p] \in Writing =>
          flushing'[p] = cache \/ (pc[p] \in Writing /\ flushing'[p] = flushing[p])

(* The addresses that p can be handed: cached ones, or those of a record. *)
Found(p) ==
    {a \in Addresses : Cached(target[p]) /\ a = cache[target[p]].addr}
        \cup {a \in Addresses : \E r \in Acceptable(target[p]) : a = r.addr}

AddressesTravel ==
    \A p \in Places :
        /\ addrs'[p] \in {NoAddr, addrs[p]} \cup Found(p)
        /\ target'[p] = target[p] \/ (pc[p] = "idle" /\ addrs'[p] = addrs[p])
        /\ pc'[p] \in Quiet => addrs'[p] = NoAddr \/ (pc[p] \in Quiet /\ addrs'[p] = addrs[p])

Travelled == RecordsTravel /\ EntriesTravel /\ AddressesTravel
-----------------------------------------------------------------------------
(* The clock of a user and its address are well typed, and a record that a *)
(* user encodes bears its name and its address.                            *)
LEMMA HereAndNow ==
    ASSUME UsersTyped, NEW u \in Users
    PROVE  /\ Clock(u) \in Nat
           /\ Encode(u) \in Records
           /\ Encode(u).by = u /\ Encode(u).addr[1] = u
  <1>1. Clock(u) \in Nat
    BY TimeAssumption DEF UsersTyped, Clock
  <1>2. Here(u) \in Addresses /\ Here(u)[1] = u
    BY DEF UsersTyped, Here, Addresses
  <1> QED
    BY <1>1, <1>2 DEF Encode, Records

(* What a step leaves alone stays well typed. *)
LEMMA UsersKept == UsersTyped /\ UNCHANGED userVars => UsersTyped'
  BY DEF UsersTyped, userVars

LEMMA PublishersKept == PublishersTyped /\ UNCHANGED pubVars => PublishersTyped'
  BY DEF PublishersTyped, pubVars

LEMMA CachesKept == CachesTyped /\ UNCHANGED cacheVars => CachesTyped'
  BY DEF CachesTyped, cacheVars

LEMMA PlacesKept == PlacesTyped /\ UNCHANGED <<placeVars, flushing>> => PlacesTyped'
  BY DEF PlacesTyped, placeVars

(* The program starts well typed. *)
LEMMA TypeInit == Init => TypeOK
  <1> SUFFICES ASSUME Init PROVE TypeOK
    OBVIOUS
  <1>1. UsersTyped
    BY TimeAssumption DEF Init, UsersTyped
  <1>2. PublishersTyped
    BY DEF Init, PublishersTyped
  <1>3. CachesTyped
    BY DEF Init, CachesTyped, Caches
  <1>4. PlacesTyped
    BY DEF Init, PlacesTyped, Positions
  <1> QED
    BY <1>1, <1>2, <1>3, <1>4 DEF Init, TypeOK

(* The users and the publishers keep their types. *)
LEMMA WorldTyped ==
    ASSUME TypeOK,
           \/ Tick
           \/ \E u \in Movers : Move(u)
           \/ \E u \in Editors, f \in Users : Befriend(u, f) \/ Unfriend(u, f)
           \/ \E u \in Users, l \in Loops : PublishOnce(u, l)
           \/ \E u \in Users, l \in Loops, f \in Users : PutValue(u, l, f)
    PROVE  TypeOK'
  <1> USE TimeAssumption, UsersAssumption
  <1>1. UsersTyped /\ PublishersTyped /\ CachesTyped /\ PlacesTyped /\ faults \in Nat
    BY DEF TypeOK
  <1>2. UNCHANGED <<cacheVars, placeVars, faults>>
    BY DEF Tick, Move, Befriend, Unfriend, PublishOnce, PutValue
  <1>3. CachesTyped' /\ PlacesTyped' /\ faults' \in Nat
    BY <1>1, <1>2, CachesKept, PlacesKept DEF cacheVars
  <1>4. CASE Tick
    <2>1. UsersTyped'
      BY <1>1, <1>4 DEF Tick, UsersTyped
    <2> QED
      BY <1>1, <1>3, <1>4, <2>1, PublishersKept DEF TypeOK, Tick
  <1>5. ASSUME NEW u \in Movers, Move(u) PROVE TypeOK'
    <2>1. u \in Users /\ moves[u] \in 0 .. MaxMoves /\ moves[u] + 1 \in 0 .. MaxMoves
      <3>1. u \in Users /\ moves[u] \in 0 .. MaxMoves
        BY <1>1 DEF UsersTyped
      <3>2. moves[u] < MaxMoves
        BY <1>5 DEF Move
      <3> QED
        BY <3>1, <3>2
    <2>2. moves' \in [Users -> 0 .. MaxMoves]
      BY <1>1, <1>5, <2>1 DEF Move, UsersTyped
    <2>3. leftAt' \in [Users -> [0 .. MaxMoves -> Nat]]
      BY <1>1, <1>5, <2>1 DEF Move, UsersTyped
    <2>4. UsersTyped'
      BY <1>1, <1>5, <2>2, <2>3 DEF Move, UsersTyped
    <2>5. PublishersTyped'
      BY <1>1, <1>5, <2>1 DEF Move, PublishersTyped
    <2> QED
      BY <1>3, <2>4, <2>5 DEF TypeOK
  <1>6. ASSUME NEW u \in Editors, NEW f \in Users, Befriend(u, f) \/ Unfriend(u, f)
        PROVE TypeOK'
    <2>1. UsersTyped'
      <3>1. \/ friends' = [friends EXCEPT ![u] = @ \cup {f}]
            \/ friends' = [friends EXCEPT ![u] = @ \ {f}]
        BY <1>6 DEF Befriend, Unfriend
      <3>2. u \in Users /\ friends \in [Users -> SUBSET Users]
        BY <1>1 DEF UsersTyped
      <3>3. friends' \in [Users -> SUBSET Users]
        BY <3>1, <3>2
      <3> QED
        BY <1>1, <1>6, <3>3 DEF Befriend, Unfriend, UsersTyped
    <2>2. UNCHANGED pubVars
      BY <1>6 DEF Befriend, Unfriend
    <2> QED
      BY <1>1, <1>3, <2>1, <2>2, PublishersKept DEF TypeOK
  <1>7. ASSUME NEW u \in Users, NEW l \in Loops, PublishOnce(u, l) PROVE TypeOK'
    <2>1. [rec |-> Encode(u), todo |-> friends[u]] \in Rounds
      BY <1>1, HereAndNow DEF Rounds, UsersTyped
    <2>2. round' \in [Users -> [Loops -> Rounds \cup {NoRound}]]
      BY <1>1, <1>7, <2>1 DEF PublishersTyped, PublishOnce
    <2>3. due' \in [Users -> Nat]
      <3>1. now + Refresh \in Nat
        BY <1>1 DEF UsersTyped
      <3>2. due' = due \/ due' = [due EXCEPT ![u] = now + Refresh]
        BY <1>7 DEF PublishOnce
      <3> QED
        BY <1>1, <3>1, <3>2 DEF PublishersTyped
    <2>4. changed' \subseteq Users
      <3>1. changed' = changed \/ changed' = changed \ {u}
        BY <1>7 DEF PublishOnce
      <3> QED
        BY <1>1, <3>1 DEF PublishersTyped
    <2>5. rounds' \in Nat /\ dht' \in [Keys -> SUBSET Records]
      BY <1>1, <1>7 DEF PublishersTyped, PublishOnce
    <2>6. PublishersTyped'
      BY <2>2, <2>3, <2>4, <2>5 DEF PublishersTyped
    <2> QED
      BY <1>1, <1>3, <1>7, <2>6, UsersKept DEF TypeOK, PublishOnce
  <1>8. ASSUME NEW u \in Users, NEW l \in Loops, NEW f \in Users, PutValue(u, l, f)
        PROVE TypeOK'
    <2> DEFINE r == round[u][l]
    <2>1. r \in Rounds
      BY <1>1, <1>8 DEF PublishersTyped, PutValue
    <2>2. r.rec \in Records /\ [rec |-> r.rec, todo |-> r.todo \ {f}] \in Rounds
      BY <2>1 DEF Rounds
    <2>3. round' \in [Users -> [Loops -> Rounds \cup {NoRound}]]
      BY <1>1, <1>8, <2>2 DEF PublishersTyped, PutValue
    <2>4. dht' \in [Keys -> SUBSET Records]
      <3>1. \/ dht' = dht
            \/ dht' = [dht EXCEPT ![DeriveDHTKey(u, f)] = @ \cup {r.rec}]
        BY <1>8 DEF PutValue
      <3>2. DeriveDHTKey(u, f) \in Keys
        BY DEF DeriveDHTKey, Keys
      <3> HIDE DEF r
      <3> QED
        BY <1>1, <2>2, <3>1, <3>2 DEF PublishersTyped
    <2>5. PublishersTyped'
      BY <1>1, <1>8, <2>3, <2>4 DEF PublishersTyped, PutValue
    <2> QED
      BY <1>1, <1>3, <1>8, <2>5, UsersKept DEF TypeOK, PutValue
  <1> QED
    BY <1>4, <1>5, <1>6, <1>7, <1>8

(* The calls of Place keep their types. *)
LEMMA PlaceTyped ==
    ASSUME TypeOK,
           \/ \E p \in Places, t \in Others : PlaceStart(p, t)
           \/ \E p \in Places : PlaceStep(p)
    PROVE  TypeOK'
  <1>1. UsersTyped /\ PublishersTyped /\ CachesTyped /\ PlacesTyped /\ faults \in Nat
    BY DEF TypeOK
  <1>2. UNCHANGED <<userVars, pubVars>>
    BY DEF PlaceStart, PlaceStep, Resolve, LookupFails, Lookup, flushSnapshot, flushWrite, Dial
  <1>3. UsersTyped' /\ PublishersTyped'
    BY <1>1, <1>2, UsersKept, PublishersKept
  <1>4. ASSUME NEW p \in Places, NEW t \in Others, PlaceStart(p, t) PROVE TypeOK'
    <2>1. CachesTyped' /\ faults' \in Nat
      BY <1>1, <1>4, CachesKept DEF PlaceStart
    <2>2. PlacesTyped'
      BY <1>1, <1>4 DEF PlaceStart, PlacesTyped, Positions, cacheVars
    <2> QED
      BY <1>3, <2>1, <2>2 DEF TypeOK
  <1>5. ASSUME NEW p \in Places, PlaceStep(p) PROVE TypeOK'
    <2>1. target[p] \in Others /\ pc \in [Places -> Positions]
      BY <1>1 DEF PlacesTyped
    <2>2. ASSUME Invalidate(p) \/ NoAddresses(p), UNCHANGED <<disk, writeFailed, flushing, target, faults>>
          PROVE TypeOK'
      <3>1. \/ Invalidate(p)
            \/ pc' = [pc EXCEPT ![p] = "dial"] /\ UNCHANGED <<cache, addrs, retried>>
        BY <2>2 DEF NoAddresses
      <3>2. CASE Invalidate(p)
        <4>1. CachesTyped'
          BY <1>1, <2>1, <2>2, <3>2 DEF Invalidate, CachesTyped, Caches
        <4>2. PlacesTyped'
          BY <1>1, <2>2, <3>2 DEF Invalidate, PlacesTyped, Positions
        <4> QED
          BY <1>1, <1>3, <2>2, <4>1, <4>2 DEF TypeOK
      <3>3. CASE pc' = [pc EXCEPT ![p] = "dial"] /\ UNCHANGED <<cache, addrs, retried>>
        <4>1. CachesTyped'
          BY <1>1, <2>2, <3>3 DEF CachesTyped
        <4>2. PlacesTyped'
          BY <1>1, <2>2, <3>3 DEF PlacesTyped, Positions
        <4> QED
          BY <1>1, <1>3, <2>2, <4>1, <4>2 DEF TypeOK
      <3> QED
        BY <3>1, <3>2, <3>3
    <2>3. CASE Resolve(p)
      <3>1. \/ Cached(target[p]) /\ pc' = [pc EXCEPT ![p] = "dial"]
              /\ addrs' = [addrs EXCEPT ![p] = cache[target[p]].addr] /\ UNCHANGED <<cache, retried>>
            \/ pc' = [pc EXCEPT ![p] = "lookup"] /\ UNCHANGED <<cache, addrs, retried>>
            \/ NoAddresses(p)
        BY <2>3 DEF Resolve
      <3>2. UNCHANGED <<disk, writeFailed, flushing, target, faults>>
        BY <2>3 DEF Resolve
      <3>3. CASE Cached(target[p]) /\ pc' = [pc EXCEPT ![p] = "dial"]
              /\ addrs' = [addrs EXCEPT ![p] = cache[target[p]].addr] /\ UNCHANGED <<cache, retried>>
        <4>1. cache[target[p]].addr \in Addresses
          BY <1>1, <2>1, <3>3 DEF Cached, CachesTyped, Caches, Entries
        <4>2. CachesTyped'
          BY <1>1, <3>2, <3>3 DEF CachesTyped
        <4>3. PlacesTyped'
          BY <1>1, <3>2, <3>3, <4>1 DEF PlacesTyped, Positions
        <4> QED
          BY <1>1, <1>3, <3>2, <4>2, <4>3 DEF TypeOK
      <3>4. CASE pc' = [pc EXCEPT ![p] = "lookup"] /\ UNCHANGED <<cache, addrs, retried>>
        <4>1. CachesTyped'
          BY <1>1, <3>2, <3>4 DEF CachesTyped
        <4>2. PlacesTyped'
          BY <1>1, <3>2, <3>4 DEF PlacesTyped, Positions
        <4> QED
          BY <1>1, <1>3, <3>2, <4>1, <4>2 DEF TypeOK
      <3> QED
        BY <2>2, <3>1, <3>2, <3>3, <3>4
    <2>4. CASE LookupFails(p)
      BY <2>2, <2>4 DEF LookupFails
    <2>5. CASE Lookup(p)
      <3>1. PICK r \in dht[DeriveDHTKey(Me, target[p])] :
               /\ addrs' = [addrs EXCEPT ![p] = r.addr]
               /\ cache' = [cache EXCEPT ![target[p]] =
                               [addr |-> r.addr, fetchedAt |-> Clock(Me)]]
        BY <2>5 DEF Lookup
      <3>2. DeriveDHTKey(Me, target[p]) \in Keys
        BY <2>1, UsersAssumption DEF DeriveDHTKey, Keys, Others
      <3>3. r \in Records
        BY <1>1, <3>2 DEF PublishersTyped
      <3>4. Clock(Me) \in Nat
        BY <1>1, UsersAssumption, HereAndNow
      <3>5. r.addr \in Addresses /\ [addr |-> r.addr, fetchedAt |-> Clock(Me)] \in Entries
        BY <3>3, <3>4 DEF Records, Entries
      <3>6. CachesTyped'
        BY <1>1, <2>1, <2>5, <3>1, <3>5 DEF Lookup, CachesTyped, Caches
      <3>7. PlacesTyped'
        BY <1>1, <2>5, <3>1, <3>5 DEF Lookup, PlacesTyped, Positions
      <3> QED
        BY <1>1, <1>3, <2>5, <3>6, <3>7 DEF TypeOK, Lookup
    <2>6. CASE flushSnapshot(p)
      <3>1. CachesTyped'
        BY <1>1, <2>6 DEF flushSnapshot, CachesTyped
      <3>2. pc' \in [Places -> Positions]
        BY <2>1, <2>6 DEF flushSnapshot, Positions
      <3>3. \A q \in Places : pc'[q] \in {"write", "dropwrite"} => flushing'[q] \in Caches
        BY <1>1, <2>6 DEF flushSnapshot, PlacesTyped, CachesTyped
      <3>4. PlacesTyped'
        BY <1>1, <2>6, <3>2, <3>3 DEF flushSnapshot, PlacesTyped
      <3> QED
        BY <1>1, <1>3, <2>6, <3>1, <3>4 DEF TypeOK, flushSnapshot
    <2>7. CASE flushWrite(p)
      <3>1. flushing[p] \in Caches
        BY <1>1, <2>7 DEF flushWrite, PlacesTyped
      <3>2. disk' \in Caches /\ writeFailed' \in BOOLEAN /\ faults' \in Nat
        <4>1. \/ disk' = flushing[p] /\ writeFailed' = FALSE /\ faults' = faults
              \/ disk' = disk /\ writeFailed' = TRUE /\ faults' = faults + 1
          BY <2>7 DEF flushWrite
        <4>2. disk' \in Caches
          BY <1>1, <3>1, <4>1 DEF CachesTyped
        <4>3. writeFailed' \in BOOLEAN
          BY <4>1, Zenon
        <4>4. faults' \in Nat
          <5>1. faults' = faults \/ faults' = faults + 1
            BY <4>1
          <5> QED
            BY <1>1, <5>1
        <4> QED
          BY <4>2, <4>3, <4>4
      <3>3. CachesTyped'
        BY <1>1, <2>7, <3>2 DEF flushWrite, CachesTyped
      <3>4. AfterFlush(p) \in {"dial", "resolve", "idle"}
        BY DEF AfterFlush
      <3>5. PlacesTyped'
        BY <1>1, <2>7, <3>4 DEF flushWrite, PlacesTyped, Positions
      <3> QED
        BY <1>3, <3>2, <3>3, <3>5 DEF TypeOK
    <2>8. CASE Dial(p)
      <3>1. UNCHANGED <<disk, writeFailed, flushing, target, faults>>
        BY <2>8 DEF Dial
      <3>2. CASE Invalidate(p)
        BY <2>2, <3>1, <3>2
      <3>3. CASE ~Invalidate(p)
        <4>1. CachesTyped'
          BY <1>1, <2>8, <3>1, <3>3 DEF Dial, CachesTyped
        <4>2. PlacesTyped'
          BY <1>1, <2>8, <3>1, <3>3 DEF Dial, PlacesTyped, Positions
        <4> QED
          BY <1>1, <1>3, <3>1, <4>1, <4>2 DEF TypeOK
      <3> QED
        BY <3>2, <3>3
    <2> QED
      BY <1>5, <2>3, <2>4, <2>5, <2>6, <2>7, <2>8 DEF PlaceStep
  <1> QED
    BY <1>4, <1>5

(* A restart keeps the types. *)
LEMMA RestartTyped == TypeOK /\ Restart => TypeOK'
  <1> SUFFICES ASSUME TypeOK, Restart PROVE TypeOK'
    OBVIOUS
  <1>1. UsersTyped /\ PublishersTyped /\ CachesTyped /\ PlacesTyped /\ faults \in Nat
    BY DEF TypeOK
  <1>2. UsersTyped' /\ faults' \in Nat
    BY <1>1, UsersKept DEF Restart
  <1>3. PublishersTyped'
    <2>1. now \in Nat
      BY <1>1 DEF UsersTyped
    <2>2. round' \in [Users -> [Loops -> Rounds \cup {NoRound}]]
      BY <1>1 DEF Restart, PublishersTyped
    <2>3. due' \in [Users -> Nat] /\ changed' \subseteq Users
      BY <1>1, <2>1 DEF Restart, PublishersTyped
    <2> QED
      BY <1>1, <2>2, <2>3 DEF Restart, PublishersTyped
  <1>4. CachesTyped'
    BY <1>1 DEF Restart, CachesTyped
  <1>5. PlacesTyped'
    BY <1>1 DEF Restart, PlacesTyped, Positions
  <1> QED
    BY <1>2, <1>3, <1>4, <1>5 DEF TypeOK

(* Every step keeps the types. *)
LEMMA TypeStep == TypeOK /\ [Next]_vars => TypeOK'
  <1> SUFFICES ASSUME TypeOK, [Next]_vars PROVE TypeOK'
    OBVIOUS
  <1>1. CASE UNCHANGED vars
    <2>1. UNCHANGED <<userVars, pubVars, cacheVars, placeVars, flushing, faults>>
      BY <1>1 DEF vars, userVars, pubVars, cacheVars, placeVars
    <2> QED
      BY <2>1, UsersKept, PublishersKept, CachesKept, PlacesKept DEF TypeOK
  <1> QED
    BY <1>1, WorldTyped, PlaceTyped, RestartTyped DEF Next

(* Every reachable state of the discovery protocol is well typed, for any  *)
(* users, calls, lifetimes and clocks.                                     *)
THEOREM TypeCorrect == Spec => []TypeOK
  BY TypeInit, TypeStep, PTL DEF Spec
-----------------------------------------------------------------------------
(* A record and the entry made of it are well typed where Lookup uses them. *)
LEMMA LookedUp ==
    ASSUME TypeOK, NEW p \in Places, NEW r \in dht[DeriveDHTKey(Me, target[p])]
    PROVE  DeriveDHTKey(Me, target[p]) \in Keys /\ r \in Records
  <1>1. target[p] \in Others
    BY DEF TypeOK, PlacesTyped
  <1>2. DeriveDHTKey(Me, target[p]) \in Keys
    BY <1>1, UsersAssumption DEF DeriveDHTKey, Keys, Others
  <1> QED
    BY <1>2 DEF TypeOK, PublishersTyped

(* The program starts with no address anywhere. *)
LEMMA OwnInit == Init => Own
  <1> SUFFICES ASSUME Init PROVE Own
    OBVIOUS
  <1>1. RoundsSigned /\ DhtSigned
    BY DEF Init, RoundsSigned, DhtSigned
  <1>2. CachesOwn /\ SnapshotsOwn
    BY DEF Init, CachesOwn, SnapshotsOwn, OwnEntries, Writing
  <1>3. HandedOut /\ IdleHoldsNone
    BY DEF Init, HandedOut, IdleHoldsNone
  <1> QED
    BY <1>1, <1>2, <1>3 DEF Own

(* The publishers: a round encodes what is true now, and puts what it has. *)
LEMMA RecordsTravelled == TypeOK /\ [Next]_vars => RecordsTravel
  <1> SUFFICES ASSUME TypeOK, [Next]_vars PROVE RecordsTravel
    OBVIOUS
  <1>1. PublishersTyped
    BY DEF TypeOK
  <1>2. CASE UNCHANGED <<round, dht>>
    BY <1>2 DEF RecordsTravel
  <1>3. ASSUME NEW u \in Users, NEW l \in Loops, PublishOnce(u, l) PROVE RecordsTravel
    <2>1. dht' = dht
      BY <1>3 DEF PublishOnce
    <2>2. ASSUME NEW v \in Users, NEW k \in Loops, round'[v][k] # NoRound
          PROVE \/ round'[v][k].rec = Encode(v)
                \/ round[v][k] # NoRound /\ round'[v][k].rec = round[v][k].rec
      <3>1. CASE v = u /\ k = l
        <4>1. round'[v][k] = [rec |-> Encode(u), todo |-> friends[u]]
          BY <1>1, <1>3, <2>2, <3>1 DEF PublishOnce, PublishersTyped
        <4> QED
          BY <3>1, <4>1
      <3>2. CASE ~(v = u /\ k = l)
        BY <1>1, <1>3, <2>2, <3>2 DEF PublishOnce, PublishersTyped
      <3> QED
        BY <3>1, <3>2
    <2> QED
      BY <2>1, <2>2 DEF RecordsTravel
  <1>4. ASSUME NEW u \in Users, NEW l \in Loops, NEW f \in Users, PutValue(u, l, f)
        PROVE RecordsTravel
    <2>1. ASSUME NEW v \in Users, NEW k \in Loops, round'[v][k] # NoRound
          PROVE round[v][k] # NoRound /\ round'[v][k].rec = round[v][k].rec
      <3>1. CASE v = u /\ k = l
        BY <1>1, <1>4, <2>1, <3>1 DEF PutValue, PublishersTyped
      <3>2. CASE ~(v = u /\ k = l)
        <4>1. round'[v][k] = round[v][k]
          BY <1>1, <1>4, <3>2 DEF PutValue, PublishersTyped
        <4> QED
          BY <2>1, <4>1
      <3> QED
        BY <3>1, <3>2
    <2>2. ASSUME NEW k \in Keys, NEW r \in dht'[k]
          PROVE r \in dht[k] \/ (round[u][l] # NoRound /\ r = round[u][l].rec)
      BY <1>1, <1>4 DEF PutValue, PublishersTyped
    <2> QED
      BY <2>1, <2>2 DEF RecordsTravel
  <1>5. CASE Restart
    <2>1. dht' = dht /\ round' = [round EXCEPT ![Me] = [l \in Loops |-> NoRound]]
      BY <1>5 DEF Restart
    <2>2. ASSUME NEW v \in Users, NEW k \in Loops, round'[v][k] # NoRound
          PROVE round'[v][k] = round[v][k]
      BY <1>1, <2>1, <2>2 DEF PublishersTyped
    <2> QED
      BY <2>1, <2>2 DEF RecordsTravel
  <1>6. ASSUME NEW p \in Places,
               (\E t \in Others : PlaceStart(p, t)) \/ PlaceStep(p)
        PROVE UNCHANGED <<round, dht>>
    BY <1>6 DEF PlaceStart, PlaceStep, Resolve, LookupFails, Lookup, flushSnapshot,
                flushWrite, Dial, pubVars
  <1> QED
    BY <1>2, <1>3, <1>4, <1>5, <1>6
    DEF Next, vars, Tick, Move, Befriend, Unfriend, pubVars

(* A call of Place that neither finds anything nor holds flushMu afterwards. *)
LEMMA NothingFound ==
    ASSUME TypeOK, NEW p \in Places, UNCHANGED <<disk, flushing, target>>,
           pc[p] \notin Writing \cup Quiet,
           cache' = cache \/ cache' = [cache EXCEPT ![target[p]] = NoEntry],
           \/ /\ \E x \in {"dial", "lookup"} : pc' = [pc EXCEPT ![p] = x]
              /\ addrs' = addrs
           \/ /\ \E x \in {"idle", "dropped"} : pc' = [pc EXCEPT ![p] = x]
              /\ addrs' = [addrs EXCEPT ![p] = NoAddr]
    PROVE  EntriesTravel /\ AddressesTravel
  <1>1. /\ cache \in Caches /\ pc \in [Places -> Positions]
        /\ addrs \in [Places -> Addresses \cup {NoAddr}]
    BY DEF TypeOK, CachesTyped, PlacesTyped
  <1>2. \A t \in Others : cache'[t] \in {NoEntry, cache[t]}
    BY <1>1 DEF Caches
  <1>3. \A q \in Places : pc'[q] \in Writing => pc[q] \in Writing
    BY <1>1 DEF Writing
  <1>4. EntriesTravel
    BY <1>2, <1>3 DEF EntriesTravel
  <1>5. AddressesTravel
    BY <1>1 DEF AddressesTravel, Quiet
  <1> QED
    BY <1>4, <1>5

(* The resolver, the cache and its file. *)
LEMMA PlaceTravelled ==
    ASSUME TypeOK, NEW p \in Places, PlaceStep(p)
    PROVE  EntriesTravel /\ AddressesTravel
  <1>1. /\ cache \in Caches /\ target[p] \in Others
        /\ flushing \in [Places -> Caches \cup {NoFlush}]
        /\ pc \in [Places -> Positions] /\ addrs \in [Places -> Addresses \cup {NoAddr}]
    BY DEF TypeOK, CachesTyped, PlacesTyped
  <1>2. ASSUME Invalidate(p) \/ NoAddresses(p), UNCHANGED <<disk, flushing, target>>,
               pc[p] \in {"resolve", "lookup", "dial"}
        PROVE EntriesTravel /\ AddressesTravel
    <2>1. \/ Invalidate(p)
          \/ pc' = [pc EXCEPT ![p] = "dial"] /\ UNCHANGED <<cache, addrs>>
      BY <1>2 DEF NoAddresses
    <2>2. pc[p] \notin Writing \cup Quiet
      BY <1>2 DEF Writing, Quiet
    <2> QED
      BY <1>2, <2>1, <2>2, NothingFound DEF Invalidate
  <1>3. CASE Resolve(p)
    <2>1. /\ UNCHANGED <<disk, flushing, target>> /\ pc[p] = "resolve"
          /\ pc[p] \notin Writing \cup Quiet
      BY <1>3 DEF Resolve, Writing, Quiet
    <2>2. CASE NoAddresses(p)
      BY <1>2, <2>1, <2>2
    <2>3. CASE pc' = [pc EXCEPT ![p] = "lookup"] /\ UNCHANGED <<cache, addrs>>
      BY <2>1, <2>3, NothingFound
    <2>4. CASE /\ Cached(target[p]) /\ cache' = cache
               /\ addrs' = [addrs EXCEPT ![p] = cache[target[p]].addr]
               /\ pc' = [pc EXCEPT ![p] = "dial"]
      <3>1. EntriesTravel
        BY <1>1, <2>1, <2>4 DEF EntriesTravel, Writing
      <3>2. cache[target[p]].addr \in Found(p)
        BY <1>1, <2>4 DEF Found, Cached, Caches, Entries
      <3>3. AddressesTravel
        BY <1>1, <2>1, <2>4, <3>2 DEF AddressesTravel, Quiet
      <3> QED
        BY <3>1, <3>3
    <2> QED
      BY <1>3, <2>2, <2>3, <2>4 DEF Resolve
  <1>4. CASE LookupFails(p)
    BY <1>2, <1>4 DEF LookupFails
  <1>5. CASE Lookup(p)
    <2>1. PICK r \in dht[DeriveDHTKey(Me, target[p])] :
             /\ Decode(r, target[p])
             /\ addrs' = [addrs EXCEPT ![p] = r.addr]
             /\ cache' = [cache EXCEPT ![target[p]] =
                             [addr |-> r.addr, fetchedAt |-> Clock(Me)]]
      BY <1>5 DEF Lookup
    <2>2. pc' = [pc EXCEPT ![p] = "flush"] /\ UNCHANGED <<disk, flushing, target>>
      BY <1>5 DEF Lookup
    <2>3. r \in Acceptable(target[p]) /\ r.addr \in Found(p)
      BY <2>1, LookedUp DEF Acceptable, Found, Records
    <2>4. \A t \in Others :
             \/ cache'[t] = cache[t]
             \/ t = target[p] /\ cache'[t] = [addr |-> r.addr, fetchedAt |-> Clock(Me)]
      BY <1>1, <2>1 DEF Caches
    <2>5. EntriesTravel
      BY <1>1, <2>2, <2>3, <2>4 DEF EntriesTravel, Writing
    <2>6. AddressesTravel
      BY <1>1, <2>1, <2>2, <2>3 DEF AddressesTravel, Quiet
    <2> QED
      BY <2>5, <2>6
  <1>6. CASE flushSnapshot(p)
    <2>1. /\ pc[p] \in {"flush", "dropped"} /\ UNCHANGED <<cache, disk, target, addrs>>
          /\ flushing' = [flushing EXCEPT ![p] = cache]
          /\ pc' = [pc EXCEPT ![p] = IF pc[p] = "flush" THEN "write" ELSE "dropwrite"]
      BY <1>1, <1>6 DEF flushSnapshot
    <2>2. EntriesTravel
      BY <1>1, <2>1 DEF EntriesTravel, Writing
    <2>3. AddressesTravel
      BY <1>1, <2>1 DEF AddressesTravel, Quiet
    <2> QED
      BY <2>2, <2>3
  <1>7. CASE flushWrite(p)
    <2>1. /\ pc[p] \in Writing /\ UNCHANGED <<cache, target, addrs>>
          /\ disk' = flushing[p] \/ disk' = disk
          /\ flushing' = [flushing EXCEPT ![p] = NoFlush]
          /\ pc' = [pc EXCEPT ![p] = AfterFlush(p)]
      BY <1>7 DEF flushWrite, Writing
    <2>2. /\ AfterFlush(p) \in {"dial", "resolve", "idle"}
          /\ AfterFlush(p) # "dial" => pc[p] = "dropwrite"
      BY <2>1 DEF AfterFlush, Writing
    <2>3. EntriesTravel
      BY <1>1, <2>1, <2>2 DEF EntriesTravel, Writing
    <2>4. AddressesTravel
      BY <1>1, <2>1, <2>2 DEF AddressesTravel, Quiet
    <2> QED
      BY <2>3, <2>4
  <1>8. CASE Dial(p)
    <2>1. /\ UNCHANGED <<disk, flushing, target>> /\ pc[p] = "dial"
          /\ pc[p] \notin Writing \cup Quiet
      BY <1>8 DEF Dial, Writing, Quiet
    <2>2. CASE Invalidate(p)
      BY <1>2, <2>1, <2>2
    <2>3. CASE /\ pc' = [pc EXCEPT ![p] = "idle"] /\ cache' = cache
               /\ addrs' = [addrs EXCEPT ![p] = NoAddr]
      BY <2>1, <2>3, NothingFound
    <2> QED
      BY <1>8, <2>2, <2>3 DEF Dial
  <1> QED
    BY <1>3, <1>4, <1>5, <1>6, <1>7, <1>8 DEF PlaceStep

(* What the users and the publishers do leaves the cache and the calls of  *)
(* Me alone.                                                               *)
LEMMA WorldApart ==
    ASSUME \/ Tick
           \/ \E u \in Movers : Move(u)
           \/ \E u \in Editors, f \in Users : Befriend(u, f) \/ Unfriend(u, f)
           \/ \E u \in Users, l \in Loops : PublishOnce(u, l)
           \/ \E u \in Users, l \in Loops, f \in Users : PutValue(u, l, f)
           \/ UNCHANGED vars
    PROVE  UNCHANGED <<cache, disk, writeFailed, flushing, pc, target, addrs>>
  BY DEF Tick, Move, Befriend, Unfriend, PublishOnce, PutValue, cacheVars, placeVars, vars

(* Every step of the system, for records, entries and addresses. *)
LEMMA EverythingTravelled == TypeOK /\ [Next]_vars => Travelled
  <1> SUFFICES ASSUME TypeOK, [Next]_vars PROVE EntriesTravel /\ AddressesTravel
    BY RecordsTravelled DEF Travelled
  <1>1. pc \in [Places -> Positions] /\ target \in [Places -> Others]
    BY DEF TypeOK, PlacesTyped
  <1>2. CASE UNCHANGED <<cache, disk, writeFailed, flushing, pc, target, addrs>>
    BY <1>2 DEF EntriesTravel, AddressesTravel
  <1>3. ASSUME NEW p \in Places, NEW t \in Others, PlaceStart(p, t)
        PROVE EntriesTravel /\ AddressesTravel
    <2>1. /\ pc[p] = "idle" /\ UNCHANGED <<cache, disk, flushing, addrs>>
          /\ pc' = [pc EXCEPT ![p] = "resolve"] /\ target' = [target EXCEPT ![p] = t]
      BY <1>3 DEF PlaceStart, cacheVars
    <2>2. EntriesTravel
      BY <1>1, <2>1 DEF EntriesTravel, Writing
    <2>3. AddressesTravel
      BY <1>1, <2>1 DEF AddressesTravel, Quiet
    <2> QED
      BY <2>2, <2>3
  <1>4. CASE Restart
    <2>1. EntriesTravel
      BY <1>4 DEF Restart, EntriesTravel, Writing
    <2>2. AddressesTravel
      BY <1>4 DEF Restart, AddressesTravel
    <2> QED
      BY <2>1, <2>2
  <1> QED
    BY <1>2, <1>3, <1>4, WorldApart, PlaceTravelled DEF Next
-----------------------------------------------------------------------------
(* Own is inductive. *)
LEMMA OwnStep == TypeOK /\ Own /\ [Next]_vars => Own'
  <1> SUFFICES ASSUME TypeOK, Own, Travelled PROVE Own'
    BY EverythingTravelled
  <1>1. /\ RoundsSigned /\ DhtSigned /\ CachesOwn /\ SnapshotsOwn /\ HandedOut /\ IdleHoldsNone
        /\ RecordsTravel /\ EntriesTravel /\ AddressesTravel
    BY DEF Own, Travelled
  <1>2. \A u \in Users : Encode(u).by = u /\ Encode(u).addr[1] = u
    BY HereAndNow DEF TypeOK
  <1>3. RoundsSigned' /\ DhtSigned'
    BY <1>1, <1>2 DEF RecordsTravel, RoundsSigned, DhtSigned
  <1>4. ASSUME NEW t \in Others, NEW r \in Acceptable(t) PROVE r.addr[1] = t
    <2>1. DeriveDHTKey(Me, t) \in Keys
      BY UsersAssumption DEF DeriveDHTKey, Keys, Others
    <2> QED
      BY <1>1, <2>1 DEF Acceptable, Decode, DhtSigned
  <1>5. ASSUME NEW t \in Others, cache'[t] # NoEntry PROVE cache'[t].addr[1] = t
    <2>1. CASE cache'[t] \in {cache[t], disk[t]}
      BY <1>1, <1>5, <2>1 DEF CachesOwn, OwnEntries
    <2>2. CASE \E r \in Acceptable(t) :
                  cache'[t] = [addr |-> r.addr, fetchedAt |-> Clock(Me)]
      BY <1>4, <2>2
    <2> QED
      BY <1>1, <1>5, <2>1, <2>2 DEF EntriesTravel
  <1>6. OwnEntries(disk')
    BY <1>1 DEF EntriesTravel, CachesOwn, SnapshotsOwn
  <1>7. \A p \in Places : pc'[p] \in Writing => OwnEntries(flushing'[p])
    BY <1>1 DEF EntriesTravel, CachesOwn, SnapshotsOwn
  <1>8. CachesOwn' /\ SnapshotsOwn'
    BY <1>5, <1>6, <1>7 DEF CachesOwn, SnapshotsOwn, OwnEntries
  <1>9. ASSUME NEW p \in Places PROVE \A a \in Found(p) : a[1] = target[p]
    <2>1. target[p] \in Others
      BY DEF TypeOK, PlacesTyped
    <2> QED
      BY <1>1, <1>4, <2>1 DEF Found, Cached, CachesOwn, OwnEntries
  <1>10. IdleHoldsNone'
    BY <1>1 DEF AddressesTravel, IdleHoldsNone
  <1>11. HandedOut'
    <2> SUFFICES ASSUME NEW p \in Places, addrs'[p] # NoAddr PROVE addrs'[p][1] = target'[p]
      BY DEF HandedOut
    <2>1. target'[p] = target[p]
      BY <1>1 DEF AddressesTravel, IdleHoldsNone, Quiet
    <2> QED
      BY <1>1, <1>9, <2>1 DEF AddressesTravel, HandedOut
  <1> QED
    BY <1>3, <1>8, <1>10, <1>11 DEF Own

(* What the resolver hands out, keeps and saves for a peer are addresses   *)
(* that this peer has published, though both friends write under one key,  *)
(* calls overlap, the DHT answers with any record and Me restarts: for any *)
(* users, calls, lifetimes and clocks.                                     *)
THEOREM AuthenticHolds == Spec => []Authentic
  <1>1. Own => Authentic
    BY DEF Own, CachesOwn, OwnEntries, HandedOut, Authentic
  <1> QED
    BY TypeCorrect, OwnInit, OwnStep, <1>1, PTL DEF Spec
-----------------------------------------------------------------------------
(* Time only passes, and an address stays in use until its user leaves it. *)
LEMMA UseRemembered ==
    ASSUME TypeOK, [Next]_vars
    PROVE  /\ now <= now'
           /\ \A a \in Addresses : \A x \in Int :
                 x <= now /\ UsedSince(a, x, moves, leftAt) => UsedSince(a, x, moves', leftAt')
  <1>1. UsersTyped
    BY DEF TypeOK
  <1>2. CASE Tick
    BY <1>1, <1>2 DEF Tick, UsersTyped, UsedSince
  <1>3. ASSUME NEW u \in Movers, Move(u)
        PROVE /\ now <= now'
              /\ \A a \in Addresses : \A x \in Int :
                    x <= now /\ UsedSince(a, x, moves, leftAt) => UsedSince(a, x, moves', leftAt')
    <2>1. u \in Users /\ now' = now /\ now \in Nat /\ moves[u] \in 0 .. MaxMoves
      BY <1>1, <1>3, UsersAssumption DEF Move, UsersTyped
    <2>2. ASSUME NEW a \in Addresses, NEW x \in Int, x <= now, UsedSince(a, x, moves, leftAt)
          PROVE UsedSince(a, x, moves', leftAt')
      <3>1. a[1] \in Users /\ a[2] \in 0 .. MaxMoves
        BY DEF Addresses
      <3>2. CASE a[1] # u
        <4>1. moves'[a[1]] = moves[a[1]] /\ leftAt'[a[1]] = leftAt[a[1]]
          BY <1>1, <1>3, <2>1, <3>1, <3>2 DEF Move, UsersTyped
        <4> QED
          BY <2>2, <4>1 DEF UsedSince
      <3>3. CASE a[1] = u /\ a[2] = moves[u]
        <4>1. leftAt'[a[1]][a[2]] = now
          BY <1>1, <1>3, <2>1, <3>3 DEF Move, UsersTyped
        <4> QED
          BY <2>1, <2>2, <4>1 DEF UsedSince
      <3>4. CASE a[1] = u /\ a[2] # moves[u]
        <4>1. leftAt'[a[1]][a[2]] = leftAt[a[1]][a[2]]
          BY <1>1, <1>3, <2>1, <3>1, <3>4 DEF Move, UsersTyped
        <4> QED
          BY <2>2, <3>4, <4>1 DEF UsedSince
      <3> QED
        BY <3>2, <3>3, <3>4
    <2> QED
      BY <2>1, <2>2
  <1>4. CASE UNCHANGED <<now, moves, leftAt>>
    BY <1>1, <1>4 DEF UsersTyped, UsedSince
  <1>5. ASSUME \/ \E u \in Editors, f \in Users : Befriend(u, f) \/ Unfriend(u, f)
               \/ \E u \in Users, l \in Loops : PublishOnce(u, l)
               \/ \E u \in Users, l \in Loops, f \in Users : PutValue(u, l, f)
               \/ \E p \in Places, t \in Others : PlaceStart(p, t)
               \/ \E p \in Places : PlaceStep(p)
               \/ Restart
               \/ UNCHANGED vars
        PROVE UNCHANGED <<now, moves, leftAt>>
    BY <1>5 DEF Befriend, Unfriend, PublishOnce, PutValue, PlaceStart, PlaceStep, Resolve,
                LookupFails, Lookup, flushSnapshot, flushWrite, Dial, Restart, userVars, vars
  <1> QED
    BY <1>2, <1>3, <1>4, <1>5 DEF Next

(* A record and an entry that are timely remain so. *)
LEMMA TimelyKept ==
    ASSUME TypeOK, [Next]_vars
    PROVE  /\ \A r \in Records : RecordTimely(r, now, moves, leftAt)
                                    => RecordTimely(r, now', moves', leftAt')
           /\ \A c \in Caches : CacheTimely(c, now, moves, leftAt)
                                    => CacheTimely(c, now', moves', leftAt')
  <1>1. now \in Nat /\ now' \in Int
    BY UseRemembered, TypeStep DEF TypeOK, UsersTyped
  <1>2. ASSUME NEW r \in Records, RecordTimely(r, now, moves, leftAt)
        PROVE RecordTimely(r, now', moves', leftAt')
    <2>1. r.addr \in Addresses /\ r.time - Skew[r.by] \in Int
      BY TimeAssumption DEF Records
    <2> QED
      BY <1>1, <1>2, <2>1, UseRemembered DEF RecordTimely
  <1>3. ASSUME NEW c \in Caches, CacheTimely(c, now, moves, leftAt),
               NEW t \in Others, c[t] # NoEntry
        PROVE EntryTimely(t, c[t], now', moves', leftAt')
    <2>1. c[t].addr \in Addresses /\ c[t].fetchedAt - TTL - Skew[t] \in Int
      BY <1>3, TimeAssumption DEF Caches, Entries, Others
    <2>2. EntryTimely(t, c[t], now, moves, leftAt)
      BY <1>3 DEF CacheTimely
    <2> QED
      BY <1>1, <2>1, <2>2, UseRemembered DEF EntryTimely
  <1> QED
    BY <1>2, <1>3 DEF CacheTimely

(* What is encoded now is timely, and what a lookup makes of a timely      *)
(* record.                                                                 *)
LEMMA TimelyEncoded ==
    ASSUME TypeOK, NEW u \in Users
    PROVE  RecordTimely(Encode(u), now, moves, leftAt)
  <1>1. Clock(u) - Skew[u] = now
    BY TimeAssumption DEF TypeOK, UsersTyped, Clock
  <1> QED
    BY <1>1 DEF TypeOK, UsersTyped, RecordTimely, UsedSince, Encode, Here

LEMMA TimelyFetched ==
    ASSUME TypeOK, DhtTimely, NEW t \in Others, NEW r \in Acceptable(t)
    PROVE  /\ r \in Records
           /\ EntryTimely(t, [addr |-> r.addr, fetchedAt |-> Clock(Me)], now, moves, leftAt)
  <1>1. DeriveDHTKey(Me, t) \in Keys
    BY UsersAssumption DEF DeriveDHTKey, Keys, Others
  <1>2. /\ r \in Records /\ RecordTimely(r, now, moves, leftAt)
        /\ r.by = t /\ Clock(Me) - r.time <= TTL
    BY <1>1 DEF TypeOK, PublishersTyped, DhtTimely, Acceptable, Decode
  <1>3. /\ r.time \in Nat /\ Skew[t] \in Nat /\ TTL \in Nat /\ now \in Nat /\ Clock(Me) \in Nat
        /\ r.addr[1] \in Users /\ r.addr[2] \in 0 .. MaxMoves
    BY <1>2, TimeAssumption, UsersAssumption, HereAndNow
    DEF TypeOK, UsersTyped, Records, Addresses, Others
  <1>4. leftAt[r.addr[1]][r.addr[2]] \in Nat
    BY <1>3 DEF TypeOK, UsersTyped
  <1>5. r.time - Skew[t] <= now /\ Clock(Me) - TTL - Skew[t] <= r.time - Skew[t]
    BY <1>2, <1>3 DEF RecordTimely
  <1>6. UsedSince(r.addr, Clock(Me) - TTL - Skew[t], moves, leftAt)
    BY <1>2, <1>3, <1>4, <1>5 DEF RecordTimely, UsedSince
  <1>7. Clock(Me) - TTL - Skew[t] <= now
    BY <1>3, <1>5
  <1> QED
    BY <1>2, <1>6, <1>7 DEF EntryTimely

(* Timely is inductive. *)
LEMMA TimelyInit == Init => Timely
  <1> SUFFICES ASSUME Init PROVE Timely
    OBVIOUS
  <1>1. RoundsTimely /\ DhtTimely
    BY DEF Init, RoundsTimely, DhtTimely
  <1>2. CachesTimely /\ SnapshotsTimely
    BY DEF Init, CachesTimely, SnapshotsTimely, CacheTimely, Writing
  <1> QED
    BY <1>1, <1>2 DEF Timely

LEMMA TimelyStep == TypeOK /\ Timely /\ [Next]_vars => Timely'
  <1> SUFFICES ASSUME TypeOK, Timely, [Next]_vars PROVE Timely'
    OBVIOUS
  <1>1. /\ RoundsTimely /\ DhtTimely /\ CachesTimely /\ SnapshotsTimely
        /\ RecordsTravel /\ EntriesTravel
    BY EverythingTravelled DEF Timely, Travelled
  <1>2. TypeOK'
    BY TypeStep
  <1>3. RoundsTimely'
    <2> SUFFICES ASSUME NEW u \in Users, NEW v \in Loops, round'[u][v] # NoRound
                 PROVE RecordTimely(round'[u][v].rec, now', moves', leftAt')
      BY DEF RoundsTimely
    <2>1. round'[u][v].rec \in Records
      BY <1>2 DEF TypeOK, PublishersTyped, Rounds
    <2>2. RecordTimely(round'[u][v].rec, now, moves, leftAt)
      <3>1. CASE round'[u][v].rec = Encode(u)
        BY <3>1, TimelyEncoded
      <3>2. CASE round[u][v] # NoRound /\ round'[u][v].rec = round[u][v].rec
        BY <1>1, <3>2 DEF RoundsTimely
      <3> QED
        BY <1>1, <3>1, <3>2 DEF RecordsTravel
    <2> QED
      BY <2>1, <2>2, TimelyKept
  <1>4. DhtTimely'
    <2> SUFFICES ASSUME NEW k \in Keys, NEW r \in dht'[k]
                 PROVE RecordTimely(r, now', moves', leftAt')
      BY DEF DhtTimely
    <2>1. r \in Records
      BY <1>2 DEF TypeOK, PublishersTyped
    <2>2. RecordTimely(r, now, moves, leftAt)
      BY <1>1 DEF RecordsTravel, DhtTimely, RoundsTimely
    <2> QED
      BY <2>1, <2>2, TimelyKept
  <1>5. CacheTimely(cache', now, moves, leftAt)
    <2> SUFFICES ASSUME NEW t \in Others, cache'[t] # NoEntry
                 PROVE EntryTimely(t, cache'[t], now, moves, leftAt)
      BY DEF CacheTimely
    <2>1. CASE cache'[t] \in {cache[t], disk[t]}
      BY <1>1, <2>1 DEF CachesTimely, CacheTimely
    <2>2. CASE \E r \in Acceptable(t) :
                  cache'[t] = [addr |-> r.addr, fetchedAt |-> Clock(Me)]
      BY <1>1, <2>2, TimelyFetched
    <2> QED
      BY <1>1, <2>1, <2>2 DEF EntriesTravel
  <1>6. CacheTimely(disk', now, moves, leftAt)
    BY <1>1 DEF EntriesTravel, CachesTimely, SnapshotsTimely
  <1>7. CachesTimely'
    <2>1. cache' \in Caches /\ disk' \in Caches
      BY <1>2 DEF TypeOK, CachesTyped
    <2> QED
      BY <1>5, <1>6, <2>1, TimelyKept DEF CachesTimely
  <1>8. SnapshotsTimely'
    <2> SUFFICES ASSUME NEW p \in Places, pc'[p] \in Writing
                 PROVE CacheTimely(flushing'[p], now', moves', leftAt')
      BY DEF SnapshotsTimely
    <2>1. flushing'[p] \in Caches
      BY <1>2 DEF TypeOK, PlacesTyped, Writing
    <2>2. CacheTimely(flushing'[p], now, moves, leftAt)
      BY <1>1 DEF EntriesTravel, CachesTimely, SnapshotsTimely
    <2> QED
      BY <2>1, <2>2, TimelyKept
  <1> QED
    BY <1>3, <1>4, <1>7, <1>8 DEF Timely

(* An address is never handed out later than two lifetimes after its owner *)
(* has left it, give or take the difference of the clocks: one lifetime    *)
(* for the record, one for the cached entry, and neither a lost            *)
(* invalidation nor a restart starts them anew.                            *)
THEOREM HandedOutSoonEnough == Spec => HandedOutInTime
  <1> DEFINE A == \A p \in Places :
                     addrs'[p] # addrs[p] /\ addrs'[p] # NoAddr
                       => InUseAfter(addrs'[p], now - 2 * TTL - Skew[target[p]] + Skew[Me])
  <1>1. TypeOK /\ Own /\ Timely /\ [Next]_vars => [A]_vars
    <2> SUFFICES ASSUME TypeOK, Own, Timely, [Next]_vars, NEW p \in Places,
                        addrs'[p] # addrs[p], addrs'[p] # NoAddr
                 PROVE InUseAfter(addrs'[p], now - 2 * TTL - Skew[target[p]] + Skew[Me])
      OBVIOUS
    <2> DEFINE t == target[p]
               a == addrs'[p]
    <2>1. a \in Found(p)
      BY EverythingTravelled DEF Travelled, AddressesTravel
    <2>2. t \in Others /\ t \in Users /\ a[1] \in Users /\ a[2] \in 0 .. MaxMoves
      BY <2>1 DEF TypeOK, PlacesTyped, Others, Found, Addresses
    <2>3. /\ Skew[t] \in Nat /\ Skew[Me] \in Nat /\ TTL \in Nat \ {0} /\ now \in Nat
          /\ Clock(Me) = now + Skew[Me]
      BY <2>2, TimeAssumption, UsersAssumption DEF TypeOK, UsersTyped, Clock
    <2>4. leftAt[a[1]][a[2]] \in Nat
      BY <2>2 DEF TypeOK, UsersTyped
    <2>5. CASE Cached(t) /\ a = cache[t].addr
      <3>1. cache[t] \in Entries /\ EntryTimely(t, cache[t], now, moves, leftAt)
        BY <2>2, <2>5 DEF TypeOK, CachesTyped, Caches, Cached, Timely, CachesTimely, CacheTimely
      <3>2. cache[t].fetchedAt \in Nat /\ Clock(Me) - cache[t].fetchedAt < TTL
        BY <2>5, <3>1 DEF Cached, Entries
      <3>3. UsedSince(a, cache[t].fetchedAt - TTL - Skew[t], moves, leftAt)
        BY <2>5, <3>1 DEF EntryTimely
      <3> HIDE DEF a, t
      <3>4. cache[t].fetchedAt - TTL - Skew[t] > now - 2 * TTL - Skew[t] + Skew[Me]
        BY <2>3, <3>2
      <3>5. moves[a[1]] = a[2] \/ leftAt[a[1]][a[2]] > now - 2 * TTL - Skew[t] + Skew[Me]
        BY <2>3, <2>4, <3>2, <3>3, <3>4 DEF UsedSince
      <3> QED
        BY <3>5 DEF InUseAfter, a, t
    <2>6. CASE \E r \in Acceptable(t) : a = r.addr
      <3>1. PICK r \in Acceptable(t) : a = r.addr
        BY <2>6
      <3>2. UsedSince(a, Clock(Me) - TTL - Skew[t], moves, leftAt)
        BY <2>2, <3>1, TimelyFetched DEF Timely, EntryTimely
      <3> HIDE DEF a, t
      <3>3. moves[a[1]] = a[2] \/ leftAt[a[1]][a[2]] > now - 2 * TTL - Skew[t] + Skew[Me]
        BY <2>3, <2>4, <3>2 DEF UsedSince
      <3> QED
        BY <3>3 DEF InUseAfter, a, t
    <2> QED
      BY <2>1, <2>5, <2>6 DEF Found
  <1> QED
    BY TypeCorrect, OwnInit, OwnStep, TimelyInit, TimelyStep, <1>1, PTL
    DEF Spec, HandedOutInTime
-----------------------------------------------------------------------------
(* Who holds flushMu, and what it is about to write.  While a change of    *)
(* the cache waits for its flush nothing is claimed: that flush will make  *)
(* it good.                                                                *)
Waiting == {"flush", "dropped"}
FlushInv ==
    /\ \A p, q \in Places : pc[p] \in Writing /\ pc[q] \in Writing => p = q
    /\ (\A p \in Places : pc[p] \notin Waiting) =>
          /\ \A p \in Places : pc[p] \in Writing => flushing[p] = cache
          /\ (\A p \in Places : pc[p] \notin Writing) => writeFailed \/ disk = cache

(* A call that changes the cache waits for its flush, and one that does    *)
(* not leaves the flushes alone.                                           *)
LEMMA FlushApart ==
    ASSUME TypeOK, FlushInv, NEW p \in Places, UNCHANGED <<disk, writeFailed, flushing>>,
           NEW x \in Positions \ Writing, pc' = [pc EXCEPT ![p] = x],
           pc[p] \notin Writing \cup Waiting,
           x \in Waiting \/ cache' = cache
    PROVE  FlushInv'
  <1>1. pc \in [Places -> Positions]
    BY DEF TypeOK, PlacesTyped
  <1>2. \A q \in Places : pc'[q] \in Writing <=> pc[q] \in Writing
    BY <1>1
  <1>3. CASE x \in Waiting
    <2>1. pc'[p] \in Waiting
      BY <1>1, <1>3
    <2> QED
      BY <1>2, <2>1 DEF FlushInv
  <1>4. CASE x \notin Waiting /\ cache' = cache
    <2>1. \A q \in Places : pc'[q] \in Waiting <=> pc[q] \in Waiting
      BY <1>1, <1>4
    <2> QED
      BY <1>2, <1>4, <2>1, Zenon DEF FlushInv
  <1> QED
    BY <1>3, <1>4

LEMMA FlushStep == TypeOK /\ FlushInv /\ [Next]_vars => FlushInv'
  <1> SUFFICES ASSUME TypeOK, FlushInv, [Next]_vars PROVE FlushInv'
    OBVIOUS
  <1>1. pc \in [Places -> Positions] /\ flushing \in [Places -> Caches \cup {NoFlush}]
    BY DEF TypeOK, PlacesTyped, CachesTyped
  <1>2. CASE UNCHANGED <<cache, disk, writeFailed, flushing, pc, target, addrs>>
    BY <1>2 DEF FlushInv
  <1>3. ASSUME NEW p \in Places, NEW t \in Others, PlaceStart(p, t) PROVE FlushInv'
    BY <1>3, FlushApart DEF PlaceStart, cacheVars, Positions, Writing, Waiting
  <1>4. ASSUME NEW p \in Places, Resolve(p) \/ LookupFails(p) \/ Lookup(p) \/ Dial(p)
        PROVE FlushInv'
    <2>1. pc[p] \notin Writing \cup Waiting /\ UNCHANGED <<disk, writeFailed, flushing>>
      BY <1>4 DEF Resolve, LookupFails, Lookup, Dial, Writing, Waiting
    <2>2. \/ pc' = [pc EXCEPT ![p] = "dropped"] \/ pc' = [pc EXCEPT ![p] = "flush"]
          \/ /\ cache' = cache
             /\ \E x \in {"dial", "lookup", "idle"} : pc' = [pc EXCEPT ![p] = x]
      BY <1>4 DEF Resolve, LookupFails, Lookup, Dial, NoAddresses, Invalidate
    <2> QED
      BY <2>1, <2>2, FlushApart DEF Positions, Writing, Waiting
  <1>5. ASSUME NEW p \in Places, flushSnapshot(p) PROVE FlushInv'
    <2>1. \A q \in Places : pc[q] \notin Writing
      BY <1>5, AbsentAssumption DEF flushSnapshot, TypeOK, PlacesTyped, Writing
    <2>2. /\ flushing' = [flushing EXCEPT ![p] = cache] /\ cache' = cache
          /\ pc' = [pc EXCEPT ![p] = IF pc[p] = "flush" THEN "write" ELSE "dropwrite"]
      BY <1>1, <1>5 DEF flushSnapshot
    <2>3. \A q \in Places : pc'[q] \in Writing <=> q = p
      BY <1>1, <2>1, <2>2 DEF Writing
    <2>4. flushing'[p] = cache'
      BY <1>1, <2>2
    <2> QED
      BY <2>3, <2>4 DEF FlushInv
  <1>6. ASSUME NEW p \in Places, flushWrite(p) PROVE FlushInv'
    <2>1. /\ pc[p] \in Writing /\ cache' = cache
          /\ (disk' = flushing[p]) \/ writeFailed'
          /\ flushing' = [flushing EXCEPT ![p] = NoFlush]
          /\ pc' = [pc EXCEPT ![p] = AfterFlush(p)]
      BY <1>6 DEF flushWrite, Writing
    <2>2. AfterFlush(p) \notin Writing \cup Waiting /\ pc[p] \notin Waiting
      BY <2>1 DEF AfterFlush, Writing, Waiting
    <2>3. \A q \in Places : pc'[q] \notin Writing /\ (pc'[q] \in Waiting <=> pc[q] \in Waiting)
      BY <1>1, <2>1, <2>2 DEF FlushInv
    <2> QED
      BY <2>1, <2>3, Zenon DEF FlushInv
  <1>7. CASE Restart
    BY <1>7 DEF Restart, FlushInv, Writing
  <1> QED
    BY <1>2, <1>3, <1>4, <1>5, <1>6, <1>7, WorldApart DEF Next, PlaceStep

(* Sets and invalidations of any number of concurrent calls reach the      *)
(* cache file in the order in which they were made, through failing writes *)
(* and restarts.                                                           *)
THEOREM FileFollowsCache == Spec => []DiskFollowsCache
  <1>1. Init => FlushInv
    BY DEF Init, FlushInv, Writing
  <1>2. FlushInv => DiskFollowsCache
    BY DEF FlushInv, DiskFollowsCache, Writing, Waiting
  <1> QED
    BY TypeCorrect, FlushStep, <1>1, <1>2, PTL DEF Spec
=============================================================================
