----------------------------- MODULE Discovery -----------------------------
(***************************************************************************)
(* How a caller finds the addresses of a friend: the publishers of all     *)
(* users (discovery/publisher.go), the DHT, and at one user, Me, the       *)
(* resolver with its disk-backed cache (resolver.go, cache.go) and the     *)
(* dial and its one retry in Engine.Place (call/streams.go).               *)
(*                                                                         *)
(* An address is <<u, n>>: where user u is after n changes of network.     *)
(* The DHT is a library: a key holds the records that were put under it,   *)
(* a lookup returns one of them or fails, since opencomValidator.Select    *)
(* takes whichever value comes first and old values linger on some nodes.  *)
(* Time passes in the resolver's units (hours); the clocks of the users    *)
(* differ by Skew.                                                         *)
(***************************************************************************)
EXTENDS Integers, FiniteSets

CONSTANTS Users, Me,
          Movers,       \* users who change their network
          Editors,      \* users who change their list of friends
          Places,       \* concurrent calls of Engine.Place at Me
          TTL,          \* DefaultLookupTTL, for records and for cache entries
          Refresh,      \* DefaultRefreshInterval
          Skew,         \* Skew[u]: how far the clock of u is ahead
          MaxTime, MaxMoves, MaxRounds, MaxFaults,  \* bounds
          NoAddr, NoEntry, NoRound, NoFlush          \* absent values

ASSUME UsersAssumption == Me \in Users /\ Movers \subseteq Users /\ Editors \subseteq Users
ASSUME TimeAssumption ==
    /\ TTL \in Nat \ {0} /\ Refresh \in Nat \ {0}
    /\ Skew \in [Users -> Nat]
    /\ MaxTime \in Nat /\ MaxMoves \in Nat /\ MaxRounds \in Nat /\ MaxFaults \in Nat

Others == Users \ {Me}
Loops == {"run", "addrs"}         \* Publisher.Run, the address-change goroutine
Addresses == Users \X (0 .. MaxMoves)
Records == [by : Users, addr : Addresses, time : Nat]
Entries == [addr : Addresses, fetchedAt : Nat]
Caches == [Others -> Entries \cup {NoEntry}]
Rounds == [rec : Records, todo : SUBSET Users]   \* a snapshot and the friends still to serve
ASSUME AbsentAssumption ==
    NoAddr \notin Addresses /\ NoEntry \notin Entries /\ NoFlush \notin Caches

VARIABLES
    now,        \* true time
    moves,      \* moves[u]: changes of network of u so far
    leftAt,     \* leftAt[u][n]: when u left its address <<u, n>> (ghost)
    friends,    \* friends[u]: friends.Store of u
    round,      \* round[u][l]: the PublishOnce that loop l of u is in
    due,        \* due[u]: when Run's ticker fires next
    changed,    \* users with an EvtLocalAddressesUpdated not yet handled
    rounds,     \* publication rounds so far (bound)
    dht,        \* dht[k]: the records put under key k
    cache,      \* Cache.entries of Me
    disk,       \* Me's cache file
    writeFailed,\* the last write of the cache file failed (ghost)
    pc,         \* pc[p]: position in Place
    target,     \* target[p]: the friend p calls
    addrs,      \* addrs[p]: what the resolver last handed to p
    retried,    \* retried[p]: p is in its second attempt
    flushing,   \* flushing[p]: the snapshot of p, which holds flushMu
    faults      \* crashes and failed writes of the cache file so far (bound)

userVars == <<now, moves, leftAt, friends>>
pubVars == <<round, due, changed, rounds, dht>>
cacheVars == <<cache, disk, writeFailed, flushing>>
placeVars == <<pc, target, addrs, retried>>
vars == <<now, moves, leftAt, friends, round, due, changed, rounds, dht,
          cache, disk, writeFailed, pc, target, addrs, retried, flushing, faults>>

Keys == {{u, f} : u \in Users, f \in Users}
Clock(u) == now + Skew[u]
Here(u) == <<u, moves[u]>>

UsersTyped ==
    /\ now \in Nat
    /\ moves \in [Users -> 0 .. MaxMoves]
    /\ leftAt \in [Users -> [0 .. MaxMoves -> Nat]]
    /\ friends \in [Users -> SUBSET Users]
PublishersTyped ==
    /\ round \in [Users -> [Loops -> Rounds \cup {NoRound}]]
    /\ due \in [Users -> Nat] /\ changed \subseteq Users /\ rounds \in Nat
    /\ dht \in [Keys -> SUBSET Records]
CachesTyped ==
    /\ cache \in Caches /\ disk \in Caches /\ writeFailed \in BOOLEAN
    /\ flushing \in [Places -> Caches \cup {NoFlush}]
Positions == {"idle", "resolve", "lookup", "flush", "write", "dial", "dropped", "dropwrite"}
PlacesTyped ==
    /\ pc \in [Places -> Positions]
    /\ target \in [Places -> Others]
    /\ addrs \in [Places -> Addresses \cup {NoAddr}]
    /\ retried \in [Places -> BOOLEAN]
    /\ \A p \in Places : pc[p] \in {"write", "dropwrite"} => flushing[p] \in Caches

TypeOK == UsersTyped /\ PublishersTyped /\ CachesTyped /\ PlacesTyped /\ faults \in Nat
-----------------------------------------------------------------------------
(* The world and the users. *)

Tick ==
    /\ now < MaxTime
    /\ now' = now + 1
    /\ UNCHANGED <<moves, leftAt, friends, pubVars, cacheVars, placeVars, faults>>

(* u changes its network; the host announces its new addresses. *)
Move(u) ==
    /\ moves[u] < MaxMoves
    /\ moves' = [moves EXCEPT ![u] = @ + 1]
    /\ leftAt' = [leftAt EXCEPT ![u][moves[u]] = now]
    /\ changed' = changed \cup {u}
    /\ UNCHANGED <<now, friends, round, due, rounds, dht, cacheVars, placeVars, faults>>

(* friends.add and friends.remove, as far as discovery reads them. *)
Befriend(u, f) ==
    /\ f \notin friends[u] \cup {u}
    /\ friends' = [friends EXCEPT ![u] = @ \cup {f}]
    /\ UNCHANGED <<now, moves, leftAt, pubVars, cacheVars, placeVars, faults>>

Unfriend(u, f) ==
    /\ f \in friends[u]
    /\ friends' = [friends EXCEPT ![u] = @ \ {f}]
    /\ UNCHANGED <<now, moves, leftAt, pubVars, cacheVars, placeVars, faults>>
-----------------------------------------------------------------------------
(* The publishers. *)

(* Both friends derive the same key. *)
DeriveDHTKey(u, f) == {u, f}

Encode(u) == [by |-> u, addr |-> Here(u), time |-> Clock(u)]

(* The head of PublishOnce: one snapshot of friends, addresses and time.   *)
PublishOnce(u, l) ==
    /\ round[u][l] = NoRound /\ rounds < MaxRounds
    /\ \/ l = "run" /\ now >= due[u]
          /\ due' = [due EXCEPT ![u] = now + Refresh] /\ UNCHANGED changed
       \/ l = "addrs" /\ u \in changed
          /\ changed' = changed \ {u} /\ UNCHANGED due
    /\ rounds' = rounds + 1
    /\ round' = [round EXCEPT ![u][l] =
                    IF friends[u] = {} THEN NoRound
                    ELSE [rec |-> Encode(u), todo |-> friends[u]]]
    /\ UNCHANGED <<userVars, dht, cacheVars, placeVars, faults>>

(* One friend of the round: the put succeeds, or an error skips the friend. *)
PutValue(u, l, f) ==
    LET r == round[u][l] IN
    /\ r # NoRound /\ f \in r.todo
    /\ \/ dht' = [dht EXCEPT ![DeriveDHTKey(u, f)] = @ \cup {r.rec}]
       \/ UNCHANGED dht
    /\ round' = [round EXCEPT ![u][l] =
                    IF r.todo = {f} THEN NoRound
                    ELSE [rec |-> r.rec, todo |-> r.todo \ {f}]]
    /\ UNCHANGED <<userVars, due, changed, rounds, cacheVars, placeVars, faults>>
-----------------------------------------------------------------------------
(* The resolver and the cache of Me. *)

(* Place(ctx, remote) is called. *)
PlaceStart(p, t) ==
    /\ pc[p] = "idle"
    /\ pc' = [pc EXCEPT ![p] = "resolve"]
    /\ target' = [target EXCEPT ![p] = t]
    /\ UNCHANGED <<userVars, pubVars, cacheVars, addrs, retried, faults>>

(* A failed dial ends in InvalidateCache: Cache.Invalidate up to its       *)
(* unlock.  The retry follows the first one, and the second one gives up.  *)
Invalidate(p) ==
    /\ cache' = [cache EXCEPT ![target[p]] = NoEntry]
    /\ retried' = [retried EXCEPT ![p] = ~@]
    /\ addrs' = [addrs EXCEPT ![p] = NoAddr]
    /\ pc' = [pc EXCEPT ![p] = "dropped"]

(* populatePeerstoreFromResolver found nothing: the first attempt dials    *)
(* anyway (relays, peerstore), the retry gives up.                         *)
NoAddresses(p) ==
    \/ retried[p] /\ Invalidate(p)
    \/ /\ ~retried[p]
       /\ pc' = [pc EXCEPT ![p] = "dial"]
       /\ UNCHANGED <<cache, addrs, retried>>

(* Faulty: the age of a cached entry is not looked at. *)
CachedForever(t) == cache[t] # NoEntry

(* The cache answers while the entry is younger than the TTL. *)
Cached(t) == cache[t] # NoEntry /\ Clock(Me) - cache[t].fetchedAt < TTL

(* Resolve up to the DHT lookup; the cache is asked before the friends. *)
Resolve(p) ==
    /\ pc[p] = "resolve"
    /\ \/ /\ Cached(target[p])
          /\ addrs' = [addrs EXCEPT ![p] = cache[target[p]].addr]
          /\ pc' = [pc EXCEPT ![p] = "dial"]
          /\ UNCHANGED <<cache, retried>>
       \/ /\ ~Cached(target[p]) /\ target[p] \in friends[Me]
          /\ pc' = [pc EXCEPT ![p] = "lookup"]
          /\ UNCHANGED <<cache, addrs, retried>>
       \/ /\ ~Cached(target[p]) /\ target[p] \notin friends[Me]   \* ErrNotFriend
          /\ NoAddresses(p)
    /\ UNCHANGED <<userVars, pubVars, disk, writeFailed, flushing, target, faults>>

(* Faulty: any well-formed record under the key is taken. *)
DecodeUnsigned(r, t) == Clock(Me) - r.time <= TTL

(* Decode verifies that t signed the record and that it is not stale. *)
Decode(r, t) == r.by = t /\ Clock(Me) - r.time <= TTL

(* GetValue fails or times out, or Decode refuses what it returned. *)
LookupFails(p) ==
    /\ pc[p] = "lookup"
    /\ NoAddresses(p)
    /\ UNCHANGED <<userVars, pubVars, disk, writeFailed, flushing, target, faults>>

(* GetValue returns an acceptable record; Cache.Set up to its unlock. *)
Lookup(p) ==
    /\ pc[p] = "lookup"
    /\ \E r \in dht[DeriveDHTKey(Me, target[p])] :
          /\ Decode(r, target[p])
          /\ addrs' = [addrs EXCEPT ![p] = r.addr]
          /\ cache' = [cache EXCEPT ![target[p]] =
                          [addr |-> r.addr, fetchedAt |-> Clock(Me)]]
    /\ pc' = [pc EXCEPT ![p] = "flush"]
    /\ UNCHANGED <<userVars, pubVars, disk, writeFailed, flushing, target, retried, faults>>

(* Faulty: flush snapshots without holding flushMu. *)
flushSnapshotUnlocked(p) ==
    /\ pc[p] \in {"flush", "dropped"}
    /\ flushing' = [flushing EXCEPT ![p] = cache]
    /\ pc' = [pc EXCEPT ![p] = IF @ = "flush" THEN "write" ELSE "dropwrite"]
    /\ UNCHANGED <<userVars, pubVars, cache, disk, writeFailed, target, addrs, retried, faults>>

(* Cache.flush takes flushMu and the snapshot ... *)
flushSnapshot(p) ==
    /\ pc[p] \in {"flush", "dropped"} /\ \A q \in Places : flushing[q] = NoFlush
    /\ flushing' = [flushing EXCEPT ![p] = cache]
    /\ pc' = [pc EXCEPT ![p] = IF @ = "flush" THEN "write" ELSE "dropwrite"]
    /\ UNCHANGED <<userVars, pubVars, cache, disk, writeFailed, target, addrs, retried, faults>>

(* Where the caller of flush goes on: Resolve returns the addresses to the *)
(* dial; an invalidation precedes the fresh lookup or ends a failed Place. *)
AfterFlush(p) ==
    IF pc[p] = "write" THEN "dial" ELSE IF retried[p] THEN "resolve" ELSE "idle"

(* ... and replaces the file by it; errors are ignored. *)
flushWrite(p) ==
    /\ pc[p] \in {"write", "dropwrite"}
    /\ \/ disk' = flushing[p] /\ writeFailed' = FALSE /\ UNCHANGED faults
       \/ faults < MaxFaults /\ faults' = faults + 1
          /\ writeFailed' = TRUE /\ UNCHANGED disk
    /\ flushing' = [flushing EXCEPT ![p] = NoFlush]
    /\ pc' = [pc EXCEPT ![p] = AfterFlush(p)]
    /\ UNCHANGED <<userVars, pubVars, cache, target, addrs, retried>>

(* NewStream succeeds, or fails. *)
Dial(p) ==
    /\ pc[p] = "dial"
    /\ \/ /\ pc' = [pc EXCEPT ![p] = "idle"]
          /\ addrs' = [addrs EXCEPT ![p] = NoAddr]
          /\ retried' = [retried EXCEPT ![p] = FALSE]
          /\ UNCHANGED cache
       \/ Invalidate(p)
    /\ UNCHANGED <<userVars, pubVars, disk, writeFailed, flushing, target, faults>>

(* Me's daemon dies and starts again: OpenCache reads the file, the        *)
(* publisher's first round is due at once.                                 *)
Restart ==
    /\ faults < MaxFaults
    /\ faults' = faults + 1
    /\ cache' = disk
    /\ flushing' = [p \in Places |-> NoFlush] /\ writeFailed' = FALSE
    /\ pc' = [p \in Places |-> "idle"]
    /\ addrs' = [p \in Places |-> NoAddr]
    /\ retried' = [p \in Places |-> FALSE]
    /\ round' = [round EXCEPT ![Me] = [l \in Loops |-> NoRound]]
    /\ due' = [due EXCEPT ![Me] = now]
    /\ changed' = changed \ {Me}
    /\ UNCHANGED <<userVars, rounds, dht, disk, target>>
-----------------------------------------------------------------------------
Init ==
    /\ now = 0
    /\ moves = [u \in Users |-> 0]
    /\ leftAt = [u \in Users |-> [n \in 0 .. MaxMoves |-> 0]]
    /\ friends = [u \in Users |-> Users \ {u}]
    /\ round = [u \in Users |-> [l \in Loops |-> NoRound]]
    /\ due = [u \in Users |-> 0] /\ changed = {} /\ rounds = 0
    /\ dht = [k \in Keys |-> {}]
    /\ cache = [t \in Others |-> NoEntry] /\ disk = cache /\ writeFailed = FALSE
    /\ pc = [p \in Places |-> "idle"]
    /\ target \in [Places -> Others]
    /\ addrs = [p \in Places |-> NoAddr]
    /\ retried = [p \in Places |-> FALSE]
    /\ flushing = [p \in Places |-> NoFlush] /\ faults = 0

PlaceStep(p) ==
    \/ Resolve(p) \/ LookupFails(p) \/ Lookup(p)
    \/ flushSnapshot(p) \/ flushWrite(p) \/ Dial(p)

Next ==
    \/ Tick
    \/ \E u \in Movers : Move(u)
    \/ \E u \in Editors, f \in Users : Befriend(u, f) \/ Unfriend(u, f)
    \/ \E u \in Users, l \in Loops : PublishOnce(u, l)
    \/ \E u \in Users, l \in Loops, f \in Users : PutValue(u, l, f)
    \/ \E p \in Places, t \in Others : PlaceStart(p, t)
    \/ \E p \in Places : PlaceStep(p)
    \/ Restart

Spec == Init /\ [][Next]_vars
-----------------------------------------------------------------------------
(* The two friends of a pair write under one key, and the DHT returns      *)
(* whichever record it likes: still, what the resolver hands out, keeps    *)
(* and saves for a peer are addresses that this peer itself has published. *)
Authentic ==
    /\ \A t \in Others : /\ cache[t] # NoEntry => cache[t].addr[1] = t
                         /\ disk[t] # NoEntry => disk[t].addr[1] = t
    /\ \A p \in Places : addrs[p] # NoAddr => addrs[p][1] = target[p]

(* a was an address of its user at some time after t. *)
InUseAfter(a, t) == moves[a[1]] = a[2] \/ leftAt[a[1]][a[2]] > t

(* An address is never handed out later than two lifetimes after its owner *)
(* has left it, give or take the difference of the clocks, through stale   *)
(* records, cached entries, lost invalidations and restarts.               *)
HandedOutInTime ==
    [][\A p \in Places :
          addrs'[p] # addrs[p] /\ addrs'[p] # NoAddr
            => InUseAfter(addrs'[p], now - 2 * TTL - Skew[target[p]] + Skew[Me])]_vars

(* Sets and invalidations of concurrent calls reach the cache file in the  *)
(* order in which they were made: when none is under way and the last      *)
(* write succeeded, a restart would find exactly the cache in memory.      *)
DiskFollowsCache ==
    (\A p \in Places : pc[p] \notin {"flush", "write", "dropped", "dropwrite"})
        => writeFailed \/ disk = cache
=============================================================================
