# A TLA+ model of opencom

opencom is a peer-to-peer voice program: every user runs a daemon, daemons talk
over libp2p, and the command line and the terminal UI talk to their daemon over
a local socket. This directory holds TLA+ modules translated from the daemon's
source, TLC configurations that check them on small instances, and TLAPS proofs
for every instance. The repository has no design document, so what the code is
supposed to do is taken from its comments and tests.

## 1. Inventory

| Component | State | Operations | Hard behaviour | What makes it correct |
|---|---|---|---|---|
| `call.Session` | state, reason, subscribers | ToRinging, ToConnecting, ToConnected, End, Subscribe, broadcast | several goroutines move it; broadcasts happen outside the lock | states advance one at a time, Ended is final, the first reason stays |
| `call.Engine` | stream and encoder per call | Place, Accept, Hangup, handleStream, readLoop, Stop | two daemons, IPC requests, lost messages, shutdown | nobody is connected without an accept; a call ends on both sides; no orphaned live call |
| `call.Manager` | session registry, subscribers | Register, Get, Remove, fanout | registration in two halves, drops on overflow | subscribers hear a call in order, "ended" last |
| `ipc/methods` (calls) | one pipe per subscription | calls.start, attach, action, subscribe | snapshot against running transitions | an attached client learns the end |
| `audio.JitterBuffer` | frames by sequence number, playout position | Push, Pop | wrap-around, half-circle distances, overflow | no frame behind the position, cap kept, oldest leaves first |
| `audio.Pipeline`, `audio.Session` | mute flag, playout queue, peer mute | onCapture, recvLoop, onPull, SetMuted | reordering, loss and duplicates, control mixed with media | played in capture order, nothing twice; mute is shown |
| `audio.Manager` | session map | Start, startSession, stopSession, Stop | slow NewSession, Stop in the middle, dropped events | no audio session is lost track of; audio ends with its call |
| `audio/transport` | queues, datagram connection, inbound streams | SendMedia, RecvMedia, pumps, watcher, Close | path changes in mid-call, two pumps on one queue, stale streams, Close against blocked reads | each frame is heard once; fresh frames survive; streams are found in any order of start; Close ends everything |
| `invite.Manager`, `invite.Store` | entries, file, subscribers | Create, Redeem, Revoke, handleStream, flush | concurrent redeems, rollback, crash | a code makes one friend; accepted is mutual; revoked stays revoked; a failed redemption gives the code back |
| `friends.Store` | list, file | Open, Add, Remove, Rename | failing writes, restarts | what is shown is what is stored |
| `friends.Presence` | online map, subscribers | Connected, Disconnected, Subscribe, Unsubscribe | several connections to a peer, broadcast outside the lock, clients that vanish | online means connected; each change is told once; subscriptions are released |
| `discovery` | publication rounds, DHT, cache and its file | PublishOnce, Resolve, Set, Invalidate, flush | both friends share a DHT key, old values, clocks, concurrent calls, restarts | addresses are the peer's own and recent; the file follows the cache |
| `ipc` server, client | connections, pending calls, subscriptions | Serve, Dial, Call, Subscribe, Close | matching, giving up, early events, tear-down, shutdown | a response reaches its call; early events are kept; every call returns; subscribers see the end |
| `app` daemon, IPC endpoint | what Run has acquired, the socket path | Run, Listen, Serve, shutdown, spawn | a failure at every step, leftover sockets, two daemons at once, clients that stay | goroutines are told before what they use is gone; a listener keeps its path; leftovers do not matter; shutdown completes |
| terminal UI | panes, dock, footer, modal, commands in flight | Update for keys and messages | answers in any order, crossing calls, a stalled or lost connection | keys act on what is shown; the footer is true |
| command line, identity, configuration, logging, version, libp2p host options | | | I/O, cryptography, library configuration | spawning a daemon is in `Daemon`; the rest is not modelled |

How they interact: an IPC request calls `Engine`, which writes to a stream and
moves a `Session`; the session broadcasts to its subscribers; the forwarder that
`Manager.Register` starts fans the changes of all calls out to the audio manager,
the notifier and the UI; the audio manager opens an audio session on "connected"
and closes it on "ended". Invites make friends, and friends are whom one calls: `Engine.Place` asks the
resolver for their addresses, which it keeps in a cache file, and which the friend's
publisher has put into the DHT. The host's connection notifications drive presence,
which `friends.subscribe` streams to clients. `app.Run` starts and stops all of this
and owns the socket over which the command line and the terminal UI reach it.

## 2. Modules

| Module | Models | Role |
|---|---|---|
| `SessionStates` | the `State` constants | shared |
| `Session` | one `call.Session` | abstract specification |
| `Call` | two engines, one call | detailed; implements `Session` on each side |
| `CallProofs` | | theorems about `Call` |
| `SessionEvents` | broadcast, forwarder, attached client | extends `Session` |
| `SessionEventsProofs` | | theorems about `SessionEvents` |
| `JitterBuffer` | `audio/jitter.go` | functions and a state machine over them |
| `MediaPath` | one direction of audio | extends `JitterBuffer` |
| `AudioManager` | `audio/manager.go` | |
| `MediaTransport` | `audio/transport.go`, one direction, several calls | |
| `AudioProofs` | | theorems about `JitterBuffer`, `MediaPath`, `AudioManager`, `MediaTransport` |
| `Ipc` | `ipc/server.go`, `conn.go`, `client.go`, one connection | |
| `IpcProofs` | | theorems about `Ipc` |
| `Invite` | one invite code | |
| `InviteProofs` | | theorems about `Invite` |
| `Discovery` | `discovery/`, the dial and retry of `Engine.Place` | publishers of all users, resolver and cache of one |
| `DiscoveryProofs` | | theorems about `Discovery` |
| `Friends` | `friends/store.go`, `presence.go`, the host's notifications, `ipc/methods/friends.go` | composes store, presence and subscribers |
| `FriendsProofs` | | theorems about `Friends` |
| `Daemon` | `app/daemon.go`, `ipc/transport_unix.go`, `cli/daemon_ensure.go` | several processes and one path |
| `Tui` | `cli/tui` | one program and the calls of its daemon |
| `ProgramProofs` | | theorems about `Daemon` and `Tui` |
| `MC*` | | instances for TLC |

Correspondence with the code:

* **Call.** `pc[g]` is the next lock section or stream operation of goroutine
  `g`: `caller` runs Place and readLoop, `callee` runs handleStream, a request
  runs Accept or Hangup. `registered` is membership in `Manager.sessions`,
  `bound` in `Engine.streams` and `encs`, `inbox` the bytes written and not yet
  read, `closed` and `broken` the stream. Every call of one of the request
  handlers, each deferred clean-up and each error path is an action.
* **SessionEvents.** `pending[g]` is the change goroutine `g` has made under
  `Session.mu` and not yet broadcast. `Register` is the second half of
  `Manager.Register`; requests may already have found the session.
* **JitterBuffer.** The sequence circle has `2*Half` values instead of 2^16.
* **MediaPath.** A payload is its number in capture order, so "played in order"
  is a comparison of numbers while the code only sees numbers on the circle. A packet
  may arrive again after it was received, as `audio/transport.go:24` allows of the media
  path.
* **AudioManager.** `open` is the set of sessions that `NewSession` returned and
  nobody has closed; `sessions` is the map.
* **MediaTransport.** `inbound` is the registry channel of one peer, which all
  calls with that peer share; `reader[c]` is `waitAndReadMediaLoop`, `deliver` the
  three selects of `deliverRecv` with their gaps. `Init` includes the states an
  earlier call leaves behind: its stream taken, or still in the registry.
* **Ipc.** `call[r]` is the position of one `Call`, `answer[r]` its channel,
  `readLoop` the reading goroutine with the two sections of its tear-down, after
  which `pending` and `subs` are nil. A response carries the request it answers as
  ghost data; the client matches by id.
* **Invite.** `entry` is the code in memory, `disk` in the file; a flush is a
  snapshot and a write under `flushMu`. `friends` and `savedFriends` start as any set of
  invitees, and `AddFriend` is an Add from elsewhere, so that a redemption may meet a
  friend; a write of the friends file may fail at any time, one of the invites file under
  `DiskFaults`. A task that a crash cuts off is "lost"; only Revoke may be called again.
* **Discovery.** `round[u][l]` is what `PublishOnce` has read before its loop of puts,
  in `Run` or in the goroutine that follows address changes; `dht[k]` every record ever
  put under a key, any of which a lookup may return. `pc[p]` walks `Place` through
  Resolve, the cache update, the two halves of `flush` and the dial; `flushing[p]` is
  the snapshot of whoever holds `flushMu`. `leftAt` is ghost data.
* **Friends.** `note[c]` is the position of a connection's notifications: the filter,
  the lock section of MarkOnline or MarkOffline, the broadcast. `net` and `lossy`
  count what a subscriber was sent, `excused` marks the gaps named below.
* **Daemon.** `held[d]` is the stack of deferred calls of `Run`; `path` says whose
  socket file is at the path. Listen's dial, remove, bind and chmod are four steps,
  since nothing excludes another process between them. `loop[d]` is the goroutine of
  `audio.Manager.Start`, which registers its cancel when it begins to run and not when it
  is spawned; `background[d]` stands for the publisher, the address watcher and the
  version checker. Nobody joins them, so the model never ends them before the process.
* **Tui.** `cmds` is a bag of commands in flight and messages not yet handled. A
  command whose answer cannot become stale is answered in the step that handles it;
  the status poll and calls.start, whose answers can, have a step of their own.

Definitions whose comment starts with "Faulty" are mutants: plausible mistakes
in the code, each of which makes a property fail. No specification uses them.

## 3. Runs

| Run | Shows | Instance |
|---|---|---|
| `call` | `Consent`, `AcceptHeard`, `LiveCallsCanBeHungUp`; both sides implement `Session`; `EndReachesBothSides` | one accept, a hangup per side, a breaking connection, Stop at the callee, fair |
| `events` | order of what observers are told; the end is told | two accepts, two hangups, channels of 4, fair |
| `media` | `InWindow`, `LeavesOldestFirst`, `PlayoutInOrder` | 18 packets on a circle of 16, cap 3, target 2, three late, two lost, two duplicates |
| `transport` | `HeardOnceInOrder`, `FreshFrameKept`, `StreamsAreTaken`, `CloseStopsGoroutines` | one call after an earlier one, three frames, queues of one, one direct connection that comes and goes, fair |
| `audio_manager` | `OpenIsReachable`, `AudioEndsWithCall` | two calls, a channel of 5 for 8 events, Stop, fair |
| `ipc` | `AnswersMatch`, `EarlyEventsKept`, `CallsReturn`, `SubscribersSeeEnd` | a call and a subscription, three events for buffers of two, fair |
| `invite` | `SingleUse`, `AcceptedIsMutual`, `ConsumedMadeFriend`, `RevokedStaysRevoked`, `RollbackIsDurable` | two invitees, any of them a friend already, a retry, a crash, failing Adds; the attempts of one invitee are symmetric |
| `discovery` | `Authentic`, `DiskFollowsCache`, `HandedOutInTime` | two friends, two calls at once, one move, two rounds, a fault, lifetime 2 within 3 units of time, clocks one unit apart |
| `friends` | `PresenceAgrees`, `ToldOnce`, `SubscriptionReleased` | two peers, two connections to one of them, a subscriber with a channel of 2, a fault, fair |
| `daemon` | `GoroutinesAreToldFirst`, `SocketKept`, `LeftoversAreNoObstacle`, `ShutdownCompletes` | two processes, a command, a crash, any leftover file, fair |
| `daemon_single` | violates `SingleInstance` | two processes that start at once |
| `tui` | `FocusIsSelection`, `NamesTheCall`, `FooterFollowsDaemon` | two friends, two calls, an invite, two keys besides the filter's, fair |

`daemon_single` ends in a violation: it records a disagreement between the code and
its own comment (section 6).

Bounds. `call` has one accept, and `CallProofs` covers any number; two compete in
`events`, and a third would behave like the second, since transition admits one. A
hangup on each side is enough for every race of End. Stop runs at the callee only:
at a caller between bind and readLoop it leaves a session that nothing ends
(`readLoop` finds no stream and returns, `call/streams.go:353`), which the safety
theorems cover and `EndReachesBothSides` does not claim. The
circle of 16 has all the distances that matter: behind, ahead, the largest
positive and the largest negative; 18 packets wrap it, and two duplicates can repeat one
packet or two that are next to each other. A channel of capacity 4
holds the four changes a session can make, so the 16 of the code is never reached. Two calls are enough for one to hold up the
audio of the other, and a channel of 5 overflows while both end. With a queue of one
frame both pumps of a transport meet in the eviction after three frames. Two
requests suffice to confuse ids, and three events overflow buffers of two before and
after the registration. In `discovery` three units of time let a record reach the end
of its lifetime and a cached copy of it the end of its own; `DiscoveryProofs` covers any
other numbers. Two overlapping connections are enough for each notification to race the
other's, and two processes for each step of Listen to race the other's; a third can only
take the place of one that has gone. In `tui` two calls can cross each other and the
target of a key, and two keys open and close a modal; the filter's keys are not bounded.
Deadlock checking is off where the modelled behaviour ends: a
call is over, a code is spent, the user has quit.

Fairness. Weak fairness of a goroutine's next step stands for the Go scheduler
and for a library that returns from Close, Encode and NewSession; in `Ipc` a method
handler returns. A dialled stream reaches the peer's handler. Strong fairness is
assumed twice: a Go select whose two cases are ready again and again takes each of them
(`forwarderDone`), and a message in Bubble Tea's channel is taken however many keys
arrive (`Hears`), because the channel is first in, first out. Users, Stop and the network owe nothing: no property
assumes that somebody answers, hangs up or that a packet arrives.

## 4. Proofs

`CallProofs` proves, for any sets of accept and hangup requests, with and without
Stop and connection loss:

* `TypeCorrect`: `TypeOK`, by one step per action.
* `ConsentHolds`: `Consent` is not inductive, because a state in which an ACCEPT
  is in the caller's inbox, or an accept request is past its write, with nobody
  having accepted, would break it in one step. `ConsentInv` adds that while
  `accepted` is empty no inbox holds an ACCEPT and no request is past its write.
* `LiveCallsStayReachable`: `LiveInv` adds that whoever is about to unbind or
  remove has ended the session, and that a goroutine that is about to ring has
  bound and registered it.
* `AcceptIsHeard`: `HeardInv` ties the caller's position to its state: in the
  scan loop it is at least Ringing, and between the two halves of the mirror it
  is Connecting or Ended.
* `CallerRefinesSession`, `CalleeRefinesSession`, together `SidesRefineSession`:
  each step of `Call` is a step of `Session` or leaves that side's session alone.

`AudioProofs` proves, for every circle, cap and target, `BufferInvariant`
(types, `InWindow`, `Capacity`) with the strengthening `IInv` (before the first
Push the buffer is empty), and `OldestLeavesFirst`. The scan for the oldest frame
chooses a minimum, which exists by well-founded induction on the distances. It goes on
with the three modules around the buffer:

* `MediaTypes`: the types of `MediaPath`, and the buffer's guarantees inside it.
* `PathLeavesOldestFirst`: a turn of `recvLoop` can evict one frame and play another; the one
  played is at the position that the eviction has moved, and still older than the rest.
* `PlayedInOrder` (`PlayoutInOrder`): each packet that is played is strictly later in capture
  than the last one played, so a repeat is excluded as well as a step back. `Playing` ties the buffer to a number N on the line,
  of which `nextOut` is the image on the circle. What is stored lies from N on, what waits
  for the sink or has been played lies before N, and N is at most half the circle from the
  packets under way, so that the signed distance of `seqDelta` is the true one. That last
  part is what losses, lateness and duplicates wear down: each lost packet lets N fall behind
  by one, and each duplicate is one more Pop.
  The theorem therefore assumes `WindowFits`: lateness, losses and pre-roll together are less
  than half the sequence space, 32768 packets in the code, and so is twice the lateness with
  the duplicates. With more losses than that a
  packet is mistaken for a late one. A buffer whose target exceeds its cap
  never ends its pre-roll and plays nothing (`NeverPrimed`); the theorem covers it too.
* `OpenStaysReachable` (`OpenIsReachable`): `Held` says whose hands an open session is in at
  each position of the loop and of Stop, `ConnectedOnce` that the "connected" event of a call
  is in the channel or with the loop only while no session has been opened for it, so that
  `startSession` never overwrites one.
* `FreshKept` (`FreshFrameKept`): `ByPath`, a frame in a pump's hands came by its path, and
  `Fresh`, a full queue found at the second push ends in a frame of the other path, since the
  pump itself has just made room.
* `HeardInOrder` (`HeardOnceInOrder`): `OnePlace` says that a frame is in one of the send
  queue, a stream, a datagram, a pump's hands, the receive queue or with the listener of one
  call, and `Once` that it is there once. `Chain` orders the stream: within each of these
  places the numbers rise, and what a call has heard or queued is older than what its pump
  holds, which is older than what is left on the stream that it reads, whichever call sent
  it. It needs that a transport keeps the stream it has taken, and `Readers`, that nobody
  reads before there is a transport.

`DiscoveryProofs` proves all three properties of `Discovery`, for any users, any number
of concurrent calls, any lifetimes and clocks. An address travels from a publication
round to the DHT, to the cache, to a snapshot taken by `flush`, to the file, and back at
a restart. `Travelled` says which of these places a step can have filled from which; it
is proved once, action by action, and both invariants below follow from it alone.

* `TypeCorrect`: `TypeOK`.
* `AuthenticHolds`: `Own` says of every place on the way whose address it holds. It
  needs that a call without addresses is the only one that may change its target.
* `HandedOutSoonEnough`: `Timely` says that a record's address was in use at its
  signer's time, and an entry's at the fetch less one lifetime and the signer's skew;
  neither is later than now, so that leaving the address keeps it true.
* `FileFollowsCache`: `FlushInv` says that one call at a time holds `flushMu`, and that
  with no change waiting for a flush its snapshot is the cache.

`SessionEventsProofs` proves, for any number of writers and any capacities, `TypeCorrect`
and `EndedIsLast` (`NothingAfterEnded`). The broadcast is made after the lock is released,
so the order of the channel says nothing by itself. `Once` says that a change is in one
place only (a writer's hands, the forwarder's channel, or told) and not ahead of the state;
`Sentinel` that the forwarder has left as soon as it has told Ended. `FannedOutInOrder`
(`FannedInOrder`) adds `Answered`: Connecting is in the channel or told before anybody
holds Connected. It assumes two places in the forwarder's channel, where the code has 16;
with one place Connecting can be dropped and Connected told without it.

`InviteProofs` proves all properties of `Invite`, for any number of invitees, attempts and
crashes.

* `BaseHolds`: the types, the labels each task keeps to, and that nothing runs in a daemon
  that is down.
* `CodeIsSingleUse`: a code in hand becomes unusable in memory, then in
  the snapshot, then in the file, and `Redeeming` follows it along this way, so that a
  restart at any point finds either an unusable code or one that has made no friend.
* `RevokeIsFinal`: `Revoking` says the same of the removal.
* `RollbackSurvives` (`RollbackIsDurable`): `RollingBack` follows a mark that made no friend
  through memory, snapshot and file. Wherever one is found, some task still has a flush to
  begin that will write a later state, or a crash has cut one off. It needs `Redeeming`,
  because only the one handler with the code in hand may restore it, and `Revoking`, because
  a handler that finds the code revoked has nothing to restore and flushes nothing.
* `FriendshipIsMutual`: `Told`, whoever is told Accept is in the friends file.
* `NoCodeIsBurnt`: `Accounted`, a consumed code is in a hand or has made a friend.

The theorems about single use, rollback and revocation assume an invites file that can be
written (`~DiskFaults`, as the run does): `Store.flush` ignores the error, and after a write
that failed the older file stays. The friends file may fail in all of them, and the other two
hold whatever either file does.

`FriendsProofs` proves, for any sets of peers, connections and subscribers:

* `TypeCorrect`: `TypeOK`, and that finitely many connections are notified about at a time,
  which is why the set of connections itself need not be finite.
* `ListShowsTheSwarm` (`PresenceAgrees`): the property speaks of a peer whose notifications
  have run; `Settled` says what is true while they run: an open connection that has marked
  its peer has it online, who is about to mark it offline was the last one, and somebody is
  left to do so. Each part stops at the two gaps of section 6.
* `TransitionsToldOnce` (`ToldOnce`): counting. A transition moves the state and the number
  of changes yet to be told together, a broadcast the second and what was told.

`IpcProofs` proves, for any requests, subscriptions, events and capacities:

* `TypeCorrect`: the types, that a handler has a request and that a Call has its number.
* `ResponseIsItsOwn` (`AnswersMatch`): `Matching` says that an id belongs to one request,
  that what is on the wire carries the id of its request, and that an answered channel is no
  longer registered. It covers the late answer to a Call that has given up.
* `EventsArriveInOrder` (`EarlyEventsKept`): `Keeping` says that while the client reads, the
  events emitted are those it has routed followed by those on the wire; `Filled`, that each
  of its two buffers is increasing with no gap a full buffer does not explain. `Quiet` is
  needed at the start, where the hello is the first message.

`ProgramProofs` proves, for any number of processes and commands, `TypeCorrect` and the
safety properties of `Daemon` from one invariant, `Inv`:

* `ToldInTime` (`GoroutinesAreToldFirst`): in the stack of deferred calls each resource stands
  above what it uses, and `Fits` ties the stack to the position of `Run`. `Told` says that
  what would cancel a running goroutine is still on the stack: Stop of the audio manager for
  its loop, the inner context's cancel for the others, whichever step of the start fails.
* `SocketIsKept` (`SocketKept`): `Unchallenged`, nobody is about to remove the path of an
  uncontested daemon.
* `LeftoversAreHarmless` (`LeftoversAreNoObstacle`): `Undisturbed`, a process that listens
  alone finds the path as its own last step has left it.

and for any friends, filters, calls and bounds, two properties of `Tui`:

* `FocusFollows` (`FocusIsSelection`): `PaneOK`, with `visible` as the rounds of its loop, says
  that the selection is clamped to what is visible whenever the list or the filter changes.
* `ShownIsMeant` (`NamesTheCall`): the dock and the modal can be filled by any answer or event
  under way. `CmdsOK` says of each of these that what it refers to exists, which stays true
  because calls are only added (`Grow`); `DockOK` and `ModalOK`, that what is shown is such a
  call and has its peer's name, a placeholder without a call apart.

Assumptions: the named ASSUMEs of the modules, which TLC evaluates in every run, and the
hypotheses named above; `WindowFits` is evaluated too, in `MCMediaPath`. The library's
induction theorems cannot be instantiated, so the two inductions over data that are needed,
for the oldest frame of the buffer and for the loop of `visible`, take a least element of a
set of numbers instead (lemma `Counting`).

Only model-checked: liveness (`EndReachesBothSides`, `EndIsFannedOut`,
`AttachedClientSeesEnd`, `AudioEndsWithCall`, `StreamsAreTaken`,
`CloseStopsGoroutines`, `CallsReturn`, `SubscribersSeeEnd`, `SubscriptionReleased`,
`ShutdownCompletes`, `FooterFollowsDaemon`), which is out of
the prover's reach. Every safety invariant and every action property of the passing runs is
stated by a theorem. `TypeOK` is proved for every module that has theorems, and no run
lists it. The cap of the jitter buffer is part of `BufferInvariant`.

## 5. Plan

All planned components are modelled. Left, in this order:

1. Abstract specifications: a lossy in-order frame channel for `MediaTransport`, a
   request/response channel for `Ipc`, each shown to be implemented.
2. Compositions: `Discovery` below `Call` (the dial of `Place` as steps of it), `Ipc`
   below `Tui` (subscriptions that lag behind).

## 6. Where the code and its comments disagree

`daemon_single` shows that two daemons that start at once over a leftover socket both
come to serve: each finds the path dead, the second removes the live socket of the
first. `app/daemon.go:110` says that Listen enforces a single instance. `SocketKept`
shows what does hold: a daemon that starts after another listens never takes its path.

Met while modelling and not among the runs:

* playout may not recover from packet loss, although `audio/jitter.go:5` says that the buffer
  "tolerates loss within a bounded window". `recvLoop` calls Pop once per received packet, so
  every lost packet leaves one frame more in the buffer. When it holds one frame less than
  its cap and two packets in a row are lost, the cap is exceeded while `nextOut` is missing:
  Push evicts the frame after it without moving `nextOut` (`audio/jitter.go:81`), Pop reports
  the gap and moves onto the slot just emptied, and each later packet repeats this. With the
  200 and 60 ms of the code it takes seven single losses in the course of a call and then two
  in a row; in `MediaPath` with cap 3 and target 2, losing packets 4, 6 and 7 is enough.
  `PlayoutInOrder` holds throughout, since nothing is played any more;
* a peer's mute message is read only after a media packet, and a muted peer sends none
  (`audio/pipeline.go:166`);
* nothing clears `dconn` when the direct connection is lost, so frames go on being
  handed to it (`audio/transport.go:384`);
* `Serve` waits for idle clients after its context is canceled (`ipc/server.go:71`), the
  one thing `ShutdownCompletes` excepts;
* a friend whose file could not be written stays in memory (`friends/store.go:90`). When the
  Add is that of a redemption, the code is restored "so the inviter can retry without
  revoke/recreate" (`invite/manager.go:454`), yet every retry meets `ErrFriendPeerIDTaken`
  until the daemon restarts. `RollbackIsDurable` speaks of the restored code alone;
* a crash between the flush of a mark and the flush of its rollback leaves a consumed code
  that made no friend; `RollbackIsDurable` excepts tasks that a crash cut off;
* an invitee that misses the Accept does not add the inviter, and its retry meets a consumed
  code: the inviter keeps a friend that does not know it (`invite/manager.go:360`);
* the goroutines of `Run` are cancelled and never joined, so they may touch the host after
  it is closed; and an audio loop that is scheduled only after `Manager.Stop`, which then
  had nothing to cancel, runs until the context of `Run`'s caller ends
  (`audio/manager.go:85`). `GoroutinesAreToldFirst` excuses the second;
* a session that `NewSession` returns after `Manager.Stop` has emptied the map goes into the
  new map, and nobody closes it (`audio/manager.go:156`); a dropped "ended" leaves the audio
  of its call open until Stop (`call/manager.go:135`);
* a session that ends after it was registered and before its forwarder has subscribed is not
  reported to the Manager's subscribers, and the forwarder waits for good
  (`call/manager.go:48`); `EndIsFannedOut` asks only for calls that rang;
* `PresenceAgrees` excuses two gaps: a friend added or removed while connected, since
  the filter hides strangers' notifications, and a MarkOffline overtaken by the
  MarkOnline of a new connection;
* the terminal UI waits for the first event of a subscription only; a dock that shows an
  ended call keeps later ones out; a redemption is shown on whichever invite modal is
  open; the hang-up of the quit modal goes to the call the dock shows by then; a lost
  connection is never dialled again.

## 7. Abstractions

Left out everywhere: logging, texts, JSON, timestamps, identifiers other than as
model values, cryptography. A connection is a FIFO per direction that may break; a
failed dial is a choice. The statistics the audio sessions exchange, the five
counters of the jitter buffer and the list methods only read or count. In `Tui` audio
levels, layout, clipboard and editor are left out, help and settings are one modal, and
the footer's idle states one state. In `Discovery` time passes in hours and a record is
its author, address and time; that a record may have no address at all, which Resolve
hands on and `populatePeerstoreFromResolver` takes for a failure, is left out: such a record
hands out no address, and addresses are what the properties are about. In `SessionEvents` a change is
fanned out when `Manager.fanout` offers it; that a full subscriber channel drops it is in
`AudioManager`. In `MediaTransport` a write to a stream does not block, where
`audio/transport.go:390` may until the stream is reset, and in `Call` a DECLINE is a HANGUP
with another reason. In `Daemon` `notify.WatchCalls`, which uses only the calls in memory,
is left out, the version checker only fills a cache, and `pidfile.go` has no caller; the named pipe of Windows is created exclusively by the system. Not modelled at
all: codec, echo canceller and device drivers (they compute samples),
key and configuration files, the upgrade and service commands, the libp2p host's
options.
