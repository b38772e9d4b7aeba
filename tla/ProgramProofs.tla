---------------------------- MODULE ProgramProofs ----------------------------
(***************************************************************************)
(* The two programs a user starts, for every value of their constants: the *)
(* daemon and the terminal UI.                                             *)
(*                                                                         *)
(* Daemon: the resources it holds are a stack.  Ordered says that each one *)
(* stands above everything it uses, which survives a push and a pop.  Fits *)
(* ties the stack to the position of Run, so that the next push finds what *)
(* it needs.  Told says that a goroutine that runs uncancelled has its     *)
(* deferred call on the stack, and so all that it uses as well.            *)
(* Unchallenged and Undisturbed are what the dial, the remove and the bind *)
(* of Listen keep true of a daemon that has the path to itself.            *)
(*                                                                         *)
(* Tui: what is focused, docked or asked about is what the user means.     *)
(* CmdsOK says of every command and message under way that what it refers  *)
(* to exists, so that showing its answer shows a call of the daemon.       *)
(***************************************************************************)
EXTENDS Daemon, Tui, SequenceTheorems, WellFoundedInduction, TLAPS

(* Each resource of the stack s stands above all that it uses. *)
Ordered(s) == \A i \in 1 .. Len(s) : \A n \in Needs[s[i]] : \E j \in 1 .. i - 1 : s[j] = n

(* The positions of Run from which a resource is held until Run returns. *)
WithListener == {"background", "serve", "wait"}
WithInvites  == {"mdns"} \cup Listens \cup WithListener
WithEngine   == {"audio", "invites"} \cup WithInvites
WithHost     == {"peerstore", "engine"} \cup WithEngine

Positions ==
    {"off", "stores", "host", "peerstore", "engine", "unwind"} \cup WithEngine

(* The stack s of a daemon at position l. *)
Fits(s, l) ==
    /\ Ordered(s)
    /\ l \in WithHost => "host" \in Range(s)
    /\ l \in WithEngine => "engine" \in Range(s)
    /\ l \in WithInvites => "invites" \in Range(s)
    /\ "listener" \in Range(s) => l \in WithListener \cup {"unwind"}
    /\ l = "off" => s = << >>
StacksFit == \A d \in Daemons : Fits(held[d], pc[d])

(* A listener is open only between its bind and its Close. *)
ListenerHeld ==
    \A d \in Daemons : d \in listening => pc[d] = "chmod" \/ "listener" \in Range(held[d])

(* A goroutine that nobody has cancelled has its deferred call ahead. *)
Told ==
    \A d \in Daemons :
       /\ loop[d] = "running" => "audio" \in Range(held[d])
       /\ background[d] /\ ~cancelled[d] => "inner" \in Range(held[d])

(* Nobody is about to take the path of an uncontested daemon. *)
Unchallenged ==
    \A d \in Daemons : Live(d) /\ d \notin contested =>
        \A e \in Daemons \ {d} : pc[e] # "remove" /\ e \notin listening

(* A daemon that listens alone finds the path as it has left it. *)
Undisturbed ==
    \A d \in alone : pc[d] \in Listens =>
        /\ \A e \in Daemons \ {d} : pc[e] = "off"
        /\ pc[d] = "bind" => path = NoDaemon
        /\ pc[d] = "chmod" => path = d

Inv == TypeOK /\ StacksFit /\ ListenerHeld /\ Told /\ Unchallenged /\ Undisturbed
-----------------------------------------------------------------------------
(* Lemmas about stacks. *)

LEMMA NeedsOf ==
    /\ \A r \in Resources : Needs[r] \subseteq {"host", "engine", "invites"}
    /\ Needs["host"] = {}
    /\ \A r \in {"peerstore", "engine", "invites", "inner"} : Needs[r] = {"host"}
    /\ Needs["audio"] = {"host", "engine"}
    /\ Needs["listener"] = {"host", "engine", "invites"}
  BY DEF Needs, Resources

(* Pushing r, all of whose needs are on the stack, keeps the order. *)
LEMMA Pushed ==
    ASSUME NEW s \in Seq(Resources), NEW r \in Resources,
           Ordered(s), Needs[r] \subseteq Range(s)
    PROVE  /\ Append(s, r) \in Seq(Resources)
           /\ Ordered(Append(s, r))
           /\ Range(Append(s, r)) = Range(s) \cup {r}
  <1> DEFINE t == Append(s, r)
  <1>1. /\ t \in Seq(Resources) /\ Len(s) \in Nat /\ Len(t) = Len(s) + 1
        /\ \A i \in 1 .. Len(s) : t[i] = s[i]
        /\ t[Len(t)] = r
    OBVIOUS
  <1>2. DOMAIN s = 1 .. Len(s) /\ DOMAIN t = 1 .. Len(t)
    OBVIOUS
  <1> HIDE DEF t
  <1>3. Ordered(t)
    <2> SUFFICES ASSUME NEW i \in 1 .. Len(t), NEW n \in Needs[t[i]]
                 PROVE  \E j \in 1 .. i - 1 : t[j] = n
      BY DEF Ordered
    <2>1. CASE i \in 1 .. Len(s)
      <3>1. PICK j \in 1 .. i - 1 : s[j] = n
        BY <2>1, <1>1 DEF Ordered
      <3>2. j \in 1 .. Len(s)
        BY <2>1, <1>1
      <3> QED
        BY <3>1, <3>2, <1>1
    <2>2. CASE i = Len(t)
      <3>1. PICK j \in 1 .. Len(s) : s[j] = n
        BY <2>2, <1>1, <1>2 DEF Range
      <3> QED
        BY <2>2, <3>1, <1>1
    <2> QED
      BY <2>1, <2>2, <1>1
  <1>4. Range(t) = Range(s) \cup {r}
    BY <1>1, <1>2 DEF Range
  <1> QED
    BY <1>1, <1>3, <1>4 DEF t

(* The first k of a sequence. *)
LEMMA Initial ==
    ASSUME NEW S, NEW s \in Seq(S), NEW k \in Nat, k <= Len(s)
    PROVE  /\ SubSeq(s, 1, k) \in Seq(S)
           /\ Len(SubSeq(s, 1, k)) = k
           /\ \A i \in 1 .. k : SubSeq(s, 1, k)[i] = s[i]
  <1>1. Len(s) \in Nat /\ \A i \in 1 .. k : s[i] \in S
    OBVIOUS
  <1>2. SubSeq(s, 1, k) \in Seq(S)
    BY <1>1, SubSeqProperties
  <1>3. Len(SubSeq(s, 1, k)) = k
    BY <1>1
  <1>4. ASSUME NEW i \in 1 .. k PROVE SubSeq(s, 1, k)[i] = s[i]
    BY <1>1
  <1> QED
    BY <1>2, <1>3, <1>4

(* Popping the latest keeps the order, and everything else. *)
LEMMA Popped ==
    ASSUME NEW s \in Seq(Resources), s # << >>, Ordered(s)
    PROVE  /\ SubSeq(s, 1, Len(s) - 1) \in Seq(Resources)
           /\ Ordered(SubSeq(s, 1, Len(s) - 1))
           /\ Range(SubSeq(s, 1, Len(s) - 1)) \subseteq Range(s)
           /\ Range(s) \subseteq Range(SubSeq(s, 1, Len(s) - 1)) \cup {s[Len(s)]}
  <1> DEFINE t == SubSeq(s, 1, Len(s) - 1)
  <1>0. Len(s) \in Nat /\ Len(s) > 0 /\ \A i \in 1 .. Len(s) : s[i] \in Resources
    OBVIOUS
  <1>1. /\ t \in Seq(Resources) /\ Len(t) = Len(s) - 1
        /\ \A i \in 1 .. Len(t) : t[i] = s[i]
    <2>1. Len(s) - 1 \in Nat /\ Len(s) - 1 <= Len(s)
      BY <1>0
    <2> QED
      BY <2>1, Initial
  <1>2. DOMAIN s = 1 .. Len(s) /\ DOMAIN t = 1 .. Len(t)
    BY <1>0, <1>1
  <1> HIDE DEF t
  <1>3. Ordered(t)
    <2> SUFFICES ASSUME NEW i \in 1 .. Len(t), NEW n \in Needs[t[i]]
                 PROVE  \E j \in 1 .. i - 1 : t[j] = n
      BY DEF Ordered
    <2>1. i \in 1 .. Len(s) /\ t[i] = s[i]
      BY <1>0, <1>1
    <2>2. PICK j \in 1 .. i - 1 : s[j] = n
      BY <2>1 DEF Ordered
    <2>3. j \in 1 .. Len(t)
      BY <1>0, <1>1
    <2> QED
      BY <2>2, <2>3, <1>1
  <1>4. Range(t) \subseteq Range(s) /\ Range(s) \subseteq Range(t) \cup {s[Len(s)]}
    BY <1>0, <1>1, <1>2 DEF Range
  <1> QED
    BY <1>1, <1>3, <1>4 DEF t

(* In an ordered stack nothing is without what it uses. *)
LEMMA OrderedIsClosed ==
    ASSUME NEW s \in Seq(Resources), Ordered(s)
    PROVE  \A r \in Range(s) : Needs[r] \subseteq Range(s)
  <1> SUFFICES ASSUME NEW i \in 1 .. Len(s), NEW n \in Needs[s[i]] PROVE n \in Range(s)
    BY DEF Range
  <1>1. PICK j \in 1 .. i - 1 : s[j] = n
    BY DEF Ordered
  <1> QED
    BY <1>1 DEF Range

(* A daemon that acquires r at l and goes on to m. *)
LEMMA PushFits ==
    ASSUME NEW s \in Seq(Resources), NEW l, Fits(s, l)
    PROVE  /\ l = "host" => Fits(Append(s, "host"), "peerstore")
           /\ l = "peerstore" => Fits(Append(s, "peerstore"), "engine")
           /\ l = "engine" => Fits(Append(s, "engine"), "audio")
           /\ l = "audio" => Fits(Append(s, "audio"), "invites") /\ Fits(s, "invites")
           /\ l = "invites" => Fits(Append(s, "invites"), "mdns")
           /\ l = "mdns" => Fits(s, "dial")
           /\ l = "chmod" => Fits(Append(s, "listener"), "background")
           /\ l = "background" => Fits(Append(s, "inner"), "serve")
  <1> USE DEF Fits, WithHost, WithEngine, WithInvites, WithListener, Listens
  <1>1. CASE l = "host"
    BY <1>1, NeedsOf, Pushed DEF Resources
  <1>2. CASE l = "peerstore"
    BY <1>2, NeedsOf, Pushed DEF Resources
  <1>3. CASE l = "engine"
    BY <1>3, NeedsOf, Pushed DEF Resources
  <1>4. CASE l = "audio"
    BY <1>4, NeedsOf, Pushed DEF Resources
  <1>5. CASE l = "invites"
    BY <1>5, NeedsOf, Pushed DEF Resources
  <1>6. CASE l = "mdns"
    BY <1>6, NeedsOf, Pushed DEF Resources
  <1>7. CASE l = "chmod"
    BY <1>7, NeedsOf, Pushed DEF Resources
  <1>8. CASE l = "background"
    BY <1>8, NeedsOf, Pushed DEF Resources
  <1> QED
    BY <1>1, <1>2, <1>3, <1>4, <1>5, <1>6, <1>7, <1>8
-----------------------------------------------------------------------------
(* One step of d: its next position, its stack, and nobody else's. *)
Moves(d) ==
    \E l \in Positions, s \in Seq(Resources) :
        /\ Fits(s, l)
        /\ pc' = [pc EXCEPT ![d] = l] /\ held' = [held EXCEPT ![d] = s]

(* Without a push or a pop. *)
LEMMA GotoMoves ==
    ASSUME TypeOK, NEW d \in Daemons, NEW l \in Positions,
           Goto(d, l), UNCHANGED held, Fits(held[d], l)
    PROVE  Moves(d)
  <1>1. held[d] \in Seq(Resources) /\ held = [held EXCEPT ![d] = held[d]]
    BY DEF TypeOK
  <1> QED
    BY <1>1 DEF Goto, Moves

LEMMA PushMoves ==
    ASSUME TypeOK, NEW d \in Daemons, NEW l \in Positions, NEW r \in Resources,
           Goto(d, l), Push(d, r), Fits(Append(held[d], r), l)
    PROVE  Moves(d)
  <1>1. held[d] \in Seq(Resources)
    BY DEF TypeOK
  <1>2. Append(held[d], r) \in Seq(Resources)
    BY <1>1
  <1> QED
    BY <1>2 DEF Goto, Push, Moves

(* Returning early from Run needs nothing. *)
LEMMA ReturnFits ==
    ASSUME NEW s, NEW l, Fits(s, l)
    PROVE  Fits(s, "unwind")
  BY DEF Fits, WithHost, WithEngine, WithInvites, WithListener, Listens

(* A process that does not run, or has just started, holds nothing. *)
LEMMA EmptyFits == Fits(<< >>, "off") /\ Fits(<< >>, "stores")
  <1>1. Range(<< >>) = {} /\ Ordered(<< >>)
    BY DEF Range, Ordered
  <1> QED
    BY <1>1 DEF Fits, WithHost, WithEngine, WithInvites, WithListener, Listens

LEMMA AcquireMoves ==
    ASSUME TypeOK, StacksFit, NEW d \in Daemons, NEW at, NEW r \in Resources, NEW next \in Positions,
           Acquire(d, at, r, next),
           pc[d] = at => Fits(Append(held[d], r), next)
    PROVE  Moves(d)
  <1>1. CASE Push(d, r) /\ Goto(d, next)
    BY <1>1, PushMoves DEF Acquire
  <1>2. CASE Goto(d, "unwind") /\ UNCHANGED held
    BY <1>2, GotoMoves, ReturnFits DEF StacksFit, Positions
  <1> QED
    BY <1>1, <1>2 DEF Acquire

(* Every step of Run keeps the stack fitting. *)
LEMMA RunMoves ==
    ASSUME TypeOK, StacksFit, NEW d \in Daemons, Run(d)
    PROVE  Moves(d)
  <1>1. held[d] \in Seq(Resources) /\ Fits(held[d], pc[d])
    BY DEF TypeOK, StacksFit
  <1>2. {"host", "peerstore", "engine", "audio", "invites", "listener", "inner"} \subseteq Resources
    BY DEF Resources
  <1>3. {"off", "host", "peerstore", "engine", "audio", "invites", "mdns", "dial", "remove",
         "bind", "chmod", "background", "serve", "wait", "unwind"} \subseteq Positions
    BY DEF Positions, WithEngine, WithInvites, WithListener, Listens
  <1>4. CASE OpenStores(d)
    <2>1. Fits(held[d], "host") \/ pc[d] # "stores"
      BY <1>1 DEF Fits, WithHost, WithEngine, WithInvites, WithListener, Listens
    <2> QED
      BY <1>1, <1>3, <1>4, <2>1, GotoMoves, ReturnFits DEF OpenStores
  <1>5. CASE NewHost(d) \/ LoadPeerstore(d) \/ StartEngine(d) \/ StartInvites(d)
    BY <1>1, <1>2, <1>3, <1>5, AcquireMoves, PushFits
       DEF NewHost, LoadPeerstore, StartEngine, StartInvites
  <1>6. CASE StartAudio(d)
    BY <1>1, <1>2, <1>3, <1>6, PushMoves, PushFits, GotoMoves DEF StartAudio
  <1>7. CASE EnableMDNS(d)
    BY <1>1, <1>3, <1>7, PushFits, GotoMoves DEF EnableMDNS
  <1>8. CASE ListenDial(d) \/ ListenRemove(d) \/ ListenBind(d)
    <2>1. pc[d] \in {"dial", "remove", "bind"} =>
             Fits(held[d], "remove") /\ Fits(held[d], "bind") /\ Fits(held[d], "chmod")
      BY <1>1 DEF Fits, WithHost, WithEngine, WithInvites, WithListener, Listens
    <2> QED
      BY <1>1, <1>3, <1>8, <2>1, GotoMoves, ReturnFits DEF ListenDial, ListenRemove, ListenBind
  <1>9. CASE ListenChmod(d)
    BY <1>1, <1>2, <1>3, <1>9, PushMoves, PushFits, GotoMoves, ReturnFits DEF ListenChmod
  <1>10. CASE StartBackground(d)
    BY <1>1, <1>2, <1>3, <1>10, PushMoves, PushFits DEF StartBackground
  <1>13. CASE ServeWatcher(d) \/ ServeReturns(d)
    <2>1. pc[d] \in WithListener => Fits(held[d], "serve") /\ Fits(held[d], "wait")
      BY <1>1 DEF Fits, WithHost, WithEngine, WithInvites, WithListener, Listens
    <2> QED
      BY <1>1, <1>3, <1>13, <2>1, GotoMoves, ReturnFits DEF ServeWatcher, ServeReturns, WithListener
  <1>11. CASE Release(d)
    <2> DEFINE s == SubSeq(held[d], 1, Len(held[d]) - 1)
    <2>1. s \in Seq(Resources) /\ Fits(s, "unwind") /\ pc[d] = "unwind"
      BY <1>1, <1>11, Popped
         DEF Release, Fits, WithHost, WithEngine, WithInvites, WithListener, Listens
    <2>2. held' = [held EXCEPT ![d] = s] /\ pc' = [pc EXCEPT ![d] = "unwind"]
      BY <1>11, <2>1 DEF Release, TypeOK
    <2> QED
      BY <1>3, <2>1, <2>2 DEF Moves
  <1>12. CASE Exit(d)
    <2>1. Fits(held[d], "off")
      BY <1>12, EmptyFits DEF Exit
    <2> QED
      BY <1>3, <1>12, <2>1, GotoMoves DEF Exit
  <1> QED
    BY <1>4, <1>5, <1>6, <1>7, <1>8, <1>9, <1>10, <1>11, <1>12, <1>13 DEF Run

(* Any other step of a daemon as well. *)
LEMMA StackStep ==
    ASSUME TypeOK, StacksFit, [Next]_vars
    PROVE  UNCHANGED <<pc, held>> \/ \E d \in Daemons : Moves(d)
  <1>1. ASSUME NEW d \in Daemons, pc[d] = "off", Goto(d, "stores"), UNCHANGED held
        PROVE  Moves(d)
    <2>1. held[d] = << >> /\ "stores" \in Positions
      BY <1>1 DEF StacksFit, Fits, Positions
    <2> QED
      BY <1>1, <2>1, EmptyFits, GotoMoves
  <1>2. ASSUME NEW d \in Daemons, runDaemonStart(d) PROVE Moves(d)
    BY <1>1, <1>2 DEF runDaemonStart
  <1>3. ASSUME NEW d \in Daemons, AcceptFails(d) PROVE Moves(d)
    <2>1. Fits(held[d], "wait") /\ "wait" \in Positions
      BY <1>3 DEF AcceptFails, StacksFit, Fits, WithHost, WithEngine, WithInvites, WithListener,
                  Listens, Positions
    <2> QED
      BY <1>3, <2>1, GotoMoves DEF AcceptFails
  <1>4. ASSUME NEW d \in Daemons, Crash(d) PROVE Moves(d)
    <2>1. "off" \in Positions /\ << >> \in Seq(Resources)
      BY DEF Positions
    <2> QED
      BY <1>4, <2>1, EmptyFits DEF Crash, Goto, Moves
  <1>5. ASSUME NEW d \in Daemons, Interrupt(d) \/ DaemonShutdown(d) \/ LoopBegins(d)
        PROVE  UNCHANGED <<pc, held>>
    BY <1>5 DEF Interrupt, DaemonShutdown, LoopBegins
  <1>6. ASSUME NEW c \in Commands, EnsureDaemonRunning(c)
        PROVE  UNCHANGED <<pc, held>> \/ \E d \in Daemons : Moves(d)
    BY <1>1, <1>6 DEF EnsureDaemonRunning
  <1>7. ASSUME NEW c \in Commands, Poll(c) \/ dialDaemon(c) \/ Close(c)
        PROVE  UNCHANGED <<pc, held>>
    BY <1>7 DEF Poll, dialDaemon, Close, runVars
  <1>8. ASSUME NEW d \in Daemons, ListenFails(d) PROVE Moves(d)
    <2>1. Fits(held[d], "unwind") /\ "unwind" \in Positions
      BY ReturnFits DEF StacksFit, Positions
    <2> QED
      BY <1>8, <2>1, GotoMoves DEF ListenFails
  <1> QED
    BY <1>2, <1>3, <1>4, <1>5, <1>6, <1>7, <1>8, RunMoves DEF Next, vars

LEMMA StacksStep ==
    ASSUME TypeOK, StacksFit, [Next]_vars
    PROVE  StacksFit' /\ pc' \in [Daemons -> Positions] /\ held' \in [Daemons -> Seq(Resources)]
  <1>1. pc \in [Daemons -> Positions] /\ held \in [Daemons -> Seq(Resources)]
    BY DEF TypeOK, Positions, WithEngine, WithInvites, WithListener
  <1>2. CASE UNCHANGED <<pc, held>>
    BY <1>1, <1>2 DEF StacksFit
  <1>3. ASSUME NEW d \in Daemons, Moves(d)
        PROVE  StacksFit' /\ pc' \in [Daemons -> Positions] /\ held' \in [Daemons -> Seq(Resources)]
    BY <1>1, <1>3 DEF Moves, StacksFit
  <1> QED
    BY <1>2, <1>3, StackStep

(* The variables that the stacks are not about. *)
LEMMA TypeStep ==
    ASSUME TypeOK, StacksFit, [Next]_vars
    PROVE  TypeOK'
  <1>1. pc' \in [Daemons -> Positions] /\ held' \in [Daemons -> Seq(Resources)]
    BY StacksStep
  <1> DEFINE Tasks == /\ cancelled \in [Daemons -> BOOLEAN]
                      /\ loop \in [Daemons -> {"none", "spawned", "running", "stray"}]
                      /\ background \in [Daemons -> BOOLEAN]
  <1>2. Tasks'
    <2> USE DEF TypeOK, taskVars
    <2>1. ASSUME NEW d \in Daemons, OpenStores(d) \/ NewHost(d) \/ LoadPeerstore(d) \/ StartEngine(d)
                                    \/ StartInvites(d) \/ EnableMDNS(d) \/ ListenDial(d)
                                    \/ ListenRemove(d) \/ ListenBind(d) \/ ListenChmod(d)
                                    \/ ServeWatcher(d) \/ ServeReturns(d) \/ runDaemonStart(d)
                                    \/ AcceptFails(d) \/ ListenFails(d)
          PROVE  Tasks'
      BY <2>1 DEF OpenStores, NewHost, LoadPeerstore, StartEngine, StartInvites, Acquire, EnableMDNS,
                  ListenDial, ListenRemove, ListenBind, ListenChmod, ServeWatcher, ServeReturns,
                  runDaemonStart, AcceptFails, ListenFails
    <2>2. ASSUME NEW d \in Daemons, StartAudio(d) \/ StartBackground(d) \/ LoopBegins(d) PROVE Tasks'
      BY <2>2 DEF StartAudio, StartBackground, LoopBegins
    <2>3. ASSUME NEW d \in Daemons, Interrupt(d) \/ DaemonShutdown(d) \/ Crash(d) \/ Exit(d)
          PROVE  Tasks'
      BY <2>3 DEF Interrupt, DaemonShutdown, Crash, Exit
    <2>4. ASSUME NEW d \in Daemons, Release(d) PROVE Tasks'
      <3>1. PICK u \in BOOLEAN : cancelled' = [cancelled EXCEPT ![d] = u]
        BY <2>4 DEF Release
      <3>2. PICK l \in {"none", "spawned", "running", "stray"} : loop' = [loop EXCEPT ![d] = l]
        BY <2>4 DEF Release
      <3> QED
        BY <2>4, <3>1, <3>2 DEF Release
    <2>5. ASSUME NEW c \in Commands, EnsureDaemonRunning(c) \/ Poll(c) \/ dialDaemon(c) \/ Close(c)
          PROVE  Tasks'
      BY <2>5 DEF EnsureDaemonRunning, Poll, dialDaemon, Close, runVars
    <2> QED
      BY <2>1, <2>2, <2>3, <2>4, <2>5 DEF Next, Run, vars
  <1> DEFINE Sockets == /\ listening \subseteq Daemons
                        /\ path \in Daemons \cup {NoDaemon}
                        /\ contested \subseteq Daemons /\ alone \subseteq Daemons
             Served == /\ conns \in [Daemons -> SUBSET Commands]
                       /\ crashes \in Nat
                       /\ cmd \in [Commands -> {"idle", "poll", "dial", "connected"}]
  <1>3. Sockets' /\ Served'
    <2> USE DEF TypeOK
    <2>1. ASSUME NEW d \in Daemons, OpenStores(d) \/ NewHost(d) \/ LoadPeerstore(d) \/ StartEngine(d)
                                    \/ StartAudio(d) \/ StartInvites(d) \/ StartBackground(d)
                                    \/ ServeReturns(d) \/ Exit(d) \/ Interrupt(d) \/ LoopBegins(d)
                                    \/ DaemonShutdown(d) \/ AcceptFails(d) \/ ListenDial(d)
          PROVE  Sockets' /\ Served'
      BY <2>1 DEF OpenStores, NewHost, LoadPeerstore, StartEngine, StartAudio, StartInvites, Acquire,
                  StartBackground, ServeReturns, Exit, Interrupt, DaemonShutdown, AcceptFails,
                  ListenDial, LoopBegins, sockVars
    <2>2. ASSUME NEW d \in Daemons, EnableMDNS(d) \/ ListenRemove(d) \/ ListenBind(d)
                                    \/ ListenChmod(d) \/ runDaemonStart(d)
          PROVE  Sockets' /\ Served'
      BY <2>2 DEF EnableMDNS, ListenRemove, ListenBind, ListenChmod, runDaemonStart, sockVars
    <2>3. ASSUME NEW d \in Daemons, ServeWatcher(d) \/ Release(d) \/ ListenFails(d)
          PROVE  Sockets' /\ Served'
      BY <2>3 DEF ServeWatcher, Release, ListenFails, CloseListener
    <2>4. ASSUME NEW d \in Daemons, Crash(d) PROVE Sockets' /\ Served'
      <3>1. cmd' \in [Commands -> {"idle", "poll", "dial", "connected"}]
        BY <2>4 DEF Crash
      <3> QED
        BY <2>4, <3>1 DEF Crash
    <2>5. ASSUME NEW c \in Commands, EnsureDaemonRunning(c) \/ Poll(c) PROVE Sockets' /\ Served'
      BY <2>5 DEF EnsureDaemonRunning, Poll, sockVars
    <2>6. ASSUME NEW c \in Commands, dialDaemon(c) PROVE Sockets' /\ Served'
      <3>1. Sockets' /\ crashes' \in Nat /\ cmd' \in [Commands -> {"idle", "poll", "dial", "connected"}]
        BY <2>6 DEF dialDaemon, sockVars
      <3>2. ASSUME NEW d \in Daemons, conns' = [conns EXCEPT ![d] = conns[d] \cup {c}]
            PROVE  conns' \in [Daemons -> SUBSET Commands]
        BY <3>2
      <3> QED
        BY <2>6, <3>1, <3>2 DEF dialDaemon
    <2>7. ASSUME NEW c \in Commands, Close(c) PROVE Sockets' /\ Served'
      BY <2>7 DEF Close, sockVars
    <2> QED
      BY <2>1, <2>2, <2>3, <2>4, <2>5, <2>6, <2>7 DEF Next, Run, vars
  <1> QED
    BY <1>1, <1>2, <1>3 DEF TypeOK, Positions, WithEngine, WithInvites, WithListener
-----------------------------------------------------------------------------
(* What the socket sees of a step. *)

StacksGrow == \A e \in Daemons : Range(held[e]) \subseteq Range(held'[e])

Unmoved == UNCHANGED <<pc, held, listening, path, contested, alone>>

(* A step of d that starts and ends outside ipc.Listen. *)
Plain(d) ==
    /\ pc[d] \notin {"off"} \cup Listens
    /\ \E l \in Positions \ Listens : pc' = [pc EXCEPT ![d] = l]
    /\ StacksGrow
    /\ UNCHANGED <<listening, path, contested, alone>>

(* A process starts. *)
Starts(d) ==
    /\ pc[d] = "off"
    /\ pc' = [pc EXCEPT ![d] = "stores"]
    /\ alone' = {}
    /\ UNCHANGED <<held, listening, path, contested>>

Listening(d) == EnableMDNS(d) \/ ListenDial(d) \/ ListenRemove(d) \/ ListenBind(d) \/ ListenChmod(d)
Closing(d) == ServeWatcher(d) \/ Release(d) \/ Exit(d) \/ Crash(d) \/ ListenFails(d)

LEMMA PushKeeps ==
    ASSUME TypeOK, NEW d \in Daemons, NEW r \in Resources, Push(d, r)
    PROVE  StacksGrow
  <1>1. /\ held \in [Daemons -> Seq(Resources)] /\ held[d] \in Seq(Resources)
        /\ held' = [held EXCEPT ![d] = Append(held[d], r)]
    BY DEF TypeOK, Push
  <1>2. Range(held[d]) \subseteq Range(Append(held[d], r))
    BY <1>1 DEF Range
  <1> QED
    BY <1>1, <1>2 DEF StacksGrow

LEMMA SocketCases ==
    ASSUME TypeOK, [Next]_vars
    PROVE  \/ Unmoved
           \/ \E d \in Daemons : Plain(d) \/ Starts(d) \/ Listening(d) \/ Closing(d)
  <1> USE DEF Positions, WithEngine, WithInvites, WithListener, Listens
  <1>1. ASSUME NEW d \in Daemons, NEW at \in {"host", "peerstore", "engine", "audio", "invites"},
               NEW r \in Resources, NEW next \in {"peerstore", "engine", "audio", "invites", "mdns"},
               Acquire(d, at, r, next)
        PROVE  Plain(d)
    <2>1. StacksGrow
      BY <1>1, PushKeeps DEF Acquire, StacksGrow
    <2> QED
      BY <1>1, <2>1 DEF Acquire, Goto, Plain, sockVars
  <1>2. ASSUME NEW d \in Daemons, NewHost(d) \/ LoadPeerstore(d) \/ StartEngine(d) \/ StartInvites(d)
        PROVE  Plain(d)
    BY <1>1, <1>2 DEF NewHost, LoadPeerstore, StartEngine, StartInvites, Resources
  <1>3. ASSUME NEW d \in Daemons, StartAudio(d) PROVE Plain(d)
    <2>1. StacksGrow
      BY <1>3, PushKeeps DEF StartAudio, StacksGrow, Resources
    <2> QED
      BY <1>3, <2>1 DEF StartAudio, Goto, Plain, sockVars
  <1>4. ASSUME NEW d \in Daemons, OpenStores(d) \/ ServeReturns(d) \/ AcceptFails(d)
        PROVE  Plain(d)
    BY <1>4 DEF OpenStores, ServeReturns, AcceptFails, Goto, Plain, sockVars, StacksGrow
  <1>10. ASSUME NEW d \in Daemons, StartBackground(d) PROVE Plain(d)
    <2>1. StacksGrow
      BY <1>10, PushKeeps DEF StartBackground, Resources
    <2> QED
      BY <1>10, <2>1 DEF StartBackground, Goto, Plain, sockVars
  <1>5. ASSUME NEW d \in Daemons, Interrupt(d) \/ DaemonShutdown(d) \/ LoopBegins(d) PROVE Unmoved
    BY <1>5 DEF Interrupt, DaemonShutdown, LoopBegins, Unmoved, sockVars
  <1>6. ASSUME NEW d \in Daemons, runDaemonStart(d) PROVE Starts(d)
    BY <1>6 DEF runDaemonStart, Goto, Starts
  <1>7. ASSUME NEW c \in Commands, EnsureDaemonRunning(c)
        PROVE  Unmoved \/ \E d \in Daemons : Starts(d)
    BY <1>7 DEF EnsureDaemonRunning, Goto, Starts, Unmoved
  <1>8. ASSUME NEW c \in Commands, Poll(c) \/ dialDaemon(c) \/ Close(c) PROVE Unmoved
    BY <1>8 DEF Poll, dialDaemon, Close, Unmoved, runVars, sockVars
  <1>9. CASE UNCHANGED vars
    BY <1>9 DEF vars, Unmoved
  <1> QED
    BY <1>2, <1>3, <1>4, <1>5, <1>6, <1>7, <1>8, <1>9, <1>10 DEF Next, Run, Listening, Closing
-----------------------------------------------------------------------------
(* Closing a listener closes no other one, and frees the path. *)
LEMMA Closed ==
    ASSUME TypeOK, NEW d \in Daemons, CloseListener(d)
    PROVE  /\ listening' = listening \ {d}
           /\ path' = path \/ (d \in listening /\ path' = NoDaemon)
  BY DEF CloseListener

(* What a daemon that closes its listener does to the rest. *)
LEMMA ClosingDoes ==
    ASSUME TypeOK, ListenerHeld, NEW d \in Daemons, Closing(d)
    PROVE  /\ pc[d] # "off"
           /\ \E l \in {"wait", "unwind", "off"} : pc' = [pc EXCEPT ![d] = l]
           /\ listening' \in {listening, listening \ {d}}
           /\ path' = path \/ (d \in listening /\ path' = NoDaemon /\ d \notin listening')
           /\ contested' = contested \/ (contested' = contested \ {d} /\ d \notin listening')
           /\ alone' \in {alone, alone \ {d}}
           /\ \A e \in Daemons \ {d} : held'[e] = held[e]
  <1>1. CASE ServeWatcher(d)
    BY <1>1, Closed DEF ServeWatcher, Goto
  <1>2. CASE Release(d)
    <2>1. pc[d] = "unwind" /\ pc' = [pc EXCEPT ![d] = "unwind"] /\ UNCHANGED <<contested, alone>>
      BY <1>2 DEF Release, TypeOK
    <2>2. \A e \in Daemons \ {d} : held'[e] = held[e]
      BY <1>2 DEF Release, TypeOK
    <2>3. CloseListener(d) \/ UNCHANGED <<listening, path>>
      BY <1>2 DEF Release
    <2> QED
      BY <2>1, <2>2, <2>3, Closed
  <1>3. CASE Crash(d)
    BY <1>3 DEF Crash, Goto, TypeOK
  <1>4. CASE Exit(d)
    <2>1. d \notin listening
      BY <1>4 DEF Exit, ListenerHeld, Range
    <2> QED
      BY <1>4, <2>1 DEF Exit, Goto
  <1>5. CASE ListenFails(d)
    BY <1>5, Closed DEF ListenFails, Goto
  <1> QED
    BY <1>1, <1>2, <1>3, <1>4, <1>5 DEF Closing

(* A listener that stays open stays on the stack. *)
LEMMA ListenerStep ==
    ASSUME TypeOK, StacksFit, ListenerHeld, [Next]_vars
    PROVE  ListenerHeld'
  <1> USE DEF ListenerHeld
  <1>t. pc \in [Daemons -> Positions] /\ held \in [Daemons -> Seq(Resources)]
    BY DEF TypeOK, Positions, WithEngine, WithInvites, WithListener
  <1>1. CASE Unmoved
    BY <1>1 DEF Unmoved
  <1>2. ASSUME NEW d \in Daemons, Plain(d) PROVE ListenerHeld'
    BY <1>2, <1>t DEF Plain, StacksGrow, Listens
  <1>3. ASSUME NEW d \in Daemons, Starts(d) PROVE ListenerHeld'
    BY <1>3, <1>t DEF Starts
  <1>4. ASSUME NEW d \in Daemons, EnableMDNS(d) PROVE ListenerHeld'
    BY <1>4, <1>t DEF EnableMDNS, Goto
  <1>5. ASSUME NEW d \in Daemons, ListenDial(d) \/ ListenRemove(d) \/ ListenBind(d)
        PROVE  ListenerHeld'
    BY <1>5, <1>t DEF ListenDial, ListenRemove, ListenBind, Goto, sockVars
  <1>6. ASSUME NEW d \in Daemons, ListenChmod(d) PROVE ListenerHeld'
    <2>1. CASE path = NoDaemon
      BY <1>6, <1>t, <2>1 DEF ListenChmod, Goto
    <2>2. CASE path # NoDaemon
      <3>1. "listener" \in Resources /\ held' = [held EXCEPT ![d] = Append(held[d], "listener")]
        BY <1>6, <2>2 DEF ListenChmod, Push, Resources
      <3>2. "listener" \in Range(Append(held[d], "listener"))
        BY <1>t, <3>1 DEF Range
      <3> QED
        BY <1>6, <1>t, <2>2, <3>1, <3>2 DEF ListenChmod, Goto
    <2> QED
      BY <2>1, <2>2
  <1>7. ASSUME NEW d \in Daemons, Closing(d) PROVE ListenerHeld'
    <2>1. ASSUME NEW e \in Daemons \ {d}, e \in listening'
          PROVE  pc'[e] = "chmod" \/ "listener" \in Range(held'[e])
      BY <1>7, <1>t, <2>1, ClosingDoes
    <2>2. ASSUME d \in listening' PROVE "listener" \in Range(held'[d])
      <3>1. Release(d)
        <4>1. ~Exit(d)
          BY <2>2 DEF Exit, Range
        <4> QED
          BY <1>7, <2>2, <4>1, Closed DEF Closing, ServeWatcher, Crash, ListenFails
      <3> DEFINE s == SubSeq(held[d], 1, Len(held[d]) - 1)
      <3>2. /\ held' = [held EXCEPT ![d] = s] /\ held[d] # << >> /\ held[d] \in Seq(Resources)
            /\ pc[d] = "unwind" /\ Ordered(held[d])
        BY <1>t, <3>1 DEF Release, StacksFit, Fits
      <3>3. held[d][Len(held[d])] # "listener" /\ d \in listening
        BY <2>2, <3>1, Closed DEF Release
      <3>4. Range(held[d]) \subseteq Range(s) \cup {held[d][Len(held[d])]}
        BY <3>2, Popped
      <3> QED
        BY <1>t, <3>2, <3>3, <3>4
    <2> QED
      BY <2>1, <2>2
  <1> QED
    BY <1>1, <1>2, <1>3, <1>4, <1>5, <1>6, <1>7, SocketCases DEF Listening

(* The deferred call of a goroutine comes off the stack as it is made. *)
LEMMA ToldStep ==
    ASSUME TypeOK, StacksFit, Told, [Next]_vars
    PROVE  Told'
  <1> USE DEF Told, taskVars
  <1>t. /\ pc \in [Daemons -> Positions] /\ held \in [Daemons -> Seq(Resources)]
        /\ cancelled \in [Daemons -> BOOLEAN] /\ background \in [Daemons -> BOOLEAN]
        /\ loop \in [Daemons -> {"none", "spawned", "running", "stray"}]
    BY DEF TypeOK, Positions, WithEngine, WithInvites, WithListener
  <1>1. ASSUME StacksGrow, UNCHANGED <<cancelled, loop, background>> PROVE Told'
    BY <1>1 DEF StacksGrow
  <1>2. ASSUME NEW d \in Daemons, NEW at, NEW r \in Resources, NEW next, Acquire(d, at, r, next)
        PROVE  Told'
    <2>1. StacksGrow
      BY <1>2, PushKeeps DEF Acquire, StacksGrow
    <2> QED
      BY <1>1, <1>2, <2>1 DEF Acquire
  <1>3. ASSUME NEW d \in Daemons, NewHost(d) \/ LoadPeerstore(d) \/ StartEngine(d) \/ StartInvites(d)
        PROVE  Told'
    BY <1>2, <1>3 DEF NewHost, LoadPeerstore, StartEngine, StartInvites, Resources
  <1>4. ASSUME NEW d \in Daemons, OpenStores(d) \/ EnableMDNS(d) \/ ListenDial(d) \/ ListenRemove(d)
                                  \/ ListenBind(d) \/ ServeWatcher(d) \/ ServeReturns(d)
                                  \/ runDaemonStart(d) \/ AcceptFails(d) \/ ListenFails(d)
        PROVE  Told'
    BY <1>4 DEF OpenStores, EnableMDNS, ListenDial, ListenRemove, ListenBind, ServeWatcher,
                ServeReturns, runDaemonStart, AcceptFails, ListenFails
  <1>5. ASSUME NEW d \in Daemons, ListenChmod(d) PROVE Told'
    <2>1. StacksGrow
      BY <1>5, PushKeeps DEF ListenChmod, StacksGrow, Resources
    <2> QED
      BY <1>1, <1>5, <2>1 DEF ListenChmod
  <1>6. ASSUME NEW d \in Daemons, StartAudio(d) PROVE Told'
    <2>1. StacksGrow
      BY <1>6, PushKeeps DEF StartAudio, StacksGrow, Resources
    <2> QED
      BY <1>6, <1>t, <2>1 DEF StartAudio, StacksGrow
  <1>7. ASSUME NEW d \in Daemons, StartBackground(d) PROVE Told'
    <2>1. StacksGrow
      BY <1>7, PushKeeps DEF StartBackground, Resources
    <2>2. held' = [held EXCEPT ![d] = Append(held[d], "inner")]
      BY <1>7 DEF StartBackground, Push
    <2>3. "inner" \in Range(Append(held[d], "inner"))
      <3>1. held[d] \in Seq(Resources) /\ "inner" \in Resources
        BY <1>t DEF Resources
      <3>2. /\ Len(held[d]) + 1 \in DOMAIN Append(held[d], "inner")
            /\ Append(held[d], "inner")[Len(held[d]) + 1] = "inner"
        BY <3>1
      <3> QED
        BY <3>2 DEF Range
    <2> QED
      BY <1>7, <1>t, <2>1, <2>2, <2>3 DEF StartBackground, StacksGrow
  <1>8. ASSUME NEW d \in Daemons, LoopBegins(d) PROVE Told'
    BY <1>8, <1>t DEF LoopBegins
  <1>9. ASSUME NEW d \in Daemons, Interrupt(d) \/ DaemonShutdown(d) PROVE Told'
    BY <1>9, <1>t DEF Interrupt, DaemonShutdown
  <1>10. ASSUME NEW d \in Daemons, Exit(d) \/ Crash(d) PROVE Told'
    BY <1>10, <1>t DEF Exit, Crash
  <1>11. ASSUME NEW d \in Daemons, Release(d) PROVE Told'
    <2> DEFINE r == held[d][Len(held[d])]
               s == SubSeq(held[d], 1, Len(held[d]) - 1)
    <2>1. held[d] \in Seq(Resources) /\ held[d] # << >> /\ Ordered(held[d])
      BY <1>11, <1>t DEF Release, StacksFit, Fits
    <2>2. Range(held[d]) \subseteq Range(s) \cup {r}
      BY <2>1, Popped
    <2>3. /\ held' = [held EXCEPT ![d] = s] /\ UNCHANGED background
          /\ cancelled' = [cancelled EXCEPT ![d] = cancelled[d] \/ r = "inner"]
          /\ loop' = [loop EXCEPT ![d] = IF r = "audio" /\ loop[d] = "running" THEN "none" ELSE loop[d]]
      BY <1>11 DEF Release
    <2> HIDE DEF r, s
    <2>4. ASSUME NEW e \in Daemons \ {d} PROVE Told!(e)'
      BY <1>t, <2>3
    <2>5. loop'[d] = "running" => "audio" \in Range(held'[d])
      BY <1>t, <2>2, <2>3
    <2>6. background'[d] /\ ~cancelled'[d] => "inner" \in Range(held'[d])
      BY <1>t, <2>2, <2>3
    <2> QED
      BY <2>4, <2>5, <2>6
  <1>12. ASSUME NEW c \in Commands, EnsureDaemonRunning(c) \/ Poll(c) \/ dialDaemon(c) \/ Close(c)
        PROVE  Told'
    BY <1>12 DEF EnsureDaemonRunning, Poll, dialDaemon, Close, runVars
  <1>13. CASE UNCHANGED vars
    BY <1>13 DEF vars
  <1> QED
    BY <1>3, <1>4, <1>5, <1>6, <1>7, <1>8, <1>9, <1>10, <1>11, <1>12, <1>13 DEF Next, Run

(* Before its bind, and once it is gone, a daemon does not listen. *)
LEMMA NotListening ==
    ASSUME TypeOK, StacksFit, ListenerHeld, NEW d \in Daemons,
           pc[d] \notin WithListener \cup {"chmod", "unwind"}
    PROVE  d \notin listening
  BY DEF StacksFit, Fits, ListenerHeld

(* The dial finds a live daemon, and the bind a path that is taken. *)
LEMMA UnchallengedStep == Inv /\ [Next]_vars => Unchallenged'
  <1> SUFFICES ASSUME Inv, [Next]_vars PROVE Unchallenged'
    OBVIOUS
  <1> USE DEF Inv, Unchallenged, Live
  <1>t. pc \in [Daemons -> Positions] /\ listening \subseteq Daemons
    BY DEF TypeOK, Positions, WithEngine, WithInvites, WithListener
  <1>1. CASE Unmoved
    BY <1>1 DEF Unmoved
  <1>2. ASSUME NEW d \in Daemons, Plain(d) \/ Starts(d) PROVE Unchallenged'
    BY <1>2, <1>t DEF Plain, Starts, Listens
  <1>3. ASSUME NEW d \in Daemons, EnableMDNS(d) PROVE Unchallenged'
    BY <1>3, <1>t DEF EnableMDNS, Goto
  <1>4. ASSUME NEW d \in Daemons, ListenDial(d) PROVE Unchallenged'
    BY <1>4, <1>t DEF ListenDial, Goto, sockVars, Reachable
  <1>5. ASSUME NEW d \in Daemons, ListenRemove(d) PROVE Unchallenged'
    BY <1>5, <1>t, NoDaemonAssumption DEF ListenRemove, Goto
  <1>6. ASSUME NEW d \in Daemons, ListenBind(d) PROVE Unchallenged'
    <2>1. CASE path = NoDaemon
      <3>1. ASSUME NEW e \in Daemons \ {d}, d \notin contested'
            PROVE  pc'[e] # "remove" /\ e \notin listening'
        BY <1>6, <1>t, <2>1, <3>1 DEF ListenBind, Goto
      <3>2. path' = d
        BY <1>6, <2>1 DEF ListenBind
      <3> QED
        BY <3>1, <3>2
    <2>2. CASE path # NoDaemon
      BY <1>6, <1>t, <2>2 DEF ListenBind, Goto, sockVars
    <2> QED
      BY <2>1, <2>2
  <1>7. ASSUME NEW d \in Daemons, ListenChmod(d) PROVE Unchallenged'
    BY <1>7, <1>t DEF ListenChmod, Goto
  <1>8. ASSUME NEW d \in Daemons, Closing(d) PROVE Unchallenged'
    BY <1>8, <1>t, ClosingDoes, NoDaemonAssumption
  <1> QED
    BY <1>1, <1>2, <1>3, <1>4, <1>5, <1>6, <1>7, <1>8, SocketCases DEF Listening

(* Whoever starts ends the solitude of the one that listens. *)
LEMMA UndisturbedStep == Inv /\ [Next]_vars => Undisturbed'
  <1> SUFFICES ASSUME Inv, [Next]_vars PROVE Undisturbed'
    OBVIOUS
  <1> USE DEF Inv, Undisturbed, Listens
  <1>t. /\ pc \in [Daemons -> Positions] /\ alone \subseteq Daemons
        /\ path \in Daemons \cup {NoDaemon}
    BY DEF TypeOK, Positions, WithEngine, WithInvites, WithListener
  <1>1. CASE Unmoved
    BY <1>1 DEF Unmoved
  <1>2. ASSUME NEW d \in Daemons, Plain(d) \/ Starts(d) PROVE Undisturbed'
    BY <1>2, <1>t DEF Plain, Starts
  <1>3. ASSUME NEW d \in Daemons, EnableMDNS(d) PROVE Undisturbed'
    BY <1>3, <1>t DEF EnableMDNS, Goto
  <1>4. ASSUME NEW d \in Daemons, ListenDial(d) PROVE Undisturbed'
    BY <1>4, <1>t DEF ListenDial, Goto, sockVars
  <1>5. ASSUME NEW d \in Daemons, ListenRemove(d) PROVE Undisturbed'
    BY <1>5, <1>t DEF ListenRemove, Goto
  <1>6. ASSUME NEW d \in Daemons, ListenBind(d) PROVE Undisturbed'
    BY <1>6, <1>t DEF ListenBind, Goto, sockVars
  <1>7. ASSUME NEW d \in Daemons, ListenChmod(d) PROVE Undisturbed'
    BY <1>7, <1>t DEF ListenChmod, Goto
  <1>8. ASSUME NEW d \in Daemons, Closing(d) PROVE Undisturbed'
    BY <1>8, <1>t, ClosingDoes
  <1> QED
    BY <1>1, <1>2, <1>3, <1>4, <1>5, <1>6, <1>7, <1>8, SocketCases DEF Listening

LEMMA InvInit == Init => Inv
  <1> SUFFICES ASSUME Init PROVE Inv
    OBVIOUS
  <1> USE DEF Init
  <1>1. StacksFit
    BY EmptyFits DEF StacksFit
  <1>2. pc \in [Daemons -> {"off"}] /\ held \in [Daemons -> Seq(Resources)]
    <2>1. << >> \in Seq(Resources)
      OBVIOUS
    <2> QED
      BY <2>1
  <1>3. /\ cancelled \in [Daemons -> BOOLEAN] /\ background \in [Daemons -> BOOLEAN]
        /\ loop \in [Daemons -> {"none"}]
    OBVIOUS
  <1>4. conns \in [Daemons -> SUBSET Commands] /\ cmd \in [Commands -> {"idle"}]
    OBVIOUS
  <1>5. TypeOK
    BY <1>2, <1>3, <1>4 DEF TypeOK
  <1>6. ListenerHeld /\ Told /\ Unchallenged /\ Undisturbed
    BY DEF ListenerHeld, Told, Unchallenged, Live, Undisturbed
  <1> QED
    BY <1>1, <1>5, <1>6 DEF Inv

LEMMA InvStep == Inv /\ [Next]_vars => Inv'
  BY TypeStep, StacksStep, ListenerStep, ToldStep, UnchallengedStep, UndisturbedStep DEF Inv
-----------------------------------------------------------------------------
(* Run's stack fits its position, and the socket path is where Listen and  *)
(* Close have left it.                                                     *)
THEOREM InvHolds == Spec => []Inv
  BY InvInit, InvStep, PTL DEF Spec

(* The variables of Daemon keep their types. *)
THEOREM TypeCorrect == Spec => []TypeOK
  <1>1. Inv => TypeOK
    BY DEF Inv
  <1> QED
    BY <1>1, InvHolds, PTL

(* However early and for whatever reason app.Run returns, its deferred     *)
(* calls cancel the audio loop and the goroutines of the inner context     *)
(* before they release anything that those use, and leave no listener      *)
(* open.                                                                   *)
THEOREM ToldInTime == Spec => []GoroutinesAreToldFirst
  <1>1. Inv => GoroutinesAreToldFirst
    <2> SUFFICES ASSUME Inv, NEW d \in Daemons PROVE GoroutinesAreToldFirst!(d)
      BY DEF GoroutinesAreToldFirst
    <2>1. held[d] \in Seq(Resources) /\ Ordered(held[d])
      BY DEF Inv, TypeOK, StacksFit, Fits
    <2> QED
      BY <2>1, OrderedIsClosed DEF Inv, ListenerHeld, Told
  <1> QED
    BY <1>1, InvHolds, PTL

(* Nobody's Listen and nobody else's Close takes the path from an          *)
(* uncontested daemon that listens.                                        *)
THEOREM SocketIsKept == Spec => SocketKept
  <1> DEFINE A == \A d \in Daemons :
                     Live(d) /\ d \notin contested /\ path' # d => d \notin listening'
  <1>1. Inv /\ [Next]_vars => [A]_vars
    <2> SUFFICES ASSUME Inv, [Next]_vars, NEW d \in Daemons,
                        Live(d), d \notin contested, path' # d
                 PROVE  d \notin listening'
      OBVIOUS
    <2> USE DEF Inv, Live
    <2>1. CASE Unmoved
      BY <2>1 DEF Unmoved
    <2>2. ASSUME NEW e \in Daemons, Plain(e) \/ Starts(e) PROVE d \notin listening'
      BY <2>2 DEF Plain, Starts
    <2>3. ASSUME NEW e \in Daemons, EnableMDNS(e) \/ ListenDial(e) \/ ListenBind(e) \/ ListenChmod(e)
          PROVE  d \notin listening'
      BY <2>3, NoDaemonAssumption DEF EnableMDNS, ListenDial, ListenBind, ListenChmod, sockVars
    <2>4. ASSUME NEW e \in Daemons, ListenRemove(e) PROVE d \notin listening'
      <3>1. pc[e] = "remove" /\ e \notin listening
        BY <2>4, NotListening DEF ListenRemove, WithListener
      <3> QED
        BY <3>1 DEF Unchallenged
    <2>5. ASSUME NEW e \in Daemons, Closing(e) PROVE d \notin listening'
      BY <2>5, ClosingDoes DEF Unchallenged
    <2> QED
      BY <2>1, <2>2, <2>3, <2>4, <2>5, SocketCases DEF Listening
  <1> QED
    BY <1>1, InvHolds, PTL DEF Spec, SocketKept

(* Listen does not fail for a daemon with no other process around, because *)
(* of whatever an earlier one has left at the path.                        *)
THEOREM LeftoversAreHarmless == Spec => LeftoversAreNoObstacle
  <1> DEFINE A == \A d \in Daemons :
                     d \in alone' /\ pc[d] \in Listens => pc'[d] # "unwind"
  <1>1. Inv /\ [Next]_vars => [A]_vars
    <2> SUFFICES ASSUME Inv, [Next]_vars, NEW d \in Daemons, d \in alone', pc[d] \in Listens,
                        pc'[d] = "unwind"
                 PROVE  FALSE
      OBVIOUS
    <2> USE DEF Inv
    <2>t. pc \in [Daemons -> Positions]
      BY DEF TypeOK, Positions, WithEngine, WithInvites, WithListener
    <2>1. CASE Unmoved
      BY <2>1 DEF Unmoved, Listens
    <2>2. ASSUME NEW e \in Daemons, Plain(e) \/ Starts(e) \/ Listening(e) \/ Closing(e)
          PROVE  FALSE
      <3>1. CASE e # d
        BY <2>2, <2>t, <3>1
           DEF Plain, Starts, Listening, EnableMDNS, ListenDial, ListenRemove, ListenBind, ListenChmod,
               Closing, ServeWatcher, Release, Exit, Crash, ListenFails, Goto, Listens
      <3>2. CASE e = d /\ Listening(d)
        <4>1. d \in alone
          BY <3>2 DEF Listening, EnableMDNS, ListenDial, ListenRemove, ListenBind, ListenChmod,
                      Listens, sockVars
        <4>2. \A g \in Daemons \ {d} : pc[g] = "off"
          BY <4>1 DEF Undisturbed
        <4>3. ~Reachable \/ pc[d] # "dial"
          BY <2>t, <4>2, NotListening DEF Reachable, Live, WithListener
        <4> QED
          BY <2>t, <3>2, <4>1, <4>3, NoDaemonAssumption
             DEF Listening, EnableMDNS, ListenDial, ListenRemove, ListenBind, ListenChmod, Goto,
                 Undisturbed, Listens
      <3>3. CASE e = d /\ (Plain(d) \/ Starts(d))
        BY <3>3 DEF Plain, Starts, Listens
      <3>4. CASE e = d /\ Closing(d)
        BY <2>t, <3>4 DEF Closing, ServeWatcher, Release, Exit, Crash, ListenFails, Goto, Listens
      <3> QED
        BY <2>2, <3>1, <3>2, <3>3, <3>4
    <2> QED
      BY <2>1, <2>2, SocketCases
  <1> QED
    BY <1>1, InvHolds, PTL DEF Spec, LeftoversAreNoObstacle
-----------------------------------------------------------------------------
(* What the terminal UI shows. *)

(* The loop of visible over the friends fs, as the function of its rounds: *)
(* F[i] are the friends among the first i that match.                      *)
Filtered(F, fs, A, m) ==
    F = [i \in 0 .. m |-> IF i = 0 THEN << >>
                          ELSE IF fs[i] \in A THEN Append(F[i - 1], fs[i])
                          ELSE F[i - 1]]

(* What holds of 0 and of the next number holds of all. *)
LEMMA Counting ==
    ASSUME NEW S, 0 \in S, \A n \in Nat : n \in S => n + 1 \in S
    PROVE  Nat \subseteq S
  <1> SUFFICES ASSUME Nat \ S # {} PROVE FALSE
    OBVIOUS
  <1>1. PICK m \in Nat \ S : \A k \in Nat \ S : ~(<<k, m>> \in OpToRel(<, Nat))
    BY WFMin, NatLessThanWellFounded
  <1> DEFINE k == m - 1
  <1>2. k \in Nat /\ k + 1 = m /\ <<k, m>> \in OpToRel(<, Nat)
    BY DEF OpToRel
  <1> HIDE DEF k
  <1>3. k \in S
    BY <1>1, <1>2
  <1>4. k + 1 \in S
    BY <1>2, <1>3
  <1> QED
    BY <1>1, <1>2, <1>4

(* There is such a function, round by round. *)
LEMMA FilteredExists ==
    ASSUME NEW fs, NEW A, NEW m \in Nat
    PROVE  \E F : Filtered(F, fs, A, m)
  <1> DEFINE S == {n \in Nat : \E F : Filtered(F, fs, A, n)}
  <1>1. 0 \in S
    <2> DEFINE F == [i \in 0 .. 0 |-> << >>]
    <2>1. Filtered(F, fs, A, 0)
      BY DEF Filtered
    <2> HIDE DEF F
    <2> QED
      BY <2>1
  <1>2. ASSUME NEW n \in Nat, n \in S PROVE n + 1 \in S
    <2>1. PICK F : Filtered(F, fs, A, n)
      BY <1>2
    <2> DEFINE e == IF fs[n + 1] \in A THEN Append(F[n], fs[n + 1]) ELSE F[n]
               G == [i \in 0 .. (n + 1) |-> IF i = n + 1 THEN e ELSE F[i]]
               body(i) == IF i = 0 THEN << >>
                          ELSE IF fs[i] \in A THEN Append(G[i - 1], fs[i])
                          ELSE G[i - 1]
    <2> HIDE DEF e
    <2>2. G[n + 1] = e /\ \A i \in 0 .. n : G[i] = F[i]
      OBVIOUS
    <2>3. DOMAIN G = 0 .. (n + 1) /\ G = [i \in 0 .. (n + 1) |-> G[i]]
      OBVIOUS
    <2> HIDE DEF G
    <2>4. ASSUME NEW i \in 0 .. n PROVE G[i] = body(i)
      <3>1. F[i] = IF i = 0 THEN << >>
                   ELSE IF fs[i] \in A THEN Append(F[i - 1], fs[i])
                   ELSE F[i - 1]
        BY <2>1 DEF Filtered
      <3>2. G[i] = F[i] /\ (i # 0 => G[i - 1] = F[i - 1])
        BY <2>2
      <3> QED
        BY <3>1, <3>2
    <2>5. G[n + 1] = body(n + 1)
      BY <2>2 DEF e
    <2> HIDE DEF body
    <2>6. \A i \in 0 .. (n + 1) : G[i] = body(i)
      BY <2>4, <2>5
    <2>7. G = [i \in 0 .. (n + 1) |-> body(i)]
      BY <2>3, <2>6
    <2>8. Filtered(G, fs, A, n + 1)
      BY <2>7 DEF Filtered, body
    <2> QED
      BY <2>8
  <1> HIDE DEF S
  <1>3. m \in S
    BY <1>1, <1>2, Counting
  <1> QED
    BY <1>3 DEF S

(* visible is the last of its rounds. *)
LEMMA VisibleForm ==
    ASSUME NEW T, NEW fs \in Seq(T), NEW n
    PROVE  \E F : Filtered(F, fs, Matches[n + 1], Len(fs)) /\ visible(fs, n) = F[Len(fs)]
  <1> DEFINE C == CHOOSE F : Filtered(F, fs, Matches[n + 1], Len(fs))
  <1>1. Filtered(C, fs, Matches[n + 1], Len(fs))
    <2>1. Len(fs) \in Nat
      OBVIOUS
    <2>2. \E F : Filtered(F, fs, Matches[n + 1], Len(fs))
      BY <2>1, FilteredExists
    <2> QED
      BY <2>2, Zenon
  <1>2. visible(fs, n) = C[Len(fs)]
    BY DEF visible, Filtered
  <1> HIDE DEF C
  <1> QED
    BY <1>1, <1>2

(* A friend that is visible is a friend. *)
LEMMA VisibleType ==
    ASSUME NEW T, NEW fs \in Seq(T), NEW n
    PROVE  visible(fs, n) \in Seq(T)
  <1>1. PICK F : Filtered(F, fs, Matches[n + 1], Len(fs)) /\ visible(fs, n) = F[Len(fs)]
    BY VisibleForm
  <1> DEFINE S == {k \in Nat : k <= Len(fs) => F[k] \in Seq(T)}
             A == Matches[n + 1]
  <1>2. Len(fs) \in Nat
    OBVIOUS
  <1> HIDE DEF A
  <1>3. \A i \in 0 .. Len(fs) :
          F[i] = IF i = 0 THEN << >>
                 ELSE IF fs[i] \in A THEN Append(F[i - 1], fs[i])
                 ELSE F[i - 1]
    BY <1>1 DEF Filtered, A
  <1>4. 0 \in S
    <2>1. F[0] = << >>
      BY <1>2, <1>3
    <2>2. << >> \in Seq(T)
      OBVIOUS
    <2>3. F[0] \in Seq(T)
      BY <2>1, <2>2
    <2> QED
      BY <2>3
  <1>5. ASSUME NEW k \in Nat, k \in S PROVE k + 1 \in S
    <2>1. SUFFICES ASSUME k + 1 <= Len(fs) PROVE F[k + 1] \in Seq(T)
      OBVIOUS
    <2>2. k + 1 \in 0 .. Len(fs) /\ F[k] \in Seq(T) /\ fs[k + 1] \in T
      BY <1>2, <1>5, <2>1
    <2>3. F[k + 1] = IF fs[k + 1] \in A THEN Append(F[k], fs[k + 1]) ELSE F[k]
      BY <1>3, <2>2
    <2> DEFINE x == fs[k + 1]
               q == F[k]
    <2>4. q \in Seq(T) /\ x \in T
      BY <2>2
    <2> HIDE DEF x, q
    <2>5. Append(q, x) \in Seq(T)
      BY <2>4
    <2> QED
      BY <2>3, <2>4, <2>5 DEF x, q
  <1> HIDE DEF S
  <1>6. Len(fs) \in S
    BY <1>2, <1>4, <1>5, Counting
  <1> QED
    BY <1>1, <1>2, <1>6 DEF S

-----------------------------------------------------------------------------
(* The friends pane: what is focused is what the selection points at. *)
PaneOK ==
    /\ friends \in {<< >>, FriendList} /\ selected \in Nat
    /\ filter \in 0 .. MaxInput /\ filtering \in BOOLEAN
    /\ focus \in Friends \cup {Nobody}
    /\ FocusIsSelection

(* syncFocusFromSelection clamps the selection to what is visible and      *)
(* focuses it.                                                             *)
LEMMA Synced ==
    ASSUME NEW fs \in Seq(Friends), NEW n, NEW i \in Nat,
           syncFocusFromSelection(fs, n, i)
    PROVE  /\ selected' \in Nat /\ focus' \in Friends \cup {Nobody}
           /\ IF visible(fs, n) = << >> THEN focus' = Nobody
              ELSE /\ selected' < Len(visible(fs, n))
                   /\ focus' = visible(fs, n)[selected' + 1]
  <1> DEFINE v == visible(fs, n)
             T == Friends
  <1>1. v \in Seq(T)
    BY VisibleType
  <1>2. /\ selected' = IF v # << >> /\ i >= Len(v) THEN 0 ELSE i
        /\ focus' = IF v = << >> THEN Nobody ELSE v[selected' + 1]
    BY DEF syncFocusFromSelection
  <1> HIDE DEF v, T
  <1>3. CASE v = << >>
    BY <1>2, <1>3 DEF v
  <1>4. CASE v # << >>
    <2>1. Len(v) \in Nat \ {0}
      BY <1>1, <1>4
    <2>2. selected' \in Nat /\ selected' < Len(v) /\ focus' = v[selected' + 1]
      BY <1>2, <1>4, <2>1
    <2>3. selected' + 1 \in 1 .. Len(v)
      <3> DEFINE s == selected'
                 l == Len(v)
      <3>1. s \in Nat /\ l \in Nat /\ s < l
        BY <2>1, <2>2
      <3> HIDE DEF s, l
      <3>2. s + 1 \in 1 .. l
        BY <3>1
      <3> QED
        BY <3>2 DEF s, l
    <2>4. v[selected' + 1] \in T
      BY <1>1, <2>3
    <2> QED
      BY <1>4, <2>2, <2>4 DEF v, T
  <1> QED
    BY <1>3, <1>4

(* The friends shown are friends. *)
LEMMA FriendsType ==
    ASSUME TuiConstants, PaneOK
    PROVE  friends \in Seq(Friends) /\ Len(friends) \in Nat
  <1>1. CASE friends = << >>
    BY <1>1
  <1>2. CASE friends = FriendList
    BY <1>2 DEF TuiConstants
  <1> QED
    BY <1>1, <1>2 DEF PaneOK

(* Two lists of visible friends. *)
LEMMA PaneStep ==
    ASSUME TuiConstants, PaneOK, [TuiNext]_tuiVars
    PROVE  PaneOK'
  <1>1. friends \in Seq(Friends) /\ Len(friends) \in Nat
    BY FriendsType
  <1>2. MaxInput \in Nat /\ FriendList \in Seq(Friends) /\ Len(FriendList) \in Nat
    <2>1. Matches \in Seq(SUBSET Friends) /\ Matches # << >>
      BY DEF TuiConstants
    <2> DEFINE T == SUBSET Friends
    <2>2. Matches \in Seq(T)
      BY <2>1
    <2> HIDE DEF T
    <2>3. Len(Matches) \in Nat \ {0}
      BY <2>1, <2>2
    <2> QED
      BY <2>3 DEF MaxInput, TuiConstants
  <1>3. ASSUME NEW i \in Nat, NEW n \in 0 .. MaxInput, NEW fs \in {<< >>, FriendList},
               fs \in Seq(Friends), syncFocusFromSelection(fs, n, i),
               friends' = fs, filter' = n, filtering' \in BOOLEAN
        PROVE  PaneOK'
    <2>1. /\ selected' \in Nat /\ focus' \in Friends \cup {Nobody}
          /\ IF visible(fs, n) = << >> THEN focus' = Nobody
             ELSE /\ selected' < Len(visible(fs, n))
                  /\ focus' = visible(fs, n)[selected' + 1]
      BY <1>3, Synced
    <2>2. visible(fs, n) = visible(friends', filter')
      BY <1>3
    <2> QED
      BY <1>3, <2>1, <2>2 DEF PaneOK, FocusIsSelection
  <1>4. CASE MoveKey
    <2>1. CASE MoveDown \/ MoveUp
      <3>1. PICK i \in Nat : syncFocusFromSelection(friends, filter, i)
        <4>1. CASE MoveDown
          <5> DEFINE i == IF selected < Len(visible(friends, filter)) - 1
                          THEN selected + 1 ELSE selected
          <5>1. syncFocusFromSelection(friends, filter, i)
            BY <4>1 DEF MoveDown
          <5>2. i \in Nat
            BY DEF PaneOK
          <5> QED
            BY <5>1, <5>2
        <4>2. CASE MoveUp
          <5> DEFINE i == IF selected > 0 THEN selected - 1 ELSE selected
          <5>1. syncFocusFromSelection(friends, filter, i)
            BY <4>2 DEF MoveUp
          <5>2. i \in Nat
            BY DEF PaneOK
          <5> QED
            BY <5>1, <5>2
        <4> QED
          BY <2>1, <4>1, <4>2
      <3> QED
        BY <1>1, <1>3, <1>4, <3>1 DEF PaneOK, MoveKey
    <2>2. CASE ~(MoveDown \/ MoveUp)
      BY <1>4, <2>2 DEF PaneOK, MoveKey, FocusIsSelection
    <2> QED
      BY <2>1, <2>2
  <1>5. CASE FilterKey
    <2>1. PICK i \in Nat, n \in 0 .. MaxInput :
              syncFocusFromSelection(friends, n, i) /\ filter' = n
      <3>1. 0 \in Nat /\ 0 \in 0 .. MaxInput
        BY <1>2
      <3>2. selected \in Nat /\ filter \in 0 .. MaxInput
        BY DEF PaneOK
      <3>3. CASE SetFilter(0)
        BY <3>1, <3>3 DEF SetFilter
      <3>4. CASE syncFocusFromSelection(friends, filter, selected) /\ UNCHANGED filter
        BY <3>2, <3>4
      <3>5. CASE filter > 0 /\ SetFilter(filter - 1)
        <4>1. filter - 1 \in 0 .. MaxInput
          BY <1>2, <3>2, <3>5
        <4> QED
          BY <3>1, <3>5, <4>1 DEF SetFilter
      <3>6. CASE filter < MaxInput /\ SetFilter(filter + 1)
        <4>1. filter + 1 \in 0 .. MaxInput
          BY <1>2, <3>2, <3>6
        <4> QED
          BY <3>1, <3>6, <4>1 DEF SetFilter
      <3> QED
        BY <1>5, <3>3, <3>4, <3>5, <3>6 DEF FilterKey
    <2>2. friends' = friends /\ filtering' \in BOOLEAN
      BY <1>5 DEF FilterKey, PaneOK
    <2> QED
      BY <1>1, <1>3, <2>1, <2>2 DEF PaneOK
  <1>6. ASSUME NEW c, UpdateFriends(c) PROVE PaneOK'
    <2> DEFINE i == IF selected >= Len(FriendList) THEN 0 ELSE selected
    <2>1. /\ friends' = FriendList /\ syncFocusFromSelection(FriendList, filter, i)
          /\ filter' = filter /\ filtering' = filtering
      BY <1>6 DEF UpdateFriends, friendsLoaded
    <2>2. i \in Nat
      BY DEF PaneOK
    <2> HIDE DEF i
    <2> QED
      BY <1>2, <1>3, <2>1, <2>2 DEF PaneOK
  <1>7. CASE UNCHANGED paneVars
    BY <1>7 DEF paneVars, PaneOK, FocusIsSelection
  <1>8. \/ MoveKey \/ FilterKey \/ (\E c : UpdateFriends(c)) \/ UNCHANGED paneVars
    BY DEF TuiNext, Key, PlaceCall, CallKey, QuitKey, OpenModal, OpenAddFriend,
           handleModalClosed, applyDetection, LinkChanges, Runs, Update,
           UpdateError, UpdateIgnored, UpdateSubscribed, UpdateCallStarted,
           UpdateCallEvent, UpdateCallsList, UpdateInviteCreated, UpdateRedeemed,
           UpdateStatus, UpdateQuit, tuiVars, paneVars
  <1> QED
    BY <1>4, <1>5, <1>6, <1>7, <1>8

(* Bags: what is added or left. *)
LEMMA Added ==
    ASSUME NEW B, IsABag(B), NEW x
    PROVE  IsABag(Ext!BagAdd(B, x)) /\ DOMAIN Ext!BagAdd(B, x) = DOMAIN B \cup {x}
  <1> DEFINE A == Ext!BagAdd(B, x)
  <1>1. DOMAIN A = DOMAIN B \cup {x} /\ \A e \in DOMAIN A : A[e] \in {n \in Nat : n > 0}
    BY DEF Ext!BagAdd, IsABag
  <1>2. A = [e \in DOMAIN A |-> A[e]]
    BY DEF Ext!BagAdd
  <1> HIDE DEF A
  <1>3. IsABag(A)
    BY <1>1, <1>2 DEF IsABag
  <1> QED
    BY <1>1, <1>3 DEF A

(* A command that has run is one less, and the others are as they were. *)
LEMMA Removed ==
    ASSUME NEW B, IsABag(B), NEW x
    PROVE  IsABag(Ext!BagRemove(B, x)) /\ DOMAIN Ext!BagRemove(B, x) \subseteq DOMAIN B
  <1> DEFINE A == Ext!BagRemove(B, x)
  <1>1. DOMAIN A \subseteq DOMAIN B /\ \A e \in DOMAIN A : A[e] \in {n \in Nat : n > 0}
    BY DEF Ext!BagRemove, IsABag
  <1>2. A = [e \in DOMAIN A |-> A[e]]
    BY DEF Ext!BagRemove, IsABag
  <1> HIDE DEF A
  <1>3. IsABag(A)
    BY <1>1, <1>2 DEF IsABag
  <1> QED
    BY <1>1, <1>3 DEF A

(* The calls at the daemon: they only become more. *)
CallRecords == [dir : {"inbound", "outbound"}, peer : Friends]
CallsOK == calls \in Seq(CallRecords) /\ Len(calls) <= MaxCalls

(* What a command refers to exists. *)
CmdOK(c, n) ==
    /\ c.kind = "calls.start" => c.arg \in Friends
    /\ c.kind \in {"started", "wait start"} => c.arg \in 1 .. n
CmdsOK == IsABag(cmds) /\ \A c \in DOMAIN cmds : CmdOK(c, Len(calls))

(* The dock and the modal are about a call, and name its peer. *)
DockOK ==
    /\ dock \in [state : EventStates \cup {"", "calling"}, call : CallIDs, remote : Displays]
    /\ dock.call # 0 => dock.call \in 1 .. Len(calls) /\ dock.remote[2] = calls[dock.call].peer
ModalOK ==
    /\ modal.kind = "invite" => modal = [kind |-> "invite", state |-> modal.state]
    /\ modal.kind = "incoming" =>
         modal.call \in 1 .. Len(calls) /\ modal.caller[2] = calls[modal.call].peer

(* Calls are only added, at the end. *)
CallsGrew ==
    /\ calls' \in Seq(CallRecords) /\ Len(calls') <= MaxCalls
    /\ Len(calls) \in Nat /\ Len(calls') \in Nat /\ Len(calls) <= Len(calls')
    /\ \A i \in 1 .. Len(calls) : calls'[i] = calls[i]

(* What refers to a call keeps referring to it when calls are added. *)
LEMMA Grow ==
    ASSUME TuiConstants, CallsOK,
           \/ calls' = calls
           \/ Len(calls) < MaxCalls /\ \E r \in CallRecords : calls' = Append(calls, r)
    PROVE  CallsGrew
  <1>1. Len(calls) \in Nat /\ MaxCalls \in Nat
    BY DEF CallsOK, TuiConstants
  <1>2. CASE calls' = calls
    BY <1>1, <1>2 DEF CallsOK, CallsGrew
  <1>3. ASSUME NEW r \in CallRecords, calls' = Append(calls, r), Len(calls) < MaxCalls
        PROVE  CallsGrew
    <2> DEFINE T == CallRecords
               q == Append(calls, r)
    <2>1. calls \in Seq(T) /\ r \in T
      BY <1>3 DEF CallsOK
    <2> HIDE DEF T
    <2>2. q \in Seq(T) /\ Len(q) = Len(calls) + 1 /\ \A i \in 1 .. Len(calls) : q[i] = calls[i]
      BY <2>1
    <2> HIDE DEF q
    <2>3. calls' = q
      BY <1>3 DEF q
    <2> QED
      BY <1>1, <1>3, <2>2, <2>3 DEF CallsGrew, T
  <1> QED
    BY <1>2, <1>3

(* The commands after a step, given what it added. *)
LEMMA CmdsGrow ==
    ASSUME CmdsOK, CallsGrew, NEW c, CmdOK(c, Len(calls')),
           \/ cmds' = cmds
           \/ cmds' = EmptyBag
           \/ cmds' = Ext!BagAdd(cmds, c)
           \/ \E b : cmds' = Ext!BagRemove(cmds, b)
           \/ \E b : cmds' = Ext!BagAdd(Ext!BagRemove(cmds, b), c)
    PROVE  CmdsOK'
  <1>1. IsABag(cmds') /\ DOMAIN cmds' \subseteq DOMAIN cmds \cup {c}
    <2>1. CASE cmds' = cmds
      BY <2>1 DEF CmdsOK
    <2>2. CASE cmds' = EmptyBag
      BY <2>2 DEF EmptyBag, SetToBag, IsABag
    <2>3. CASE cmds' = Ext!BagAdd(cmds, c)
      BY <2>3, Added DEF CmdsOK
    <2>4. ASSUME NEW b, cmds' = Ext!BagRemove(cmds, b)
          PROVE  IsABag(cmds') /\ DOMAIN cmds' \subseteq DOMAIN cmds \cup {c}
      BY <2>4, Removed DEF CmdsOK
    <2>5. ASSUME NEW b, cmds' = Ext!BagAdd(Ext!BagRemove(cmds, b), c)
          PROVE  IsABag(cmds') /\ DOMAIN cmds' \subseteq DOMAIN cmds \cup {c}
      <3> DEFINE B == Ext!BagRemove(cmds, b)
      <3>1. IsABag(B) /\ DOMAIN B \subseteq DOMAIN cmds
        BY Removed DEF CmdsOK
      <3> HIDE DEF B
      <3>2. cmds' = Ext!BagAdd(B, c)
        BY <2>5 DEF B
      <3> QED
        BY <3>1, <3>2, Added
    <2> QED
      BY <2>1, <2>2, <2>3, <2>4, <2>5
  <1>2. ASSUME NEW d \in DOMAIN cmds PROVE CmdOK(d, Len(calls'))
    <2>1. CmdOK(d, Len(calls))
      BY DEF CmdsOK
    <2>2. \A k \in 1 .. Len(calls) : k \in 1 .. Len(calls')
      BY DEF CallsGrew
    <2> QED
      BY <2>1, <2>2 DEF CmdOK
  <1> QED
    BY <1>1, <1>2 DEF CmdsOK

(* What a step does not show anew stays right. *)
LEMMA DockKept ==
    ASSUME CallsGrew, DockOK, dock' = dock
    PROVE  DockOK'
  <1>1. \A k \in 1 .. Len(calls) : k \in 1 .. Len(calls') /\ calls'[k] = calls[k]
    BY DEF CallsGrew
  <1> QED
    BY <1>1 DEF DockOK

(* The modal of a step that does not touch it stays right. *)
LEMMA ModalKept ==
    ASSUME CallsGrew, ModalOK, modal' = modal
    PROVE  ModalOK'
  BY DEF ModalOK, CallsGrew

(* friendNameForPeer shows the peer. *)
LEMMA Applied ==
    ASSUME TuiConstants, CallsGrew, DockOK, ModalOK, 
           NEW cs, cs = calls', NEW i \in 1 .. Len(cs), NEW s \in EventStates,
           applyCallStateChange(cs, i, s)
    PROVE  DockOK' /\ ModalOK' /\ (footer' = footer \/ footer' \in {"connected", "idle", "ringing"})
  <1> DEFINE r == friendNameForPeer(cs[i].peer)
             T == CallRecords
  <1>1. cs[i] \in T
    <2>1. cs \in Seq(T)
      BY DEF CallsGrew
    <2> HIDE DEF T
    <2> QED
      BY <2>1
  <1>2. cs[i].peer \in Friends
    BY <1>1 DEF CallRecords
  <1>3. r \in Displays /\ r[2] = cs[i].peer
    BY <1>2 DEF friendNameForPeer, Displays
  <1>4. i \in CallIDs /\ i # 0
    BY DEF CallIDs, CallsGrew, TuiConstants
  <1> HIDE DEF r
  <1>5. CASE dock.call \notin {0, i}
    BY <1>5, DockKept, ModalKept DEF applyCallStateChange
  <1>6. CASE dock.call \in {0, i}
    <2>1. /\ modal' = IF s = "ringing" /\ cs[i].dir = "inbound" /\ modal = NoModal
                      THEN [kind |-> "incoming", call |-> i, caller |-> r]
                      ELSE modal
          /\ dock' = [state |-> s, call |-> i, remote |-> r]
          /\ footer' = CASE s = "connected" -> "connected"
                         [] s = "ended" -> "idle"
                         [] OTHER -> "ringing"
      BY <1>6 DEF applyCallStateChange, r
    <2>2. DockOK'
      BY <1>3, <1>4, <2>1 DEF DockOK
    <2>3. ModalOK'
      <3>1. CASE modal' = modal
        BY <3>1, ModalKept
      <3>2. CASE modal' = [kind |-> "incoming", call |-> i, caller |-> r]
        BY <1>3, <3>2 DEF ModalOK
      <3> QED
        BY <2>1, <3>1, <3>2
    <2> QED
      BY <2>1, <2>2, <2>3
  <1> QED
    BY <1>5, <1>6

FlagsOK ==
    /\ callTargetName \in Friends \cup {Nobody}
    /\ footer \in {"idle", "ringing", "connected", "daemonDown", "error"}
    /\ frozen \in BOOLEAN /\ exited \in BOOLEAN
    /\ link \in {"ok", "slow", "lost"}
    /\ codes \in 0 .. MaxCodes /\ keys \in 0 .. MaxKeys

Shown == CallsOK /\ CmdsOK /\ DockOK /\ ModalOK /\ FlagsOK
TuiInv == PaneOK /\ Shown

(* A step that starts no call. *)
LEMMA SameCalls ==
    ASSUME TuiConstants, CallsOK, calls' = calls
    PROVE  CallsOK' /\ CallsGrew
  BY Grow DEF CallsGrew, CallsOK

(* A command that refers to nothing. *)
LEMMA PlainCmd ==
    ASSUME NEW k, k \notin {"calls.start", "started", "wait start"}, NEW a, NEW n
    PROVE  CmdOK(Cmd(k, a), n)
  BY DEF CmdOK, Cmd

(* Nothing is added. *)
LEMMA CmdsLess ==
    ASSUME CmdsOK, CallsGrew,
           \/ cmds' = cmds
           \/ cmds' = EmptyBag
           \/ \E b : cmds' = Ext!BagRemove(cmds, b)
    PROVE  CmdsOK'
  <1>1. CmdOK(Cmd("failed", 0), Len(calls'))
    BY PlainCmd
  <1> QED
    BY <1>1, CmdsGrow

(* A dock for a call of the daemon that names its peer is right. *)
LEMMA NewDock ==
    ASSUME TuiConstants, FlagsOK,
           dock' = NoDock \/
           dock' = [state |-> "calling", call |-> 0, remote |-> <<"name", callTargetName>>]
    PROVE  DockOK'
  <1>1. 0 \in CallIDs
    BY DEF CallIDs, TuiConstants
  <1>2. <<"name", Nobody>> \in Displays /\ <<"name", callTargetName>> \in Displays
    BY DEF Displays, FlagsOK
  <1>3. CASE dock' = NoDock
    BY <1>1, <1>2, <1>3 DEF DockOK, NoDock
  <1>4. CASE dock' = [state |-> "calling", call |-> 0, remote |-> <<"name", callTargetName>>]
    <2> DEFINE r == <<"name", callTargetName>>
    <2>1. r \in Displays /\ dock' = [state |-> "calling", call |-> 0, remote |-> r]
      BY <1>2, <1>4
    <2> HIDE DEF r
    <2> QED
      BY <1>1, <2>1 DEF DockOK
  <1> QED
    BY <1>3, <1>4

(* The keys. *)
LEMMA KeyStep ==
    ASSUME TuiConstants, TuiInv, Key
    PROVE  Shown'
  <1> USE DEF TuiInv, Shown, paneVars, callVars, worldVars
  <1>1. keys' \in 0 .. MaxKeys
    BY DEF Key, FlagsOK, TuiConstants
  <1>2. /\ calls' = calls /\ UNCHANGED <<footer, link, codes>>
    BY DEF Key, MoveKey, PlaceCall, CallKey, QuitKey, OpenModal,
           OpenAddFriend, handleModalClosed
  <1>3. CallsOK' /\ CallsGrew
    BY <1>2, SameCalls
  <1>4. CASE MoveKey
    <2>1. UNCHANGED <<cmds, dock, modal, callTargetName, frozen, exited>>
      BY <1>4 DEF MoveKey
    <2>2. DockOK' /\ ModalOK'
      BY <1>3, <2>1, DockKept, ModalKept
    <2>3. CmdsOK'
      BY <1>3, <2>1, CmdsLess
    <2>4. FlagsOK'
      BY <1>1, <1>2, <2>1 DEF FlagsOK
    <2> QED
      BY <1>3, <2>2, <2>3, <2>4
  <1>5. CASE PlaceCall
    <2> DEFINE sel == visible(friends, filter)[selected + 1]
    <2>1. /\ UNCHANGED <<dock, modal, frozen, exited>> /\ focus # Nobody
          /\ callTargetName' = sel /\ cmds' = Ext!BagAdd(cmds, Cmd("calls.start", sel))
      BY <1>5 DEF PlaceCall, Send
    <2>2. sel \in Friends
      BY <2>1 DEF PaneOK, FocusIsSelection
    <2> HIDE DEF sel
    <2>3. CmdOK(Cmd("calls.start", sel), Len(calls'))
      BY <2>2 DEF CmdOK, Cmd
    <2>4. CmdsOK'
      BY <1>3, <2>1, <2>3, CmdsGrow
    <2>5. DockOK' /\ ModalOK'
      BY <1>3, <2>1, DockKept, ModalKept
    <2>6. FlagsOK'
      BY <1>1, <1>2, <2>1, <2>2 DEF FlagsOK
    <2> QED
      BY <1>3, <2>4, <2>5, <2>6
  <1>6. CASE CallKey
    <2>1. UNCHANGED <<modal, callTargetName, frozen, exited>>
      BY <1>6 DEF CallKey
    <2>2. ModalOK' /\ FlagsOK'
      BY <1>1, <1>2, <1>3, <2>1, ModalKept DEF FlagsOK
    <2>3. CASE Send(Cmd("calls.action", dock.call)) /\ UNCHANGED dock
      <3>1. CmdOK(Cmd("calls.action", dock.call), Len(calls'))
        BY PlainCmd
      <3>2. CmdsOK'
        BY <1>3, <2>3, <3>1, CmdsGrow DEF Send
      <3> QED
        BY <1>3, <2>2, <2>3, <3>2, DockKept
    <2>4. CASE dock' = NoDock /\ UNCHANGED cmds
      <3>1. CmdsOK'
        BY <1>3, <2>4, CmdsLess
      <3> QED
        BY <1>3, <2>2, <2>4, <3>1, NewDock
    <2> QED
      BY <1>6, <2>3, <2>4 DEF CallKey
  <1>7. CASE QuitKey
    <2>1. UNCHANGED <<dock, callTargetName, frozen>>
      BY <1>7 DEF QuitKey
    <2>2. \/ modal' = [kind |-> "quit"] /\ UNCHANGED <<cmds, exited>>
          \/ exited' = TRUE /\ cmds' = EmptyBag /\ UNCHANGED modal
      <3>1. CASE Active(dock)
        BY <1>7, <3>1 DEF QuitKey
      <3>2. CASE ~Active(dock)
        BY <1>7, <3>2 DEF QuitKey, Quit
      <3> QED
        BY <3>1, <3>2
    <2>3. ModalOK'
      <3>1. CASE modal' = [kind |-> "quit"]
        BY <3>1 DEF ModalOK
      <3> QED
        BY <1>3, <2>2, <3>1, ModalKept
    <2>4. CmdsOK'
      BY <1>3, <2>2, CmdsLess
    <2>5. FlagsOK'
      BY <1>1, <1>2, <2>1, <2>2 DEF FlagsOK
    <2> QED
      BY <1>3, <2>1, <2>3, <2>4, <2>5, DockKept
  <1>8. CASE OpenModal
    <2>1. UNCHANGED <<dock, callTargetName, frozen, exited>>
      BY <1>8 DEF OpenModal
    <2>2. modal' \in {[kind |-> "help"], [kind |-> "settings"],
                      [kind |-> "invite", state |-> "loading"]}
      BY <1>8 DEF OpenModal
    <2>3. ModalOK'
      BY <2>2 DEF ModalOK
    <2>4. cmds' = cmds \/ cmds' = Ext!BagAdd(cmds, Cmd("invite.create", 0))
      BY <1>8 DEF OpenModal, Send
    <2>5. CmdOK(Cmd("invite.create", 0), Len(calls'))
      BY PlainCmd
    <2>6. CmdsOK'
      BY <1>3, <2>4, <2>5, CmdsGrow
    <2>7. FlagsOK'
      BY <1>1, <1>2, <2>1 DEF FlagsOK
    <2> QED
      BY <1>3, <2>1, <2>3, <2>6, <2>7, DockKept
  <1>9. CASE OpenAddFriend
    <2>1. UNCHANGED <<dock, callTargetName, exited, cmds>> /\ frozen' \in BOOLEAN
      BY <1>9 DEF OpenAddFriend, FlagsOK
    <2>2. modal' \in {[kind |-> "add", state |-> "new"], [kind |-> "add", state |-> "checking"]}
      BY <1>9 DEF OpenAddFriend
    <2>3. ModalOK'
      BY <2>2 DEF ModalOK
    <2>4. CmdsOK'
      BY <1>3, <2>1, CmdsLess
    <2>5. FlagsOK'
      BY <1>1, <1>2, <2>1 DEF FlagsOK
    <2> QED
      BY <1>3, <2>1, <2>3, <2>4, <2>5, DockKept
  <1>10. CASE handleModalClosed
    <2>1. UNCHANGED <<dock, callTargetName, frozen>> /\ modal' = [kind |-> "none"]
      BY <1>10 DEF handleModalClosed, NoModal
    <2>2. ModalOK'
      BY <2>1 DEF ModalOK
    <2>3. exited' \in BOOLEAN /\
          \/ cmds' = cmds
          \/ cmds' = EmptyBag
          \/ \E k \in {"calls.action", "hangup, quit", "invite.redeem"} : \E a :
                cmds' = Ext!BagAdd(cmds, Cmd(k, a))
      <3>1. CASE UNCHANGED <<cmds, exited>>
        BY <3>1 DEF FlagsOK
      <3>2. CASE CloseIncoming
        BY <3>2 DEF CloseIncoming, Send, FlagsOK
      <3>3. CASE CloseQuit
        BY <3>3 DEF CloseQuit, Send, Quit, FlagsOK
      <3>4. CASE CloseAddFriend
        BY <3>4 DEF CloseAddFriend, Send, FlagsOK
      <3> QED
        BY <1>10, <3>1, <3>2, <3>3, <3>4 DEF handleModalClosed
    <2>4. CmdsOK'
      <3>1. CASE cmds' = cmds \/ cmds' = EmptyBag
        BY <1>3, <3>1, CmdsLess
      <3>2. ASSUME NEW k \in {"calls.action", "hangup, quit", "invite.redeem"}, NEW a,
                   cmds' = Ext!BagAdd(cmds, Cmd(k, a))
            PROVE  CmdsOK'
        <4>1. CmdOK(Cmd(k, a), Len(calls'))
          BY PlainCmd
        <4> QED
          BY <1>3, <3>2, <4>1, CmdsGrow
      <3> QED
        BY <2>3, <3>1, <3>2
    <2>5. FlagsOK'
      BY <1>1, <1>2, <2>1, <2>3 DEF FlagsOK
    <2> QED
      BY <1>3, <2>1, <2>2, <2>4, <2>5, DockKept
  <1> QED
    BY <1>4, <1>5, <1>6, <1>7, <1>8, <1>9, <1>10 DEF Key

(* A step that neither keys nor commands take. *)
LEMMA OtherStep ==
    ASSUME TuiConstants, TuiInv,
           \/ FilterKey \/ applyDetection \/ LinkChanges \/ UNCHANGED tuiVars
    PROVE  Shown'
  <1> USE DEF TuiInv, Shown, paneVars, callVars, worldVars, tuiVars
  <1>1. UNCHANGED <<calls, cmds, dock, callTargetName, footer, exited, codes, keys>>
    BY DEF FilterKey, applyDetection, LinkChanges
  <1>2. CallsOK' /\ CallsGrew
    BY <1>1, SameCalls
  <1>3. CmdsOK' /\ DockOK'
    BY <1>1, <1>2, CmdsLess, DockKept
  <1>4. ModalOK'
    <2>1. CASE modal' = modal
      BY <1>2, <2>1, ModalKept
    <2>2. CASE applyDetection
      <3>1. modal'.kind = "add"
        BY <2>2 DEF applyDetection
      <3> QED
        BY <3>1 DEF ModalOK
    <2> QED
      BY <2>1, <2>2 DEF FilterKey, LinkChanges
  <1>5. FlagsOK'
    BY <1>1 DEF FlagsOK, FilterKey, applyDetection, LinkChanges
  <1> QED
    BY <1>2, <1>3, <1>4, <1>5

(* A command's answer. *)
LEMMA RunsStep ==
    ASSUME TuiConstants, TuiInv, NEW c \in DOMAIN cmds, Runs(c)
    PROVE  Shown'
  <1> USE DEF TuiInv, Shown, paneVars, callVars
  <1>1. UNCHANGED <<dock, modal, callTargetName, footer, frozen, exited, link, codes, keys>>
    BY DEF Runs
  <1>2. FlagsOK'
    BY <1>1 DEF FlagsOK
  <1>3. CmdOK(c, Len(calls))
    BY DEF CmdsOK
  <1>4. CASE loadDaemonStatusCmd(c)
    <2>1. PICK k \in {"status", "no status"} :
              cmds' = Ext!BagAdd(Ext!BagRemove(cmds, c), Cmd(k, 0)) /\ calls' = calls
      BY <1>4 DEF loadDaemonStatusCmd, Becomes
    <2>2. CallsOK' /\ CallsGrew
      BY <2>1, SameCalls
    <2>3. CmdOK(Cmd(k, 0), Len(calls'))
      BY PlainCmd
    <2>4. CmdsOK'
      BY <2>1, <2>2, <2>3, CmdsGrow
    <2> QED
      BY <1>1, <1>2, <2>2, <2>4, DockKept, ModalKept
  <1>5. CASE startCallCmd(c)
    <2>1. CallsGrew /\ CallsOK'
      <3>1. c.arg \in Friends
        BY <1>3, <1>5 DEF startCallCmd, CmdOK
      <3>2. [dir |-> "outbound", peer |-> c.arg] \in CallRecords
        BY <3>1 DEF CallRecords
      <3>3. CallsGrew
        BY <1>5, <3>2, Grow DEF startCallCmd
      <3> QED
        BY <3>3 DEF CallsGrew, CallsOK
    <2>2. PICK d : cmds' = Ext!BagAdd(Ext!BagRemove(cmds, c), d) /\ CmdOK(d, Len(calls'))
      <3>1. CASE calls' = Append(calls, [dir |-> "outbound", peer |-> c.arg])
                 /\ Becomes(c, Cmd("started", Len(calls')))
        <4>1. CmdOK(Cmd("started", Len(calls')), Len(calls'))
          <5>1. Len(calls') \in 1 .. Len(calls')
            <6>1. Len(calls') = Len(calls) + 1 /\ Len(calls) \in Nat
              BY <3>1 DEF CallsOK
            <6> QED
              BY <6>1
          <5> QED
            BY <5>1 DEF CmdOK, Cmd
        <4> QED
          BY <3>1, <4>1 DEF Becomes
      <3>2. CASE Becomes(c, Cmd("failed", 0))
        BY <3>2, PlainCmd DEF Becomes
      <3> QED
        BY <1>5, <3>1, <3>2 DEF startCallCmd
    <2>3. CmdsOK'
      BY <2>1, <2>2, CmdsGrow
    <2> QED
      BY <1>1, <1>2, <2>1, <2>3, DockKept, ModalKept
  <1> QED
    BY <1>4, <1>5 DEF Runs

(* A message that changes no call and shows none. *)
LEMMA PlainUpdate ==
    ASSUME TuiConstants, TuiInv, NEW c,
           UNCHANGED <<calls, dock, callTargetName, frozen, link, keys>>,
           ModalOK', footer' \in {"idle", "ringing", "connected", "daemonDown", "error"},
           exited' \in BOOLEAN, codes' \in 0 .. MaxCodes,
           \/ cmds' = cmds \/ cmds' = EmptyBag \/ cmds' = Ext!BagRemove(cmds, c)
           \/ \E k \in {"wait calls", "wait invite", "calls.list", "invite.subscribe",
                        "daemon.status"} :
                cmds' = Ext!BagAdd(Ext!BagRemove(cmds, c), Cmd(k, 0))
    PROVE  Shown'
  <1> USE DEF TuiInv, Shown
  <1>1. CallsOK' /\ CallsGrew
    BY SameCalls
  <1>2. CmdsOK'
    <2>1. CASE cmds' = cmds \/ cmds' = EmptyBag \/ cmds' = Ext!BagRemove(cmds, c)
      BY <1>1, <2>1, CmdsLess
    <2>2. ASSUME NEW k \in {"wait calls", "wait invite", "calls.list", "invite.subscribe",
                            "daemon.status"},
                 cmds' = Ext!BagAdd(Ext!BagRemove(cmds, c), Cmd(k, 0))
          PROVE  CmdsOK'
      <3>1. CmdOK(Cmd(k, 0), Len(calls'))
        BY PlainCmd
      <3> QED
        BY <1>1, <2>2, <3>1, CmdsGrow
    <2> QED
      BY <2>1, <2>2
  <1>3. FlagsOK'
    BY DEF FlagsOK
  <1> QED
    BY <1>1, <1>2, <1>3, DockKept

(* callStartedMsg. *)
LEMMA StartedStep ==
    ASSUME TuiConstants, TuiInv, NEW c \in DOMAIN cmds, UpdateCallStarted(c),
           UNCHANGED <<callTargetName, frozen, link, keys>>
    PROVE  Shown'
  <1> USE DEF TuiInv, Shown, paneVars
  <1>1. UNCHANGED <<modal, exited, calls, codes>>
    BY DEF UpdateCallStarted
  <1>2. CallsOK' /\ CallsGrew
    BY <1>1, SameCalls
  <1>3. CmdsOK'
    <2>1. c.kind = "started" /\ cmds' = Ext!BagAdd(Ext!BagRemove(cmds, c), Cmd("wait start", c.arg))
      BY DEF UpdateCallStarted, Becomes
    <2>2. CmdOK(Cmd("wait start", c.arg), Len(calls'))
      BY <1>1, <2>1 DEF CmdsOK, CmdOK, Cmd
    <2> QED
      BY <1>2, <2>1, <2>2, CmdsGrow
  <1>4. DockOK' /\ footer' \in {footer, "ringing"}
    <2>1. CASE UNCHANGED <<dock, footer>>
      BY <1>2, <2>1, DockKept
    <2>2. CASE /\ dock' = [state |-> "calling", call |-> 0, remote |-> <<"name", callTargetName>>]
               /\ footer' = "ringing"
      BY <2>2, NewDock
    <2> QED
      BY <2>1, <2>2 DEF UpdateCallStarted
  <1>5. FlagsOK'
    BY <1>1, <1>4 DEF FlagsOK
  <1> QED
    BY <1>1, <1>2, <1>3, <1>4, <1>5, ModalKept

(* subEventMsg. *)
LEMMA CallEventStep ==
    ASSUME TuiConstants, TuiInv, NEW c \in DOMAIN cmds, UpdateCallEvent(c),
           UNCHANGED <<callTargetName, frozen, link, keys>>
    PROVE  Shown'
  <1> USE DEF TuiInv, Shown, paneVars
  <1>1. CallsGrew /\ \E cs, i, s : /\ cs = calls' /\ i \in 1 .. Len(cs) /\ s \in EventStates
                                  /\ applyCallStateChange(cs, i, s)
    <2>1. CASE c.kind = "wait start" /\ UNCHANGED calls
               /\ \E s \in EventStates : applyCallStateChange(calls, c.arg, s)
      <3>1. CallsGrew
        BY <2>1, SameCalls
      <3>2. c.arg \in 1 .. Len(calls)
        BY <2>1 DEF CmdsOK, CmdOK
      <3> QED
        BY <2>1, <3>1, <3>2
    <2>2. CASE UNCHANGED calls
               /\ \E i \in DOMAIN calls, s \in EventStates : applyCallStateChange(calls, i, s)
      <3>1. CallsGrew
        BY <2>2, SameCalls
      <3>2. DOMAIN calls = 1 .. Len(calls)
        BY DEF CallsOK
      <3> QED
        BY <2>2, <3>1, <3>2
    <2>3. ASSUME NEW p \in Friends, NEW s \in EventStates, Len(calls) < MaxCalls,
                 calls' = Append(calls, [dir |-> "inbound", peer |-> p]),
                 applyCallStateChange(calls', Len(calls'), s)
          PROVE  CallsGrew /\ Len(calls') \in 1 .. Len(calls')
      <3>1. [dir |-> "inbound", peer |-> p] \in CallRecords
        BY DEF CallRecords
      <3>2. CallsGrew
        BY <2>3, <3>1, Grow
      <3>3. Len(calls') = Len(calls) + 1 /\ Len(calls) \in Nat
        BY <2>3 DEF CallsOK
      <3> QED
        BY <3>2, <3>3
    <2> QED
      BY <2>1, <2>2, <2>3 DEF UpdateCallEvent
  <1>2. /\ DockOK' /\ ModalOK'
        /\ footer' = footer \/ footer' \in {"connected", "idle", "ringing"}
    BY <1>1, Applied
  <1>3. CallsOK'
    BY <1>1 DEF CallsGrew, CallsOK
  <1>4. CmdsOK'
    <2>1. CASE cmds' = Ext!BagRemove(cmds, c)
      BY <1>1, <2>1, CmdsLess
    <2>2. CASE cmds' = Ext!BagAdd(Ext!BagRemove(cmds, c), Cmd("calls.list", 0))
      <3>1. CmdOK(Cmd("calls.list", 0), Len(calls'))
        BY PlainCmd
      <3> QED
        BY <1>1, <2>2, <3>1, CmdsGrow
    <2>3. CASE ~Active(dock) /\ Active(dock)'
      BY <2>2, <2>3 DEF UpdateCallEvent, Becomes
    <2>4. CASE ~(~Active(dock) /\ Active(dock)')
      BY <2>1, <2>4 DEF UpdateCallEvent, Taken
    <2> QED
      BY <2>3, <2>4
  <1>5. FlagsOK'
    BY <1>2 DEF FlagsOK, UpdateCallEvent
  <1> QED
    BY <1>2, <1>3, <1>4, <1>5

(* Update, message by message. *)
LEMMA UpdateStep ==
    ASSUME TuiConstants, TuiInv, NEW c \in DOMAIN cmds, Update(c)
    PROVE  Shown'
  <1> USE DEF TuiInv, Shown, paneVars
  <1>1. UNCHANGED <<callTargetName, frozen, link, keys>>
    BY DEF Update
  <1>2. /\ footer \in {"idle", "ringing", "connected", "daemonDown", "error"}
        /\ exited \in BOOLEAN /\ codes \in 0 .. MaxCodes
    BY DEF FlagsOK
  <1>3. ASSUME calls' = calls, modal' = modal PROVE ModalOK'
    BY <1>3, SameCalls, ModalKept
  <1>4. CASE UpdateError(c)
    <2>1. UNCHANGED <<calls, dock, modal, exited, codes>> /\ footer' = "error"
          /\ cmds' = Ext!BagRemove(cmds, c)
      BY <1>4 DEF UpdateError, Taken
    <2> QED
      BY <1>1, <1>2, <1>3, <2>1, PlainUpdate
  <1>5. CASE UpdateIgnored(c)
    <2>1. UNCHANGED <<calls, dock, modal, footer, exited, codes>>
          /\ cmds' = Ext!BagRemove(cmds, c)
      BY <1>5 DEF UpdateIgnored, Taken
    <2> QED
      BY <1>1, <1>2, <1>3, <2>1, PlainUpdate
  <1>6. CASE UpdateFriends(c)
    <2>1. UNCHANGED <<calls, dock, modal, footer, exited, codes>>
          /\ cmds' = Ext!BagRemove(cmds, c)
      BY <1>6 DEF UpdateFriends, Taken
    <2> QED
      BY <1>1, <1>2, <1>3, <2>1, PlainUpdate
  <1>7. CASE UpdateSubscribed(c)
    <2>1. UNCHANGED <<calls, dock, modal, footer, exited, codes>>
          /\ \E k \in {"wait calls", "wait invite"} :
                cmds' = Ext!BagAdd(Ext!BagRemove(cmds, c), Cmd(k, 0))
      BY <1>7 DEF UpdateSubscribed, Becomes
    <2> QED
      BY <1>1, <1>2, <1>3, <2>1, PlainUpdate
  <1>8. CASE UpdateCallsList(c)
    <2>1. UNCHANGED <<calls, dock, modal, footer, exited, codes>>
          /\ (cmds' = cmds \/ cmds' = Ext!BagRemove(cmds, c))
      BY <1>8 DEF UpdateCallsList, Taken
    <2> QED
      BY <1>1, <1>2, <1>3, <2>1, PlainUpdate
  <1>9. CASE UpdateInviteCreated(c)
    <2>1. UNCHANGED <<calls, dock, footer, exited>> /\ codes' \in 0 .. MaxCodes
      BY <1>2, <1>9 DEF UpdateInviteCreated, TuiConstants
    <2>2. CASE modal.kind = "invite"
      <3>1. /\ modal' = [modal EXCEPT !.state = "active"]
            /\ cmds' = Ext!BagAdd(Ext!BagRemove(cmds, c), Cmd("invite.subscribe", 0))
        BY <1>9, <2>2 DEF UpdateInviteCreated, Becomes
      <3>2. modal = [kind |-> "invite", state |-> modal.state]
        BY <2>2 DEF ModalOK
      <3>3. modal' = [kind |-> "invite", state |-> "active"]
        BY <3>1, <3>2
      <3>4. ModalOK'
        BY <3>3 DEF ModalOK
      <3> QED
        BY <1>1, <1>2, <2>1, <3>1, <3>4, PlainUpdate
    <2>3. CASE modal.kind # "invite"
      <3>1. modal' = modal /\ cmds' = Ext!BagRemove(cmds, c)
        BY <1>9, <2>3 DEF UpdateInviteCreated, Taken
      <3> QED
        BY <1>1, <1>2, <1>3, <2>1, <3>1, PlainUpdate
    <2> QED
      BY <2>2, <2>3
  <1>10. CASE UpdateRedeemed(c)
    <2>1. UNCHANGED <<calls, dock, footer, exited, codes>> /\ cmds' = Ext!BagRemove(cmds, c)
      BY <1>10 DEF UpdateRedeemed, Taken
    <2>2. ModalOK'
      <3>1. CASE modal.kind = "invite"
        <4>1. modal' = [modal EXCEPT !.state = "redeemed"]
          BY <1>10, <3>1 DEF UpdateRedeemed
        <4>2. modal = [kind |-> "invite", state |-> modal.state]
          BY <3>1 DEF ModalOK
        <4>3. modal' = [kind |-> "invite", state |-> "redeemed"]
          BY <4>1, <4>2
        <4> QED
          BY <4>3 DEF ModalOK
      <3>2. CASE modal.kind # "invite"
        BY <1>3, <1>10, <2>1, <3>2 DEF UpdateRedeemed
      <3> QED
        BY <3>1, <3>2
    <2> QED
      BY <1>1, <1>2, <2>1, <2>2, PlainUpdate
  <1>11. CASE UpdateStatus(c)
    <2>1. UNCHANGED <<calls, dock, modal, exited, codes>>
          /\ cmds' = Ext!BagAdd(Ext!BagRemove(cmds, c), Cmd("daemon.status", 0))
      BY <1>11 DEF UpdateStatus, Becomes
    <2>2. footer' \in {"daemonDown", "idle", footer}
      BY <1>11 DEF UpdateStatus
    <2> QED
      BY <1>1, <1>2, <1>3, <2>1, <2>2, PlainUpdate
  <1>12. CASE UpdateQuit(c)
    <2>1. UNCHANGED <<calls, dock, modal, footer, codes>> /\ exited' = TRUE
          /\ cmds' = EmptyBag
      BY <1>12 DEF UpdateQuit, Quit
    <2> QED
      BY <1>1, <1>2, <1>3, <2>1, PlainUpdate
  <1> QED
    BY <1>1, <1>4, <1>5, <1>6, <1>7, <1>8, <1>9, <1>10, <1>11, <1>12, StartedStep, CallEventStep
       DEF Update

(* At the start nothing is shown and the first commands refer to no call. *)
LEMMA TuiStart == ASSUME TuiConstants, TuiInit PROVE TuiInv
  <1>1. PaneOK
    <2>1. MaxInput \in Nat
      <3> DEFINE T == SUBSET Friends
      <3>1. Matches \in Seq(T) /\ Matches # << >>
        BY DEF TuiConstants
      <3> HIDE DEF T
      <3> QED
        BY <3>1 DEF MaxInput
    <2>2. friends \in Seq(Friends) /\ Len(friends) = 0
      BY DEF TuiInit
    <2>3. visible(friends, filter) = << >>
      <3>1. PICK F : Filtered(F, friends, Matches[filter + 1], Len(friends))
                     /\ visible(friends, filter) = F[Len(friends)]
        BY <2>2, VisibleForm
      <3>2. F[0] = << >> /\ visible(friends, filter) = F[0]
        BY <2>2, <3>1 DEF Filtered
      <3> QED
        BY <3>2
    <2>4. /\ friends = << >> /\ selected = 0 /\ filter = 0 /\ filtering = FALSE
          /\ focus = Nobody
      BY DEF TuiInit
    <2>5. filter \in 0 .. MaxInput /\ FocusIsSelection
      BY <2>1, <2>3, <2>4 DEF FocusIsSelection
    <2> QED
      BY <2>4, <2>5 DEF PaneOK
  <1>2. CallsOK
    <2>1. calls \in Seq(CallRecords) /\ Len(calls) = 0
      BY DEF TuiInit
    <2> QED
      BY <2>1 DEF CallsOK, TuiConstants
  <1>3. CmdsOK
    <2> DEFINE A == SetToBag({Cmd("friends.list", 0), Cmd("calls.subscribe", 0)})
               B == [c \in {Cmd("daemon.status", 0)} |-> 2]
    <2>1. cmds = (+)(A, B)
      BY DEF TuiInit
    <2>2. /\ DOMAIN A = {Cmd("friends.list", 0), Cmd("calls.subscribe", 0)}
          /\ DOMAIN B = {Cmd("daemon.status", 0)}
          /\ (\A c \in DOMAIN A : A[c] = 1) /\ \A c \in DOMAIN B : B[c] = 2
      BY DEF SetToBag
    <2> HIDE DEF A, B
    <2>3. /\ cmds = [e \in DOMAIN cmds |-> cmds[e]] /\ DOMAIN cmds = DOMAIN A \cup DOMAIN B
          /\ \A e \in DOMAIN cmds : cmds[e] = (IF e \in DOMAIN A THEN A[e] ELSE 0)
                                              + (IF e \in DOMAIN B THEN B[e] ELSE 0)
      BY <2>1 DEF (+)
    <2>4. \A e \in DOMAIN cmds : cmds[e] \in {n \in Nat : n > 0}
      BY <2>2, <2>3
    <2>5. IsABag(cmds)
      BY <2>3, <2>4 DEF IsABag
    <2>6. \A c \in DOMAIN cmds : CmdOK(c, Len(calls))
      <3>1. \A k \in {"friends.list", "calls.subscribe", "daemon.status"} :
               CmdOK(Cmd(k, 0), Len(calls))
        BY PlainCmd
      <3> QED
        BY <2>2, <2>3, <3>1
    <2> QED
      BY <2>5, <2>6 DEF CmdsOK
  <1>4. DockOK
    <2>1. 0 \in CallIDs /\ <<"name", Nobody>> \in Displays
      BY DEF CallIDs, TuiConstants, Displays
    <2> QED
      BY <2>1 DEF DockOK, TuiInit, NoDock
  <1>5. ModalOK /\ FlagsOK
    <2>1. modal.kind = "none"
      BY DEF TuiInit, NoModal
    <2>2. /\ callTargetName = Nobody /\ footer = "idle" /\ frozen = FALSE /\ exited = FALSE
          /\ link = "ok" /\ codes = 0 /\ keys = 0
      BY DEF TuiInit
    <2>3. codes \in 0 .. MaxCodes /\ keys \in 0 .. MaxKeys
      BY <2>2 DEF TuiConstants
    <2>4. FlagsOK
      BY <2>2, <2>3 DEF FlagsOK
    <2> QED
      BY <2>1, <2>4 DEF ModalOK
  <1> QED
    BY <1>1, <1>2, <1>3, <1>4, <1>5 DEF TuiInv, Shown

(* The pane, the calls and everything that refers to them. *)
LEMMA TuiInvHolds == TuiSpec => []TuiInv
  <1> TuiConstants
    BY FilterAssumption
  <1>1. TuiInit => TuiInv
    BY TuiStart
  <1>2. TuiInv /\ [TuiNext]_tuiVars => TuiInv'
    <2> SUFFICES ASSUME TuiInv, [TuiNext]_tuiVars PROVE TuiInv'
      OBVIOUS
    <2>1. PaneOK'
      BY PaneStep DEF TuiInv
    <2>2. Shown'
      BY KeyStep, OtherStep, RunsStep, UpdateStep DEF TuiNext
    <2> QED
      BY <2>1, <2>2 DEF TuiInv
  <1> QED
    BY <1>1, <1>2, PTL DEF TuiSpec

(* For any friends, filters and bounds: the focused friend is the one      *)
(* under the selection after every key, filter and late friends.list, so   *)
(* that enter calls whom the pane shows.                                   *)
THEOREM FocusFollows == TuiSpec => []FocusIsSelection
  <1>1. TuiInv => FocusIsSelection
    BY DEF TuiInv, PaneOK
  <1> QED
    BY <1>1, TuiInvHolds, PTL

(* For any friends, calls and bounds: the dock and the modal name the peer *)
(* of the call they act on, whatever the order of answers, events and      *)
(* keys.                                                                   *)
THEOREM ShownIsMeant == TuiSpec => [](TuiTypeOK /\ NamesTheCall)
  <1>1. TuiInv => TuiTypeOK /\ NamesTheCall
    BY DEF TuiInv, Shown, PaneOK, CallsOK, CmdsOK, DockOK, ModalOK, FlagsOK, CallRecords,
           TuiTypeOK, NamesTheCall
  <1> QED
    BY <1>1, TuiInvHolds, PTL
=============================================================================
