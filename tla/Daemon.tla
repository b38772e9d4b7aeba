------------------------------- MODULE Daemon -------------------------------
(***************************************************************************)
(* Daemon processes of one user: app.Run (app/daemon.go) with the order in *)
(* which it acquires and releases what it runs on, ipc.Listen and its      *)
(* single-instance check (ipc/transport_unix.go), shutdown, and the        *)
(* commands that find or spawn a daemon (cli/daemon_ensure.go, daemon.go). *)
(*                                                                         *)
(* The socket path holds the socket file of one daemon, live or left over. *)
(* net.Listen fails when the path exists, a dial succeeds when the         *)
(* listener behind the file is open, and closing a listener unlinks the    *)
(* path, whoever's file is there now.                                      *)
(*                                                                         *)
(* Run also starts goroutines that nobody waits for: the audio manager's   *)
(* loop, and under the inner context the publisher, the address watcher    *)
(* and the version checker, one of which stands for the three.  They stop  *)
(* some time after their context is done, which may be after the host is   *)
(* closed: the model lets them run until the process ends.  Left out is    *)
(* notify.WatchCalls, which uses only the calls in memory and runs under   *)
(* the context of the caller of Run.                                       *)
(***************************************************************************)
EXTENDS Naturals, Sequences, FiniteSets, Functions

CONSTANTS Daemons,      \* processes
          Commands,     \* invocations of the command line
          NoDaemon,     \* the path does not exist
          MaxCrashes    \* bound on killed daemons

ASSUME NoDaemonAssumption == NoDaemon \notin Daemons
ASSUME CrashAssumption == MaxCrashes \in Nat

(* What Run acquires and what each part uses until it is released; "inner" *)
(* is the inner context, whose release is the deferred cancel.             *)
Resources == {"host", "peerstore", "engine", "audio", "invites", "listener", "inner"}
Needs == [r \in Resources |->
            CASE r = "host"     -> {}
              [] r = "audio"    -> {"host", "engine"}
              [] r = "listener" -> {"host", "engine", "invites"}
              [] OTHER          -> {"host"}]

VARIABLES
    pc,          \* pc[d]: the next step of Run
    held,        \* held[d]: acquired resources, the latest last (the defers)
    cancelled,   \* cancelled[d]: the inner context is done
    loop,        \* loop[d]: the goroutine of audio.Manager.Start, until cancelled
    background,  \* background[d]: goroutines of the inner context may run
    listening,   \* daemons with an open listener
    path,        \* whose socket file is at SocketPath
    conns,       \* conns[d]: commands that d serves
    contested,   \* see SocketKept (ghost)
    alone,       \* in Listen, and since it began no other process ran and no
                 \* call of it was refused by the system (ghost)
    crashes,
    cmd          \* cmd[c]: position of a command

taskVars == <<loop, background>>
runVars == <<pc, held, cancelled, taskVars>>
sockVars == <<listening, path, contested, alone>>
vars == <<pc, held, cancelled, loop, background, listening, path, conns, contested, alone, crashes, cmd>>

Listens == {"dial", "remove", "bind", "chmod"}
TypeOK ==
    /\ pc \in [Daemons -> {"off", "stores", "host", "peerstore", "engine", "audio",
                           "invites", "mdns", "background", "serve", "wait", "unwind"}
                          \cup Listens]
    /\ held \in [Daemons -> Seq(Resources)]
    /\ cancelled \in [Daemons -> BOOLEAN]
    /\ loop \in [Daemons -> {"none", "spawned", "running", "stray"}]
    /\ background \in [Daemons -> BOOLEAN]
    /\ listening \subseteq Daemons
    /\ path \in Daemons \cup {NoDaemon}
    /\ conns \in [Daemons -> SUBSET Commands]
    /\ contested \subseteq Daemons /\ alone \subseteq Daemons
    /\ crashes \in Nat
    /\ cmd \in [Commands -> {"idle", "poll", "dial", "connected"}]

Goto(d, l) == pc' = [pc EXCEPT ![d] = l]
Push(d, r) == held' = [held EXCEPT ![d] = Append(@, r)]
-----------------------------------------------------------------------------
(* Start-up.  An error returns from Run: the deferred calls follow. *)

(* A step that acquires r, or fails and returns. *)
Acquire(d, at, r, next) ==
    /\ pc[d] = at
    /\ \/ Push(d, r) /\ Goto(d, next)
       \/ Goto(d, "unwind") /\ UNCHANGED held
    /\ UNCHANGED <<cancelled, taskVars, sockVars, conns, crashes, cmd>>

(* The friends file, the peer cache and the invites are read. *)
OpenStores(d) ==
    /\ pc[d] = "stores"
    /\ Goto(d, "host") \/ Goto(d, "unwind")
    /\ UNCHANGED <<held, cancelled, taskVars, sockVars, conns, crashes, cmd>>

NewHost(d) == Acquire(d, "host", "host", "peerstore")

(* LoadPeerstore's errors are logged; SavePeerstore is deferred. *)
LoadPeerstore(d) == Acquire(d, "peerstore", "peerstore", "engine")

(* Notifier, resolver, publisher, call manager and engine. *)
StartEngine(d) == Acquire(d, "engine", "engine", "audio")

(* The audio plane, when it is not disabled: its loop is spawned and Stop  *)
(* deferred.  NewManager does not fail.                                    *)
StartAudio(d) ==
    /\ pc[d] = "audio"
    /\ Goto(d, "invites")
    /\ \/ Push(d, "audio") /\ loop' = [loop EXCEPT ![d] = "spawned"]
       \/ UNCHANGED <<held, loop>>
    /\ UNCHANGED <<cancelled, background, sockVars, conns, crashes, cmd>>

(* The head of audio.Manager.Start gives Stop something to cancel, if it   *)
(* comes before Stop.                                                      *)
LoopBegins(d) ==
    /\ loop[d] = "spawned"
    /\ loop' = [loop EXCEPT ![d] = IF "audio" \in Range(held[d]) THEN "running" ELSE "stray"]
    /\ UNCHANGED <<pc, held, cancelled, background, sockVars, conns, crashes, cmd>>

StartInvites(d) == Acquire(d, "invites", "invites", "mdns")

(* mDNS may be disabled or fail: neither stops the daemon.  Its deferred    *)
(* stop concerns nothing else here and is left out.                        *)
EnableMDNS(d) ==
    /\ pc[d] = "mdns"
    /\ Goto(d, "dial")
    /\ alone' = IF \A e \in Daemons \ {d} : pc[e] = "off" THEN {d} ELSE alone \ {d}
    /\ UNCHANGED <<held, cancelled, taskVars, listening, path, contested, conns, crashes, cmd>>
-----------------------------------------------------------------------------
(* ipc.Listen. *)

Live(d) == path = d /\ d \in listening
Reachable == \E d \in Daemons : Live(d)

(* Faulty: the path is taken without asking who is there. *)
ListenDialUnchecked(d) ==
    /\ pc[d] = "dial"
    /\ Goto(d, "remove")
    /\ UNCHANGED <<held, cancelled, taskVars, sockVars, conns, crashes, cmd>>

(* Close of a listener unlinks the path once. *)
CloseListener(d) ==
    IF d \in listening
    THEN listening' = listening \ {d} /\ path' = NoDaemon
    ELSE UNCHANGED <<listening, path>>

(* DialTimeout: somebody who accepts owns the path. *)
ListenDial(d) ==
    /\ pc[d] = "dial"
    /\ Goto(d, IF Reachable THEN "unwind" ELSE "remove")
    /\ UNCHANGED <<held, cancelled, taskVars, sockVars, conns, crashes, cmd>>

(* Faulty: a leftover socket file is not removed. *)
ListenRemoveNothing(d) ==
    /\ pc[d] = "remove"
    /\ Goto(d, "bind")
    /\ UNCHANGED <<held, cancelled, taskVars, sockVars, conns, crashes, cmd>>

(* os.Remove of whatever is at the path now; a path that does not exist    *)
(* will do.                                                                *)
ListenRemove(d) ==
    /\ pc[d] = "remove"
    /\ path' = NoDaemon
    /\ Goto(d, "bind")
    /\ UNCHANGED <<held, cancelled, taskVars, listening, conns, contested, alone, crashes, cmd>>

(* net.Listen: fails when the path exists again. *)
ListenBind(d) ==
    /\ pc[d] = "bind"
    /\ IF path # NoDaemon
       THEN Goto(d, "unwind") /\ UNCHANGED sockVars
       ELSE /\ path' = d
            /\ listening' = listening \cup {d}
            /\ UNCHANGED alone
            /\ contested' = IF \E e \in Daemons \ {d} : pc[e] = "remove" \/ e \in listening
                            THEN contested \cup {d} ELSE contested \ {d}
            /\ Goto(d, "chmod")
    /\ UNCHANGED <<held, cancelled, taskVars, conns, crashes, cmd>>

(* os.Chmod by path: when the file is gone the listener is closed again,   *)
(* otherwise Run defers its Close.                                         *)
ListenChmod(d) ==
    /\ pc[d] = "chmod"
    /\ IF path = NoDaemon
       THEN Goto(d, "unwind") /\ listening' = listening \ {d} /\ UNCHANGED <<held, alone>>
       ELSE /\ Goto(d, "background") /\ Push(d, "listener")
            /\ alone' = alone \ {d}
            /\ UNCHANGED listening
    /\ UNCHANGED <<cancelled, taskVars, path, conns, contested, crashes, cmd>>

(* The system refuses to remove, bind or chmod: Listen returns an error    *)
(* and has closed what it had opened.                                      *)
ListenFails(d) ==
    /\ pc[d] \in {"remove", "bind", "chmod"}
    /\ Goto(d, "unwind")
    /\ CloseListener(d)
    /\ alone' = alone \ {d}
    /\ UNCHANGED <<held, cancelled, taskVars, conns, contested, crashes, cmd>>

(* Faulty: the cancel of the inner context is left to daemon.shutdown. *)
StartBackgroundUndeferred(d) ==
    /\ pc[d] = "background"
    /\ Goto(d, "serve")
    /\ background' = [background EXCEPT ![d] = TRUE]
    /\ UNCHANGED <<held, cancelled, loop, sockVars, conns, crashes, cmd>>

(* The inner context and its deferred cancel, the goroutines that run      *)
(* under it, the method table, Serve.                                      *)
StartBackground(d) ==
    /\ pc[d] = "background"
    /\ Goto(d, "serve")
    /\ Push(d, "inner")
    /\ background' = [background EXCEPT ![d] = TRUE]
    /\ UNCHANGED <<cancelled, loop, sockVars, conns, crashes, cmd>>
-----------------------------------------------------------------------------
(* Shutdown. *)

(* An interrupt, at any time of its life. *)
Interrupt(d) ==
    /\ pc[d] # "off" /\ ~cancelled[d]
    /\ cancelled' = [cancelled EXCEPT ![d] = TRUE]
    /\ UNCHANGED <<pc, held, taskVars, sockVars, conns, crashes, cmd>>

(* daemon.shutdown of a connected command cancels the inner context. *)
DaemonShutdown(d) ==
    /\ conns[d] # {} /\ ~cancelled[d]
    /\ cancelled' = [cancelled EXCEPT ![d] = TRUE]
    /\ UNCHANGED <<pc, held, taskVars, sockVars, conns, crashes, cmd>>

(* Faulty: the watcher leaves the listener open and Accept goes on. *)
ServeWatcherIdle(d) ==
    /\ pc[d] = "serve" /\ cancelled[d]
    /\ UNCHANGED vars

(* Serve's watcher closes the listener; Accept fails and Serve waits, or   *)
(* it was waiting already after an Accept that failed.                     *)
ServeWatcher(d) ==
    /\ pc[d] = "serve" \/ (pc[d] = "wait" /\ d \in listening)
    /\ cancelled[d]
    /\ Goto(d, "wait")
    /\ CloseListener(d)
    /\ UNCHANGED <<held, cancelled, taskVars, conns, contested, alone, crashes, cmd>>

(* Accept fails for another reason; the listener stays open meanwhile. *)
AcceptFails(d) ==
    /\ pc[d] = "serve" /\ ~cancelled[d]
    /\ Goto(d, "wait")
    /\ UNCHANGED <<held, cancelled, taskVars, sockVars, conns, crashes, cmd>>

(* wg.Wait is over: Serve and with it Run returns. *)
ServeReturns(d) ==
    /\ pc[d] = "wait" /\ conns[d] = {}
    /\ Goto(d, "unwind")
    /\ UNCHANGED <<held, cancelled, taskVars, sockVars, conns, crashes, cmd>>

(* One deferred call, the latest first.  Manager.Stop of the audio plane   *)
(* cancels the loop if it has begun.                                       *)
Release(d) ==
    /\ pc[d] = "unwind" /\ held[d] # << >>
    /\ LET r == held[d][Len(held[d])] IN
       /\ held' = [held EXCEPT ![d] = SubSeq(@, 1, Len(@) - 1)]
       /\ cancelled' = [cancelled EXCEPT ![d] = @ \/ r = "inner"]
       /\ loop' = [loop EXCEPT ![d] = IF r = "audio" /\ @ = "running" THEN "none" ELSE @]
       /\ IF r = "listener" THEN CloseListener(d) ELSE UNCHANGED <<listening, path>>
    /\ UNCHANGED <<pc, background, conns, contested, alone, crashes, cmd>>

(* The process ends, and with it every goroutine. *)
Exit(d) ==
    /\ pc[d] = "unwind" /\ held[d] = << >>
    /\ Goto(d, "off")
    /\ cancelled' = [cancelled EXCEPT ![d] = FALSE]
    /\ loop' = [loop EXCEPT ![d] = "none"]
    /\ background' = [background EXCEPT ![d] = FALSE]
    /\ contested' = contested \ {d} /\ alone' = alone \ {d}
    /\ UNCHANGED <<held, listening, path, conns, crashes, cmd>>

(* The process is killed: its socket file stays. *)
Crash(d) ==
    /\ pc[d] # "off" /\ crashes < MaxCrashes
    /\ crashes' = crashes + 1
    /\ Goto(d, "off")
    /\ held' = [held EXCEPT ![d] = << >>]
    /\ cancelled' = [cancelled EXCEPT ![d] = FALSE]
    /\ loop' = [loop EXCEPT ![d] = "none"]
    /\ background' = [background EXCEPT ![d] = FALSE]
    /\ listening' = listening \ {d}
    /\ cmd' = [c \in Commands |-> IF c \in conns[d] THEN "idle" ELSE cmd[c]]
    /\ conns' = [conns EXCEPT ![d] = {}]
    /\ contested' = contested \ {d} /\ alone' = alone \ {d}
    /\ UNCHANGED path
-----------------------------------------------------------------------------
(* Commands, and daemons started by hand or as a service. *)

runDaemonStart(d) ==
    /\ pc[d] = "off"
    /\ Goto(d, "stores")
    /\ alone' = {}
    /\ UNCHANGED <<held, cancelled, taskVars, listening, path, contested, conns, crashes, cmd>>

(* EnsureDaemonRunning: probe, and spawn a daemon when nobody answers. *)
EnsureDaemonRunning(c) ==
    /\ cmd[c] = "idle"
    /\ \/ /\ Reachable
          /\ cmd' = [cmd EXCEPT ![c] = "dial"]
          /\ UNCHANGED <<pc, alone>>
       \/ /\ ~Reachable
          /\ \E d \in Daemons : pc[d] = "off" /\ Goto(d, "stores")
          /\ alone' = {}
          /\ cmd' = [cmd EXCEPT ![c] = "poll"]
    /\ UNCHANGED <<held, cancelled, taskVars, listening, path, contested, conns, crashes>>

(* The poll finds a listener, or the deadline passes. *)
Poll(c) ==
    /\ cmd[c] = "poll"
    /\ cmd' = [cmd EXCEPT ![c] = IF Reachable THEN "dial" ELSE "idle"]
    /\ UNCHANGED <<runVars, sockVars, conns, crashes>>

(* dialDaemon, with the hello of a daemon that serves, or without success. *)
dialDaemon(c) ==
    /\ cmd[c] = "dial"
    /\ \/ \E d \in Daemons :
             /\ Live(d) /\ pc[d] = "serve"
             /\ conns' = [conns EXCEPT ![d] = @ \cup {c}]
             /\ cmd' = [cmd EXCEPT ![c] = "connected"]
       \/ cmd' = [cmd EXCEPT ![c] = "idle"] /\ UNCHANGED conns
    /\ UNCHANGED <<runVars, sockVars, crashes>>

Close(c) ==
    /\ cmd[c] = "connected"
    /\ cmd' = [cmd EXCEPT ![c] = "idle"]
    /\ conns' = [d \in Daemons |-> conns[d] \ {c}]
    /\ UNCHANGED <<runVars, sockVars, crashes>>
-----------------------------------------------------------------------------
Init ==
    /\ pc = [d \in Daemons |-> "off"]
    /\ held = [d \in Daemons |-> << >>]
    /\ cancelled = [d \in Daemons |-> FALSE]
    /\ loop = [d \in Daemons |-> "none"]
    /\ background = [d \in Daemons |-> FALSE]
    /\ listening = {} /\ contested = {} /\ alone = {}
    /\ path \in Daemons \cup {NoDaemon}      \* an earlier daemon may have left its file
    /\ conns = [d \in Daemons |-> {}]
    /\ crashes = 0
    /\ cmd = [c \in Commands |-> "idle"]

Run(d) ==
    \/ OpenStores(d) \/ NewHost(d) \/ LoadPeerstore(d) \/ StartEngine(d) \/ StartAudio(d)
    \/ StartInvites(d) \/ EnableMDNS(d)
    \/ ListenDial(d) \/ ListenRemove(d) \/ ListenBind(d) \/ ListenChmod(d)
    \/ StartBackground(d) \/ ServeWatcher(d) \/ ServeReturns(d)
    \/ Release(d) \/ Exit(d)

Next ==
    \/ \E d \in Daemons : runDaemonStart(d) \/ Run(d) \/ Interrupt(d)
                          \/ DaemonShutdown(d) \/ AcceptFails(d) \/ Crash(d)
                          \/ ListenFails(d) \/ LoopBegins(d)
    \/ \E c \in Commands : EnsureDaemonRunning(c) \/ Poll(c) \/ dialDaemon(c) \/ Close(c)

(* A process that runs goes on; every deferred call returns. *)
Fairness == \A d \in Daemons : WF_vars(Run(d))

Spec     == Init /\ [][Next]_vars
FairSpec == Spec /\ Fairness
-----------------------------------------------------------------------------
(* Nobody waits for the goroutines of Run, so all that stands between them *)
(* and a host that is closed is that they are told before: whatever fails  *)
(* on the way up or in Serve, and whenever the daemon is told to stop, a   *)
(* goroutine is running and not cancelled only while all that it uses is   *)
(* held.  Excused is an audio loop that begins after Manager.Stop, which   *)
(* had nothing to cancel.  And no listener is left open by Run.            *)
GoroutinesAreToldFirst ==
    \A d \in Daemons :
       /\ loop[d] = "running" => Needs["audio"] \subseteq Range(held[d])
       /\ background[d] /\ ~cancelled[d] => Needs["inner"] \subseteq Range(held[d])
       /\ d \in listening => pc[d] = "chmod" \/ "listener" \in Range(held[d])

(* Once a daemon listens, nobody who starts later takes the path from it:  *)
(* it goes only with that daemon's own listener.  Excused is a daemon that *)
(* bound while another had already found the path free and was about to    *)
(* remove it, or still had an older listener open: Listen does not exclude *)
(* that.                                                                   *)
SocketKept ==
    [][\A d \in Daemons :
          Live(d) /\ d \notin contested /\ path' # d => d \notin listening']_vars

(* A daemon that starts with no other process around gets its socket,      *)
(* whatever file an earlier one has left at the path, unless the system    *)
(* refuses one of its calls.                                               *)
LeftoversAreNoObstacle ==
    [][\A d \in Daemons :
          d \in alone' /\ pc[d] \in Listens => pc'[d] # "unwind"]_vars

(* A daemon that is told to stop exits, at whatever point of its start or  *)
(* its work it is; only a client that stays connected can hold it up.      *)
ShutdownCompletes ==
    \A d \in Daemons : cancelled[d] ~> pc[d] = "off" \/ conns[d] # {}

(* What app.Run and ipc.Listen say: one daemon at a time is past Listen. *)
SingleInstance ==
    \A d, e \in Daemons : pc[d] = "serve" /\ pc[e] = "serve" => d = e
=============================================================================
