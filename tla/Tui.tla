-------------------------------- MODULE Tui --------------------------------
(***************************************************************************)
(* The terminal UI (cli/tui): the root Model with its panes, call dock,    *)
(* footer and one modal, and the commands it has in flight (ipc_commands). *)
(* Bubble Tea runs each command in a goroutine of its own and hands its    *)
(* message to Update, one message at a time and in no order between        *)
(* commands; cmds holds the commands that run and the messages that wait.  *)
(* Keys go to the same Update.                                             *)
(*                                                                         *)
(* One IPC connection serves the program.  It answers, stalls so that      *)
(* requests time out (ipcTimeout), or is lost, and then for good: nothing  *)
(* dials again.  A call is the number of its session at the daemon, 0 is   *)
(* the empty ID.  Text typed into the filter is a prefix of one word, and  *)
(* Matches[n] the friends whose name contains its first n letters.  Levels *)
(* and layout are left out.                                                *)
(***************************************************************************)
EXTENDS Integers, Sequences, Bags

Ext == INSTANCE BagsExt

CONSTANTS FriendList,     \* what friends.list answers
          Matches,
          Nobody,
          EventStates,    \* states of a session that events report
          MaxCalls,       \* calls at the daemon
          MaxCodes,       \* invites created
          MaxKeys         \* keys pressed, those of the filter input apart

Friends == {FriendList[i] : i \in DOMAIN FriendList}
MaxInput == Len(Matches) - 1

TuiConstants ==
    /\ FriendList \in Seq(Friends)
    /\ Matches \in Seq(SUBSET Friends) \ {<< >>} /\ Matches[1] = Friends
    /\ \A n \in 1 .. MaxInput : Matches[n + 1] \subseteq Matches[n]
    /\ EventStates \subseteq {"ringing", "connecting", "connected", "ended"}
    /\ MaxCalls \in Nat /\ MaxCodes \in Nat /\ MaxKeys \in Nat
ASSUME FilterAssumption == TuiConstants

VARIABLES
    friends, selected, filter,      \* friendsPane
    filtering,
    focus,                          \* focusPane.friend
    dock,                           \* callDock.state
    footer,                         \* statusFooterState.Status; "idle" with a relay or without
    modal,
    callTargetName,
    frozen,                         \* Update waits for a synchronous friends.list
    exited,
    cmds,
    link,                           \* the connection: "ok", "slow" or "lost"
    calls,                          \* calls[i]: direction and remote peer of call i
    codes,                          \* invites created so far
    keys                            \* keys counted so far (bound)

paneVars == <<friends, selected, filter, filtering, focus>>
callVars == <<dock, footer, callTargetName>>
worldVars == <<link, calls, codes>>
tuiVars == <<friends, selected, filter, filtering, focus, dock, footer, modal,
          callTargetName, frozen, exited, cmds, link, calls, codes, keys>>

CallIDs == 0 .. MaxCalls
Displays == {"name", "id"} \X (Friends \cup {Nobody})
NoDock == [state |-> "", call |-> 0, remote |-> <<"name", Nobody>>]
NoModal == [kind |-> "none"]

TuiTypeOK ==
    /\ friends \in {<< >>, FriendList} /\ selected \in Nat
    /\ filter \in 0 .. MaxInput /\ filtering \in BOOLEAN
    /\ focus \in Friends \cup {Nobody} /\ callTargetName \in Friends \cup {Nobody}
    /\ dock \in [state : EventStates \cup {"", "calling"}, call : CallIDs, remote : Displays]
    /\ footer \in {"idle", "ringing", "connected", "daemonDown", "error"}
    /\ frozen \in BOOLEAN /\ exited \in BOOLEAN
    /\ IsABag(cmds)
    /\ link \in {"ok", "slow", "lost"}
    /\ calls \in Seq([dir : {"inbound", "outbound"}, peer : Friends])
    /\ codes \in 0 .. MaxCodes /\ keys \in 0 .. MaxKeys

Cmd(k, a) == [kind |-> k, arg |-> a]
Active(d) == d.state \notin {"", "ended"}
Running == ~frozen /\ ~exited
-----------------------------------------------------------------------------
(* The friends pane. *)

(* The friends of fs that match, in their order. *)
visible(fs, n) ==
    LET out[i \in 0 .. Len(fs)] ==
          IF i = 0 THEN << >>
          ELSE IF fs[i] \in Matches[n + 1] THEN Append(out[i - 1], fs[i])
          ELSE out[i - 1]
    IN  out[Len(fs)]

(* Selected, and the focus pane after syncFocusFromSelection. *)
syncFocusFromSelection(fs, n, i) ==
    LET v == visible(fs, n)
    IN /\ selected' = IF v # << >> /\ i >= Len(v) THEN 0 ELSE i
       /\ focus' = IF v = << >> THEN Nobody ELSE v[selected' + 1]

friendsLoaded(fs) ==
    /\ friends' = fs
    /\ syncFocusFromSelection(fs, filter, IF selected >= Len(fs) THEN 0 ELSE selected)
    /\ UNCHANGED <<filter, filtering>>

MoveDown ==
    LET last == Len(visible(friends, filter)) - 1
    IN syncFocusFromSelection(friends, filter,
                              IF selected < last THEN selected + 1 ELSE selected)

MoveUp ==
    syncFocusFromSelection(friends, filter, IF selected > 0 THEN selected - 1 ELSE selected)

(* Faulty: the focus pane is not told. *)
SetFilterOnly(n) == filter' = n /\ selected' = 0 /\ UNCHANGED focus

SetFilter(n) == filter' = n /\ syncFocusFromSelection(friends, n, 0)

(* Keys while no modal is open; the arrows also work in filter mode. *)
MoveKey ==
    /\ Running /\ modal = NoModal
    /\ \/ (MoveDown \/ MoveUp) /\ UNCHANGED filtering
       \/ ~filtering /\ filtering' = TRUE /\ UNCHANGED <<selected, focus>>
    /\ UNCHANGED <<friends, filter, callVars, modal, frozen, exited, cmds, worldVars>>

(* Filter mode: esc, enter, backspace and a letter. *)
FilterKey ==
    /\ Running /\ modal = NoModal /\ filtering
    /\ \/ SetFilter(0) /\ filtering' = FALSE
       \/ /\ syncFocusFromSelection(friends, filter, selected)
          /\ filtering' = FALSE /\ UNCHANGED filter
       \/ filter > 0 /\ SetFilter(filter - 1) /\ UNCHANGED filtering
       \/ filter < MaxInput /\ SetFilter(filter + 1) /\ UNCHANGED filtering
    /\ UNCHANGED <<friends, callVars, modal, frozen, exited, cmds, worldVars, keys>>

(* friendNameForPeer: the name of a friend, else the shortened peer ID. *)
friendNameForPeer(p) ==
    IF \E i \in DOMAIN friends : friends[i] = p THEN <<"name", p>> ELSE <<"id", p>>
-----------------------------------------------------------------------------
(* Keys that act on calls and open modals. *)

Send(c) == cmds' = Ext!BagAdd(cmds, c)
(* tea.Quit ends the program and what it still had running. *)
Quit == exited' = TRUE /\ cmds' = EmptyBag
FreeKey == Running /\ modal = NoModal /\ ~filtering

PlaceCall ==
    /\ FreeKey
    /\ focus # Nobody
    /\ LET sel == visible(friends, filter)[selected + 1]
       IN callTargetName' = sel /\ Send(Cmd("calls.start", sel))
    /\ UNCHANGED <<paneVars, dock, footer, modal, frozen, exited, worldVars>>

CallKey ==
    /\ FreeKey /\ Active(dock)
    /\ \/ Send(Cmd("calls.action", dock.call)) /\ UNCHANGED dock        \* m, h
       \/ dock' = NoDock /\ UNCHANGED cmds                            \* esc
    /\ UNCHANGED <<paneVars, footer, callTargetName, modal, frozen, exited, worldVars>>

QuitKey ==
    /\ FreeKey
    /\ IF Active(dock) THEN modal' = [kind |-> "quit"] /\ UNCHANGED <<cmds, exited>>
       ELSE Quit /\ UNCHANGED modal
    /\ UNCHANGED <<paneVars, callVars, frozen, worldVars>>

OpenModal ==
    /\ FreeKey
    /\ \/ modal' \in {[kind |-> "help"], [kind |-> "settings"]} /\ UNCHANGED cmds
       \/ /\ modal' = [kind |-> "invite", state |-> "loading"]
          /\ Send(Cmd("invite.create", 0))
    /\ UNCHANGED <<paneVars, callVars, frozen, exited, worldVars>>

(* newAddFriendModal: a URL in the clipboard is looked up in friends.list  *)
(* without a timeout, inside Update.                                       *)
OpenAddFriend ==
    /\ FreeKey
    /\ \/ modal' = [kind |-> "add", state |-> "new"] /\ UNCHANGED frozen
       \/ modal' = [kind |-> "add", state |-> "checking"] /\ frozen' = TRUE
    /\ UNCHANGED <<paneVars, callVars, exited, cmds, worldVars>>

applyDetection ==
    /\ frozen /\ link # "slow"
    /\ frozen' = FALSE /\ UNCHANGED keys
    /\ modal' \in [kind : {"add"}, state : IF link = "ok" THEN {"new", "duplicate"} ELSE {"new"}]
    /\ UNCHANGED <<paneVars, callVars, exited, cmds, worldVars>>

(* The keys that close a modal with an Action: accept or decline, ... *)
CloseIncoming ==
    /\ modal.kind = "incoming"
    /\ Send(Cmd("calls.action", modal.call)) /\ UNCHANGED exited

(* ... detach, or hang up whatever call the dock shows now and quit, ... *)
CloseQuit ==
    /\ modal.kind = "quit"
    /\ \/ Quit
       \/ Send(Cmd("hangup, quit", dock.call)) /\ UNCHANGED exited

(* ... redeem the code, unless its owner is a friend already. *)
CloseAddFriend ==
    /\ modal.kind = "add" /\ modal.state # "duplicate"
    /\ Send(Cmd("invite.redeem", 0)) /\ UNCHANGED exited

(* The modal closes; without an Action nothing follows. *)
handleModalClosed ==
    /\ Running /\ modal # NoModal /\ modal' = NoModal
    /\ \/ UNCHANGED <<cmds, exited>>
       \/ CloseIncoming \/ CloseQuit \/ CloseAddFriend
    /\ UNCHANGED <<paneVars, callVars, frozen, worldVars>>
-----------------------------------------------------------------------------
(* Commands whose answer is of a moment before Update sees it. *)

Becomes(c, m) == cmds' = Ext!BagAdd(Ext!BagRemove(cmds, c), m)

(* daemon.status: the answer, or an error (timeout, no connection). *)
loadDaemonStatusCmd(c) ==
    /\ c.kind = "daemon.status"
    /\ Becomes(c, Cmd(IF link = "ok" THEN "status" ELSE "no status", 0))
    /\ UNCHANGED calls

(* calls.start, whose call the daemon may have placed although the request *)
(* timed out.                                                              *)
startCallCmd(c) ==
    /\ c.kind = "calls.start"
    /\ \/ /\ link # "lost" /\ Len(calls) < MaxCalls
          /\ calls' = Append(calls, [dir |-> "outbound", peer |-> c.arg])
          /\ Becomes(c, IF link = "ok" THEN Cmd("started", Len(calls')) ELSE Cmd("failed", 0))
       \/ Becomes(c, Cmd("failed", 0)) /\ UNCHANGED calls

Runs(c) ==
    /\ ~exited
    /\ loadDaemonStatusCmd(c) \/ startCallCmd(c)
    /\ UNCHANGED <<paneVars, callVars, modal, frozen, exited, link, codes, keys>>
-----------------------------------------------------------------------------
(* Update, with the answer of the command in the step where nothing that   *)
(* happens between the two makes a difference.  The panes change only with *)
(* the friends list, and Update leaves the bound on keys alone.            *)

Taken(c) == cmds' = Ext!BagRemove(cmds, c)

(* errMsg of any command but the poll; no call has the empty ID, and any   *)
(* request may be refused.                                                 *)
Requests == {"friends.list", "calls.list", "calls.subscribe", "calls.action",
             "invite.create", "invite.subscribe", "invite.redeem"}
UpdateError(c) ==
    /\ \/ c.kind = "failed"
       \/ c.kind \in Requests /\ link # "ok"
       \/ c.kind \in {"calls.action", "invite.create", "invite.redeem"}
    /\ Taken(c) /\ footer' = "error"
    /\ UNCHANGED <<paneVars, dock, modal, exited, calls, codes>>

(* callActionDoneMsg, inviteRedeemDoneMsg, and subClosedMsg of a subscription *)
(* whose connection is lost: not looked at.                                *)
UpdateIgnored(c) ==
    /\ \/ link = "ok" /\ c.kind = "calls.action" /\ c.arg # 0
       \/ link = "ok" /\ c.kind = "invite.redeem"
       \/ link = "lost" /\ c.kind \in {"wait calls", "wait start", "wait invite"}
    /\ Taken(c)
    /\ UNCHANGED <<paneVars, dock, footer, modal, exited, calls, codes>>

UpdateFriends(c) ==
    /\ c.kind = "friends.list" /\ link = "ok" /\ Taken(c)
    /\ friendsLoaded(FriendList)
    /\ UNCHANGED <<dock, footer, modal, exited, calls, codes>>

(* callsSubMsg and inviteRedemptionSubMsg: wait for the first event.  It   *)
(* is the only one: nothing waits a second time.                           *)
UpdateSubscribed(c) ==
    /\ link = "ok"
    /\ \/ c.kind = "calls.subscribe" /\ Becomes(c, Cmd("wait calls", 0))
       \/ c.kind = "invite.subscribe" /\ Becomes(c, Cmd("wait invite", 0))
    /\ UNCHANGED <<paneVars, dock, footer, modal, exited, calls, codes>>

(* callStartedMsg: a placeholder without an ID, named after the last enter. *)
UpdateCallStarted(c) ==
    /\ c.kind = "started" /\ Becomes(c, Cmd("wait start", c.arg))
    /\ IF Active(dock) THEN UNCHANGED <<dock, footer>>
       ELSE /\ dock' = [state |-> "calling", call |-> 0, remote |-> <<"name", callTargetName>>]
            /\ footer' = "ringing"
    /\ UNCHANGED <<paneVars, modal, exited, calls, codes>>

(* Faulty: a name that the dock already shows is kept. *)
applyCallStateChangeKeepingName(cs, i, s) ==
    LET r == friendNameForPeer(cs[i].peer)
    IN IF dock.call \notin {0, i} THEN UNCHANGED <<dock, footer, modal>>
       ELSE /\ modal' = IF s = "ringing" /\ cs[i].dir = "inbound" /\ modal = NoModal
                        THEN [kind |-> "incoming", call |-> i, caller |-> r]
                        ELSE modal
            /\ dock' = [state |-> s, call |-> i,
                        remote |-> IF dock.state = "" THEN r ELSE dock.remote]
            /\ footer' = CASE s = "connected" -> "connected"
                           [] s = "ended" -> "idle"
                           [] OTHER -> "ringing"

(* applyCallStateChange of call i, one of the calls cs, to state s. *)
applyCallStateChange(cs, i, s) ==
    LET r == friendNameForPeer(cs[i].peer)
    IN IF dock.call \notin {0, i} THEN UNCHANGED <<dock, footer, modal>>
       ELSE /\ modal' = IF s = "ringing" /\ cs[i].dir = "inbound" /\ modal = NoModal
                        THEN [kind |-> "incoming", call |-> i, caller |-> r]
                        ELSE modal
            /\ dock' = [state |-> s, call |-> i, remote |-> r]
            /\ footer' = CASE s = "connected" -> "connected"
                           [] s = "ended" -> "idle"
                           [] OTHER -> "ringing"

(* subEventMsg: of the call that was started, or of any call at the daemon, *)
(* also one that has just come in.                                         *)
UpdateCallEvent(c) ==
    /\ \/ c.kind = "wait start" /\ UNCHANGED calls
          /\ \E s \in EventStates : applyCallStateChange(calls, c.arg, s)
       \/ c.kind = "wait calls" /\ UNCHANGED calls
          /\ \E i \in DOMAIN calls, s \in EventStates : applyCallStateChange(calls, i, s)
       \/ c.kind = "wait calls" /\ Len(calls) < MaxCalls
          /\ \E p \in Friends, s \in EventStates :
                /\ calls' = Append(calls, [dir |-> "inbound", peer |-> p])
                /\ applyCallStateChange(calls', Len(calls'), s)
    /\ IF ~Active(dock) /\ Active(dock') THEN Becomes(c, Cmd("calls.list", 0)) ELSE Taken(c)
    /\ UNCHANGED <<paneVars, exited, codes>>

(* callsListMsg: the levels of the dock, and the next tick while it is up. *)
UpdateCallsList(c) ==
    /\ c.kind = "calls.list" /\ link = "ok"
    /\ IF Active(dock) THEN UNCHANGED cmds ELSE Taken(c)
    /\ UNCHANGED <<paneVars, dock, footer, modal, exited, calls, codes>>

(* inviteCreatedMsg goes to whichever invite modal is open. *)
UpdateInviteCreated(c) ==
    /\ c.kind = "invite.create" /\ link = "ok" /\ codes < MaxCodes
    /\ codes' = codes + 1
    /\ IF modal.kind = "invite"
       THEN modal' = [modal EXCEPT !.state = "active"] /\ Becomes(c, Cmd("invite.subscribe", 0))
       ELSE Taken(c) /\ UNCHANGED modal
    /\ UNCHANGED <<paneVars, dock, footer, exited, calls>>

UpdateRedeemed(c) ==
    /\ c.kind = "wait invite" /\ Taken(c)
    /\ modal' = IF modal.kind = "invite" THEN [modal EXCEPT !.state = "redeemed"] ELSE modal
    /\ UNCHANGED <<paneVars, dock, footer, exited, calls, codes>>

(* Faulty: a failed poll is reported like any other error. *)
UpdateStatusOnce(c) ==
    /\ \/ /\ c.kind = "status" /\ Becomes(c, Cmd("daemon.status", 0))
          /\ IF footer \in {"connected", "ringing"} THEN UNCHANGED footer
             ELSE footer' = "idle"
       \/ c.kind = "no status" /\ Taken(c) /\ footer' = "daemonDown"
    /\ UNCHANGED <<paneVars, dock, modal, exited, calls, codes>>

(* daemonStatusMsg, and errMsg of daemon.status: both poll again. *)
UpdateStatus(c) ==
    /\ c.kind \in {"status", "no status"} /\ Becomes(c, Cmd("daemon.status", 0))
    /\ IF c.kind = "no status" THEN footer' = "daemonDown"
       ELSE IF footer \in {"connected", "ringing"} THEN UNCHANGED footer
       ELSE footer' = "idle"
    /\ UNCHANGED <<paneVars, dock, modal, exited, calls, codes>>

(* tea.Sequence of the hangup and tea.Quit. *)
UpdateQuit(c) ==
    /\ c.kind = "hangup, quit" /\ Quit
    /\ UNCHANGED <<paneVars, dock, footer, modal, calls, codes>>

Update(c) ==
    /\ Running /\ UNCHANGED <<callTargetName, frozen, link, keys>>
    /\ \/ UpdateError(c) \/ UpdateIgnored(c) \/ UpdateFriends(c) \/ UpdateSubscribed(c)
       \/ UpdateCallStarted(c) \/ UpdateCallEvent(c) \/ UpdateCallsList(c)
       \/ UpdateInviteCreated(c) \/ UpdateRedeemed(c) \/ UpdateStatus(c) \/ UpdateQuit(c)
-----------------------------------------------------------------------------
(* The connection. *)
LinkChanges ==
    /\ ~exited
    /\ \/ link = "ok" /\ link' = "slow"
       \/ link = "slow" /\ link' = "ok"
       \/ link # "lost" /\ link' = "lost"
    /\ UNCHANGED <<paneVars, callVars, modal, frozen, exited, cmds, calls, codes, keys>>

(* NewModel and Model.Init: status is asked for at once and on a tick, and *)
(* both go on.                                                             *)
TuiInit ==
    /\ friends = << >> /\ selected = 0 /\ filter = 0 /\ filtering = FALSE
    /\ focus = Nobody /\ callTargetName = Nobody
    /\ dock = NoDock /\ footer = "idle" /\ modal = NoModal
    /\ frozen = FALSE /\ exited = FALSE
    /\ cmds = SetToBag({Cmd("friends.list", 0), Cmd("calls.subscribe", 0)})
              (+) [c \in {Cmd("daemon.status", 0)} |-> 2]
    /\ link = "ok" /\ calls = << >> /\ codes = 0 /\ keys = 0

Key ==
    /\ keys < MaxKeys /\ keys' = keys + 1
    /\ \/ MoveKey \/ PlaceCall \/ CallKey \/ QuitKey \/ OpenModal \/ OpenAddFriend
       \/ handleModalClosed

TuiNext ==
    \/ Key \/ FilterKey \/ applyDetection \/ LinkChanges
    \/ \E c \in DOMAIN cmds : Runs(c) \/ Update(c)

Polls == Cmd("daemon.status", 0) \in DOMAIN cmds /\ Runs(Cmd("daemon.status", 0))
Hears(k) == Cmd(k, 0) \in DOMAIN cmds /\ Update(Cmd(k, 0))

(* A goroutine goes on; a message waits in a first-in-first-out channel    *)
(* and is taken however many keys come between; a request that is answered *)
(* lets Update go on.                                                      *)
TuiFairness ==
    /\ WF_tuiVars(Polls) /\ WF_tuiVars(applyDetection)
    /\ SF_tuiVars(Hears("status")) /\ SF_tuiVars(Hears("no status"))

TuiSpec == TuiInit /\ [][TuiNext]_tuiVars
TuiFairSpec == TuiSpec /\ TuiFairness
-----------------------------------------------------------------------------
(* The friend in the focus pane is the one the list marks, whatever has    *)
(* been typed into the filter and whenever the list arrives: enter calls   *)
(* the friend the user looks at.                                           *)
FocusIsSelection ==
    LET v == visible(friends, filter)
    IN IF v = << >> THEN focus = Nobody
       ELSE selected < Len(v) /\ focus = v[selected + 1]

(* The peer that the dock or the incoming-call modal names is the peer of  *)
(* the call that their keys accept, mute or hang up, also when calls cross *)
(* and the dock first showed the target of a later enter.                  *)
NamesTheCall ==
    /\ dock.call # 0 => dock.remote[2] = calls[dock.call].peer
    /\ modal.kind = "incoming" => modal.caller[2] = calls[modal.call].peer

(* The footer follows the daemon: it says so when the connection is lost,  *)
(* and stops saying so once the daemon answers again after a stall, unless *)
(* the user has quit.                                                      *)
FooterFollowsDaemon ==
    /\ link = "lost" ~> footer = "daemonDown" \/ exited
    /\ <>[](link = "ok") => <>[](footer # "daemonDown" \/ exited)
=============================================================================
