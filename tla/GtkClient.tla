------------------------------ MODULE GtkClient ------------------------------
(***************************************************************************)
(* The GTK workstation client: src/client/TcpClient.cpp and                *)
(* src/client/ClientWindow.cpp.  One thread and one GLib main loop, so a   *)
(* callback is one step, except that two messages are shown by             *)
(* gtk_dialog_run inside the callback that received them: the loop nested  *)
(* there serves every other source, but not the watch whose callback has   *)
(* not returned.  TcpClient keeps one channel and connect does not close   *)
(* an earlier one, so a watch may outlive the fields that made it.         *)
(***************************************************************************)
EXTENDS ServerSide, FiniteSets

CONSTANTS MaxConn,   \* bound: connections made in a behaviour
          MaxTicks,  \* bound: ticks of a session
          QueueCap,  \* bound: lines of a connection not yet read
          OddNames   \* some package's name holds a ':' or a ';'

ASSUME ClientBounds == /\ MaxConn \in Nat
                       /\ MaxTicks \in Nat
                       /\ QueueCap \in Nat
                       /\ OddNames \in BOOLEAN

Conns == 1..MaxConn
Fds == 1..MaxConn

VARIABLES
    alive,    \* the client runs
    screen,   \* the visible child of stack_
    cover,    \* overlay_lock_ is visible
    locked,   \* locked_
    grabbed,  \* kb_grabbed_
    shown,    \* elapsed_sec_, the time on the screen
    boxes,    \* the connections whose callback is inside gtk_dialog_run, innermost last
    cur,      \* channel_ (and hb_timer_): the latest connection, or 0
    sock,     \* sock_fd_ >= 0
    timers,   \* heartbeat sources installed
    watch,    \* per connection: its watch is not there, live, or its channel is shut
    fd,       \* per connection, the number of its descriptor
    fdOpen,   \* connections whose descriptor is open
    inbox,    \* per connection, the lines not yet read
    nconn,    \* number of connections made so far
    link,     \* per connection, what the server's end has done to it
    peer,     \* per connection, what the server believes of the station
    doubled   \* history: since the launch, a connect was made on top of a connection

windowVars == <<screen, cover, locked, grabbed, shown, boxes>>
tcpVars == <<cur, sock, timers, watch, fd, fdOpen, nconn, doubled>>
wireVars == <<inbox, link, peer>>
vars == <<alive, windowVars, tcpVars, wireVars>>

-----------------------------------------------------------------------------
(* The server's side of a connection, as BillingServer.cpp keeps it.       *)

(* `told': it has said on this connection whether the station is locked.   *)
(* `reg' is history: REGISTER was served before or after it did.           *)

Peer == [reg : {"no", "early", "late"}, told : BOOLEAN, active : BOOLEAN, locked : BOOLEAN,
         elapsed : Nat]

Belief(r, t, s) ==
    [reg |-> r, told |-> t, active |-> s.active, locked |-> s.locked, elapsed |-> s.elapsed]

Newcomer == Belief("no", FALSE, Fresh)

InBox == {boxes[i] : i \in DOMAIN boxes}

Live == {k \in Conns : watch[k] = "live"}

Shut == {k \in Conns : watch[k] = "shut"}

(* poll reports a descriptor for what has come or ended on it.             *)
Readable(k) == k \in fdOpen /\ (inbox[k] # << >> \/ link[k] # "open")

(* A watch polls a number.  That of a channel that is shut may have been   *)
(* given to a later connection, whose data then calls the old watch too;   *)
(* or lines are left in the channel's own buffer.                          *)
Wakes(z) == /\ z \in Shut
            /\ z \notin InBox
            /\ inbox[z] # << >> \/ \E k \in Conns : Readable(k) /\ fd[k] = fd[z]

(* A live watch is dispatched unless its callback runs, and after older    *)
(* watches of the same number.                                             *)
Dispatched(k) == /\ alive
                 /\ k \in Live
                 /\ k \notin InBox
                 /\ ~\E z \in Shut : Wakes(z) /\ fd[z] = fd[k]

HungUp(k) == link[k] = "reset" \/ (link[k] = "fin" /\ inbox[k] = << >>)

-----------------------------------------------------------------------------
Init ==
    /\ alive = TRUE
    /\ screen = "connect" /\ cover = TRUE /\ locked = TRUE /\ grabbed = FALSE
    /\ shown = 0 /\ boxes = << >>
    /\ cur = 0 /\ sock = FALSE /\ timers = 0
    /\ watch = [k \in Conns |-> "none"]
    /\ fd = [k \in Conns |-> 0]
    /\ fdOpen = {} /\ nconn = 0 /\ doubled = FALSE
    /\ inbox = [k \in Conns |-> << >>]
    /\ link = [k \in Conns |-> "open"]
    /\ peer = [k \in Conns |-> Newcomer]

(* ------------------------ connecting, hanging up ----------------------- *)

\* Seeded fault: the heartbeat source is not installed.
ConnectNoTimer(f) ==
    LET k == nconn + 1
    IN  /\ alive /\ screen = "connect" /\ boxes = << >>
        /\ k \in Conns
        /\ f \notin {fd[j] : j \in fdOpen}
        /\ nconn' = k
        /\ cur' = k
        /\ sock' = TRUE
        /\ watch' = [watch EXCEPT ![k] = "live"]
        /\ fd' = [fd EXCEPT ![k] = f]
        /\ fdOpen' = fdOpen \cup {k}
        /\ doubled' = (doubled \/ cur # 0)
        /\ UNCHANGED <<alive, windowVars, timers, wireVars>>

(* The connect button takes clicks until REGISTERED has changed the        *)
(* screen.  A second connect overwrites channel_, sock_fd_ and hb_timer_.  *)
Connect(f) ==
    LET k == nconn + 1
    IN  /\ alive /\ screen = "connect" /\ boxes = << >>
        /\ k \in Conns
        /\ f \notin {fd[j] : j \in fdOpen}
        /\ nconn' = k
        /\ cur' = k
        /\ sock' = TRUE
        /\ timers' = timers + 1
        /\ watch' = [watch EXCEPT ![k] = "live"]
        /\ fd' = [fd EXCEPT ![k] = f]
        /\ fdOpen' = fdOpen \cup {k}
        /\ doubled' = (doubled \/ cur # 0)
        /\ UNCHANGED <<alive, windowVars, wireVars>>

(* No such host, nobody listening: sock_fd_ has been overwritten by then.  *)
ConnectFails ==
    /\ alive /\ screen = "connect" /\ boxes = << >>
    /\ sock' = FALSE
    /\ doubled' = (doubled \/ cur # 0)
    /\ UNCHANGED <<alive, windowVars, cur, timers, watch, fd, fdOpen, nconn, wireVars>>

(* What the server knows of a connection is of no interest once the        *)
(* client's end is closed.                                                 *)
Forget(closed) ==
    /\ link' = [k \in Conns |-> IF k \in closed THEN "open" ELSE link[k]]
    /\ peer' = [k \in Conns |-> IF k \in closed THEN Newcomer ELSE peer[k]]

CloseChannel(gone) ==
    /\ cur' = 0
    /\ sock' = FALSE
    /\ fdOpen' = fdOpen \ {cur}
    /\ watch' = [k \in Conns |-> CASE k = gone -> "none"
                                   [] k = cur /\ k # gone -> "shut"
                                   [] OTHER -> watch[k]]
    /\ inbox' = [inbox EXCEPT ![gone] = << >>]
    /\ Forget({cur})
    /\ UNCHANGED <<fd, nconn, doubled>>

\* Seeded fault: the heartbeat source is not removed.
DisconnectKeepsTimer(gone) == CloseChannel(gone) /\ timers' = timers

(* TcpClient::disconnect shuts the channel in channel_; the watch whose    *)
(* callback calls it is removed, and it need not be the one of channel_.   *)
Disconnect(gone) ==
    /\ CloseChannel(gone)
    /\ timers' = IF cur = 0 THEN timers ELSE timers - 1

(* Nothing but the screen changes: the overlay, locked_ and the keyboard   *)
(* stay as they are.                                                       *)
OnServerDisconnected ==
    /\ screen' = "connect"
    /\ UNCHANGED <<cover, locked, grabbed, shown, boxes>>

\* Seeded fault: the watch goes without a call of disconnect.
OnDisconnectSilently(k) ==
    /\ Dispatched(k) /\ HungUp(k)
    /\ watch' = [watch EXCEPT ![k] = "none"]
    /\ OnServerDisconnected
    /\ inbox' = [inbox EXCEPT ![k] = << >>]
    /\ UNCHANGED <<alive, cur, sock, timers, fd, fdOpen, nconn, doubled, link, peer>>

(* A hang-up comes before the lines that are still there, an end of file   *)
(* after them.                                                             *)
OnDisconnect(k) ==
    /\ Dispatched(k) /\ HungUp(k)
    /\ Disconnect(k)
    /\ OnServerDisconnected
    /\ UNCHANGED alive

(* Reading from a channel that is shut is an error, and cb_data calls      *)
(* onDisconnect for that too, whatever connection there is by now.         *)
OnShutChannel(z) ==
    /\ alive /\ Wakes(z)
    /\ Disconnect(z)
    /\ OnServerDisconnected
    /\ UNCHANGED alive

(* ----------------------------- messages -------------------------------- *)

(* applyLockOverlay with grabKeys.  The grab may fail and is not retried.  *)
ApplyLockOverlay(b) ==
    /\ cover' = b
    /\ grabbed' \in IF b THEN {grabbed, TRUE} ELSE {FALSE}

ShowMainScreen ==
    /\ screen' = "main"
    /\ ApplyLockOverlay(TRUE)
    /\ UNCHANGED <<locked, shown, boxes>>

OnSessionStart ==
    /\ locked' = FALSE
    /\ shown' = 0
    /\ ApplyLockOverlay(FALSE)
    /\ UNCHANGED <<screen, boxes>>

\* Seeded fault: the overlay is left to the LOCK line that follows.
OnSessionEndUncovered(k) ==
    /\ locked' = TRUE
    /\ boxes' = Append(boxes, k)
    /\ UNCHANGED <<screen, cover, grabbed, shown>>

(* The summary box runs inside the callback.                               *)
OnSessionEnd(k) ==
    /\ locked' = TRUE
    /\ ApplyLockOverlay(TRUE)
    /\ boxes' = Append(boxes, k)
    /\ UNCHANGED <<screen, shown>>

OnTick(m) ==
    /\ shown' = m.elapsed
    /\ UNCHANGED <<screen, cover, locked, grabbed, boxes>>

\* Seeded faults: locked_ is not set; a lock raises no overlay.
OnLockOverlayOnly(b) ==
    /\ ApplyLockOverlay(b)
    /\ UNCHANGED <<screen, locked, shown, boxes>>

OnLockUncovered(b) ==
    /\ locked' = b
    /\ IF b THEN UNCHANGED <<cover, grabbed>> ELSE ApplyLockOverlay(b)
    /\ UNCHANGED <<screen, shown, boxes>>

OnLock(b) ==
    /\ locked' = b
    /\ ApplyLockOverlay(b)
    /\ UNCHANGED <<screen, shown, boxes>>

OnServerMsg(k) ==
    /\ boxes' = Append(boxes, k)
    /\ UNCHANGED <<screen, cover, locked, grabbed, shown>>

(* handleMessage.  PACKAGES only fills a list nobody reads, a chat line    *)
(* goes to the chat window, and MENU_OFFER, PONG and the remainders of an  *)
(* offer have no branch.                                                   *)
HandleMessage(k, m) ==
    CASE m.type = "REGISTERED"    -> ShowMainScreen
      [] m.type = "SESSION_START" -> OnSessionStart
      [] m.type = "SESSION_END"   -> OnSessionEnd(k)
      [] m.type = "TICK"          -> OnTick(m)
      [] m.type = "LOCK"          -> OnLock(m.locked)
      [] m.type = "SERVER_MSG"    -> OnServerMsg(k)
      [] OTHER                    -> UNCHANGED windowVars

OnData(k) ==
    /\ Dispatched(k)
    /\ link[k] # "reset"
    /\ inbox[k] # << >>
    /\ HandleMessage(k, Head(inbox[k]))
    /\ inbox' = [inbox EXCEPT ![k] = Tail(@)]
    /\ UNCHANGED <<alive, tcpVars, link, peer>>

(* -------------------- customer, process, environment ------------------- *)

(* The innermost box blocks the ones below it.                             *)
DismissBox ==
    /\ alive /\ boxes # << >>
    /\ boxes' = SubSeq(boxes, 1, Len(boxes) - 1)
    /\ UNCHANGED <<alive, screen, cover, locked, grabbed, shown, tcpVars, wireVars>>

(* The process ends; the next one starts from what the widgets and members *)
(* are created with, among them an overlay that show_all shows.            *)
LoseClient ==
    /\ alive' = FALSE
    /\ screen' = "connect" /\ cover' = TRUE /\ locked' = TRUE /\ grabbed' = FALSE
    /\ shown' = 0 /\ boxes' = << >>
    /\ cur' = 0 /\ sock' = FALSE /\ timers' = 0
    /\ watch' = [k \in Conns |-> "none"]
    /\ fdOpen' = {} /\ doubled' = FALSE
    /\ inbox' = [k \in Conns |-> << >>]
    /\ Forget(Conns)
    /\ UNCHANGED <<fd, nconn>>

(* The delete-event handler; a modal box keeps the window from the click.  *)
Close ==
    /\ alive /\ boxes = << >>
    /\ ~(locked /\ screen = "main")
    /\ LoseClient

(* stoi throws in a callback that catches nothing: for a port that is no   *)
(* number, and for a package list that a name has broken up wrongly.       *)
BadPort == alive /\ screen = "connect" /\ boxes = << >> /\ LoseClient

BadPackageList(k) ==
    /\ Dispatched(k)
    /\ link[k] # "reset"
    /\ OddNames /\ inbox[k] # << >> /\ Head(inbox[k]) = PackageList
    /\ LoseClient

Launch == ~alive /\ alive' = TRUE /\ UNCHANGED <<windowVars, tcpVars, wireVars>>

-----------------------------------------------------------------------------
(* What the server does to a connection: anything that ServerSide allows.  *)
(* A step writes all its lines.                                            *)

Tells(k, d, r, t) ==
    /\ k \in fdOpen /\ link[k] = "open"
    /\ Len(inbox[k]) + Len(d.lines) <= QueueCap
    /\ inbox' = [inbox EXCEPT ![k] = @ \o d.lines]
    /\ peer' = [peer EXCEPT ![k] = Belief(r, t, d.then)]
    /\ UNCHANGED <<alive, windowVars, tcpVars, link>>

PeerRegisters(k) ==
    LET b == peer[k]
    IN  /\ b.reg = "no"
        /\ Tells(k, RegisterDeed(b), IF b.told THEN "late" ELSE "early", b.told)

(* The card of a station can start a session as soon as it is accepted,    *)
(* which is before its REGISTER has come.                                  *)
PeerActs(k) ==
    LET b == peer[k]
    IN  \E d \in StartDeeds(b) \cup EndDeeds(b) \cup {LockDeed(b)} : Tells(k, d, b.reg, TRUE)

PeerTicks(k) ==
    LET b == peer[k]
    IN  b.elapsed < MaxTicks /\ \E d \in TickDeeds(b) : Tells(k, d, b.reg, TRUE)

(* Of all talk only a message that opens a box.                            *)
PeerSays(k) == Tells(k, Deed(<<ServerMsg>>, peer[k]), peer[k].reg, peer[k].told)

(* The server's process ends, or the network resets the connection; a      *)
(* heartbeat written after a FIN is answered by a reset as well.           *)
PeerGone(k) ==
    /\ k \in fdOpen
    /\ \/ link[k] = "open" /\ link' = [link EXCEPT ![k] = "fin"]
       \/ link[k] # "reset" /\ link' = [link EXCEPT ![k] = "reset"]
    /\ UNCHANGED <<alive, windowVars, tcpVars, inbox, peer>>

Server(k) == \/ PeerRegisters(k)
             \/ PeerActs(k)
             \/ PeerTicks(k)
             \/ PeerSays(k)
             \/ PeerGone(k)

Loop(k) == OnData(k) \/ OnDisconnect(k)

User == \/ \E f \in Fds : Connect(f)
        \/ ConnectFails \/ DismissBox \/ Close \/ BadPort \/ Launch

Next == \/ \E k \in Conns : \/ Loop(k) \/ OnShutChannel(k) \/ BadPackageList(k)
                            \/ Server(k)
        \/ User

Spec == Init /\ [][Next]_vars

(* The main loop, nested or not, dispatches every source that is ready.    *)
(* Nothing makes the customer or the server do anything.                   *)
FairSpec == Spec /\ \A k \in Conns : WF_vars(Loop(k))

-----------------------------------------------------------------------------
(* Properties.                                                             *)

(* Every variable keeps the shape the code gives it.                       *)
TypeOK ==
    /\ alive \in BOOLEAN
    /\ screen \in {"connect", "main"}
    /\ cover \in BOOLEAN /\ locked \in BOOLEAN /\ grabbed \in BOOLEAN
    /\ shown \in Nat
    /\ boxes \in Seq(Conns)
    /\ cur \in Conns \cup {0}
    /\ sock \in BOOLEAN
    /\ timers \in Nat
    /\ watch \in [Conns -> {"none", "live", "shut"}]
    /\ fd \in [Conns -> Fds \cup {0}]
    /\ fdOpen \subseteq Conns
    /\ inbox \in [Conns -> Seq(ServerLine)]
    /\ nconn \in 0..MaxConn
    /\ link \in [Conns -> {"open", "fin", "reset"}]
    /\ peer \in [Conns -> Peer]
    /\ doubled \in BOOLEAN

(* Four message handlers and the reconnect write the lock's three places   *)
(* in different combinations; a station whose locked_ keeps the window     *)
(* open is always covered, and an uncovered one never keeps the keyboard   *)
(* from the customer.                                                      *)
LockShows == (locked \/ grabbed) => cover

(* Whatever watches older connects have left behind and whichever of them  *)
(* hangs up, a live watch reads an open channel, and the connection in the *)
(* client's fields has a live watch: its messages and its end are noticed. *)
FieldsAreWatched == /\ cur # 0 => cur \in Live
                    /\ Live \subseteq fdOpen

(* A customer who never clicks Connect twice leaves nothing behind, over   *)
(* any number of lost connections: one descriptor, one watch and one       *)
(* heartbeat while there is a connection, none otherwise.                  *)
NothingLeaks ==
    ~doubled => /\ fdOpen = {cur} \ {0}
                /\ Live = fdOpen /\ Shut = {}
                /\ timers = Cardinality(fdOpen)
                /\ sock = (cur # 0)

(* A station with one connection that has read all its lines believes what *)
(* the server believes, boxes or not: locked_ is the server's flag once    *)
(* the connection has said anything of it, the overlay is up exactly when  *)
(* it is set, unless REGISTER was served late and covered the station      *)
(* again, and the time shown is the time billed.                           *)
FollowsServer ==
    \A k \in Conns :
      cur = k /\ ~doubled /\ link[k] = "open" /\ inbox[k] = << >> =>
        /\ peer[k].locked => cover
        /\ peer[k].told => locked = peer[k].locked
        /\ peer[k].told /\ peer[k].reg # "late" => cover = locked
        /\ peer[k].active => shown = peer[k].elapsed

LockPending(k) == k \in Live /\ \E i \in DOMAIN inbox[k] : inbox[k][i] = Lock(TRUE)

(* README.md: "LOCK", "Lock/unlock workstation", so a lock the server has  *)
(* sent covers the station, unless its connection ends first.  It does not *)
(* hold as it stands: a box that stays open keeps all lines out.           *)
LockArrives == \A k \in Conns : LockPending(k) ~> (cover \/ k \notin Live)

(* Provided that no box stays open for ever, it does: whatever messages,   *)
(* boxes, hang-ups and reconnects come in between.                         *)
LockArrivesIfAnswered == []<>(boxes = << >>) => LockArrives

-----------------------------------------------------------------------------
(* What the repository says of the program and the program does not do.    *)

(* ClientWindow.cpp: "Block Alt+F4 / close-button while a session is       *)
(* locked so the workstation cannot be left without staff action", so a    *)
(* client that shows "Workstation Locked" goes on running.                 *)
CoveredStays == [][alive /\ ~alive' => ~(screen = "main" /\ cover)]_vars
=============================================================================
