------------------------------ MODULE WinClient ------------------------------
(***************************************************************************)
(* The Windows workstation client: src/windows-client/main.cpp and         *)
(* src/windows-client/WsClient.cpp.  The window's thread dispatches one    *)
(* message after another.  A thread per connection reads a socket and      *)
(* posts the lines to the window; it reads the socket that is in sock_     *)
(* when it calls recv, which need not be the one it was started for.       *)
(* A message box runs a loop of its own that dispatches everything: it     *)
(* holds back the customer's input and no message.                         *)
(***************************************************************************)
EXTENDS ServerSide, FiniteSetsExt

CONSTANTS MaxConn,   \* bound: connections made in a behaviour
          QueueCap,  \* bound: lines sent and not yet handled
          HastyCap,  \* bound: the same, once the customer was hasty
          Deeds,     \* bound: what the server does to a station
          HastyDeeds, \* bound: the same, once the customer was hasty
          Layered    \* CreateWindowEx makes layered child windows (Windows 8 and later)

ASSUME WinBounds == /\ MaxConn \in Nat
                    /\ QueueCap \in Nat /\ HastyCap \in 0..QueueCap
                    /\ Deeds \subseteq {"register", "start", "tick", "end", "lock", "say", "gone"}
                    /\ HastyDeeds \subseteq Deeds
                    /\ Layered \in BOOLEAN

Conns == 1..MaxConn

VARIABLES
    alive,    \* the client runs
    win,      \* the window and the globals that go with it
    active,   \* g_session_active
    boxed,    \* a message box is open and has disabled the window
    queue,    \* messages posted to the window and not yet dispatched
    dialing,  \* the window's thread is inside WsClient::connect
    sock,     \* sock_: the latest socket, or 0 for INVALID_SOCKET
    thread,   \* per connection, where its recvThread is
    reads,    \* per connection, the socket its recvThread is inside recv for, or 0
    hold,     \* per connection, the lines its recvThread has yet to post
    link,     \* per socket, what has become of the connection
    inbox,    \* per socket, the lines not yet read
    peer,     \* per socket, what the server believes of the station
    resized,  \* history: the customer has resized the main panel in this session
    hasty     \* history: the customer has connected while an older recvThread ran

windowVars == <<win, active, boxed>>
threadVars == <<thread, reads, hold>>
wireVars == <<link, inbox, peer>>
vars == <<alive, hasty, windowVars, queue, dialing, sock, threadVars, wireVars, resized>>

-----------------------------------------------------------------------------
(* overlay: hLockOverlay is null, hidden or shown; "left" is an overlay on *)
(* the screen whose handle is forgotten.  saved: the shape that            *)
(* g_prev_style and g_prev_rect hold while g_style_saved.  text: what the  *)
(* labels under the timer speak of.                                        *)
Window == [screen  : {"connect", "main"},
           overlay : {"none", "hidden", "shown", "left"},
           locked  : BOOLEAN,
           shape   : {"windowed", "full"},
           saved   : {"none", "windowed", "full"},
           hook    : BOOLEAN,
           text    : {"waiting", "running", "pay"}]

Win(screen, overlay, locked, shape, saved, hook, text) ==
    [screen |-> screen, overlay |-> overlay, locked |-> locked, shape |-> shape,
     saved |-> saved, hook |-> hook, text |-> text]

FirstWindow == Win("connect", "none", TRUE, "windowed", "none", FALSE, "waiting")

Disconnected == [type |-> "(disconnected)"]

Posted == ServerLine \cup {Disconnected}

(* `last': the last thing the server did about the lock.  `reg' is         *)
(* history: REGISTER was served before or after the first such thing.      *)
WinPeer == [reg : {"no", "early", "late"}, last : {"none", "start", "end", "hand"},
            active : BOOLEAN, locked : BOOLEAN]

Belief(reg, last, on, lock) == [reg |-> reg, last |-> last, active |-> on, locked |-> lock]

Newcomer == Belief("no", "none", FALSE, FALSE)

Running(k) == thread[k] # "none"

Init ==
    /\ alive = TRUE
    /\ win = FirstWindow /\ active = FALSE /\ boxed = FALSE
    /\ queue = << >> /\ dialing = FALSE /\ sock = 0
    /\ thread = [k \in Conns |-> "none"]
    /\ reads = [k \in Conns |-> 0]
    /\ hold = [k \in Conns |-> << >>]
    /\ link = [k \in Conns |-> "none"]
    /\ inbox = [k \in Conns |-> << >>]
    /\ peer = [k \in Conns |-> Newcomer]
    /\ resized = FALSE /\ hasty = FALSE

-----------------------------------------------------------------------------
(* What a function of main.cpp does to the window, with all that is sent   *)
(* to the window while it runs.                                            *)

(* All controls are destroyed but the overlay, whose handle is forgotten;  *)
(* one that is hidden is then as good as none.                             *)
ShowConnectPanel(w) ==
    Win("connect", IF w.overlay = "shown" THEN "left" ELSE "none",
        w.locked, w.shape, w.saved, w.hook, "waiting")

(* What ShowMainPanel builds before it calls ApplyLock.                    *)
MainPanel(w) ==
    Win("main", IF Layered THEN "shown" ELSE "none",
        w.locked, w.shape, w.saved, w.hook, "waiting")

\* Seeded fault: g_in_apply_lock is looked at before g_locked is set.
SizedUnnoticed(w) ==
    IF w.screen = "main" THEN MainPanel(w) ELSE ShowConnectPanel(w)

(* WM_SIZE, sent by a SetWindowPos of ApplyLock: the panel is built anew,  *)
(* and the ApplyLock(true) in it sets g_locked and does no more.           *)
SizedInApplyLock(w) ==
    IF w.screen = "main"
    THEN LET m == MainPanel(w)
         IN  Win(m.screen, m.overlay, TRUE, m.shape, m.saved, m.hook, m.text)
    ELSE ShowConnectPanel(w)

(* The window's size changes only if it was not fullscreen before.         *)
GoFullscreen(w, hooked) ==
    LET up == Win(w.screen, IF w.overlay = "hidden" THEN "shown" ELSE w.overlay,
                  TRUE, "full", IF w.saved = "none" THEN w.shape ELSE w.saved,
                  w.hook \/ hooked, w.text)
    IN  IF w.shape = "full" THEN up ELSE SizedInApplyLock(up)

Restore(w) ==
    LET down == Win(w.screen, IF w.overlay = "shown" THEN "hidden" ELSE w.overlay,
                    FALSE, IF w.saved = "none" THEN w.shape ELSE w.saved, "none",
                    FALSE, w.text)
    IN  IF down.shape = w.shape THEN down ELSE SizedInApplyLock(down)

(* `hooked': SetWindowsHookEx would succeed.                               *)
ApplyLock(w, locked, hooked) == IF locked THEN GoFullscreen(w, hooked) ELSE Restore(w)

ShowMainPanel(w, hooked) == ApplyLock(MainPanel(w), TRUE, hooked)

(* The labels exist on the main panel only.                                *)
SetText(w, text) ==
    IF w.screen = "main"
    THEN Win(w.screen, w.overlay, w.locked, w.shape, w.saved, w.hook, text)
    ELSE w

(* --------------------------- message handlers -------------------------- *)

OnRegistered(hooked) ==
    /\ win' = ShowMainPanel(win, hooked)
    /\ UNCHANGED <<active, boxed, resized>>

\* Seeded fault: unlocking is left to the LOCK line that follows.
OnSessionStartLocked(hooked) ==
    /\ active' = TRUE
    /\ win' = SetText(win, "running")
    /\ resized' = FALSE
    /\ UNCHANGED boxed

OnSessionStart(hooked) ==
    /\ active' = TRUE
    /\ win' = ApplyLock(SetText(win, "running"), FALSE, hooked)
    /\ resized' = FALSE
    /\ UNCHANGED boxed

\* Seeded fault: the labels are set before the lock is applied.
OnSessionEndTextFirst(hooked) ==
    /\ active' = FALSE
    /\ win' = ApplyLock(SetText(win, "pay"), TRUE, hooked)
    /\ boxed' = TRUE
    /\ UNCHANGED resized

OnSessionEnd(hooked) ==
    /\ active' = FALSE
    /\ win' = SetText(ApplyLock(win, TRUE, hooked), "pay")
    /\ boxed' = TRUE
    /\ UNCHANGED resized

OnTick ==
    /\ win' = IF active THEN SetText(win, "running") ELSE win
    /\ UNCHANGED <<active, boxed, resized>>

OnLock(b, hooked) ==
    /\ win' = ApplyLock(win, b, hooked)
    /\ UNCHANGED <<active, boxed, resized>>

OnServerMsg == boxed' = TRUE /\ UNCHANGED <<win, active, resized>>

(* WM_SOCKET_DISC.  The socket stays open and stays in sock_.              *)
OnSocketDisc ==
    /\ active' = FALSE
    /\ win' = IF win.screen = "main"
              THEN ShowConnectPanel(ApplyLock(win, FALSE, FALSE))
              ELSE win
    /\ UNCHANGED <<boxed, resized>>

(* HandleMsg.  PACKAGES, MENU_OFFER and what follows an offer's first line *)
(* have no branch; a chat line goes to the chat window.                    *)
HandleMsg(m, hooked) ==
    CASE m.type = "REGISTERED"    -> OnRegistered(hooked)
      [] m.type = "SESSION_START" -> OnSessionStart(hooked)
      [] m.type = "SESSION_END"   -> OnSessionEnd(hooked)
      [] m.type = "TICK"          -> OnTick
      [] m.type = "LOCK"          -> OnLock(m.locked, hooked)
      [] m.type = "SERVER_MSG"    -> OnServerMsg
      [] m = Disconnected         -> OnSocketDisc
      [] OTHER                    -> UNCHANGED <<windowVars, resized>>

\* Seeded fault: a box keeps messages out, as gtk_dialog_run does.
DispatchUnboxed(hooked) ==
    /\ alive /\ ~dialing /\ ~boxed /\ queue # << >>
    /\ HandleMsg(Head(queue), hooked)
    /\ queue' = Tail(queue)
    /\ UNCHANGED <<alive, hasty, dialing, sock, threadVars, wireVars>>

Dispatch(hooked) ==
    /\ alive /\ ~dialing /\ queue # << >>
    /\ HandleMsg(Head(queue), hooked)
    /\ queue' = Tail(queue)
    /\ UNCHANGED <<alive, hasty, dialing, sock, threadVars, wireVars>>

(* ----------------------------- recvThread ------------------------------ *)

(* The thread calls recv on whatever is in sock_ by now.                   *)
CallRecv(k) ==
    /\ thread[k] = "top"
    /\ thread' = [thread EXCEPT ![k] = "recv"]
    /\ reads' = [reads EXCEPT ![k] = sock]
    /\ UNCHANGED <<alive, hasty, windowVars, queue, dialing, sock, hold, wireVars, resized>>

(* It returns with some of what has come.                                  *)
Received(k, n) ==
    LET s == reads[k]
    IN  /\ thread[k] = "recv" /\ s \in Conns
        /\ n \in 1..Len(inbox[s])
        /\ thread' = [thread EXCEPT ![k] = "post"]
        /\ reads' = [reads EXCEPT ![k] = 0]
        /\ hold' = [hold EXCEPT ![k] = SubSeq(inbox[s], 1, n)]
        /\ inbox' = [inbox EXCEPT ![s] = SubSeq(@, n + 1, Len(@))]
        /\ UNCHANGED <<alive, hasty, windowVars, queue, dialing, sock, link, peer, resized>>

(* Of two threads that read one socket each may get a piece of a line.     *)
(* What the pieces spoil beyond this line is left out.                     *)
Torn(k) ==
    LET s == reads[k]
    IN  /\ thread[k] = "recv" /\ s \in Conns
        /\ inbox[s] # << >>
        /\ \E j \in Conns \ {k} : reads[j] = s
        /\ inbox' = [inbox EXCEPT ![s] = Tail(@)]
        /\ UNCHANGED <<alive, hasty, windowVars, queue, dialing, sock, threadVars, link, peer, resized>>

Post(k) ==
    /\ thread[k] = "post"
    /\ queue' = Append(queue, Head(hold[k]))
    /\ hold' = [hold EXCEPT ![k] = Tail(@)]
    /\ thread' = [thread EXCEPT ![k] = IF Len(hold[k]) = 1 THEN "top" ELSE "post"]
    /\ UNCHANGED <<alive, hasty, windowVars, dialing, sock, reads, wireVars, resized>>

(* The socket is invalid or not connected yet, or its connection is over.  *)
NoMoreData(s) == \/ s = 0
                 \/ s \in Conns /\ link[s] \in {"none", "dialing"}
                 \/ s \in Conns /\ link[s] = "gone" /\ inbox[s] = << >>

\* Seeded fault: the window is told nothing.
EndSilently(k) ==
    /\ thread[k] = "recv" /\ NoMoreData(reads[k])
    /\ thread' = [thread EXCEPT ![k] = "none"]
    /\ reads' = [reads EXCEPT ![k] = 0]
    /\ UNCHANGED <<alive, hasty, windowVars, queue, dialing, sock, hold, wireVars, resized>>

EndThread(k) ==
    /\ thread[k] = "recv" /\ NoMoreData(reads[k])
    /\ thread' = [thread EXCEPT ![k] = "none"]
    /\ reads' = [reads EXCEPT ![k] = 0]
    /\ queue' = Append(queue, Disconnected)
    /\ UNCHANGED <<alive, hasty, windowVars, dialing, sock, hold, wireVars, resized>>

(* ------------------------------ customer ------------------------------- *)

(* Posted messages are dispatched before input, and none of it while the   *)
(* window is disabled or its thread is inside connect.                     *)
TakesInput == alive /\ ~dialing /\ ~boxed /\ queue = << >>

(* WsClient::connect replaces sock_ at once; an earlier socket and thread  *)
(* are not closed.  An overlay that was left over the panel may take the   *)
(* click, or not.                                                          *)
Connect(k) ==
    /\ TakesInput /\ win.screen = "connect"
    /\ link[k] = "none" /\ \A j \in 1..(k - 1) : link[j] # "none"
    /\ dialing' = TRUE
    /\ sock' = k
    /\ link' = [link EXCEPT ![k] = "dialing"]
    /\ hasty' = (hasty \/ \E j \in Conns : Running(j))
    /\ UNCHANGED <<alive, windowVars, queue, threadVars, inbox, peer, resized>>

Connected ==
    /\ dialing
    /\ dialing' = FALSE
    /\ link' = [link EXCEPT ![sock] = "open"]
    /\ thread' = [thread EXCEPT ![sock] = "top"]
    /\ UNCHANGED <<alive, hasty, windowVars, queue, sock, reads, hold, inbox, peer, resized>>

\* Seeded fault: sock_ gets the result of ::connect.
ConnectFailsWithError ==
    /\ dialing
    /\ dialing' = FALSE
    /\ link' = [link EXCEPT ![sock] = "none"]
    /\ sock' = -1
    /\ UNCHANGED <<alive, hasty, windowVars, queue, threadVars, inbox, peer, resized>>

ConnectFails ==
    /\ dialing
    /\ dialing' = FALSE
    /\ link' = [link EXCEPT ![sock] = "none"]
    /\ sock' = 0
    /\ UNCHANGED <<alive, hasty, windowVars, queue, threadVars, inbox, peer, resized>>

(* WM_SIZE from the customer: a fullscreen window has no frame.            *)
Resize(hooked) ==
    /\ TakesInput /\ win.shape = "windowed"
    /\ IF win.screen = "main"
       THEN win' = ShowMainPanel(win, hooked) /\ resized' = TRUE
       ELSE win' = ShowConnectPanel(win) /\ UNCHANGED resized
    /\ UNCHANGED <<alive, hasty, active, boxed, queue, dialing, sock, threadVars, wireVars>>

(* Another box may be open.                                                *)
DismissBox ==
    /\ alive /\ boxed /\ ~dialing
    /\ boxed' \in BOOLEAN
    /\ UNCHANGED <<alive, hasty, win, active, queue, dialing, sock, threadVars, wireVars, resized>>

(* WM_CLOSE, ignored while g_locked.  The process ends; the server's ends  *)
(* of its connections are of no more interest.                             *)
Close ==
    /\ TakesInput /\ ~win.locked
    /\ alive' = FALSE
    /\ win' = FirstWindow /\ active' = FALSE
    /\ sock' = 0
    /\ thread' = [k \in Conns |-> "none"]
    /\ hold' = [k \in Conns |-> << >>]
    /\ link' = [k \in Conns |-> IF link[k] = "none" THEN "none" ELSE "gone"]
    /\ inbox' = [k \in Conns |-> << >>]
    /\ peer' = [k \in Conns |-> Newcomer]
    /\ resized' = FALSE /\ hasty' = FALSE
    /\ reads' = [k \in Conns |-> 0]
    /\ UNCHANGED <<boxed, queue, dialing>>

Launch ==
    /\ ~alive
    /\ alive' = TRUE
    /\ UNCHANGED <<windowVars, queue, dialing, sock, threadVars, wireVars, resized, hasty>>

-----------------------------------------------------------------------------
(* What the server does to a connection: anything that ServerSide allows.  *)
(* A step writes all its lines.                                            *)

Cap == IF hasty THEN HastyCap ELSE QueueCap

InFlight == Len(queue) + MapThenSumSet(LAMBDA j : Len(inbox[j]) + Len(hold[j]), Conns)

Tells(k, d, r, last) ==
    /\ link[k] = "open"
    /\ InFlight + Len(d.lines) <= Cap
    /\ inbox' = [inbox EXCEPT ![k] = @ \o d.lines]
    /\ peer' = [peer EXCEPT ![k] = Belief(r, last, d.then.active, d.then.locked)]
    /\ UNCHANGED <<alive, hasty, windowVars, queue, dialing, sock, threadVars, link, resized>>

(* The time is on the labels only.                                         *)
Held(k) == Status(peer[k].active, peer[k].locked, 0)

Does(deed) == deed \in IF hasty THEN HastyDeeds ELSE Deeds

PeerRegisters(k) ==
    LET b == peer[k]
    IN  /\ Does("register") /\ b.reg = "no"
        /\ Tells(k, RegisterDeed(Held(k)), IF b.last = "none" THEN "early" ELSE "late", b.last)

PeerStarts(k) ==
    /\ Does("start")
    /\ \E d \in StartDeeds(Held(k)) : Tells(k, d, peer[k].reg, "start")

(* A tick may reach the duration and end the session.                      *)
PeerTicks(k) ==
    /\ Does("tick")
    /\ \E d \in TickDeeds(Held(k)) :
         Tells(k, d, peer[k].reg, IF d.then.active THEN peer[k].last ELSE "end")

PeerEnds(k) ==
    /\ Does("end")
    /\ \E d \in EndDeeds(Held(k)) : Tells(k, d, peer[k].reg, "end")

PeerLocks(k) == Does("lock") /\ Tells(k, LockDeed(Held(k)), peer[k].reg, "hand")

(* Of all talk only a message that opens a box.                            *)
PeerSays(k) ==
    Does("say") /\ Tells(k, Deed(<<ServerMsg>>, Held(k)), peer[k].reg, peer[k].last)

(* The end comes after what was sent, or a reset destroys what was not     *)
(* yet read.                                                               *)
PeerGone(k) ==
    /\ Does("gone") /\ link[k] = "open"
    /\ link' = [link EXCEPT ![k] = "gone"]
    /\ \/ UNCHANGED inbox
       \/ inbox' = [inbox EXCEPT ![k] = << >>]
    /\ peer' = [peer EXCEPT ![k] = Newcomer]
    /\ UNCHANGED <<alive, hasty, windowVars, queue, dialing, sock, threadVars, resized>>

Server(k) == \/ PeerRegisters(k)
             \/ PeerStarts(k)
             \/ PeerTicks(k)
             \/ PeerEnds(k)
             \/ PeerLocks(k)
             \/ PeerSays(k)
             \/ PeerGone(k)

RecvThread(k) == \/ CallRecv(k)
                 \/ \E n \in 1..QueueCap : Received(k, n)
                 \/ Torn(k)
                 \/ Post(k)
                 \/ EndThread(k)

Dial == Connected \/ ConnectFails

User == \/ \E k \in Conns : Connect(k)
        \/ \E hooked \in BOOLEAN : Resize(hooked)
        \/ DismissBox \/ Close \/ Launch

Next == \/ \E hooked \in BOOLEAN : Dispatch(hooked)
        \/ Dial
        \/ \E k \in Conns : RecvThread(k) \/ Server(k)
        \/ User

Spec == Init /\ [][Next]_vars

(* Threads run, a connection attempt comes to an end, and the loop that    *)
(* runs, a message box's too, dispatches what is posted.  Nothing makes    *)
(* the customer or the server do anything.                                 *)
FairSpec == /\ Spec
            /\ WF_vars(\E hooked \in BOOLEAN : Dispatch(hooked))
            /\ WF_vars(Dial)
            /\ \A k \in Conns : WF_vars(RecvThread(k))

-----------------------------------------------------------------------------
(* Properties.                                                             *)

(* Every variable keeps the shape the code gives it.                       *)
TypeOK ==
    /\ alive \in BOOLEAN /\ hasty \in BOOLEAN
    /\ win \in Window
    /\ active \in BOOLEAN /\ boxed \in BOOLEAN
    /\ queue \in Seq(Posted)
    /\ dialing \in BOOLEAN
    /\ sock \in Conns \cup {0}
    /\ thread \in [Conns -> {"none", "top", "recv", "post"}]
    /\ reads \in [Conns -> Conns \cup {0}]
    /\ hold \in [Conns -> Seq(ServerLine)]
    /\ link \in [Conns -> {"none", "dialing", "open", "gone"}]
    /\ inbox \in [Conns -> Seq(ServerLine)]
    /\ peer \in [Conns -> WinPeer]
    /\ resized \in BOOLEAN

Whole(w) ==
    /\ w.shape = "full" <=> w.saved = "windowed"
    /\ w.saved # "full"
    /\ w.hook => w.shape = "full"
    /\ w.shape = "full" => w.locked
    /\ w.screen = "main" /\ Layered => (w.locked <=> w.overlay = "shown")

(* ApplyLock resizes the window, WM_SIZE builds the panel again, and that  *)
(* calls ApplyLock: whatever nests in whatever, at the end the window is   *)
(* fullscreen exactly when a windowed geometry is kept to go back to, the  *)
(* keyboard is hooked only on a fullscreen window and a fullscreen window  *)
(* is locked, and on the main panel the overlay is up exactly when         *)
(* g_locked is set.                                                        *)
LockIsWhole == Whole(win)

(* The one connection of a patient customer has been read to the end and   *)
(* all of it dispatched.                                                   *)
Settled(k) == /\ sock = k /\ ~dialing /\ ~hasty
              /\ link[k] = "open"
              /\ inbox[k] = << >> /\ hold[k] = << >> /\ queue = << >>

(* Such a station is locked whenever the server holds it locked; once the  *)
(* server has said anything, its session runs exactly when the server's    *)
(* does; and a session started after REGISTER leaves the station free      *)
(* until the admin or a resize of the window interferes, although the      *)
(* panel was built, and locked, again on the way.                          *)
StationFollows ==
    \A k \in Conns : Settled(k) /\ peer[k].last # "none" =>
        /\ peer[k].locked => win.locked
        /\ active = peer[k].active
        /\ peer[k].last = "start" /\ peer[k].reg # "late" /\ ~resized => ~win.locked

(* A settled main panel asks for the payment of a session that has ended   *)
(* as long as the admin does nothing else: neither the rebuild on the way  *)
(* to fullscreen nor the LOCK line after SESSION_END wipes it.             *)
PaymentIsAsked ==
    \A k \in Conns :
        Settled(k) /\ peer[k].last = "end" /\ peer[k].reg = "early" => win.text = "pay"

LockSent(k) == link[k] = "open" /\ \E i \in DOMAIN inbox[k] : inbox[k][i] = Lock(TRUE)

(* A lock the server has sent takes effect although a box stays open for   *)
(* ever, unless the connection or the client ends first: unlike those of   *)
(* the GTK client, its boxes let every message through.                    *)
LockTakesEffect ==
    \A k \in Conns : LockSent(k) ~> win.locked \/ link[k] = "gone" \/ ~alive \/ hasty

(* A station whose server is gone comes back to the connect panel.         *)
LossIsNoticed ==
    \A k \in Conns :
        link[k] = "gone" /\ sock = k ~> win.screen = "connect" \/ sock # k

-----------------------------------------------------------------------------
(* What the repository says of the program and the program does not do.    *)

(* README.md: "LOCK", "Lock/unlock workstation", so a station that has     *)
(* handled the server's unlock is not locked.                              *)
UnlockFrees ==
    \A k \in Conns : Settled(k) /\ peer[k].last = "hand" /\ ~peer[k].locked /\ ~resized
                       => ~win.locked
=============================================================================
