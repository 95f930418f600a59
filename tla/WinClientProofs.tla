--------------------------- MODULE WinClientProofs ---------------------------
(***************************************************************************)
(* Theorems about WinClient, for any number of connections, any order of   *)
(* lines, customers who click Connect as they like, and a Windows with or  *)
(* without layered child windows; and about what a station of a patient    *)
(* customer shows once it has handled all its server sent.                 *)
(***************************************************************************)
EXTENDS WinClient, ServerSideProofs, TLAPS, SequenceTheorems

(* A thread that is posting has something to post, and connect works on a  *)
(* socket.                                                                 *)
WindowOK ==
    /\ alive \in BOOLEAN
    /\ win \in Window /\ Whole(win)
    /\ active \in BOOLEAN /\ boxed \in BOOLEAN /\ resized \in BOOLEAN

ThreadOK ==
    /\ queue \in Seq(Posted)
    /\ dialing \in BOOLEAN
    /\ sock \in Conns \cup {0}
    /\ dialing => sock \in Conns
    /\ thread \in [Conns -> {"none", "top", "recv", "post"}]
    /\ reads \in [Conns -> Conns \cup {0}]
    /\ hold \in [Conns -> Seq(ServerLine)]
    /\ \A k \in Conns : thread[k] = "post" => hold[k] # << >>

WireOK ==
    /\ link \in [Conns -> {"none", "dialing", "open", "gone"}]
    /\ inbox \in [Conns -> Seq(ServerLine)]
    /\ peer \in [Conns -> WinPeer]

Inv == WindowOK /\ ThreadOK /\ WireOK

LEMMA InvGives == Inv => LockIsWhole /\ (hasty \in BOOLEAN => TypeOK)
  BY DEF Inv, WindowOK, ThreadOK, WireOK, TypeOK, LockIsWhole

(* ------------------------ the window's functions ----------------------- *)

Good(w) == w \in Window /\ Whole(w)

LEMMA FirstWindowGood == Good(FirstWindow)
  BY DEF Good, Window, Whole, FirstWindow, Win

LEMMA ConnectPanelGood ==
  ASSUME NEW w, Good(w)
  PROVE  Good(ShowConnectPanel(w))
  BY DEF Good, Window, Whole, ShowConnectPanel, Win

(* The functions that nest: the panel between its creation and its lock    *)
(* is not whole, so each is taken with what it calls.                      *)
LEMMA FullscreenGood ==
  ASSUME NEW w, Good(w), NEW hooked \in BOOLEAN
  PROVE  Good(GoFullscreen(w, hooked))
  BY DEF Good, Window, Whole, GoFullscreen, SizedInApplyLock, MainPanel, ShowConnectPanel, Win

LEMMA RestoreGood ==
  ASSUME NEW w, Good(w)
  PROVE  Good(Restore(w))
  <1>. USE DEF Good, Window, Whole, Win
  <1>. DEFINE hidden == IF w.overlay = "shown" THEN "hidden" ELSE w.overlay
              down == Win(w.screen, hidden, FALSE, "windowed", "none", FALSE, w.text)
  <1>1. CASE w.saved = "none"
    <2>1. Restore(w) = down
      BY <1>1 DEF Restore
    <2>. QED  BY <1>1, <2>1
  <1>2. CASE w.saved = "windowed"
    <2>1. Restore(w) = SizedInApplyLock(down)
      BY <1>2 DEF Restore
    <2>2. Good(SizedInApplyLock(down))
      BY DEF SizedInApplyLock, MainPanel, ShowConnectPanel
    <2>. QED  BY <2>1, <2>2
  <1>. QED  BY <1>1, <1>2

LEMMA ApplyLockGood ==
  ASSUME NEW w, Good(w), NEW b \in BOOLEAN, NEW hooked \in BOOLEAN
  PROVE  Good(ApplyLock(w, b, hooked))
  BY FullscreenGood, RestoreGood DEF ApplyLock

LEMMA MainPanelGood ==
  ASSUME NEW w, Good(w), NEW hooked \in BOOLEAN
  PROVE  Good(ShowMainPanel(w, hooked))
  BY DEF Good, Window, Whole, ShowMainPanel, ApplyLock, GoFullscreen, SizedInApplyLock,
         MainPanel, ShowConnectPanel, Win

LEMMA TextGood ==
  ASSUME NEW w, Good(w), NEW t \in {"waiting", "running", "pay"}
  PROVE  Good(SetText(w, t))
  BY DEF Good, Window, Whole, SetText, Win

(* ------------------------------ the lines ------------------------------ *)

LEMMA LockField ==
  ASSUME NEW m \in Posted, m.type = "LOCK"
  PROVE  m.locked \in BOOLEAN
  BY DEF Posted, Disconnected, ServerLine, PlainTypes

(* ---------------------------- message handlers ------------------------- *)

LEMMA HandlerStep ==
  ASSUME WindowOK, NEW m \in Posted, NEW hooked \in BOOLEAN, HandleMsg(m, hooked),
         UNCHANGED alive
  PROVE  WindowOK'
  <1>0. Good(win)
    BY DEF WindowOK, Good
  <1>. SUFFICES Good(win') /\ active' \in BOOLEAN /\ boxed' \in BOOLEAN /\ resized' \in BOOLEAN
    BY DEF WindowOK, Good, Whole
  <1>. USE DEF WindowOK
  <1>1. CASE OnRegistered(hooked)
    BY <1>0, <1>1, MainPanelGood DEF OnRegistered
  <1>2. CASE OnSessionStart(hooked)
    <2>1. Good(ApplyLock(SetText(win, "running"), FALSE, hooked))
      BY <1>0, TextGood, ApplyLockGood
    <2>. QED  BY <1>2, <2>1 DEF OnSessionStart
  <1>3. CASE OnSessionEnd(hooked)
    <2>1. Good(SetText(ApplyLock(win, TRUE, hooked), "pay"))
      BY <1>0, TextGood, ApplyLockGood
    <2>. QED  BY <1>3, <2>1 DEF OnSessionEnd
  <1>4. CASE OnTick
    <2>1. Good(SetText(win, "running"))
      BY <1>0, TextGood
    <2>. QED  BY <1>0, <1>4, <2>1 DEF OnTick
  <1>5. CASE m.type = "LOCK" /\ OnLock(m.locked, hooked)
    <2>1. Good(ApplyLock(win, m.locked, hooked))
      BY <1>0, <1>5, LockField, ApplyLockGood
    <2>. QED  BY <1>5, <2>1 DEF OnLock
  <1>6. CASE OnServerMsg
    BY <1>0, <1>6 DEF OnServerMsg
  <1>7. CASE OnSocketDisc
    <2>1. Good(ShowConnectPanel(ApplyLock(win, FALSE, FALSE)))
      BY <1>0, ConnectPanelGood, ApplyLockGood
    <2>. QED  BY <1>0, <1>7, <2>1 DEF OnSocketDisc
  <1>8. CASE UNCHANGED <<windowVars, resized>>
    BY <1>0, <1>8 DEF windowVars
  <1>. QED  BY <1>1, <1>2, <1>3, <1>4, <1>5, <1>6, <1>7, <1>8 DEF HandleMsg

LEMMA DispatchStep ==
  ASSUME Inv, NEW hooked \in BOOLEAN, Dispatch(hooked)
  PROVE  Inv'
  <1>1. Head(queue) \in Posted /\ queue' \in Seq(Posted)
    BY DEF Inv, ThreadOK, Dispatch
  <1>2. WindowOK'
    BY <1>1, HandlerStep DEF Inv, Dispatch
  <1>3. ThreadOK' /\ WireOK'
    BY <1>1 DEF Inv, ThreadOK, WireOK, Dispatch, threadVars, wireVars
  <1>. QED  BY <1>2, <1>3 DEF Inv

(* ------------------------------ recvThread ----------------------------- *)

LEMMA ReceivedStep ==
  ASSUME Inv, NEW k \in Conns, NEW n \in 1..QueueCap, Received(k, n)
  PROVE  Inv'
  <1>. DEFINE s == reads[k]
  <1>1. s \in Conns /\ n \in 1..Len(inbox[s]) /\ inbox[s] \in Seq(ServerLine)
    BY DEF Received, Inv, WireOK
  <1>2. SubSeq(inbox[s], 1, n) \in Seq(ServerLine) /\ Len(SubSeq(inbox[s], 1, n)) = n
    BY <1>1, SubSeqProperties
  <1>3. SubSeq(inbox[s], n + 1, Len(inbox[s])) \in Seq(ServerLine)
    BY <1>1, SubSeqProperties
  <1>4. SubSeq(inbox[s], 1, n) # << >>
    BY <1>1, <1>2
  <1>. HIDE DEF s
  <1>5. ThreadOK'
    <2>1. thread' = [thread EXCEPT ![k] = "post"] /\ reads' = [reads EXCEPT ![k] = 0]
          /\ hold' = [hold EXCEPT ![k] = SubSeq(inbox[s], 1, n)]
          /\ UNCHANGED <<queue, dialing, sock>>
      BY DEF Received, s
    <2>2. SubSeq(inbox[s], 1, n) \in Seq(ServerLine)
      BY <1>2
    <2>3. \A j \in Conns : thread'[j] = "post" => hold'[j] # << >>
      BY <2>1, <1>4 DEF Inv, ThreadOK
    <2>. QED  BY <2>1, <2>2, <2>3 DEF Inv, ThreadOK
  <1>6. WireOK'
    <2>1. inbox' = [inbox EXCEPT ![s] = SubSeq(inbox[s], n + 1, Len(inbox[s]))]
          /\ UNCHANGED <<link, peer>>
      BY DEF Received, s
    <2>. QED  BY <2>1, <1>3 DEF Inv, WireOK
  <1>7. WindowOK'
    BY DEF Received, Inv, WindowOK, windowVars
  <1>. QED  BY <1>5, <1>6, <1>7 DEF Inv

LEMMA PostStep ==
  ASSUME Inv, NEW k \in Conns, Post(k)
  PROVE  Inv'
  <1>1. hold[k] \in Seq(ServerLine) /\ hold[k] # << >>
    BY DEF Inv, ThreadOK, Post
  <1>2. Head(hold[k]) \in Posted /\ Tail(hold[k]) \in Seq(ServerLine)
        /\ Len(Tail(hold[k])) = Len(hold[k]) - 1
    BY <1>1, HeadTailProperties DEF Posted
  <1>3. Len(hold[k]) # 1 => Tail(hold[k]) # << >>
    <2>1. Len(hold[k]) # 1 => Len(Tail(hold[k])) # 0
      BY <1>1, <1>2, LenProperties
    <2>. QED  BY <2>1, <1>2, EmptySeq
  <1>4. queue' \in Seq(Posted)
    BY <1>2 DEF Inv, ThreadOK, Post
  <1>5. ThreadOK'
    <2>1. thread' = [thread EXCEPT ![k] = IF Len(hold[k]) = 1 THEN "top" ELSE "post"]
          /\ hold' = [hold EXCEPT ![k] = Tail(hold[k])]
          /\ UNCHANGED <<dialing, sock, reads>>
      BY DEF Post
    <2>2. \A j \in Conns : thread'[j] = "post" => hold'[j] # << >>
      BY <2>1, <1>3 DEF Inv, ThreadOK
    <2>. QED  BY <2>1, <2>2, <1>2, <1>4 DEF Inv, ThreadOK
  <1>. QED  BY <1>5 DEF Inv, WindowOK, WireOK, Post, windowVars, wireVars

LEMMA ThreadStep ==
  ASSUME Inv, NEW k \in Conns, RecvThread(k)
  PROVE  Inv'
  <1>1. CASE CallRecv(k)
    BY <1>1 DEF CallRecv, Inv, WindowOK, ThreadOK, WireOK, windowVars, wireVars
  <1>2. CASE \E n \in 1..QueueCap : Received(k, n)
    BY <1>2, ReceivedStep
  <1>3. CASE Torn(k)
    <2>1. WireOK'
      BY <1>3 DEF Torn, Inv, WireOK
    <2>. QED  BY <1>3, <2>1 DEF Torn, Inv, WindowOK, ThreadOK, windowVars, threadVars
  <1>4. CASE Post(k)
    BY <1>4, PostStep
  <1>5. CASE EndThread(k)
    <2>1. queue' \in Seq(Posted)
      BY <1>5 DEF EndThread, Inv, ThreadOK, Posted
    <2>2. ThreadOK'
      BY <1>5, <2>1 DEF EndThread, Inv, ThreadOK
    <2>. QED  BY <1>5, <2>2 DEF EndThread, Inv, WindowOK, WireOK, windowVars, wireVars
  <1>. QED  BY <1>1, <1>2, <1>3, <1>4, <1>5 DEF RecvThread

(* ---------------------------- the customer ----------------------------- *)

LEMMA DialStep ==
  ASSUME Inv, Dial
  PROVE  Inv'
  <1>1. CASE Connected
    BY <1>1 DEF Connected, Inv, WindowOK, ThreadOK, WireOK, windowVars
  <1>2. CASE ConnectFails
    BY <1>2 DEF ConnectFails, Inv, WindowOK, ThreadOK, WireOK, windowVars, threadVars
  <1>. QED  BY <1>1, <1>2 DEF Dial

LEMMA NewcomerType == Newcomer \in WinPeer
  BY Zenon DEF Newcomer, Belief, WinPeer

LEMMA UserStep ==
  ASSUME Inv, User
  PROVE  Inv'
  <1>0. Good(win)
    BY DEF Inv, WindowOK, Good
  <1>1. ASSUME NEW k \in Conns, Connect(k)
        PROVE  Inv'
    BY <1>1 DEF Connect, Inv, WindowOK, ThreadOK, WireOK, windowVars, threadVars
  <1>2. ASSUME NEW hooked \in BOOLEAN, Resize(hooked)
        PROVE  Inv'
    <2>1. Good(win') /\ resized' \in BOOLEAN
      BY <1>0, <1>2, MainPanelGood, ConnectPanelGood DEF Resize, Inv, WindowOK
    <2>2. WindowOK'
      BY <1>2, <2>1 DEF Resize, Inv, WindowOK, Good, Whole
    <2>. QED  BY <1>2, <2>2 DEF Resize, Inv, ThreadOK, WireOK, threadVars, wireVars
  <1>3. CASE DismissBox
    BY <1>3 DEF DismissBox, Inv, WindowOK, ThreadOK, WireOK, threadVars, wireVars
  <1>4. CASE Close
    <2>1. WindowOK'
      BY <1>4, FirstWindowGood DEF Close, Inv, WindowOK, Good, Whole
    <2>2. ThreadOK'
      <3>1. dialing' = FALSE /\ sock' = 0 /\ queue' \in Seq(Posted)
        BY <1>4 DEF Close, TakesInput, Inv, ThreadOK
      <3>2. thread' \in [Conns -> {"none", "top", "recv", "post"}]
            /\ reads' \in [Conns -> Conns \cup {0}]
            /\ \A k \in Conns : thread'[k] # "post"
        BY <1>4 DEF Close
      <3>3. hold' \in [Conns -> Seq(ServerLine)]
        BY <1>4 DEF Close
      <3>. QED  BY <3>1, <3>2, <3>3 DEF ThreadOK
    <2>3. WireOK'
      BY <1>4, NewcomerType DEF Close, Inv, WireOK
    <2>. QED  BY <2>1, <2>2, <2>3 DEF Inv
  <1>5. CASE Launch
    BY <1>5 DEF Launch, Inv, WindowOK, ThreadOK, WireOK, windowVars, threadVars, wireVars
  <1>. QED  BY <1>1, <1>2, <1>3, <1>4, <1>5 DEF User

(* ------------------------------ the server ----------------------------- *)

LEMMA BeliefType ==
  ASSUME NEW r \in {"no", "early", "late"}, NEW l \in {"none", "start", "end", "hand"},
         NEW a \in BOOLEAN, NEW b \in BOOLEAN
  PROVE  Belief(r, l, a, b) \in WinPeer
  BY Zenon DEF Belief, WinPeer

LEMMA TellsStep ==
  ASSUME Inv, NEW k \in Conns, NEW d, DeedOK(d), NEW r \in {"no", "early", "late"},
         NEW l \in {"none", "start", "end", "hand"}, Tells(k, d, r, l)
  PROVE  Inv'
  <1>1. inbox[k] \o d.lines \in Seq(ServerLine)
    BY DEF Inv, WireOK, DeedOK
  <1>. DEFINE b == Belief(r, l, d.then.active, d.then.locked)
  <1>2. b \in WinPeer
    BY BeliefType DEF DeedOK, Typed
  <1>3. inbox' = [inbox EXCEPT ![k] = inbox[k] \o d.lines] /\ peer' = [peer EXCEPT ![k] = b]
        /\ UNCHANGED link
    BY DEF Tells
  <1>. HIDE DEF b
  <1>4. WireOK'
    BY <1>1, <1>2, <1>3 DEF Inv, WireOK
  <1>. QED  BY <1>4 DEF Tells, Inv, WindowOK, ThreadOK, windowVars, threadVars

LEMMA ServerStep ==
  ASSUME Inv, NEW k \in Conns, Server(k)
  PROVE  Inv'
  <1>. DEFINE b == peer[k]
              s == Held(k)
  <1>0. b \in WinPeer
    BY DEF Inv, WireOK
  <1>f. /\ b.reg \in {"no", "early", "late"} /\ b.last \in {"none", "start", "end", "hand"}
        /\ b.active \in BOOLEAN /\ b.locked \in BOOLEAN
    BY <1>0 DEF WinPeer
  <1>s. Typed(s)
    BY <1>f, StatusType DEF Held
  <1>. HIDE DEF b, s
  <1>1. CASE PeerRegisters(k)
    <2>1. PICK r \in {"no", "early", "late"} : Tells(k, RegisterDeed(s), r, b.last)
      BY <1>1 DEF PeerRegisters, b, s
    <2>. QED  BY <1>f, <1>s, <2>1, DeedTypes, TellsStep
  <1>2. CASE PeerStarts(k)
    <2>1. PICK d \in StartDeeds(s) : Tells(k, d, b.reg, "start")
      BY <1>2 DEF PeerStarts, b, s
    <2>2. DeedOK(d)
      BY <1>s, DeedTypes
    <2>. QED  BY <1>f, <2>1, <2>2, TellsStep
  <1>3. CASE PeerTicks(k)
    <2>1. PICK d \in TickDeeds(s) : Tells(k, d, b.reg, IF d.then.active THEN b.last ELSE "end")
      BY <1>3 DEF PeerTicks, b, s
    <2>2. DeedOK(d)
      BY <1>s, DeedTypes
    <2>. QED  BY <1>f, <2>1, <2>2, TellsStep
  <1>4. CASE PeerEnds(k)
    <2>1. PICK d \in EndDeeds(s) : Tells(k, d, b.reg, "end")
      BY <1>4 DEF PeerEnds, b, s
    <2>2. DeedOK(d)
      BY <1>s, DeedTypes
    <2>. QED  BY <1>f, <2>1, <2>2, TellsStep
  <1>5. CASE PeerLocks(k)
    <2>1. Tells(k, LockDeed(s), b.reg, "hand")
      BY <1>5 DEF PeerLocks, b, s
    <2>2. DeedOK(LockDeed(s))
      BY <1>s, DeedTypes
    <2>. QED  BY <1>f, <2>1, <2>2, TellsStep
  <1>6. CASE PeerSays(k)
    <2>1. Tells(k, Deed(<<ServerMsg>>, s), b.reg, b.last)
      BY <1>6 DEF PeerSays, b, s
    <2>. QED  BY <1>f, <1>s, <2>1, DeedTypes, TellsStep
  <1>7. CASE PeerGone(k)
    <2>1. inbox' \in [Conns -> Seq(ServerLine)]
      <3>1. inbox \in [Conns -> Seq(ServerLine)] /\ << >> \in Seq(ServerLine)
        BY DEF Inv, WireOK
      <3>2. inbox' = inbox \/ inbox' = [inbox EXCEPT ![k] = << >>]
        BY <1>7 DEF PeerGone
      <3>. QED  BY <3>1, <3>2
    <2>2. link' \in [Conns -> {"none", "dialing", "open", "gone"}]
      BY <1>7 DEF PeerGone, Inv, WireOK
    <2>3. peer' \in [Conns -> WinPeer]
      BY <1>7, NewcomerType DEF PeerGone, Inv, WireOK
    <2>4. WireOK'
      BY <2>1, <2>2, <2>3 DEF WireOK
    <2>. QED  BY <1>7, <2>4 DEF PeerGone, Inv, WindowOK, ThreadOK, windowVars, threadVars
  <1>. QED  BY <1>1, <1>2, <1>3, <1>4, <1>5, <1>6, <1>7 DEF Server

(* ------------------------------- theorems ------------------------------ *)

LEMMA InitInv == Init => Inv
  <1>. SUFFICES ASSUME Init PROVE Inv
    OBVIOUS
  <1>1. WindowOK
    BY FirstWindowGood DEF Init, WindowOK, Good
  <1>e. << >> \in Seq(ServerLine) /\ << >> \in Seq(Posted)
    OBVIOUS
  <1>2. ThreadOK
    BY <1>e DEF Init, ThreadOK
  <1>3. WireOK
    BY <1>e, NewcomerType DEF Init, WireOK
  <1>. QED  BY <1>1, <1>2, <1>3 DEF Inv

LEMMA NextInv == Inv /\ [Next]_vars => Inv'
  <1>. SUFFICES ASSUME Inv, [Next]_vars PROVE Inv'
    OBVIOUS
  <1>1. CASE Next
    BY <1>1, DispatchStep, DialStep, ThreadStep, ServerStep, UserStep DEF Next
  <1>2. CASE UNCHANGED vars
    BY <1>2 DEF vars, Inv, WindowOK, ThreadOK, WireOK, Whole, windowVars, threadVars, wireVars
  <1>. QED  BY <1>1, <1>2

LEMMA Invariance == Spec => []Inv
  BY InitInv, NextInv, PTL DEF Spec

(* A customer who was hasty stays it until the client is closed.           *)
LEMMA HastyMoves ==
  ASSUME hasty \in BOOLEAN, [Next]_vars
  PROVE  hasty' \in BOOLEAN /\ (hasty' = hasty \/ hasty' = TRUE \/ Close)
  <1>1. ASSUME NEW hooked \in BOOLEAN, Dispatch(hooked)
        PROVE  hasty' = hasty
    BY <1>1 DEF Dispatch
  <1>2. CASE Dial
    BY <1>2 DEF Dial, Connected, ConnectFails
  <1>3. ASSUME NEW k \in Conns, RecvThread(k)
        PROVE  hasty' = hasty
    BY <1>3 DEF RecvThread, CallRecv, Received, Torn, Post, EndThread
  <1>4. ASSUME NEW k \in Conns, Server(k)
        PROVE  hasty' = hasty
    BY <1>4 DEF Server, PeerRegisters, PeerStarts, PeerTicks, PeerEnds, PeerLocks, PeerSays,
                PeerGone, Tells
  <1>5. CASE User
    BY <1>5 DEF User, Connect, Resize, DismissBox, Close, Launch
  <1>6. CASE UNCHANGED vars
    BY <1>6 DEF vars
  <1>. QED  BY <1>1, <1>2, <1>3, <1>4, <1>5, <1>6 DEF Next

LEMMA HastyType == Spec => [](hasty \in BOOLEAN)
  <1>1. Init => hasty \in BOOLEAN
    BY DEF Init
  <1>2. hasty \in BOOLEAN /\ [Next]_vars => (hasty \in BOOLEAN)'
    BY HastyMoves
  <1>. QED  BY <1>1, <1>2, PTL DEF Spec

(* The globals and threads of the Windows client keep the shape the code   *)
(* gives them, whatever the server sends and whenever the customer clicks. *)
THEOREM TypeCorrect == Spec => []TypeOK
  <1>1. Inv /\ hasty \in BOOLEAN => TypeOK
    BY InvGives
  <1>. QED  BY <1>1, Invariance, HastyType, PTL

(* ApplyLock and the panels it makes WM_SIZE build leave a whole lock: the *)
(* geometry to go back to, fullscreen, the keyboard hook, g_locked and the *)
(* overlay agree, for every order of lines and resizes.                    *)
THEOREM LockStaysWhole == Spec => []LockIsWhole
  <1>1. Inv => LockIsWhole
    BY InvGives
  <1>. QED  BY <1>1, Invariance, PTL

(* --------------------- what the station has to catch up ----------------- *)

(* StationFollows and PaymentIsAsked speak of a station that has caught up *)
(* with its server.  What is preserved speaks of the lines it still has to *)
(* handle.                                                                 *)

(* What is on its way to the window, in the order in which it will be      *)
(* dispatched: posted, held by the thread, not yet received.               *)
Pending(k) == queue \o (hold[k] \o inbox[k])

LockWriters == {"REGISTERED", "SESSION_START", "SESSION_END", "LOCK"}

ActiveWriters == {"SESSION_START", "SESSION_END"}

Changers == {"SESSION_START", "SESSION_END", "LOCK"}

(* Line m, right after one of type t, is the last to write the lock; or m  *)
(* is the next line and nothing after it does.                             *)
Brings(q, t, m) ==
    \E j \in 2..Len(q) : /\ q[j] = m /\ q[j - 1].type = t
                         /\ \A i \in 1..Len(q) : i > j => q[i].type \notin LockWriters

IsNext(q, m) == /\ Len(q) >= 1 /\ q[1] = m
                /\ \A i \in 2..Len(q) : q[i].type \notin LockWriters

(* REGISTERED comes before anything is done to the station.                *)
Leads(q) ==
    \E i \in 1..Len(q) : /\ q[i].type = "REGISTERED"
                         /\ \A j \in 1..(i - 1) : q[j].type \notin Changers

ActiveFollows(k) ==
    LET q == Pending(k)
    IN  /\ \A m : IsLast(m, q, ActiveWriters) => (m.type = "SESSION_START") = peer[k].active
        /\ Without(q, ActiveWriters) => active = peer[k].active

LockFollows(k) ==
    LET q == Pending(k)
    IN  peer[k].locked =>
          /\ \A m : IsLast(m, q, LockWriters) => m.type = "REGISTERED" \/ m = Lock(TRUE)
          /\ Without(q, LockWriters) => win.locked

(* The first unlock after a lock restores the window, which locks it       *)
(* again; only the second one finds it windowed, and frees it.             *)
StartFrees(k) ==
    LET q == Pending(k)
    IN  peer[k].last = "start" /\ peer[k].reg # "late" =>
          \/ Without(q, LockWriters) /\ (~resized => ~win.locked)
          \/ IsNext(q, Lock(FALSE)) /\ (~resized => win.shape = "windowed")
          \/ Brings(q, "SESSION_START", Lock(FALSE))

(* The end of a session makes the window fullscreen before it sets the     *)
(* labels, so that neither a later lock nor the customer builds the panel  *)
(* again.                                                                  *)
AsksForPayment == win.text = "pay" /\ win.shape = "full" /\ ~active

EndAsks(k) ==
    LET q == Pending(k)
    IN  peer[k].last = "end" /\ peer[k].reg = "early" =>
          \/ Without(q, LockWriters) /\ AsksForPayment
          \/ IsNext(q, Lock(TRUE)) /\ AsksForPayment
          \/ Brings(q, "SESSION_END", Lock(TRUE))

PanelComes(k) ==
    LET q == Pending(k)
    IN  /\ peer[k].last = "none" => Without(q, Changers)
        /\ peer[k].reg = "early" => win.screen = "main" \/ Leads(q)

Follows(k) == /\ ActiveFollows(k) /\ LockFollows(k) /\ StartFrees(k) /\ EndAsks(k)
              /\ PanelComes(k)

Followed(k) == sock = k /\ ~dialing /\ link[k] = "open"

(* The customer waits, so there is one thread at most; it reads the socket *)
(* in sock_, and what is posted while it runs is lines.  After it the      *)
(* window is told before it takes another click.                           *)
OneReads ==
    /\ \A k \in Conns : Running(k) => sock = k /\ ~dialing /\ queue \in Seq(ServerLine)
    /\ \A k \in Conns : reads[k] # 0 => thread[k] = "recv"
    /\ \A k \in Conns : thread[k] = "recv" => reads[k] = k
    /\ \A k \in Conns : thread[k] # "post" => hold[k] = << >>

Attended ==
    /\ \A k \in Conns : link[k] = "open" => Running(k)
    /\ \A k \in Conns : link[k] \in {"none", "dialing"} => inbox[k] = << >> /\ peer[k] = Newcomer

WindowIsTold ==
    (\A k \in Conns : ~Running(k)) =>
        IF queue = << >> THEN ~active ELSE queue[Len(queue)] = Disconnected

DialsAlone == dialing => queue = << >> /\ link[sock] = "dialing"

OneThread == OneReads /\ Attended /\ WindowIsTold /\ DialsAlone

FollowInv == OneThread /\ \A k \in Conns : Followed(k) => Follows(k)

(* ------------------------- one step of a sequence ---------------------- *)

LEMMA FirstAndRest ==
  ASSUME NEW S, NEW q \in Seq(S), q # << >>
  PROVE  /\ Len(q) \in Nat /\ Len(q) >= 1 /\ Head(q) = q[1] /\ Tail(q) \in Seq(S)
         /\ Len(Tail(q)) = Len(q) - 1
         /\ \A j \in 1..(Len(q) - 1) : Tail(q)[j] = q[j + 1]
         /\ \A j \in 2..Len(q) : Tail(q)[j - 1] = q[j]
  <1>1. Len(q) \in Nat /\ Len(q) # 0
    BY LenProperties, EmptySeq
  <1>2. /\ Head(q) = q[1] /\ Tail(q) \in Seq(S) /\ Len(Tail(q)) = Len(q) - 1
        /\ \A j \in 1..(Len(q) - 1) : Tail(q)[j] = q[j + 1]
    BY HeadTailProperties
  <1>3. ASSUME NEW j \in 2..Len(q)
        PROVE  Tail(q)[j - 1] = q[j]
    <2>1. j - 1 \in 1..(Len(q) - 1) /\ (j - 1) + 1 = j
      BY <1>1
    <2>. QED  BY <1>2, <2>1
  <1>. QED  BY <1>1, <1>2, <1>3

LEMMA DispatchedFirst ==
  ASSUME NEW S, NEW q \in Seq(S), q # << >>, NEW r \in Seq(S)
  PROVE  q \o r # << >> /\ Head(q \o r) = Head(q) /\ Tail(q \o r) = Tail(q) \o r
  <1>. DEFINE t == Tail(q)
              u == q \o r
  <1>1. /\ Len(q) \in Nat /\ Len(q) >= 1 /\ Head(q) = q[1] /\ t \in Seq(S)
        /\ Len(t) = Len(q) - 1 /\ \A j \in 1..(Len(q) - 1) : t[j] = q[j + 1]
    BY FirstAndRest
  <1>2. /\ u \in Seq(S) /\ Len(u) = Len(q) + Len(r) /\ Len(r) \in Nat
        /\ \A i \in 1..(Len(q) + Len(r)) : u[i] = IF i <= Len(q) THEN q[i] ELSE r[i - Len(q)]
    BY ConcatProperties, LenProperties
  <1>3. /\ t \o r \in Seq(S) /\ Len(t \o r) = Len(t) + Len(r)
        /\ \A i \in 1..(Len(t) + Len(r)) :
             (t \o r)[i] = IF i <= Len(t) THEN t[i] ELSE r[i - Len(t)]
    BY <1>1, ConcatProperties
  <1>4. u # << >>
    BY <1>1, <1>2
  <1>5. /\ Head(u) = u[1] /\ Tail(u) \in Seq(S) /\ Len(Tail(u)) = Len(u) - 1
        /\ \A j \in 1..(Len(u) - 1) : Tail(u)[j] = u[j + 1]
    BY <1>2, <1>4, FirstAndRest
  <1>. HIDE DEF t, u
  <1>6. ASSUME NEW i \in 1..Len(Tail(u))
        PROVE  Tail(u)[i] = (t \o r)[i]
    <2>1. Tail(u)[i] = u[i + 1] /\ i + 1 \in 1..(Len(q) + Len(r)) /\ i \in 1..(Len(t) + Len(r))
      BY <1>1, <1>2, <1>5
    <2>2. CASE i <= Len(t)
      <3>1. u[i + 1] = q[i + 1] /\ (t \o r)[i] = t[i] /\ t[i] = q[i + 1]
        BY <1>1, <1>2, <1>3, <2>1, <2>2
      <3>. QED  BY <2>1, <3>1
    <2>3. CASE ~(i <= Len(t))
      <3>1. u[i + 1] = r[(i + 1) - Len(q)] /\ (t \o r)[i] = r[i - Len(t)]
        BY <1>1, <1>2, <1>3, <2>1, <2>3
      <3>2. (i + 1) - Len(q) = i - Len(t)
        BY <1>1, <2>1
      <3>. QED  BY <2>1, <3>1, <3>2
    <2>. QED  BY <2>2, <2>3
  <1>7. Tail(u) = t \o r
    <2>1. Len(Tail(u)) = Len(t \o r)
      BY <1>1, <1>2, <1>3, <1>5
    <2>. DEFINE v == Tail(u)
                x == t \o r
    <2>2. v \in Seq(S)
      BY <1>5
    <2>4. x \in Seq(S)
      BY <1>3
    <2>5. \A i \in 1..Len(v) : v[i] = x[i]
      BY <1>6
    <2>6. Len(v) = Len(x)
      BY <2>1
    <2>. HIDE DEF v, x
    <2>3. v = x
      BY <2>2, <2>4, <2>5, <2>6, SeqEqual
    <2>. QED  BY <2>3 DEF v, x
  <1>8. Head(u) = Head(q)
    BY <1>1, <1>2, <1>5
  <1>. QED  BY <1>4, <1>7, <1>8 DEF t, u

Regroup(q, o, t, r) ==
    \A a, h : a = q \o o /\ h = o \o t => a \o (t \o r) = q \o (h \o r)

LEMMA Regrouped ==
  ASSUME NEW S, NEW q \in Seq(S), NEW o \in Seq(S), NEW t \in Seq(S), NEW r \in Seq(S)
  PROVE  Regroup(q, o, t, r)
  <1>. DEFINE x == t \o r
              G(a, h) == a \o x = q \o (h \o r)
  <1>1. x \in Seq(S) /\ (o \o t) \o r = o \o x
    BY ConcatAssociative, ConcatProperties
  <1>. HIDE DEF x
  <1>2. (q \o o) \o x = q \o (o \o x)
    BY <1>1, ConcatAssociative
  <1>3. G(q \o o, o \o t)
    BY <1>1, <1>2, Zenon
  <1>. HIDE DEF G
  <1>4. \A a, h : a = q \o o /\ h = o \o t => G(a, h)
    BY <1>3, Zenon
  <1>. QED  BY <1>4 DEF x, G, Regroup

(* Posting the first held line moves a boundary inside the stream only.    *)
PostsFirst(q, h, r) == Append(q, Head(h)) \o (Tail(h) \o r) = q \o (h \o r)

LEMMA PostedFirst ==
  ASSUME NEW S, NEW q \in Seq(S), NEW h \in Seq(S), h # << >>, NEW r \in Seq(S)
  PROVE  PostsFirst(q, h, r)
  <1>1. Head(h) \in S /\ Tail(h) \in Seq(S) /\ <<Head(h)>> \in Seq(S)
    BY HeadTailProperties
  <1>2. Append(q, Head(h)) = q \o <<Head(h)>>
    BY <1>1, AppendIsConcat
  <1>3. h = <<Head(h)>> \o Tail(h)
    <2>1. Len(h) \in 1..Len(h) /\ 1 \in 1..Len(h)
      BY FirstAndRest
    <2>2. SubSeq(h, 1, Len(h)) = <<h[1]>> \o SubSeq(h, 2, Len(h))
      BY <2>1, SubSeqRecursiveFirst
    <2>3. SubSeq(h, 1, Len(h)) = h /\ SubSeq(h, 2, Len(h)) = Tail(h) /\ h[1] = Head(h)
      BY SubSeqFull, TailIsSubSeq, FirstAndRest
    <2>. QED  BY <2>2, <2>3
  <1>4. Regroup(q, <<Head(h)>>, Tail(h), r)
    BY <1>1, Regrouped
  <1>5. Append(q, Head(h)) \o (Tail(h) \o r) = q \o (h \o r)
    BY <1>2, <1>3, <1>4, Zenon DEF Regroup
  <1>. QED  BY <1>5 DEF PostsFirst

(* What reading the first line leaves of each way to owe something.        *)
LEMMA OwedRead ==
  ASSUME NEW q \in Seq(ServerLine), q # << >>, NEW t, NEW m
  PROVE  /\ \A types : Without(q, types) => Without(Tail(q), types) /\ Head(q).type \notin types
         /\ IsNext(q, m) => Head(q) = m /\ Without(Tail(q), LockWriters)
         /\ Brings(q, t, m) => \/ Brings(Tail(q), t, m)
                               \/ Head(q).type = t /\ IsNext(Tail(q), m)
         /\ Leads(q) => \/ Head(q).type = "REGISTERED"
                        \/ Head(q).type \notin Changers /\ Leads(Tail(q))
  <1>. DEFINE u == Tail(q)
  <1>1. /\ Len(q) \in Nat /\ Len(q) >= 1 /\ Head(q) = q[1] /\ Len(u) = Len(q) - 1
        /\ \A j \in 1..(Len(q) - 1) : u[j] = q[j + 1]
        /\ \A j \in 2..Len(q) : u[j - 1] = q[j]
    BY FirstAndRest
  <1>. HIDE DEF u
  <1>2. ASSUME NEW types, Without(q, types)
        PROVE  Without(u, types) /\ Head(q).type \notin types
    BY <1>1, <1>2 DEF Without
  <1>3. ASSUME IsNext(q, m)
        PROVE  Head(q) = m /\ Without(u, LockWriters)
    BY <1>1, <1>3 DEF IsNext, Without
  <1>4. ASSUME Brings(q, t, m)
        PROVE  Brings(u, t, m) \/ (Head(q).type = t /\ IsNext(u, m))
    <2>1. PICK j \in 2..Len(q) : /\ q[j] = m /\ q[j - 1].type = t
                                /\ \A i \in 1..Len(q) : i > j => q[i].type \notin LockWriters
      BY <1>4 DEF Brings
    <2>2. u[j - 1] = m
      BY <1>1, <2>1
    <2>3. ASSUME NEW i \in 1..Len(u), i > j - 1
          PROVE  u[i].type \notin LockWriters
      <3>1. u[i] = q[i + 1] /\ i + 1 \in 1..Len(q) /\ i + 1 > j
        BY <1>1, <2>3
      <3>. QED  BY <2>1, <3>1
    <2>4. CASE j = 2
      BY <1>1, <2>1, <2>2, <2>3, <2>4 DEF IsNext
    <2>5. CASE j # 2
      <3>1. j - 1 \in 2..Len(u) /\ j - 1 \in 2..Len(q) /\ (j - 1) - 1 \in 1..(Len(q) - 1)
        BY <1>1, <2>5
      <3>2. u[(j - 1) - 1] = q[j - 1]
        BY <1>1, <3>1
      <3>. QED  BY <2>1, <2>2, <2>3, <3>1, <3>2 DEF Brings
    <2>. QED  BY <2>4, <2>5
  <1>5. ASSUME Leads(q), Head(q).type # "REGISTERED"
        PROVE  Head(q).type \notin Changers /\ Leads(u)
    <2>1. PICK i \in 1..Len(q) : /\ q[i].type = "REGISTERED"
                                /\ \A j \in 1..(i - 1) : q[j].type \notin Changers
      BY <1>5 DEF Leads
    <2>2. i \in 2..Len(q) /\ i - 1 \in 1..Len(u) /\ u[i - 1] = q[i] /\ 1 \in 1..(i - 1)
      BY <1>1, <1>5, <2>1
    <2>3. ASSUME NEW j \in 1..((i - 1) - 1)
          PROVE  u[j].type \notin Changers
      <3>1. j \in 1..(Len(q) - 1) /\ j + 1 \in 1..(i - 1)
        BY <1>1, <2>2
      <3>. QED  BY <1>1, <2>1, <3>1
    <2>. QED  BY <1>1, <2>1, <2>2, <2>3 DEF Leads
  <1>. QED  BY <1>2, <1>3, <1>4, <1>5 DEF u

(* What is written behind.                                                 *)
LEMMA OwedStays ==
  ASSUME NEW q \in Seq(ServerLine), NEW r \in Seq(ServerLine), NEW t, NEW m
  PROVE  /\ Without(r, LockWriters) /\ IsNext(q, m) => IsNext(q \o r, m)
         /\ Without(r, LockWriters) /\ Brings(q, t, m) => Brings(q \o r, t, m)
         /\ Leads(q) => Leads(q \o r)
  <1>. DEFINE p == q \o r
  <1>1. /\ Len(p) = Len(q) + Len(r) /\ Len(q) \in Nat /\ Len(r) \in Nat
        /\ \A j \in 1..Len(q) : j \in 1..Len(p) /\ p[j] = q[j]
        /\ \A j \in 1..Len(r) : Len(q) + j \in 1..Len(p) /\ p[Len(q) + j] = r[j]
        /\ \A j \in 1..Len(p) : j \notin 1..Len(q) => j - Len(q) \in 1..Len(r)
    BY ConcatParts
  <1>. HIDE DEF p
  <1>2. ASSUME Without(r, LockWriters), NEW i \in 1..Len(p), i \notin 1..Len(q)
        PROVE  p[i].type \notin LockWriters
    <2>1. i - Len(q) \in 1..Len(r) /\ Len(q) + (i - Len(q)) = i
      BY <1>1, <1>2
    <2>2. p[i] = r[i - Len(q)]
      BY <1>1, <2>1
    <2>. QED  BY <1>2, <2>1, <2>2 DEF Without
  <1>3. ASSUME Without(r, LockWriters), IsNext(q, m)
        PROVE  IsNext(p, m)
    BY <1>1, <1>2, <1>3 DEF IsNext
  <1>4. ASSUME Without(r, LockWriters), Brings(q, t, m)
        PROVE  Brings(p, t, m)
    <2>1. PICK j \in 2..Len(q) : /\ q[j] = m /\ q[j - 1].type = t
                                /\ \A i \in 1..Len(q) : i > j => q[i].type \notin LockWriters
      BY <1>4 DEF Brings
    <2>2. j \in 2..Len(p) /\ p[j] = m /\ p[j - 1] = q[j - 1]
      BY <1>1, <2>1
    <2>3. \A i \in 1..Len(p) : i > j => p[i].type \notin LockWriters
      BY <1>1, <1>2, <1>4, <2>1
    <2>. QED  BY <2>1, <2>2, <2>3 DEF Brings
  <1>5. ASSUME Leads(q)
        PROVE  Leads(p)
    <2>1. PICK i \in 1..Len(q) : /\ q[i].type = "REGISTERED"
                                /\ \A j \in 1..(i - 1) : q[j].type \notin Changers
      BY <1>5 DEF Leads
    <2>2. \A j \in 1..(i - 1) : p[j].type \notin Changers
      BY <1>1, <2>1
    <2>. QED  BY <1>1, <2>1, <2>2 DEF Leads
  <1>. QED  BY <1>3, <1>4, <1>5 DEF p

LEMMA OwedWritten ==
  ASSUME NEW q \in Seq(ServerLine), NEW r \in Seq(ServerLine), NEW t, NEW m
  PROVE  /\ Brings(r, t, m) => Brings(q \o r, t, m)
         /\ Without(q, Changers) /\ r # << >> /\ r[1].type = "REGISTERED" => Leads(q \o r)
  <1>. DEFINE p == q \o r
              n == Len(q)
  <1>1. /\ Len(p) = n + Len(r) /\ n \in Nat /\ Len(r) \in Nat
        /\ \A j \in 1..n : j \in 1..Len(p) /\ p[j] = q[j]
        /\ \A j \in 1..Len(r) : n + j \in 1..Len(p) /\ p[n + j] = r[j]
        /\ \A j \in 1..Len(p) : j \notin 1..n => j - n \in 1..Len(r)
    BY ConcatParts
  <1>2. r # << >> => Len(r) >= 1
    BY <1>1, EmptySeq
  <1>. HIDE DEF p, n
  <1>3. ASSUME Brings(r, t, m)
        PROVE  Brings(p, t, m)
    <2>1. PICK j \in 2..Len(r) : /\ r[j] = m /\ r[j - 1].type = t
                                /\ \A i \in 1..Len(r) : i > j => r[i].type \notin LockWriters
      BY <1>3 DEF Brings
    <2>2. n + j \in 2..Len(p) /\ p[n + j] = m
      BY <1>1, <2>1
    <2>3. p[(n + j) - 1].type = t
      <3>1. (n + j) - 1 = n + (j - 1) /\ j - 1 \in 1..Len(r)
        BY <1>1, <2>1
      <3>. QED  BY <1>1, <2>1, <3>1
    <2>4. ASSUME NEW i \in 1..Len(p), i > n + j
          PROVE  p[i].type \notin LockWriters
      <3>1. i - n \in 1..Len(r) /\ n + (i - n) = i /\ i - n > j
        BY <1>1, <2>1, <2>4
      <3>2. p[i] = r[i - n]
        BY <1>1, <3>1
      <3>. QED  BY <2>1, <3>1, <3>2
    <2>. QED  BY <2>2, <2>3, <2>4 DEF Brings
  <1>4. ASSUME Without(q, Changers), r # << >>, r[1].type = "REGISTERED"
        PROVE  Leads(p)
    <2>1. n + 1 \in 1..Len(p) /\ p[n + 1].type = "REGISTERED"
      BY <1>1, <1>2, <1>4
    <2>2. \A j \in 1..((n + 1) - 1) : p[j].type \notin Changers
      BY <1>1, <1>4 DEF Without, n
    <2>. QED  BY <2>1, <2>2 DEF Leads
  <1>. QED  BY <1>3, <1>4 DEF p

(* ------------------- what the handlers do to the window ---------------- *)

LEMMA FullscreenWrites ==
  ASSUME NEW w, Good(w), NEW hooked \in BOOLEAN
  PROVE  LET v == GoFullscreen(w, hooked)
         IN  /\ v.screen = w.screen /\ v.locked = TRUE /\ v.shape = "full"
             /\ w.shape = "full" => v.text = w.text
  BY DEF Good, Window, Whole, GoFullscreen, SizedInApplyLock, MainPanel, ShowConnectPanel, Win

(* A window that was fullscreen is resized, builds its panel and locks.    *)
LEMMA RestoreWrites ==
  ASSUME NEW w, Good(w)
  PROVE  LET v == Restore(w)
         IN  /\ v.screen = w.screen /\ v.shape = "windowed"
             /\ w.shape = "windowed" => v.locked = FALSE
  <1>. USE DEF Good, Window, Whole, Win
  <1>. DEFINE hidden == IF w.overlay = "shown" THEN "hidden" ELSE w.overlay
              down == Win(w.screen, hidden, FALSE, "windowed", "none", FALSE, w.text)
  <1>1. CASE w.saved = "none"
    <2>1. Restore(w) = down
      BY <1>1 DEF Restore
    <2>. QED  BY <1>1, <2>1
  <1>2. CASE w.saved = "windowed"
    <2>1. Restore(w) = SizedInApplyLock(down)
      BY <1>2 DEF Restore
    <2>2. SizedInApplyLock(down).screen = w.screen /\ SizedInApplyLock(down).shape = "windowed"
      BY DEF SizedInApplyLock, MainPanel, ShowConnectPanel
    <2>. QED  BY <1>2, <2>1, <2>2
  <1>. QED  BY <1>1, <1>2

LEMMA MainPanelWrites ==
  ASSUME NEW w, Good(w), NEW hooked \in BOOLEAN
  PROVE  LET v == ShowMainPanel(w, hooked) IN v.screen = "main" /\ v.locked = TRUE
  <1>. DEFINE p == MainPanel(w)
              cover == IF p.overlay = "hidden" THEN "shown" ELSE p.overlay
              kept == IF p.saved = "none" THEN p.shape ELSE p.saved
              up == Win("main", cover, TRUE, "full", kept, p.hook \/ hooked, p.text)
  <1>1. p.screen = "main"
    BY DEF MainPanel, Win
  <1>2. ShowMainPanel(w, hooked) = up \/ ShowMainPanel(w, hooked) = SizedInApplyLock(up)
    BY <1>1 DEF ShowMainPanel, ApplyLock, GoFullscreen
  <1>. HIDE DEF p, cover, kept
  <1>3. up.screen = "main" /\ up.locked = TRUE
    BY DEF Win
  <1>4. SizedInApplyLock(up).screen = "main" /\ SizedInApplyLock(up).locked = TRUE
    BY <1>3 DEF SizedInApplyLock, MainPanel, Win
  <1>. QED  BY <1>2, <1>3, <1>4

LEMMA ConnectPanelWrites ==
  ASSUME NEW w, Good(w)
  PROVE  LET v == ShowConnectPanel(w)
         IN  v.screen = "connect" /\ v.locked = w.locked /\ v.shape = w.shape
  BY DEF Good, Window, ShowConnectPanel, Win

LEMMA TextWrites ==
  ASSUME NEW w, Good(w), NEW t \in {"waiting", "running", "pay"}
  PROVE  LET v == SetText(w, t)
         IN  /\ v.screen = w.screen /\ v.locked = w.locked /\ v.shape = w.shape
             /\ w.screen = "main" => v.text = t
  BY DEF Good, Window, SetText, Win

(* The two things a line can do to the lock, and the lines that do         *)
(* neither.                                                                *)
LEMMA HandlerWrites ==
  ASSUME WindowOK, NEW m \in ServerLine, NEW hooked \in BOOLEAN, HandleMsg(m, hooked)
  PROVE  /\ m.type \notin ActiveWriters => active' = active
         /\ m.type \in ActiveWriters => active' = (m.type = "SESSION_START")
         /\ m.type # "SESSION_START" => resized' = resized
         /\ m.type # "REGISTERED" => win'.screen = win.screen
         /\ m.type = "REGISTERED" => win'.screen = "main" /\ win'.locked
         /\ m.type \notin LockWriters =>
              /\ win'.locked = win.locked /\ win'.shape = win.shape
              /\ win'.text = win.text \/ active
         /\ m.type = "SESSION_START" => win'.shape = "windowed"
         /\ m.type = "SESSION_END" => /\ win'.shape = "full"
                                      /\ win.screen = "main" => win'.text = "pay"
         /\ m = Lock(TRUE) => /\ win'.locked /\ win'.shape = "full"
                              /\ win.shape = "full" => win'.text = win.text
         /\ m = Lock(FALSE) /\ win.shape = "windowed" => ~win'.locked
  <1>. USE DEF LockWriters, ActiveWriters
  <1>0. Good(win) /\ m.type # "(disconnected)"
    BY DEF WindowOK, Good, ServerLine, PlainTypes
  <1>m. \A b : Lock(b).type = "LOCK" /\ Lock(b).locked = b
    BY TypesOfLines
  <1>1. CASE m.type = "REGISTERED" /\ OnRegistered(hooked)
    BY <1>0, <1>1, <1>m, MainPanelWrites DEF OnRegistered
  <1>2. CASE m.type = "SESSION_START" /\ OnSessionStart(hooked)
    <2>. DEFINE w == SetText(win, "running")
    <2>1. Good(w) /\ w.screen = win.screen
      BY <1>0, TextGood, TextWrites
    <2>2. win' = Restore(w)
      BY <1>2 DEF OnSessionStart, ApplyLock
    <2>. HIDE DEF w
    <2>3. win'.screen = win.screen /\ win'.shape = "windowed"
      BY <2>1, <2>2, RestoreWrites
    <2>. QED  BY <1>2, <1>m, <2>3 DEF OnSessionStart
  <1>3. CASE m.type = "SESSION_END" /\ OnSessionEnd(hooked)
    <2>. DEFINE w == GoFullscreen(win, hooked)
    <2>1. Good(w) /\ w.screen = win.screen /\ w.shape = "full"
      BY <1>0, FullscreenGood, FullscreenWrites
    <2>2. win' = SetText(w, "pay")
      BY <1>3 DEF OnSessionEnd, ApplyLock
    <2>. HIDE DEF w
    <2>3. /\ win'.screen = win.screen /\ win'.shape = "full"
          /\ win.screen = "main" => win'.text = "pay"
      BY <2>1, <2>2, TextWrites
    <2>. QED  BY <1>3, <1>m, <2>3 DEF OnSessionEnd
  <1>4. CASE m.type = "TICK" /\ OnTick
    <2>1. LET v == SetText(win, "running")
          IN  v.screen = win.screen /\ v.locked = win.locked /\ v.shape = win.shape
      BY <1>0, TextWrites
    <2>. QED  BY <1>4, <1>m, <2>1 DEF OnTick
  <1>5. CASE m.type = "LOCK" /\ OnLock(m.locked, hooked)
    <2>1. m.locked \in BOOLEAN
      BY <1>5, LockField DEF Posted
    <2>2. CASE m.locked = TRUE
      <3>1. win' = GoFullscreen(win, hooked)
        BY <1>5, <2>2 DEF OnLock, ApplyLock
      <3>2. /\ win'.screen = win.screen /\ win'.locked /\ win'.shape = "full"
            /\ win.shape = "full" => win'.text = win.text
        BY <1>0, <3>1, FullscreenWrites
      <3>3. m # Lock(FALSE)
        BY <1>m, <2>2
      <3>. QED  BY <1>5, <3>2, <3>3 DEF OnLock
    <2>3. CASE m.locked = FALSE
      <3>1. win' = Restore(win)
        BY <1>5, <2>3 DEF OnLock, ApplyLock
      <3>2. win'.screen = win.screen /\ (win.shape = "windowed" => ~win'.locked)
        BY <1>0, <3>1, RestoreWrites
      <3>3. m # Lock(TRUE)
        BY <1>m, <2>3
      <3>. QED  BY <1>5, <3>2, <3>3 DEF OnLock
    <2>. QED  BY <2>1, <2>2, <2>3
  <1>6. CASE m.type = "SERVER_MSG" /\ OnServerMsg
    BY <1>6, <1>m DEF OnServerMsg
  <1>7. CASE /\ m.type \notin {"REGISTERED", "SESSION_START", "SESSION_END", "TICK", "LOCK", "SERVER_MSG"}
             /\ UNCHANGED <<windowVars, resized>>
    BY <1>7, <1>m DEF windowVars
  <1>8. m # Disconnected
    BY <1>0 DEF Disconnected
  <1>. QED  BY <1>1, <1>2, <1>3, <1>4, <1>5, <1>6, <1>7, <1>8 DEF HandleMsg

(* ----------------------- the lines that are pending -------------------- *)

LEMMA PendingType ==
  ASSUME Inv, queue \in Seq(ServerLine), NEW k \in Conns
  PROVE  hold[k] \o inbox[k] \in Seq(ServerLine) /\ Pending(k) \in Seq(ServerLine)
  <1>. DEFINE r == hold[k] \o inbox[k]
  <1>1. r \in Seq(ServerLine)
    BY ConcatProperties DEF Inv, ThreadOK, WireOK
  <1>. HIDE DEF r
  <1>2. queue \o r \in Seq(ServerLine)
    BY <1>1, ConcatProperties
  <1>. QED  BY <1>1, <1>2 DEF Pending, r

LEMMA KeptFollows ==
  ASSUME NEW k \in Conns, Follows(k), Pending(k)' = Pending(k), peer'[k] = peer[k],
         UNCHANGED <<win, active, resized>>
  PROVE  Follows(k)'
  BY DEF Follows, ActiveFollows, LockFollows, StartFrees, EndAsks, PanelComes, AsksForPayment

(* The window handles the next line, and owes what the rest does.          *)
LEMMA DispatchFollows ==
  ASSUME Inv, queue \in Seq(ServerLine), NEW hooked \in BOOLEAN, Dispatch(hooked),
         NEW k \in Conns, Follows(k)
  PROVE  Follows(k)'
  <1>. DEFINE q == Pending(k)
              h == Head(queue)
              u == Tail(q)
              p == peer[k]
  <1>1. /\ h \in ServerLine /\ HandleMsg(h, hooked) /\ WindowOK
        /\ peer'[k] = p /\ q \in Seq(ServerLine)
    BY PendingType, HeadTailProperties DEF Dispatch, Inv, wireVars
  <1>2. q # << >> /\ Head(q) = h /\ Pending(k)' = u
    <2>1. hold[k] \o inbox[k] \in Seq(ServerLine) /\ queue # << >>
      BY PendingType DEF Dispatch
    <2>. DEFINE r == hold[k] \o inbox[k]
    <2>2. queue' = Tail(queue) /\ (hold[k] \o inbox[k])' = r
      BY DEF Dispatch, threadVars, wireVars
    <2>. HIDE DEF r
    <2>3. /\ queue \o r # << >> /\ Head(queue \o r) = h
          /\ Tail(queue \o r) = Tail(queue) \o r
      BY <2>1, DispatchedFirst DEF r
    <2>. QED  BY <2>2, <2>3 DEF Pending, r
  <1>3. /\ h.type \notin ActiveWriters => active' = active
        /\ h.type \in ActiveWriters => active' = (h.type = "SESSION_START")
        /\ h.type # "SESSION_START" => resized' = resized
        /\ h.type # "REGISTERED" => win'.screen = win.screen
        /\ h.type = "REGISTERED" => win'.screen = "main" /\ win'.locked
        /\ h.type \notin LockWriters =>
             /\ win'.locked = win.locked /\ win'.shape = win.shape
             /\ win'.text = win.text \/ active
        /\ h.type = "SESSION_START" => win'.shape = "windowed"
        /\ h.type = "SESSION_END" => /\ win'.shape = "full"
                                     /\ win.screen = "main" => win'.text = "pay"
        /\ h = Lock(TRUE) => /\ win'.locked /\ win'.shape = "full"
                             /\ win.shape = "full" => win'.text = win.text
        /\ h = Lock(FALSE) /\ win.shape = "windowed" => ~win'.locked
    BY <1>1, HandlerWrites
  <1>4. ASSUME NEW types
        PROVE  /\ \A m : IsLast(m, u, types) => IsLast(m, q, types)
               /\ Without(u, types) /\ h.type \notin types => Without(q, types)
               /\ Without(u, types) /\ h.type \in types => IsLast(h, q, types)
    BY <1>1, <1>2, LastRead
  <1>5. ASSUME NEW t, NEW m
        PROVE  /\ \A types : Without(q, types) => Without(u, types) /\ h.type \notin types
               /\ IsNext(q, m) => h = m /\ Without(u, LockWriters)
               /\ Brings(q, t, m) => Brings(u, t, m) \/ (h.type = t /\ IsNext(u, m))
               /\ Leads(q) => \/ h.type = "REGISTERED"
                              \/ h.type \notin Changers /\ Leads(u)
    BY <1>1, <1>2, OwedRead
  <1>t. "SESSION_START" \in LockWriters \cap ActiveWriters /\ "SESSION_END" \in LockWriters
        /\ "SESSION_END" \in Changers \cap ActiveWriters /\ ActiveWriters \subseteq LockWriters
        /\ Lock(TRUE).type = "LOCK" /\ Lock(FALSE).type = "LOCK" /\ "LOCK" \notin ActiveWriters
        /\ "REGISTERED" \in LockWriters
    BY TypesOfLines DEF LockWriters, ActiveWriters, Changers
  <1>w. win.locked \in BOOLEAN /\ win'.locked \in BOOLEAN
    BY DispatchStep DEF Inv, WindowOK, Window
  <1>. HIDE DEF h, u, q, p
  <1>6. ActiveFollows(k)'
    <2>1. \A m : IsLast(m, u, ActiveWriters) => (m.type = "SESSION_START") = p.active
      BY <1>4 DEF Follows, ActiveFollows, p, q
    <2>2. Without(u, ActiveWriters) => active' = p.active
      <3>1. CASE h.type \in ActiveWriters
        BY <1>3, <1>4, <3>1 DEF Follows, ActiveFollows, p, q
      <3>2. CASE h.type \notin ActiveWriters
        BY <1>3, <1>4, <3>2 DEF Follows, ActiveFollows, p, q
      <3>. QED  BY <3>1, <3>2
    <2>. QED  BY <1>1, <1>2, <2>1, <2>2 DEF ActiveFollows
  <1>7. LockFollows(k)'
    <2>. SUFFICES ASSUME p.locked
                  PROVE  /\ \A m : IsLast(m, u, LockWriters) => m.type = "REGISTERED" \/ m = Lock(TRUE)
                         /\ Without(u, LockWriters) => win'.locked
      BY <1>1, <1>2 DEF LockFollows
    <2>1. \A m : IsLast(m, q, LockWriters) => m.type = "REGISTERED" \/ m = Lock(TRUE)
      BY DEF Follows, LockFollows, p, q
    <2>2. Without(q, LockWriters) => win.locked
      BY DEF Follows, LockFollows, p, q
    <2>3. CASE h.type \in LockWriters
      BY <1>3, <1>4, <2>1, <2>3
    <2>4. CASE h.type \notin LockWriters
      BY <1>3, <1>4, <2>1, <2>2, <2>4
    <2>. QED  BY <2>3, <2>4
  <1>8. StartFrees(k)'
    <2>. SUFFICES ASSUME p.last = "start" /\ p.reg # "late"
                  PROVE  \/ Without(u, LockWriters) /\ (~resized' => ~win'.locked)
                         \/ IsNext(u, Lock(FALSE)) /\ (~resized' => win'.shape = "windowed")
                         \/ Brings(u, "SESSION_START", Lock(FALSE))
      BY <1>1, <1>2 DEF StartFrees
    <2>1. CASE Without(q, LockWriters) /\ (~resized => ~win.locked)
      BY <1>3, <1>5, <1>t, <1>w, <2>1
    <2>2. CASE IsNext(q, Lock(FALSE)) /\ (~resized => win.shape = "windowed")
      BY <1>3, <1>5, <1>t, <2>2
    <2>3. CASE Brings(q, "SESSION_START", Lock(FALSE))
      BY <1>3, <1>5, <2>3
    <2>. QED  BY <2>1, <2>2, <2>3 DEF Follows, StartFrees, p, q
  <1>9. EndAsks(k)'
    <2>. SUFFICES ASSUME p.last = "end" /\ p.reg = "early"
                  PROVE  \/ Without(u, LockWriters) /\ AsksForPayment'
                         \/ IsNext(u, Lock(TRUE)) /\ AsksForPayment'
                         \/ Brings(u, "SESSION_END", Lock(TRUE))
      BY <1>1, <1>2 DEF EndAsks
    <2>1. CASE Without(q, LockWriters) /\ AsksForPayment
      BY <1>3, <1>5, <1>t, <2>1 DEF AsksForPayment
    <2>2. CASE IsNext(q, Lock(TRUE)) /\ AsksForPayment
      BY <1>3, <1>5, <1>t, <2>2 DEF AsksForPayment
    <2>3. CASE Brings(q, "SESSION_END", Lock(TRUE))
      <3>1. CASE h.type = "SESSION_END" /\ IsNext(u, Lock(TRUE))
        <4>1. win.screen = "main"
          BY <1>5, <1>t, <3>1 DEF Follows, PanelComes, p, q
        <4>2. active' = FALSE
          BY <1>3, <1>t, <3>1
        <4>. QED  BY <1>3, <3>1, <4>1, <4>2 DEF AsksForPayment
      <3>. QED  BY <1>5, <2>3, <3>1
    <2>. QED  BY <2>1, <2>2, <2>3 DEF Follows, EndAsks, p, q
  <1>10. PanelComes(k)'
    <2>1. p.last = "none" => Without(u, Changers)
      BY <1>5 DEF Follows, PanelComes, p, q
    <2>2. p.reg = "early" => win'.screen = "main" \/ Leads(u)
      BY <1>3, <1>5 DEF Follows, PanelComes, p, q
    <2>. QED  BY <1>1, <1>2, <2>1, <2>2 DEF PanelComes
  <1>. QED  BY <1>6, <1>7, <1>8, <1>9, <1>10 DEF Follows

LEMMA BeliefFields ==
  \A r, l, a, b : LET p == Belief(r, l, a, b)
                  IN  p.reg = r /\ p.last = l /\ p.active = a /\ p.locked = b
  BY DEF Belief

(* What a deed must say for the invariant to hold after it.                *)
Says(d, p, r, l) ==
    /\ \/ \E m : /\ IsLast(m, d.lines, ActiveWriters)
                 /\ (m.type = "SESSION_START") = d.then.active
       \/ Without(d.lines, ActiveWriters) /\ d.then.active = p.active
    /\ d.then.locked =>
         \/ \E m : IsLast(m, d.lines, LockWriters) /\ (m.type = "REGISTERED" \/ m = Lock(TRUE))
         \/ Without(d.lines, LockWriters) /\ p.locked
    /\ l = "start" /\ r # "late" =>
         \/ Brings(d.lines, "SESSION_START", Lock(FALSE))
         \/ Without(d.lines, LockWriters) /\ p.last = "start" /\ p.reg # "late"
    /\ l = "end" /\ r = "early" =>
         \/ Brings(d.lines, "SESSION_END", Lock(TRUE))
         \/ Without(d.lines, LockWriters) /\ p.last = "end" /\ p.reg = "early"
    /\ l = "none" => p.last = "none" /\ Without(d.lines, Changers)
    /\ r = "early" =>
         \/ p.reg = "early"
         \/ p.last = "none" /\ d.lines # << >> /\ d.lines[1].type = "REGISTERED"

LEMMA TellFollows ==
  ASSUME Inv, queue \in Seq(ServerLine), NEW k \in Conns, NEW d, DeedOK(d), NEW r, NEW l,
         Tells(k, d, r, l), Says(d, peer[k], r, l), Follows(k)
  PROVE  Follows(k)'
  <1>. DEFINE q == Pending(k)
              p == peer[k]
              n == peer'[k]
              lines == d.lines
              w == q \o lines
  <1>1. q \in Seq(ServerLine) /\ lines \in Seq(ServerLine)
    BY PendingType DEF DeedOK
  <1>2. /\ n.reg = r /\ n.last = l /\ n.active = d.then.active /\ n.locked = d.then.locked
        /\ UNCHANGED <<win, active, resized>>
    <2>1. n = Belief(r, l, d.then.active, d.then.locked)
      BY DEF Tells, Inv, WireOK
    <2>2. UNCHANGED <<win, active, resized>>
      BY DEF Tells, windowVars
    <2>. HIDE DEF n
    <2>. QED  BY <2>1, <2>2, BeliefFields
  <1>3. Pending(k)' = w
    <2>. DEFINE i == inbox[k]
                o == hold[k]
    <2>1. inbox'[k] = i \o lines /\ hold'[k] = o /\ queue' = queue
      BY DEF Tells, Inv, WireOK, threadVars
    <2>2. i \in Seq(ServerLine) /\ o \in Seq(ServerLine) /\ o \o i \in Seq(ServerLine)
      BY PendingType DEF Inv, ThreadOK, WireOK
    <2>. HIDE DEF i, o, lines
    <2>3. (o \o i) \o lines = o \o (i \o lines)
      BY <1>1, <2>2, ConcatAssociative
    <2>. DEFINE x == o \o i
    <2>4. x \in Seq(ServerLine)
      BY <2>2
    <2>. HIDE DEF x
    <2>5. (queue \o x) \o lines = queue \o (x \o lines)
      BY <1>1, <2>4, ConcatAssociative
    <2>6. Pending(k)' = queue \o (o \o (i \o lines)) /\ q = queue \o x
      BY <2>1 DEF Pending, x, i, o
    <2>. QED  BY <2>3, <2>5, <2>6, Zenon DEF x
  <1>4. ASSUME NEW types, Without(lines, types)
        PROVE  /\ \A m : IsLast(m, w, types) => IsLast(m, q, types)
               /\ Without(w, types) <=> Without(q, types)
    BY <1>1, <1>4, LastStays
  <1>5. ASSUME NEW types, NEW m, IsLast(m, lines, types)
        PROVE  /\ \A j : IsLast(j, w, types) => j = m
               /\ ~Without(w, types)
    BY <1>1, <1>5, LastWritten
  <1>6. ASSUME NEW t, NEW m
        PROVE  /\ Without(lines, LockWriters) /\ IsNext(q, m) => IsNext(w, m)
               /\ Without(lines, LockWriters) /\ Brings(q, t, m) => Brings(w, t, m)
               /\ Leads(q) => Leads(w)
               /\ Brings(lines, t, m) => Brings(w, t, m)
               /\ Without(q, Changers) /\ lines # << >> /\ lines[1].type = "REGISTERED" => Leads(w)
    BY <1>1, OwedStays, OwedWritten
  <1>. HIDE DEF q, p, n, lines, w
  <1>7. ActiveFollows(k)'
    <2>1. CASE \E m : /\ IsLast(m, lines, ActiveWriters)
                      /\ (m.type = "SESSION_START") = d.then.active
      BY <1>2, <1>3, <1>5, <2>1 DEF ActiveFollows, n
    <2>2. CASE Without(lines, ActiveWriters) /\ d.then.active = p.active
      BY <1>2, <1>3, <1>4, <2>2 DEF Follows, ActiveFollows, n, p, q
    <2>. QED  BY <2>1, <2>2 DEF Says, lines, p
  <1>8. LockFollows(k)'
    <2>. SUFFICES ASSUME d.then.locked PROVE LockFollows(k)'
      BY <1>2 DEF LockFollows, n
    <2>1. CASE \E m : IsLast(m, lines, LockWriters) /\ (m.type = "REGISTERED" \/ m = Lock(TRUE))
      BY <1>3, <1>5, <2>1 DEF LockFollows
    <2>2. CASE Without(lines, LockWriters) /\ p.locked
      BY <1>2, <1>3, <1>4, <2>2 DEF Follows, LockFollows, p, q
    <2>. QED  BY <2>1, <2>2 DEF Says, lines, p
  <1>9. StartFrees(k)'
    <2>. SUFFICES ASSUME l = "start", r # "late" PROVE StartFrees(k)'
      BY <1>2 DEF StartFrees, n
    <2>1. CASE Brings(lines, "SESSION_START", Lock(FALSE))
      BY <1>3, <1>6, <2>1 DEF StartFrees
    <2>2. CASE Without(lines, LockWriters) /\ p.last = "start" /\ p.reg # "late"
      BY <1>2, <1>3, <1>4, <1>6, <2>2 DEF Follows, StartFrees, p, q
    <2>. QED  BY <2>1, <2>2 DEF Says, lines, p
  <1>10. EndAsks(k)'
    <2>. SUFFICES ASSUME l = "end", r = "early" PROVE EndAsks(k)'
      BY <1>2 DEF EndAsks, n
    <2>1. CASE Brings(lines, "SESSION_END", Lock(TRUE))
      BY <1>3, <1>6, <2>1 DEF EndAsks
    <2>2. CASE Without(lines, LockWriters) /\ p.last = "end" /\ p.reg = "early"
      BY <1>2, <1>3, <1>4, <1>6, <2>2 DEF Follows, EndAsks, AsksForPayment, p, q
    <2>. QED  BY <2>1, <2>2 DEF Says, lines, p
  <1>11. PanelComes(k)'
    <2>1. l = "none" => Without(w, Changers)
      BY <1>4 DEF Says, Follows, PanelComes, lines, p, q
    <2>2. r = "early" => win.screen = "main" \/ Leads(w)
      <3>1. CASE p.reg = "early"
        BY <1>6, <3>1 DEF Follows, PanelComes, p, q
      <3>2. CASE p.last = "none" /\ lines # << >> /\ lines[1].type = "REGISTERED"
        BY <1>6, <3>2 DEF Follows, PanelComes, p, q
      <3>. QED  BY <3>1, <3>2 DEF Says, lines, p
    <2>. QED  BY <1>2, <1>3, <2>1, <2>2 DEF PanelComes, n
  <1>. QED  BY <1>7, <1>8, <1>9, <1>10, <1>11 DEF Follows

(* ------------------------- what each deed says ------------------------- *)

LEMMA PairBrings ==
  ASSUME NEW a, NEW b
  PROVE  Brings(<<a, b>>, a.type, b)
  <1>1. Len(<<a, b>>) = 2 /\ <<a, b>>[1] = a /\ <<a, b>>[2] = b
    OBVIOUS
  <1>. DEFINE q == <<a, b>>
  <1>2. 2 \in 2..Len(q) /\ q[2] = b /\ q[2 - 1].type = a.type
    BY <1>1
  <1>3. \A i \in 1..Len(q) : i > 2 => q[i].type \notin LockWriters
    BY <1>1
  <1>. HIDE DEF q
  <1>4. Brings(q, a.type, b)
    BY <1>2, <1>3 DEF Brings
  <1>. QED  BY <1>4 DEF q

LEMMA StartTells ==
  ASSUME NEW s, NEW d \in StartDeeds(s), NEW p, NEW r, r = p.reg
  PROVE  Says(d, p, r, "start")
  <1>1. PICK c \in Packages, u \in Users : d = StartDeed(c, u)
    BY DEF StartDeeds
  <1>2. d.lines = <<SessionStart(c, u), Lock(FALSE)>> /\ d.then = Status(TRUE, FALSE, 0)
    BY <1>1, DeedFields DEF StartDeed
  <1>3. d.then.active = TRUE /\ d.then.locked = FALSE
    BY <1>2 DEF Status
  <1>4. IsLast(SessionStart(c, u), d.lines, ActiveWriters)
    BY <1>1, StartSays DEF ActiveWriters
  <1>5. SessionStart(c, u).type = "SESSION_START"
    BY TypesOfLines
  <1>6. Brings(d.lines, "SESSION_START", Lock(FALSE))
    BY <1>2, <1>5, PairBrings
  <1>. QED  BY <1>3, <1>4, <1>5, <1>6 DEF Says

LEMMA EndTells ==
  ASSUME NEW s, Typed(s), NEW d \in {EndDeed(s), ExpireDeed(s)}, NEW p, NEW r, r = p.reg
  PROVE  Says(d, p, r, "end")
  <1>1. d.then.active = FALSE
    <2>1. d.then = Status(FALSE, TRUE, 0)
      <3>1. CASE d = EndDeed(s)
        BY <3>1, DeedFields, Zenon DEF EndDeed
      <3>2. CASE d = ExpireDeed(s)
        BY <3>2, DeedFields, Zenon DEF EndDeed, ExpireDeed
      <3>. QED  BY <3>1, <3>2
    <2>. QED  BY <2>1 DEF Status
  <1>2. \E m : IsLast(m, d.lines, ActiveWriters) /\ m.type = "SESSION_END"
    <2>1. "LOCK" \notin ActiveWriters /\ "SESSION_END" \in ActiveWriters
      BY DEF ActiveWriters
    <2>2. PICK e : IsLast(SessionEnd(e), d.lines, ActiveWriters)
      <3>1. CASE d = EndDeed(s)
        BY <2>1, <3>1, EndSays
      <3>2. CASE d = ExpireDeed(s)
        BY <2>1, <3>2, ExpireSays
      <3>. QED  BY <3>1, <3>2
    <2>3. SessionEnd(e).type = "SESSION_END"
      BY TypesOfLines
    <2>. QED  BY <2>2, <2>3
  <1>3. IsLast(Lock(TRUE), d.lines, LockWriters)
    <2>1. "LOCK" \in LockWriters
      BY DEF LockWriters
    <2>. QED  BY <2>1, EndSays, ExpireSays
  <1>4. \A x : Brings(EndDeed(x).lines, "SESSION_END", Lock(TRUE))
    <2>. TAKE x
    <2>1. EndDeed(x).lines = <<SessionEnd(x.elapsed), Lock(TRUE)>>
      BY DeedFields DEF EndDeed
    <2>2. SessionEnd(x.elapsed).type = "SESSION_END"
      BY TypesOfLines
    <2>. QED  BY <2>1, <2>2, PairBrings
  <1>5. Brings(d.lines, "SESSION_END", Lock(TRUE))
    <2>1. CASE d = EndDeed(s)
      BY <1>4, <2>1
    <2>2. CASE d = ExpireDeed(s)
      <3>. DEFINE a == TickDeed(s).lines
                  b == EndDeed(TickDeed(s).then).lines
                  m == Lock(TRUE)
      <3>1. d.lines = a \o b
        BY <2>2, DeedFields DEF ExpireDeed
      <3>2. a \in Seq(ServerLine) /\ b \in Seq(ServerLine)
        BY TickDeedOK, EndDeedOK DEF DeedOK
      <3>3. Brings(b, "SESSION_END", m)
        BY <1>4
      <3>. HIDE DEF a, b, m
      <3>4. Brings(a \o b, "SESSION_END", m)
        BY <3>2, <3>3, OwedWritten
      <3>. QED  BY <3>1, <3>4 DEF m
    <2>. QED  BY <2>1, <2>2
  <1>. QED  BY <1>1, <1>2, <1>3, <1>5 DEF Says

(* A tick and a message write nothing that is followed here.               *)
LEMMA NothingTold ==
  ASSUME NEW d, NEW p, \A types \in {ActiveWriters, LockWriters, Changers} : Without(d.lines, types),
         d.then.active = p.active, d.then.locked = p.locked
  PROVE  Says(d, p, p.reg, p.last)
  BY DEF Says

LEMMA LockTells ==
  ASSUME NEW p, p.active \in BOOLEAN, p.locked \in BOOLEAN
  PROVE  Says(LockDeed(Status(p.active, p.locked, 0)), p, p.reg, "hand")
  <1>. DEFINE s == Status(p.active, p.locked, 0)
              d == LockDeed(s)
              l == ~p.locked
  <1>1. s.active = p.active /\ s.locked = p.locked
    BY DEF Status
  <1>2. Without(d.lines, ActiveWriters)
    <2>1. "LOCK" \notin ActiveWriters
      BY DEF ActiveWriters
    <2>. QED  BY <2>1, LockSays
  <1>3. IsLast(Lock(~s.locked), d.lines, LockWriters)
    <2>1. "LOCK" \in LockWriters
      BY DEF LockWriters
    <2>. QED  BY <2>1, LockSays
  <1>4. d.then = Status(s.active, ~s.locked, s.elapsed)
    BY DeedFields DEF LockDeed
  <1>5. d.then.active = p.active /\ d.then.locked = l
    BY <1>1, <1>4 DEF Status
  <1>6. l => Lock(~s.locked) = Lock(TRUE)
    BY <1>1
  <1>7. \/ \E m : /\ IsLast(m, d.lines, ActiveWriters)
                 /\ (m.type = "SESSION_START") = d.then.active
        \/ Without(d.lines, ActiveWriters) /\ d.then.active = p.active
    BY <1>2, <1>5
  <1>8. d.then.locked =>
          \E m : IsLast(m, d.lines, LockWriters) /\ (m.type = "REGISTERED" \/ m = Lock(TRUE))
    BY <1>3, <1>5, <1>6
  <1>. HIDE DEF d, s
  <1>. QED  BY <1>7, <1>8, Zenon DEF Says, d, s

LEMMA RegisterTells ==
  ASSUME NEW s, NEW p, s.active = p.active, NEW r,
         r = IF p.last = "none" THEN "early" ELSE "late"
  PROVE  Says(RegisterDeed(s), p, r, p.last)
  <1>. DEFINE d == RegisterDeed(s)
  <1>1. d.lines = <<Registered, PackageList>> /\ d.then = s
    BY DeedFields DEF RegisterDeed
  <1>2. /\ Without(d.lines, ActiveWriters) /\ Without(d.lines, Changers)
        /\ IsLast(Registered, d.lines, LockWriters)
    <2>1. /\ {"REGISTERED", "PACKAGES"} \cap ActiveWriters = {}
          /\ {"REGISTERED", "PACKAGES"} \cap Changers = {}
          /\ "REGISTERED" \in LockWriters /\ "PACKAGES" \notin LockWriters
      BY DEF ActiveWriters, Changers, LockWriters
    <2>. QED  BY <2>1, RegisterSays
  <1>3. d.lines # << >> /\ d.lines[1] = Registered /\ Registered.type = "REGISTERED"
    BY <1>1, TypesOfLines
  <1>. HIDE DEF d
  <1>. QED  BY <1>1, <1>2, <1>3 DEF Says, d

LEMMA ServerFollows ==
  ASSUME Inv, queue \in Seq(ServerLine), NEW k \in Conns, Server(k), Follows(k)
  PROVE  Follows(k)' \/ link'[k] # "open"
  <1>. DEFINE p == peer[k]
              s == Held(k)
  <1>1. p.active \in BOOLEAN /\ p.locked \in BOOLEAN
    BY DEF Inv, WireOK, WinPeer
  <1>2. /\ Typed(s) /\ s.active = p.active /\ s.locked = p.locked
        /\ s = Status(p.active, p.locked, 0)
    BY <1>1, StatusType DEF Held
  <1>. HIDE DEF p, s
  <1>3. CASE PeerRegisters(k)
    <2>. DEFINE r == IF p.last = "none" THEN "early" ELSE "late"
    <2>1. Tells(k, RegisterDeed(s), r, p.last)
      BY <1>3 DEF PeerRegisters, p, s
    <2>2. Says(RegisterDeed(s), p, r, p.last)
      BY <1>2, RegisterTells
    <2>3. DeedOK(RegisterDeed(s))
      BY <1>2, DeedTypes
    <2>. QED  BY <2>1, <2>2, <2>3, TellFollows DEF p
  <1>4. CASE PeerStarts(k)
    <2>1. PICK d \in StartDeeds(s) : Tells(k, d, p.reg, "start")
      BY <1>4 DEF PeerStarts, p, s
    <2>2. DeedOK(d) /\ Says(d, p, p.reg, "start")
      BY <1>2, DeedTypes, StartTells
    <2>. QED  BY <2>1, <2>2, TellFollows DEF p
  <1>5. ASSUME NEW d \in {EndDeed(s), ExpireDeed(s)}, DeedOK(d), Tells(k, d, p.reg, "end")
        PROVE  Follows(k)'
    <2>1. Says(d, p, p.reg, "end")
      BY <1>2, EndTells
    <2>. QED  BY <1>5, <2>1, TellFollows DEF p
  <1>6. CASE PeerTicks(k)
    <2>1. PICK d \in TickDeeds(s) : Tells(k, d, p.reg, IF d.then.active THEN p.last ELSE "end")
      BY <1>6 DEF PeerTicks, p, s
    <2>2. DeedOK(d) /\ s.active /\ d \in {TickDeed(s), ExpireDeed(s)}
      BY <1>2, <2>1, DeedTypes DEF TickDeeds
    <2>3. CASE d = TickDeed(s)
      <3>1. /\ d.then.active = TRUE /\ d.then.locked = s.locked
            /\ \A types : "TICK" \notin types => Without(d.lines, types)
        BY <1>2, <2>3, TickSaid
      <3>2. Says(d, p, p.reg, p.last)
        BY <1>2, <2>2, <3>1, NothingTold DEF ActiveWriters, LockWriters, Changers
      <3>. QED  BY <2>1, <2>2, <3>1, <3>2, TellFollows DEF p
    <2>4. CASE d = ExpireDeed(s)
      <3>1. d.then = Status(FALSE, TRUE, 0)
        BY <2>4, DeedFields, Zenon DEF EndDeed, ExpireDeed
      <3>2. d.then.active = FALSE
        BY <3>1 DEF Status
      <3>. QED  BY <1>5, <2>1, <2>2, <2>4, <3>2
    <2>. QED  BY <2>2, <2>3, <2>4
  <1>7. CASE PeerEnds(k)
    <2>1. PICK d \in EndDeeds(s) : Tells(k, d, p.reg, "end")
      BY <1>7 DEF PeerEnds, p, s
    <2>2. DeedOK(d) /\ d = EndDeed(s)
      BY <1>2, <2>1, DeedTypes DEF EndDeeds
    <2>. QED  BY <1>5, <2>1, <2>2
  <1>8. CASE PeerLocks(k)
    <2>. DEFINE d == LockDeed(s)
    <2>1. Tells(k, d, p.reg, "hand")
      BY <1>8 DEF PeerLocks, p, s
    <2>2. DeedOK(d)
      BY <1>2, DeedTypes
    <2>3. Says(d, p, p.reg, "hand")
      BY <1>1, <1>2, LockTells
    <2>. HIDE DEF d
    <2>. QED  BY <2>1, <2>2, <2>3, TellFollows DEF p
  <1>9. CASE PeerSays(k)
    <2>. DEFINE d == Deed(<<ServerMsg>>, s)
    <2>1. Tells(k, d, p.reg, p.last)
      BY <1>9 DEF PeerSays, p, s
    <2>2. DeedOK(d) /\ d.then = s /\ d.lines = <<ServerMsg>>
      BY <1>2, DeedTypes, DeedFields
    <2>. HIDE DEF d
    <2>3. \A types \in {ActiveWriters, LockWriters, Changers} : Without(d.lines, types)
      <3>1. ServerMsg.type \notin ActiveWriters \cup LockWriters \cup Changers
        BY DEF ActiveWriters, LockWriters, Changers, ServerMsg
      <3>. QED  BY <2>2, <3>1, LastOfOne
    <2>4. Says(d, p, p.reg, p.last)
      BY <1>2, <2>2, <2>3, NothingTold
    <2>. QED  BY <2>1, <2>2, <2>4, TellFollows DEF p
  <1>10. CASE PeerGone(k)
    BY <1>10 DEF PeerGone, Inv, WireOK
  <1>. QED  BY <1>3, <1>4, <1>6, <1>7, <1>8, <1>9, <1>10 DEF Server

(* A server touches one connection's wire only.                            *)
LEMMA ServerTouches ==
  ASSUME Inv, NEW j \in Conns, Server(j)
  PROVE  /\ link[j] = "open" /\ link'[j] \in {"open", "gone"}
         /\ UNCHANGED <<alive, win, active, boxed, queue, dialing, sock, thread, reads, hold,
                        resized>>
         /\ \A i \in Conns : i # j => /\ inbox'[i] = inbox[i] /\ link'[i] = link[i]
                                      /\ peer'[i] = peer[i]
  <1>1. ASSUME NEW d, NEW r, NEW l, Tells(j, d, r, l)
        PROVE  /\ link[j] = "open" /\ link' = link
               /\ UNCHANGED <<alive, windowVars, queue, dialing, sock, threadVars, resized>>
               /\ \A i \in Conns : i # j => inbox'[i] = inbox[i] /\ peer'[i] = peer[i]
    BY <1>1 DEF Tells, Inv, WireOK
  <1>2. CASE PeerGone(j)
    BY <1>2 DEF PeerGone, Inv, WireOK, windowVars, threadVars
  <1>3. CASE \E d, r, l : Tells(j, d, r, l)
    BY <1>1, <1>3 DEF windowVars, threadVars
  <1>4. Server(j) => PeerGone(j) \/ \E d, r, l : Tells(j, d, r, l)
    BY Zenon DEF Server, PeerRegisters, PeerStarts, PeerTicks, PeerEnds, PeerLocks, PeerSays
  <1>. QED  BY <1>2, <1>3, <1>4

(* ------------------- the one thread of a patient customer -------------- *)

LEMMA DispatchOneThread ==
  ASSUME Inv, OneThread, NEW hooked \in BOOLEAN, Dispatch(hooked)
  PROVE  OneThread'
  <1>1. /\ queue # << >> /\ ~dialing /\ queue' = Tail(queue) /\ HandleMsg(Head(queue), hooked)
        /\ UNCHANGED <<dialing, sock, thread, reads, hold, link, inbox, peer>>
        /\ queue \in Seq(Posted)
    BY DEF Dispatch, threadVars, wireVars, Inv, ThreadOK
  <1>2. OneReads' /\ Attended' /\ DialsAlone'
    <2>1. queue \in Seq(ServerLine) => queue' \in Seq(ServerLine)
      BY <1>1, FirstAndRest
    <2>. QED  BY <1>1, <2>1 DEF OneThread, OneReads, Attended, DialsAlone, Running
  <1>3. WindowIsTold'
    <2>. SUFFICES ASSUME \A k \in Conns : ~Running(k)
                  PROVE  IF queue' = << >> THEN ~active' ELSE queue'[Len(queue')] = Disconnected
      BY <1>1 DEF WindowIsTold, Running
    <2>1. queue[Len(queue)] = Disconnected
      BY <1>1 DEF OneThread, WindowIsTold
    <2>2. /\ Len(queue) \in Nat /\ Len(queue) >= 1 /\ Head(queue) = queue[1]
          /\ Len(queue') = Len(queue) - 1
          /\ \A j \in 2..Len(queue) : queue'[j - 1] = queue[j]
          /\ queue' \in Seq(Posted)
      BY <1>1, FirstAndRest
    <2>3. CASE Len(queue) = 1
      <3>1. Head(queue) = Disconnected /\ queue' = << >>
        BY <2>1, <2>2, <2>3, EmptySeq
      <3>2. OnSocketDisc
        BY <1>1, <3>1 DEF HandleMsg, Disconnected
      <3>. QED  BY <3>1, <3>2 DEF OnSocketDisc
    <2>4. CASE Len(queue) # 1
      <3>1. Len(queue) \in 2..Len(queue) /\ Len(queue') # 0
        BY <2>2, <2>4
      <3>2. queue'[Len(queue')] = Disconnected
        BY <2>1, <2>2, <3>1
      <3>3. queue' # << >>
        BY <2>2, <3>1, EmptySeq
      <3>. QED  BY <3>2, <3>3
    <2>. QED  BY <2>3, <2>4
  <1>. QED  BY <1>2, <1>3 DEF OneThread

(* What a running thread may rely on.                                      *)
LEMMA Alone ==
  ASSUME OneThread, NEW k \in Conns, Running(k)
  PROVE  /\ sock = k /\ ~dialing /\ queue \in Seq(ServerLine)
         /\ \A j \in Conns : j # k => thread[j] = "none" /\ reads[j] = 0 /\ hold[j] = << >>
         /\ link[k] \notin {"none", "dialing"} \/ inbox[k] = << >>
         /\ thread[k] = "recv" => reads[k] = k
         /\ thread[k] # "recv" => reads[k] = 0
         /\ thread[k] # "post" => hold[k] = << >>
  BY DEF OneThread, OneReads, Attended, Running

LEMMA ReceivedOneThread ==
  ASSUME Inv, OneThread, NEW k \in Conns, NEW n \in 1..QueueCap, Received(k, n)
  PROVE  OneThread'
  <1>0. k # 0
    BY DEF Conns
  <1>1. /\ thread[k] = "recv" /\ Running(k) /\ reads[k] = k
        /\ thread' = [thread EXCEPT ![k] = "post"] /\ reads' = [reads EXCEPT ![k] = 0]
        /\ \A j \in Conns : j # k => hold'[j] = hold[j] /\ inbox'[j] = inbox[j]
        /\ UNCHANGED <<active, queue, dialing, sock, link, peer>>
        /\ inbox[k] # << >>
    BY DEF Received, Running, OneThread, OneReads, Inv, ThreadOK, WireOK, windowVars
  <1>2. OneReads'
    BY <1>1 DEF OneThread, OneReads, Running, Inv, ThreadOK
  <1>3. Attended'
    BY <1>1 DEF OneThread, Attended, Running, Inv, ThreadOK
  <1>4. WindowIsTold' /\ DialsAlone'
    BY <1>1 DEF OneThread, WindowIsTold, DialsAlone, Running, Inv, ThreadOK
  <1>. QED  BY <1>2, <1>3, <1>4 DEF OneThread

LEMMA PostOneThread ==
  ASSUME Inv, OneThread, NEW k \in Conns, Post(k)
  PROVE  OneThread'
  <1>1. /\ thread[k] = "post" /\ Running(k)
        /\ hold[k] \in Seq(ServerLine) /\ hold[k] # << >>
    BY DEF Post, Running, Inv, ThreadOK
  <1>2. /\ Head(hold[k]) \in ServerLine /\ Tail(hold[k]) \in Seq(ServerLine)
        /\ Len(Tail(hold[k])) = Len(hold[k]) - 1
    BY <1>1, HeadTailProperties
  <1>3. /\ queue \in Seq(ServerLine) /\ sock = k /\ ~dialing /\ reads[k] = 0
        /\ \A j \in Conns : j # k => thread[j] = "none" /\ reads[j] = 0 /\ hold[j] = << >>
    BY <1>1, Alone
  <1>4. queue' \in Seq(ServerLine)
    <2>. DEFINE h == Head(hold[k])
    <2>1. queue' = Append(queue, h)
      BY DEF Post
    <2>2. h \in ServerLine
      BY <1>2
    <2>. HIDE DEF h
    <2>. QED  BY <1>3, <2>1, <2>2, AppendProperties
  <1>5. Len(hold[k]) = 1 => Tail(hold[k]) = << >>
    <2>. DEFINE u == Tail(hold[k])
    <2>1. u \in Seq(ServerLine) /\ (Len(hold[k]) = 1 => Len(u) = 0)
      BY <1>2
    <2>. HIDE DEF u
    <2>2. Len(hold[k]) = 1 => u = << >>
      BY <2>1, EmptySeq
    <2>. QED  BY <2>2 DEF u
  <1>6. /\ thread' = [thread EXCEPT ![k] = IF Len(hold[k]) = 1 THEN "top" ELSE "post"]
        /\ hold' = [hold EXCEPT ![k] = Tail(hold[k])]
        /\ UNCHANGED <<active, dialing, sock, reads, link, inbox, peer>>
    BY DEF Post, windowVars, wireVars
  <1>7. Running(k)' /\ \A j \in Conns : Running(j)' => j = k
    BY <1>3, <1>6 DEF Running, Inv, ThreadOK
  <1>8. OneReads'
    <2>1. \A j \in Conns : reads'[j] # 0 => thread'[j] = "recv"
      BY <1>3, <1>6
    <2>2. \A j \in Conns : thread'[j] = "recv" => reads'[j] = j
      BY <1>3, <1>6 DEF Inv, ThreadOK
    <2>3. \A j \in Conns : thread'[j] # "post" => hold'[j] = << >>
      BY <1>3, <1>5, <1>6 DEF Inv, ThreadOK
    <2>. QED  BY <1>3, <1>4, <1>6, <1>7, <2>1, <2>2, <2>3 DEF OneReads
  <1>9. Attended'
    <2>1. \A j \in Conns : link'[j] = "open" => Running(j)'
      BY <1>3, <1>6, <1>7 DEF OneThread, Attended, Running
    <2>. QED  BY <1>6, <2>1 DEF OneThread, Attended
  <1>10. WindowIsTold' /\ DialsAlone'
    BY <1>3, <1>6, <1>7 DEF WindowIsTold, DialsAlone
  <1>. QED  BY <1>8, <1>9, <1>10 DEF OneThread

(* A thread ends only when its connection is over.                         *)
LEMMA EndOneThread ==
  ASSUME Inv, OneThread, NEW k \in Conns, EndThread(k)
  PROVE  OneThread' /\ link[k] # "open"
  <1>0. k # 0
    BY DEF Conns
  <1>1. /\ thread[k] = "recv" /\ Running(k) /\ NoMoreData(k)
        /\ thread' = [thread EXCEPT ![k] = "none"] /\ reads' = [reads EXCEPT ![k] = 0]
        /\ queue' = Append(queue, Disconnected)
        /\ UNCHANGED <<active, dialing, sock, hold, link, inbox, peer>>
    BY DEF EndThread, Running, OneThread, OneReads, windowVars, wireVars
  <1>2. /\ queue \in Seq(ServerLine) /\ sock = k /\ ~dialing /\ hold[k] = << >>
        /\ \A j \in Conns : j # k => thread[j] = "none" /\ reads[j] = 0 /\ hold[j] = << >>
    BY <1>1, Alone
  <1>3. link[k] # "open"
    BY <1>0, <1>1 DEF NoMoreData
  <1>4. \A j \in Conns : thread'[j] = "none" /\ reads'[j] = 0 /\ hold'[j] = << >>
    BY <1>1, <1>2 DEF Inv, ThreadOK
  <1>5. queue' # << >> /\ queue'[Len(queue')] = Disconnected
    <2>1. queue \in Seq(Posted) /\ Disconnected \in Posted
      BY DEF Inv, ThreadOK, Posted
    <2>. QED  BY <1>1, <2>1, AppendProperties
  <1>6. OneReads' /\ DialsAlone'
    BY <1>1, <1>2, <1>4 DEF OneReads, DialsAlone, Running
  <1>7. Attended'
    <2>1. \A j \in Conns : link[j] # "open"
      BY <1>2, <1>3 DEF OneThread, Attended, Running
    <2>. QED  BY <1>1, <2>1 DEF OneThread, Attended
  <1>8. WindowIsTold'
    BY <1>5 DEF WindowIsTold
  <1>. QED  BY <1>3, <1>6, <1>7, <1>8 DEF OneThread

LEMMA ThreadOneThread ==
  ASSUME Inv, OneThread, NEW k \in Conns, RecvThread(k)
  PROVE  OneThread' /\ ~Torn(k) /\ (EndThread(k) => link[k] # "open")
  <1>1. ASSUME Torn(k)
        PROVE  FALSE
    <2>1. Running(k) /\ reads[k] = k /\ \E j \in Conns \ {k} : reads[j] = k
      BY <1>1 DEF Torn, Running, OneThread, OneReads
    <2>. QED  BY <2>1, Alone DEF Conns
  <1>2. CASE CallRecv(k)
    <2>1. thread[k] = "top" /\ Running(k)
      BY <1>2 DEF CallRecv, Running
    <2>2. sock = k /\ \A j \in Conns : j # k => thread[j] = "none" /\ reads[j] = 0
      BY <2>1, Alone
    <2>3. /\ thread' = [thread EXCEPT ![k] = "recv"] /\ reads' = [reads EXCEPT ![k] = k]
          /\ UNCHANGED <<active, queue, dialing, sock, hold, link, inbox, peer>>
      BY <1>2, <2>2 DEF CallRecv, windowVars, wireVars
    <2>4. OneReads'
      BY <2>1, <2>2, <2>3 DEF OneThread, OneReads, Running, Inv, ThreadOK
    <2>5. Attended' /\ WindowIsTold' /\ DialsAlone'
      BY <2>1, <2>3 DEF OneThread, Attended, WindowIsTold, DialsAlone, Running, Inv, ThreadOK
    <2>. QED  BY <1>1, <1>2, <2>4, <2>5 DEF OneThread, EndThread, CallRecv
  <1>3. ASSUME EndThread(k)
        PROVE  OneThread' /\ link[k] # "open"
    BY <1>3, EndOneThread
  <1>4. CASE \E n \in 1..QueueCap : Received(k, n)
    BY <1>1, <1>3, <1>4, ReceivedOneThread
  <1>5. CASE Post(k)
    BY <1>1, <1>3, <1>5, PostOneThread
  <1>. QED  BY <1>1, <1>2, <1>3, <1>4, <1>5 DEF RecvThread

LEMMA DialOneThread ==
  ASSUME Inv, OneThread, Dial
  PROVE  OneThread'
  <1>1. /\ dialing /\ sock \in Conns /\ queue = << >> /\ link[sock] = "dialing"
        /\ \A k \in Conns : thread[k] = "none" /\ reads[k] = 0 /\ hold[k] = << >>
    BY DEF Dial, Connected, ConnectFails, OneThread, OneReads, DialsAlone, Running, Inv, ThreadOK
  <1>2. CASE Connected
    <2>1. /\ dialing' = FALSE /\ link' = [link EXCEPT ![sock] = "open"]
          /\ thread' = [thread EXCEPT ![sock] = "top"]
          /\ UNCHANGED <<active, queue, sock, reads, hold, inbox, peer>>
      BY <1>2 DEF Connected, windowVars
    <2>2. OneReads'
      <3>1. \A k \in Conns : Running(k)' => k = sock
        BY <1>1, <2>1 DEF Running, Inv, ThreadOK
      <3>2. queue' \in Seq(ServerLine)
        BY <1>1, <2>1
      <3>3. \A k \in Conns : thread'[k] # "recv" /\ reads'[k] = 0 /\ hold'[k] = << >>
        BY <1>1, <2>1 DEF Inv, ThreadOK
      <3>. QED  BY <2>1, <3>1, <3>2, <3>3 DEF OneReads
    <2>3. Attended'
      BY <1>1, <2>1 DEF OneThread, Attended, Running, Inv, ThreadOK, WireOK
    <2>4. WindowIsTold' /\ DialsAlone'
      BY <1>1, <2>1 DEF WindowIsTold, DialsAlone, Running, Inv, ThreadOK
    <2>. QED  BY <2>2, <2>3, <2>4 DEF OneThread
  <1>3. CASE ConnectFails
    <2>1. /\ dialing' = FALSE /\ link' = [link EXCEPT ![sock] = "none"]
          /\ UNCHANGED <<active, queue, thread, reads, hold, inbox, peer>>
      BY <1>3 DEF ConnectFails, windowVars, threadVars
    <2>2. OneReads' /\ WindowIsTold' /\ DialsAlone'
      BY <1>1, <2>1 DEF OneThread, OneReads, WindowIsTold, DialsAlone, Running
    <2>3. Attended'
      BY <1>1, <2>1 DEF OneThread, Attended, Running, Inv, WireOK
    <2>. QED  BY <2>2, <2>3 DEF OneThread
  <1>. QED  BY <1>2, <1>3 DEF Dial

LEMMA UserOneThread ==
  ASSUME ~hasty', Inv, OneThread, User
  PROVE  OneThread'
  <1>1. ASSUME NEW k \in Conns, Connect(k)
        PROVE  OneThread'
    <2>1. /\ dialing' = TRUE /\ sock' = k /\ link' = [link EXCEPT ![k] = "dialing"]
          /\ UNCHANGED <<active, queue, thread, reads, hold, inbox, peer>>
          /\ queue = << >> /\ link[k] = "none" /\ \A j \in Conns : ~Running(j)
      BY <1>1 DEF Connect, TakesInput, windowVars, threadVars
    <2>2. OneReads' /\ WindowIsTold'
      BY <2>1 DEF OneThread, OneReads, WindowIsTold, Running
    <2>3. Attended' /\ DialsAlone'
      BY <2>1 DEF OneThread, Attended, DialsAlone, Running, Inv, WireOK
    <2>. QED  BY <2>2, <2>3 DEF OneThread
  <1>2. CASE Close
    <2>1. /\ active' = FALSE /\ dialing' = FALSE /\ queue' = << >>
          /\ thread' = [k \in Conns |-> "none"] /\ hold' = [k \in Conns |-> << >>]
          /\ reads' = [k \in Conns |-> 0] /\ inbox' = [k \in Conns |-> << >>]
          /\ peer' = [k \in Conns |-> Newcomer]
          /\ link' = [k \in Conns |-> IF link[k] = "none" THEN "none" ELSE "gone"]
      BY <1>2 DEF Close, TakesInput, Inv, ThreadOK
    <2>2. OneReads' /\ WindowIsTold' /\ DialsAlone'
      BY <2>1 DEF OneReads, WindowIsTold, DialsAlone, Running
    <2>3. Attended'
      BY <2>1 DEF Attended, Running
    <2>. QED  BY <2>2, <2>3 DEF OneThread
  <1>3. CASE DismissBox \/ Launch \/ \E hooked \in BOOLEAN : Resize(hooked)
    <2>1. UNCHANGED <<active, queue, dialing, sock, thread, reads, hold, link, inbox, peer>>
      BY <1>3 DEF DismissBox, Launch, Resize, windowVars, threadVars, wireVars
    <2>. QED  BY <2>1 DEF OneThread, OneReads, Attended, WindowIsTold, DialsAlone, Running
  <1>. QED  BY <1>1, <1>2, <1>3 DEF User

LEMMA ServerOneThread ==
  ASSUME Inv, OneThread, NEW k \in Conns, Server(k)
  PROVE  OneThread'
  <1>1. /\ link[k] = "open" /\ link'[k] \in {"open", "gone"}
        /\ UNCHANGED <<active, queue, dialing, sock, thread, reads, hold>>
        /\ \A i \in Conns : i # k => /\ inbox'[i] = inbox[i] /\ link'[i] = link[i]
                                     /\ peer'[i] = peer[i]
    BY ServerTouches
  <1>2. OneReads' /\ WindowIsTold'
    BY <1>1 DEF OneThread, OneReads, WindowIsTold, Running
  <1>3. Attended'
    BY <1>1 DEF OneThread, Attended, Running
  <1>4. DialsAlone'
    BY <1>1 DEF OneThread, DialsAlone, Inv, ThreadOK
  <1>. QED  BY <1>2, <1>3, <1>4 DEF OneThread

LEMMA OneThreadStep ==
  ASSUME ~hasty', Inv, OneThread, [Next]_vars
  PROVE  OneThread'
  <1>1. CASE Next
    BY <1>1, DispatchOneThread, DialOneThread, ThreadOneThread, ServerOneThread, UserOneThread
    DEF Next
  <1>2. CASE UNCHANGED vars
    BY <1>2 DEF vars, windowVars, threadVars, wireVars, OneThread, OneReads, Attended,
                WindowIsTold, DialsAlone, Running
  <1>. QED  BY <1>1, <1>2

(* ---------------------- every step follows the server ------------------ *)

LEMMA TakenAndLeft ==
  ASSUME NEW S, NEW s \in Seq(S), NEW n \in 1..Len(s)
  PROVE  SubSeq(s, 1, n) \o SubSeq(s, n + 1, Len(s)) = s
  <1>1. Len(s) \in Nat
    BY LenProperties
  <1>2. 1 \in 1..(Len(s) + 1) /\ n \in (1 - 1)..Len(s) /\ Len(s) \in n..Len(s)
    BY <1>1
  <1>3. SubSeq(s, 1, n) \o SubSeq(s, n + 1, Len(s)) = SubSeq(s, 1, Len(s))
    BY <1>2, ConcatAdjacentSubSeq, SMTT(30)
  <1>. QED  BY <1>3, SubSeqFull

LEMMA ReceivedFollows ==
  ASSUME Inv, OneThread, NEW k \in Conns, NEW n \in 1..QueueCap, Received(k, n), Follows(k)
  PROVE  Follows(k)'
  <1>. DEFINE i == inbox[k]
  <1>1. /\ hold[k] = << >> /\ reads[k] = k /\ n \in 1..Len(i) /\ i \in Seq(ServerLine)
        /\ hold'[k] = SubSeq(i, 1, n) /\ inbox'[k] = SubSeq(i, n + 1, Len(i))
        /\ UNCHANGED <<queue, win, active, peer, resized>>
    BY DEF Received, OneThread, OneReads, Inv, ThreadOK, WireOK, windowVars
  <1>. HIDE DEF i
  <1>2. SubSeq(i, 1, n) \o SubSeq(i, n + 1, Len(i)) = i
    BY <1>1, TakenAndLeft
  <1>3. << >> \o i = i
    BY <1>1, ConcatEmptySeq
  <1>4. Pending(k)' = queue \o i /\ Pending(k) = queue \o i
    BY <1>1, <1>2, <1>3, Zenon DEF Pending, i
  <1>. QED  BY <1>1, <1>4, KeptFollows

LEMMA PostFollows ==
  ASSUME Inv, OneThread, NEW k \in Conns, Post(k), Follows(k)
  PROVE  Follows(k)'
  <1>. DEFINE q == queue
              h == hold[k]
              r == inbox[k]
  <1>1. Running(k) /\ h \in Seq(ServerLine) /\ h # << >> /\ r \in Seq(ServerLine)
    BY DEF Post, Running, Inv, ThreadOK, WireOK
  <1>2. q \in Seq(ServerLine)
    BY <1>1, Alone
  <1>3. /\ queue' = Append(q, Head(h)) /\ hold'[k] = Tail(h) /\ inbox'[k] = r
        /\ UNCHANGED <<win, active, peer, resized>>
    BY DEF Post, Inv, ThreadOK, windowVars, wireVars
  <1>. HIDE DEF q, h, r
  <1>4. PostsFirst(q, h, r)
    BY <1>1, <1>2, PostedFirst
  <1>5. Pending(k)' = Pending(k)
    BY <1>3, <1>4, Zenon DEF PostsFirst, Pending, q, h, r
  <1>. QED  BY <1>3, <1>5, KeptFollows

LEMMA ThreadFollows ==
  ASSUME Inv, OneThread, NEW j \in Conns, RecvThread(j),
         NEW k \in Conns, Followed(k), Follows(k)
  PROVE  Follows(k)'
  <1>1. Running(j) /\ j = k
    <2>1. Running(j)
      BY DEF RecvThread, CallRecv, Received, Torn, Post, EndThread, Running
    <2>. QED  BY <2>1, Alone DEF Followed
  <1>2. CASE CallRecv(k)
    <2>1. UNCHANGED <<win, active, resized, queue, hold, inbox, peer>>
      BY <1>2 DEF CallRecv, windowVars, wireVars
    <2>2. Pending(k)' = Pending(k)
      BY <2>1 DEF Pending
    <2>. QED  BY <2>1, <2>2, KeptFollows
  <1>3. CASE \E n \in 1..QueueCap : Received(k, n)
    BY <1>3, ReceivedFollows
  <1>4. CASE Post(k)
    BY <1>4, PostFollows
  <1>5. ~Torn(k) /\ ~EndThread(k)
    BY <1>1, ThreadOneThread DEF Followed
  <1>. QED  BY <1>1, <1>2, <1>3, <1>4, <1>5 DEF RecvThread

(* A new connection has nothing to catch up with.                          *)
LEMMA ConnectedFollows ==
  ASSUME Inv, OneThread, Connected, NEW k \in Conns, sock = k
  PROVE  Follows(k)'
  <1>1. /\ queue = << >> /\ hold[k] = << >> /\ inbox[k] = << >> /\ peer[k] = Newcomer /\ ~active
        /\ UNCHANGED <<active, queue, hold, inbox, peer>>
    BY DEF Connected, OneThread, OneReads, Attended, WindowIsTold, DialsAlone, Running, windowVars
  <1>2. Pending(k)' = << >>
    <2>1. << >> \o (<< >> \o << >>) = << >>
      OBVIOUS
    <2>. QED  BY <1>1, <2>1 DEF Pending
  <1>3. /\ peer'[k].active = FALSE /\ peer'[k].locked = FALSE /\ peer'[k].last = "none"
        /\ peer'[k].reg = "no"
    BY <1>1 DEF Newcomer, Belief
  <1>4. \A types : Without(<< >>, types)
    BY DEF Without
  <1>5. \A m, types : ~IsLast(m, << >>, types)
    BY DEF IsLast
  <1>6. (active = FALSE)'
    BY <1>1
  <1>7. ActiveFollows(k)'
    BY <1>2, <1>3, <1>5, <1>6, Zenon DEF ActiveFollows
  <1>8. LockFollows(k)' /\ StartFrees(k)' /\ EndAsks(k)'
    BY <1>3 DEF LockFollows, StartFrees, EndAsks
  <1>9. PanelComes(k)'
    BY <1>2, <1>3, <1>4 DEF PanelComes
  <1>. QED  BY <1>7, <1>8, <1>9 DEF Follows

(* A resize locks a main panel and wipes its labels; but a window that     *)
(* asks for payment has no frame.                                          *)
LEMMA ResizeFollows ==
  ASSUME Inv, NEW hooked \in BOOLEAN, Resize(hooked), NEW k \in Conns, Follows(k)
  PROVE  Follows(k)'
  <1>. DEFINE q == Pending(k)
              p == peer[k]
  <1>1. /\ win.shape = "windowed" /\ UNCHANGED <<active, queue, hold, inbox, peer>>
        /\ Good(win)
    BY DEF Resize, threadVars, wireVars, Inv, WindowOK, Good
  <1>2. Pending(k)' = q /\ peer'[k] = p
    BY <1>1 DEF Pending
  <1>3. \/ win'.screen = "main" /\ win'.locked /\ resized'
        \/ /\ win.screen # "main" /\ win'.screen = "connect" /\ resized' = resized
           /\ win'.locked = win.locked /\ win'.shape = win.shape
    <2>1. CASE win.screen = "main"
      <3>1. win' = ShowMainPanel(win, hooked) /\ resized'
        BY <2>1 DEF Resize
      <3>. QED  BY <1>1, <3>1, MainPanelWrites
    <2>2. CASE win.screen # "main"
      <3>1. win' = ShowConnectPanel(win) /\ resized' = resized
        BY <2>2 DEF Resize
      <3>. QED  BY <1>1, <2>2, <3>1, ConnectPanelWrites
    <2>. QED  BY <2>1, <2>2
  <1>. HIDE DEF q, p
  <1>4. ActiveFollows(k)'
    BY <1>1, <1>2 DEF Follows, ActiveFollows, q, p
  <1>5. LockFollows(k)'
    BY <1>2, <1>3 DEF Follows, LockFollows, q, p
  <1>6. StartFrees(k)'
    BY <1>2, <1>3 DEF Follows, StartFrees, q, p
  <1>7. EndAsks(k)'
    BY <1>1, <1>2 DEF Follows, EndAsks, AsksForPayment, q, p
  <1>8. PanelComes(k)'
    BY <1>2, <1>3 DEF Follows, PanelComes, q, p
  <1>. QED  BY <1>4, <1>5, <1>6, <1>7, <1>8 DEF Follows

LEMMA FollowStep ==
  ASSUME Inv, FollowInv, [Next]_vars, NEW k \in Conns, Followed(k)'
  PROVE  Follows(k)'
  <1>0. OneThread /\ k # 0
    BY DEF FollowInv, Conns
  <1>f. Followed(k) => queue \in Seq(ServerLine) /\ Follows(k)
    BY DEF FollowInv, Followed, OneThread, OneReads, Attended
  <1>1. ASSUME NEW hooked \in BOOLEAN, Dispatch(hooked)
        PROVE  Follows(k)'
    <2>1. Followed(k)
      BY <1>1 DEF Dispatch, wireVars, Followed
    <2>. QED  BY <1>1, <1>f, <2>1, DispatchFollows
  <1>2. CASE Dial
    <2>1. Connected /\ sock = k
      BY <1>0, <1>2 DEF Dial, Connected, ConnectFails, Followed
    <2>. QED  BY <1>0, <2>1, ConnectedFollows
  <1>3. ASSUME NEW j \in Conns, RecvThread(j)
        PROVE  Follows(k)'
    <2>1. UNCHANGED <<sock, dialing, link>>
      BY <1>3 DEF RecvThread, CallRecv, Received, Torn, Post, EndThread, wireVars
    <2>2. Followed(k)
      BY <2>1 DEF Followed
    <2>. QED  BY <1>0, <1>3, <1>f, <2>2, ThreadFollows
  <1>4. ASSUME NEW j \in Conns, Server(j)
        PROVE  Follows(k)'
    <2>1. /\ link[j] = "open" /\ link'[j] \in {"open", "gone"}
          /\ UNCHANGED <<win, active, queue, dialing, sock, hold, resized>>
          /\ \A i \in Conns : i # j => /\ inbox'[i] = inbox[i] /\ link'[i] = link[i]
                                       /\ peer'[i] = peer[i]
      BY <1>4, ServerTouches
    <2>2. Followed(k)
      BY <2>1 DEF Followed
    <2>3. CASE j = k
      BY <1>4, <1>f, <2>2, <2>3, ServerFollows DEF Followed
    <2>4. CASE j # k
      <3>1. Pending(k)' = Pending(k) /\ peer'[k] = peer[k]
        BY <2>1, <2>4 DEF Pending
      <3>. QED  BY <1>f, <2>1, <2>2, <3>1, KeptFollows
    <2>. QED  BY <2>3, <2>4
  <1>5. ASSUME UNCHANGED <<win, active, queue, dialing, sock, hold, link, inbox, peer, resized>>
        PROVE  Follows(k)'
    <2>1. Followed(k) /\ Pending(k)' = Pending(k)
      BY <1>5 DEF Followed, Pending
    <2>. QED  BY <1>5, <1>f, <2>1, KeptFollows
  <1>6. CASE User
    <2>1. CASE (\E j \in Conns : Connect(j)) \/ Close
      BY <1>0, <2>1 DEF Connect, Close, Followed
    <2>2. ASSUME NEW hooked \in BOOLEAN, Resize(hooked)
          PROVE  Follows(k)'
      <3>1. Followed(k)
        BY <2>2 DEF Resize, wireVars, Followed
      <3>. QED  BY <1>f, <2>2, <3>1, ResizeFollows
    <2>3. CASE DismissBox \/ Launch
      BY <1>5, <2>3 DEF DismissBox, Launch, windowVars, threadVars, wireVars
    <2>. QED  BY <1>6, <2>1, <2>2, <2>3 DEF User
  <1>7. CASE UNCHANGED vars
    BY <1>5, <1>7 DEF vars, windowVars, threadVars, wireVars
  <1>. QED  BY <1>1, <1>2, <1>3, <1>4, <1>6, <1>7 DEF Next

(* Of a customer who has connected while an older thread ran nothing is    *)
(* said until the client is closed, which ends the threads.                *)
LEMMA CloseFollows == Inv /\ Close => FollowInv'
  <1>. SUFFICES ASSUME Inv, Close PROVE FollowInv'
    OBVIOUS
  <1>1. /\ active' = FALSE /\ dialing' = FALSE /\ queue' = << >> /\ sock' = 0
        /\ thread' = [k \in Conns |-> "none"] /\ hold' = [k \in Conns |-> << >>]
        /\ reads' = [k \in Conns |-> 0] /\ inbox' = [k \in Conns |-> << >>]
        /\ peer' = [k \in Conns |-> Newcomer]
        /\ link' = [k \in Conns |-> IF link[k] = "none" THEN "none" ELSE "gone"]
    BY DEF Close, TakesInput, Inv, ThreadOK
  <1>2. OneReads' /\ WindowIsTold' /\ DialsAlone'
    BY <1>1 DEF OneReads, WindowIsTold, DialsAlone, Running
  <1>3. Attended'
    BY <1>1 DEF Attended, Running
  <1>4. \A k \in Conns : ~Followed(k)'
    BY <1>1 DEF Followed, Conns
  <1>. QED  BY <1>2, <1>3, <1>4 DEF FollowInv, OneThread

LEMMA PatientFollows == Spec => [](~hasty => FollowInv)
  <1>1. Init => FollowInv
    <2>. SUFFICES ASSUME Init PROVE FollowInv
      OBVIOUS
    <2>1. OneThread
      BY DEF Init, OneThread, OneReads, Attended, WindowIsTold, DialsAlone, Running
    <2>2. \A k \in Conns : ~Followed(k)
      BY DEF Init, Followed
    <2>. QED  BY <2>1, <2>2 DEF FollowInv
  <1>2. /\ Inv /\ hasty \in BOOLEAN /\ (~hasty => FollowInv) /\ [Next]_vars
        => (~hasty => FollowInv)'
    <2>. SUFFICES ASSUME Inv, hasty \in BOOLEAN, ~hasty => FollowInv, [Next]_vars, ~hasty'
                  PROVE  FollowInv'
      OBVIOUS
    <2>1. CASE Close
      BY <2>1, CloseFollows
    <2>2. CASE ~hasty
      <3>1. OneThread'
        BY <2>2, OneThreadStep DEF FollowInv
      <3>2. \A k \in Conns : Followed(k)' => Follows(k)'
        BY <2>2, FollowStep
      <3>. QED  BY <3>1, <3>2 DEF FollowInv
    <2>. QED  BY <2>1, <2>2, HastyMoves
  <1>. QED  BY <1>1, <1>2, Invariance, HastyType, PTL DEF Spec

LEMMA SettledFollows ==
  ASSUME ~hasty => FollowInv, NEW k \in Conns, Settled(k)
  PROVE  Follows(k) /\ Pending(k) = << >>
  <1>1. Followed(k) /\ ~hasty
    BY DEF Settled, Followed
  <1>2. << >> \o (<< >> \o << >>) = << >>
    OBVIOUS
  <1>3. Pending(k) = << >>
    BY <1>2 DEF Settled, Pending
  <1>. QED  BY <1>1, <1>3 DEF FollowInv

(* However lines, boxes, resizes and reconnects of a patient customer mix, *)
(* a Windows station that has handled its lines is locked when the server  *)
(* has locked it, runs a session when the server does, and is free after a *)
(* start, although leaving fullscreen locks it once more on the way.       *)
THEOREM StationFollowsServer == Spec => []StationFollows
  <1>1. (~hasty => FollowInv) => StationFollows
    <2>. SUFFICES ASSUME ~hasty => FollowInv, NEW k \in Conns, Settled(k)
                  PROVE  /\ peer[k].locked => win.locked
                         /\ active = peer[k].active
                         /\ peer[k].last = "start" /\ peer[k].reg # "late" /\ ~resized
                              => ~win.locked
      BY DEF StationFollows
    <2>1. Follows(k) /\ Pending(k) = << >>
      BY SettledFollows
    <2>2. \A types : Without(<< >>, types)
      BY DEF Without
    <2>3. ~IsNext(<< >>, Lock(FALSE)) /\ ~Brings(<< >>, "SESSION_START", Lock(FALSE))
      BY DEF IsNext, Brings
    <2>. QED  BY <2>1, <2>2, <2>3 DEF Follows, ActiveFollows, LockFollows, StartFrees
  <1>. QED  BY <1>1, PatientFollows, PTL

(* The end of a session leaves the request for payment on the panel: no    *)
(* line that comes with it or after it wipes it.                           *)
THEOREM EndAsksForPayment == Spec => []PaymentIsAsked
  <1>1. (~hasty => FollowInv) => PaymentIsAsked
    <2>. SUFFICES ASSUME ~hasty => FollowInv, NEW k \in Conns, Settled(k),
                         peer[k].last = "end", peer[k].reg = "early"
                  PROVE  win.text = "pay"
      BY DEF PaymentIsAsked
    <2>1. Follows(k) /\ Pending(k) = << >>
      BY SettledFollows
    <2>2. ~IsNext(<< >>, Lock(TRUE)) /\ ~Brings(<< >>, "SESSION_END", Lock(TRUE))
      BY DEF IsNext, Brings
    <2>. QED  BY <2>1, <2>2 DEF Follows, EndAsks, AsksForPayment
  <1>. QED  BY <1>1, PatientFollows, PTL
=============================================================================
