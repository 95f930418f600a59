--------------------------- MODULE GtkClientProofs ---------------------------
(***************************************************************************)
(* Theorems about GtkClient, for any number of connections, ticks and      *)
(* unread lines and any set of packages.                                   *)
(***************************************************************************)
EXTENDS GtkClient, ServerSideProofs, TLAPS, SequenceTheorems, FiniteSetTheorems

(* TypeOK in three parts, one for each group of variables.  A connection   *)
(* in channel_ has a heartbeat source, so that removing it leaves a number *)
(* of sources that is not negative.                                        *)
WindowOK ==
    /\ screen \in {"connect", "main"}
    /\ cover \in BOOLEAN /\ locked \in BOOLEAN /\ grabbed \in BOOLEAN
    /\ shown \in Nat
    /\ boxes \in Seq(Conns)

TcpOK ==
    /\ cur \in Conns \cup {0}
    /\ sock \in BOOLEAN
    /\ timers \in Nat
    /\ watch \in [Conns -> {"none", "live", "shut"}]
    /\ fd \in [Conns -> Fds \cup {0}]
    /\ fdOpen \subseteq Conns
    /\ nconn \in 0..MaxConn
    /\ doubled \in BOOLEAN
    /\ cur # 0 => timers >= 1

WireOK ==
    /\ inbox \in [Conns -> Seq(ServerLine)]
    /\ link \in [Conns -> {"open", "fin", "reset"}]
    /\ peer \in [Conns -> Peer]

Inv == alive \in BOOLEAN /\ WindowOK /\ TcpOK /\ WireOK

LEMMA InvTypes == Inv => TypeOK
  BY DEF Inv, WindowOK, TcpOK, WireOK, TypeOK

(* ------------------------------ the lines ------------------------------ *)

LEMMA BeliefType ==
  ASSUME NEW r \in {"no", "early", "late"}, NEW t \in BOOLEAN, NEW s, Typed(s)
  PROVE  Belief(r, t, s) \in Peer
  BY Zenon DEF Belief, Peer, Typed

LEMMA NewcomerType == Newcomer \in Peer
  <1>1. Typed(Fresh)
    BY StatusType DEF Fresh
  <1>. QED  BY <1>1, BeliefType DEF Newcomer

(* What a handler reads from a line is there and of its type.              *)
LEMMA LineFields ==
  ASSUME NEW m \in ServerLine
  PROVE  /\ m.type = "TICK" => m.elapsed \in Nat
         /\ m.type = "LOCK" => m.locked \in BOOLEAN
  BY DEF ServerLine, PlainTypes

(* ------------------------- the client's callbacks ---------------------- *)

LEMMA CloseChannelStep ==
  ASSUME Inv, NEW k \in Conns, Disconnect(k)
  PROVE  TcpOK' /\ WireOK'
  <1>a. watch' \in [Conns -> {"none", "live", "shut"}]
    <2>1. \A j \in Conns : watch[j] \in {"none", "live", "shut"}
      BY DEF Inv, TcpOK
    <2>. QED  BY <2>1, Zenon DEF Disconnect, CloseChannel
  <1>b. timers' \in Nat
    BY DEF Inv, TcpOK, Disconnect
  <1>c. cur' = 0 /\ sock' = FALSE /\ fdOpen' \subseteq Conns
    BY DEF Inv, TcpOK, Disconnect, CloseChannel
  <1>d. UNCHANGED <<fd, nconn, doubled>>
    BY DEF Disconnect, CloseChannel
  <1>1. TcpOK'
    BY <1>a, <1>b, <1>c, <1>d DEF Inv, TcpOK
  <1>2. inbox' \in [Conns -> Seq(ServerLine)]
    BY DEF Inv, WireOK, Disconnect, CloseChannel
  <1>3. Newcomer \in Peer
    BY NewcomerType
  <1>4. link' \in [Conns -> {"open", "fin", "reset"}] /\ peer' \in [Conns -> Peer]
    BY <1>3 DEF Inv, WireOK, Disconnect, CloseChannel, Forget
  <1>. QED  BY <1>1, <1>2, <1>4 DEF WireOK

LEMMA HandlerStep ==
  ASSUME Inv, NEW k \in Conns, NEW m \in ServerLine, HandleMessage(k, m)
  PROVE  WindowOK'
  <1>. USE DEF Inv, WindowOK
  <1>1. CASE ShowMainScreen
    BY <1>1 DEF ShowMainScreen, ApplyLockOverlay
  <1>2. CASE OnSessionStart
    BY <1>2 DEF OnSessionStart, ApplyLockOverlay
  <1>3. CASE OnSessionEnd(k)
    <2>1. boxes' \in Seq(Conns)
      BY <1>3 DEF OnSessionEnd
    <2>2. cover' = TRUE /\ locked' = TRUE /\ grabbed' \in BOOLEAN
      BY <1>3 DEF OnSessionEnd, ApplyLockOverlay
    <2>3. UNCHANGED <<screen, shown>>
      BY <1>3 DEF OnSessionEnd
    <2>. QED  BY <2>1, <2>2, <2>3
  <1>4. CASE m.type = "TICK" /\ OnTick(m)
    BY <1>4, LineFields DEF OnTick
  <1>5. CASE m.type = "LOCK" /\ OnLock(m.locked)
    BY <1>5, LineFields DEF OnLock, ApplyLockOverlay
  <1>6. CASE OnServerMsg(k)
    BY <1>6 DEF OnServerMsg
  <1>7. CASE UNCHANGED windowVars
    BY <1>7 DEF windowVars
  <1>. QED  BY <1>1, <1>2, <1>3, <1>4, <1>5, <1>6, <1>7 DEF HandleMessage

LEMMA DataStep ==
  ASSUME Inv, NEW k \in Conns, OnData(k)
  PROVE  Inv'
  <1>1. inbox[k] \in Seq(ServerLine) /\ inbox[k] # << >>
    BY DEF Inv, WireOK, OnData
  <1>2. Head(inbox[k]) \in ServerLine /\ Tail(inbox[k]) \in Seq(ServerLine)
    BY <1>1, HeadTailProperties
  <1>3. WindowOK'
    BY <1>2, HandlerStep DEF OnData
  <1>4. WireOK'
    BY <1>2 DEF Inv, WireOK, OnData
  <1>. QED  BY <1>3, <1>4 DEF Inv, TcpOK, OnData, tcpVars

LEMMA HangUpStep ==
  ASSUME Inv, NEW k \in Conns, OnDisconnect(k) \/ OnShutChannel(k)
  PROVE  Inv'
  <1>1. Disconnect(k) /\ OnServerDisconnected /\ UNCHANGED alive
    BY DEF OnDisconnect, OnShutChannel
  <1>2. WindowOK'
    BY <1>1 DEF Inv, WindowOK, OnServerDisconnected
  <1>. QED  BY <1>1, <1>2, CloseChannelStep DEF Inv

LEMMA LoseStep ==
  ASSUME Inv, LoseClient
  PROVE  Inv'
  <1>1. WindowOK'
    <2>1. boxes' \in Seq(Conns)
      BY DEF LoseClient
    <2>2. /\ screen' = "connect" /\ cover' = TRUE /\ locked' = TRUE /\ grabbed' = FALSE
          /\ shown' = 0
      BY DEF LoseClient
    <2>. QED  BY <2>1, <2>2 DEF WindowOK
  <1>2. TcpOK'
    BY DEF Inv, TcpOK, LoseClient
  <1>3. Newcomer \in Peer
    BY NewcomerType
  <1>4. WireOK'
    BY <1>3 DEF Inv, WireOK, LoseClient, Forget
  <1>. QED  BY <1>1, <1>2, <1>4 DEF Inv, LoseClient

(* ------------------------------ the customer --------------------------- *)

LEMMA ConnectStep ==
  ASSUME Inv, NEW f \in Fds, Connect(f)
  PROVE  Inv'
  <1>1. nconn + 1 \in Conns
    BY DEF Connect
  <1>2. TcpOK'
    BY <1>1, ClientBounds DEF Inv, TcpOK, Connect, Conns
  <1>. QED  BY <1>2 DEF Inv, WindowOK, WireOK, Connect, windowVars, wireVars

LEMMA UserStep ==
  ASSUME Inv, User
  PROVE  Inv'
  <1>1. ASSUME NEW f \in Fds, Connect(f)
        PROVE  Inv'
    BY <1>1, ConnectStep
  <1>2. CASE ConnectFails
    BY <1>2 DEF Inv, WindowOK, TcpOK, WireOK, ConnectFails, windowVars, wireVars
  <1>3. CASE DismissBox
    <2>1. boxes \in Seq(Conns) /\ boxes # << >>
      BY <1>3 DEF Inv, WindowOK, DismissBox
    <2>2. SubSeq(boxes, 1, Len(boxes) - 1) \in Seq(Conns)
      BY <2>1, SubSeqProperties
    <2>. QED  BY <1>3, <2>2 DEF Inv, WindowOK, TcpOK, WireOK, DismissBox, tcpVars, wireVars
  <1>4. CASE Close \/ BadPort
    BY <1>4, LoseStep DEF Close, BadPort
  <1>5. CASE Launch
    BY <1>5 DEF Inv, WindowOK, TcpOK, WireOK, Launch, windowVars, tcpVars, wireVars
  <1>. QED  BY <1>1, <1>2, <1>3, <1>4, <1>5 DEF User

(* ------------------------------- the server ---------------------------- *)

LEMMA TellsStep ==
  ASSUME Inv, NEW k \in Conns, NEW d, DeedOK(d), NEW r \in {"no", "early", "late"},
         NEW t \in BOOLEAN, Tells(k, d, r, t)
  PROVE  Inv'
  <1>1. inbox[k] \o d.lines \in Seq(ServerLine)
    BY ConcatProperties DEF Inv, WireOK, DeedOK
  <1>2. Belief(r, t, d.then) \in Peer
    BY BeliefType DEF DeedOK
  <1>3. WireOK'
    BY <1>1, <1>2 DEF Inv, WireOK, Tells
  <1>. QED  BY <1>3 DEF Inv, WindowOK, TcpOK, Tells, windowVars, tcpVars

LEMMA ServerStep ==
  ASSUME Inv, NEW k \in Conns, Server(k)
  PROVE  Inv'
  <1>. DEFINE b == peer[k]
  <1>1. /\ b.reg \in {"no", "early", "late"} /\ b.told \in BOOLEAN /\ Typed(b)
    BY DEF Inv, WireOK, Peer, Typed
  <1>2. CASE PeerRegisters(k)
    <2>1. PICK r \in {"no", "early", "late"} : Tells(k, RegisterDeed(b), r, b.told)
      BY <1>2 DEF PeerRegisters
    <2>. QED  BY <1>1, <2>1, DeedTypes, TellsStep
  <1>3. CASE PeerActs(k)
    <2>1. PICK d \in StartDeeds(b) \cup EndDeeds(b) \cup {LockDeed(b)} : Tells(k, d, b.reg, TRUE)
      BY <1>3 DEF PeerActs
    <2>2. DeedOK(d)
      BY <1>1, DeedTypes
    <2>. QED  BY <1>1, <2>1, <2>2, TellsStep
  <1>4. CASE PeerTicks(k)
    <2>1. PICK d \in TickDeeds(b) : Tells(k, d, b.reg, TRUE)
      BY <1>4 DEF PeerTicks
    <2>2. DeedOK(d)
      BY <1>1, DeedTypes
    <2>. QED  BY <1>1, <2>1, <2>2, TellsStep
  <1>7. CASE PeerSays(k)
    BY <1>1, <1>7, DeedTypes, TellsStep DEF PeerSays
  <1>8. CASE PeerGone(k)
    <2>1. WireOK'
      BY <1>8 DEF Inv, WireOK, PeerGone
    <2>. QED  BY <1>8, <2>1 DEF Inv, WindowOK, TcpOK, PeerGone, windowVars, tcpVars
  <1>. QED  BY <1>2, <1>3, <1>4, <1>7, <1>8 DEF Server

(* ----------------------------- type correctness ------------------------ *)

LEMMA InitInv == Init => Inv
  <1>. SUFFICES ASSUME Init PROVE Inv
    OBVIOUS
  <1>1. Newcomer \in Peer
    BY NewcomerType
  <1>2. WindowOK
    <2>1. boxes \in Seq(Conns)
      BY DEF Init
    <2>2. /\ screen = "connect" /\ cover = TRUE /\ locked = TRUE /\ grabbed = FALSE
          /\ shown = 0
      BY DEF Init
    <2>. QED  BY <2>1, <2>2 DEF WindowOK
  <1>3. TcpOK
    <2>1. watch \in [Conns -> {"none", "live", "shut"}]
      BY DEF Init
    <2>2. fd \in [Conns -> Fds \cup {0}]
      BY DEF Init
    <2>3. /\ cur = 0 /\ sock = FALSE /\ timers = 0 /\ fdOpen = {} /\ nconn = 0
          /\ doubled = FALSE
      BY DEF Init
    <2>4. nconn \in 0..MaxConn
      BY <2>3, ClientBounds
    <2>. QED  BY <2>1, <2>2, <2>3, <2>4, Zenon DEF TcpOK
  <1>4. WireOK
    BY <1>1 DEF Init, WireOK
  <1>. QED  BY <1>2, <1>3, <1>4 DEF Init, Inv

LEMMA NextInv == Inv /\ [Next]_vars => Inv'
  <1>. SUFFICES ASSUME Inv, [Next]_vars PROVE Inv'
    OBVIOUS
  <1>1. ASSUME NEW k \in Conns, OnData(k)
        PROVE  Inv'
    BY <1>1, DataStep
  <1>2. ASSUME NEW k \in Conns, OnDisconnect(k) \/ OnShutChannel(k)
        PROVE  Inv'
    BY <1>2, HangUpStep
  <1>3. ASSUME NEW k \in Conns, BadPackageList(k)
        PROVE  Inv'
    BY <1>3, LoseStep DEF BadPackageList
  <1>4. ASSUME NEW k \in Conns, Server(k)
        PROVE  Inv'
    BY <1>4, ServerStep
  <1>5. CASE User
    BY <1>5, UserStep
  <1>6. CASE UNCHANGED vars
    BY <1>6 DEF Inv, WindowOK, TcpOK, WireOK, vars, windowVars, tcpVars, wireVars
  <1>. QED  BY <1>1, <1>2, <1>3, <1>4, <1>5, <1>6 DEF Next, Loop

LEMMA InvAlways == Spec => []Inv
  BY InitInv, NextInv, PTL DEF Spec

(* The type invariant of the client, for any number of connections.        *)
THEOREM ClientTypeCorrect == Spec => []TypeOK
  BY InvAlways, InvTypes, PTL

(* ------------------------------- the lock ------------------------------ *)

(* LockShows is inductive: each handler that sets locked_ or takes the     *)
(* keyboard raises the overlay in the same callback, and the one that      *)
(* lowers it resets both.                                                  *)
LEMMA HandlerShows ==
  ASSUME Inv, LockShows, NEW k \in Conns, NEW m \in ServerLine, HandleMessage(k, m)
  PROVE  LockShows'
  <1>. USE DEF LockShows
  <1>1. CASE ShowMainScreen
    BY <1>1 DEF ShowMainScreen, ApplyLockOverlay
  <1>2. CASE OnSessionStart
    BY <1>2 DEF OnSessionStart, ApplyLockOverlay
  <1>3. CASE OnSessionEnd(k)
    BY <1>3 DEF OnSessionEnd, ApplyLockOverlay
  <1>4. CASE m.type = "TICK" /\ OnTick(m)
    BY <1>4 DEF OnTick
  <1>5. CASE m.type = "LOCK" /\ OnLock(m.locked)
    <2>1. m.locked \in BOOLEAN
      BY <1>5, LineFields
    <2>. QED  BY <1>5, <2>1 DEF OnLock, ApplyLockOverlay
  <1>6. CASE OnServerMsg(k)
    BY <1>6 DEF OnServerMsg
  <1>7. CASE UNCHANGED windowVars
    BY <1>7 DEF windowVars
  <1>. QED  BY <1>1, <1>2, <1>3, <1>4, <1>5, <1>6, <1>7 DEF HandleMessage

LEMMA StepShows ==
  ASSUME Inv, LockShows, [Next]_vars
  PROVE  LockShows'
  <1>1. ASSUME NEW k \in Conns, OnData(k)
        PROVE  LockShows'
    <2>1. Head(inbox[k]) \in ServerLine
      BY <1>1, HeadTailProperties DEF Inv, WireOK, OnData
    <2>. QED  BY <1>1, <2>1, HandlerShows DEF OnData
  <1>2. ASSUME NEW k \in Conns, OnDisconnect(k) \/ OnShutChannel(k)
        PROVE  LockShows'
    BY <1>2 DEF OnDisconnect, OnShutChannel, OnServerDisconnected, LockShows
  <1>3. ASSUME LoseClient
        PROVE  LockShows'
    BY <1>3 DEF LoseClient, LockShows
  <1>4. ASSUME NEW k \in Conns, Server(k)
        PROVE  LockShows'
    BY <1>4 DEF Server, PeerRegisters, PeerActs, PeerTicks, PeerSays, PeerGone, Tells, windowVars, LockShows
  <1>5. ASSUME User
        PROVE  LockShows'
    BY <1>3, <1>5 DEF User, Connect, ConnectFails, DismissBox, Close, BadPort, Launch,
                      windowVars, LockShows
  <1>6. CASE UNCHANGED vars
    BY <1>6 DEF vars, windowVars, LockShows
  <1>. QED  BY <1>1, <1>2, <1>3, <1>4, <1>5, <1>6 DEF Next, Loop, BadPackageList

(* A station whose locked_ keeps its window open is covered, and one that  *)
(* is not covered leaves the keyboard to its customer.                     *)
THEOREM LockAlwaysShows == Spec => []LockShows
  <1>1. Init => LockShows
    BY DEF Init, LockShows
  <1>2. Inv /\ LockShows /\ [Next]_vars => LockShows'
    BY StepShows
  <1>. QED  BY <1>1, <1>2, InvAlways, PTL DEF Spec

(* --------------------------- the connection ---------------------------- *)

(* FieldsAreWatched is inductive too: a callback that removes a watch      *)
(* clears channel_ in the same step, whichever connection is in it.        *)
LEMMA DisconnectWatched ==
  ASSUME Inv, FieldsAreWatched, NEW k \in Conns, Disconnect(k)
  PROVE  FieldsAreWatched'
  <1>1. cur' = 0 /\ fdOpen' = fdOpen \ {cur}
    BY DEF Disconnect, CloseChannel
  <1>2. ASSUME NEW j \in Conns, watch'[j] = "live"
        PROVE  j # k /\ j # cur /\ watch[j] = "live"
    <2>1. watch'[j] = CASE j = k -> "none"
                        [] j = cur /\ j # k -> "shut"
                        [] OTHER -> watch[j]
      BY Zenon DEF Disconnect, CloseChannel
    <2>. QED  BY <1>2, <2>1
  <1>. QED  BY <1>1, <1>2 DEF FieldsAreWatched, Live

LEMMA StepWatched ==
  ASSUME Inv, FieldsAreWatched, [Next]_vars
  PROVE  FieldsAreWatched'
  <1>1. ASSUME NEW k \in Conns, OnData(k)
        PROVE  FieldsAreWatched'
    BY <1>1 DEF OnData, tcpVars, FieldsAreWatched, Live
  <1>2. ASSUME NEW k \in Conns, OnDisconnect(k) \/ OnShutChannel(k)
        PROVE  FieldsAreWatched'
    BY <1>2, DisconnectWatched DEF OnDisconnect, OnShutChannel
  <1>3. ASSUME LoseClient
        PROVE  FieldsAreWatched'
    BY <1>3 DEF LoseClient, FieldsAreWatched, Live
  <1>4. ASSUME NEW k \in Conns, Server(k)
        PROVE  FieldsAreWatched'
    BY <1>4 DEF Server, PeerRegisters, PeerActs, PeerTicks, PeerSays, PeerGone, Tells, tcpVars, FieldsAreWatched, Live
  <1>5. ASSUME NEW f \in Fds, Connect(f)
        PROVE  FieldsAreWatched'
    BY <1>5 DEF Connect, FieldsAreWatched, Live, Inv, TcpOK
  <1>6. ASSUME User, ~\E f \in Fds : Connect(f)
        PROVE  FieldsAreWatched'
    BY <1>3, <1>6 DEF User, ConnectFails, DismissBox, Close, BadPort, Launch, tcpVars,
                      FieldsAreWatched, Live
  <1>7. CASE UNCHANGED vars
    BY <1>7 DEF vars, tcpVars, FieldsAreWatched, Live
  <1>. QED  BY <1>1, <1>2, <1>3, <1>4, <1>5, <1>6, <1>7 DEF Next, Loop, BadPackageList

(* Whatever clicks and hang-ups came before, the connection in the         *)
(* client's fields is listened to, and no live watch reads a channel that  *)
(* was shut.                                                               *)
THEOREM ConnectionIsWatched == Spec => []FieldsAreWatched
  <1>1. Init => FieldsAreWatched
    BY DEF Init, FieldsAreWatched, Live
  <1>2. Inv /\ FieldsAreWatched /\ [Next]_vars => FieldsAreWatched'
    BY StepWatched
  <1>. QED  BY <1>1, <1>2, InvAlways, PTL DEF Spec

(* ----------------------------- what is left ---------------------------- *)

(* NothingLeaks is inductive: as long as no connect was made on top of a   *)
(* connection, the only watch that can be called is that of channel_, and  *)
(* disconnect undoes what connect has done.                                *)
LEMMA CountUp == Cardinality({}) = 0 /\ \A k \in Conns : Cardinality({k}) = 1
  BY FS_EmptySet, FS_Singleton

LEMMA ConnectLeaks ==
  ASSUME Inv, NothingLeaks, NEW f \in Fds, Connect(f), ~doubled'
  PROVE  NothingLeaks'
  <1>. DEFINE k == nconn + 1
  <1>1. ~doubled /\ cur = 0 /\ k \in Conns /\ k # 0
    <2>1. ~doubled /\ cur = 0
      BY Zenon DEF Connect
    <2>2. k \in Conns
      BY DEF Connect
    <2>3. k # 0
      BY <2>2, ClientBounds DEF Conns
    <2>. QED  BY <2>1, <2>2, <2>3
  <1>2. fdOpen = {} /\ Live = {} /\ Shut = {} /\ timers = 0
    BY <1>1, CountUp DEF NothingLeaks
  <1>3. cur' = k /\ fdOpen' = {k} /\ timers' = 1 /\ sock' = TRUE
    BY <1>2 DEF Connect
  <1>4. watch' = [watch EXCEPT ![k] = "live"]
    BY DEF Connect
  <1>5. Live' = {k} /\ Shut' = {}
    <2>. HIDE DEF k
    <2>. QED  BY <1>1, <1>2, <1>4 DEF Live, Shut, Inv, TcpOK
  <1>6. Cardinality({k}) = 1
    BY <1>1, CountUp
  <1>. HIDE DEF k
  <1>. QED  BY <1>1, <1>3, <1>5, <1>6 DEF NothingLeaks

LEMMA DisconnectLeaks ==
  ASSUME Inv, NothingLeaks, NEW k \in Conns, k \in Live \cup Shut, Disconnect(k), ~doubled'
  PROVE  NothingLeaks'
  <1>1. ~doubled
    BY DEF Disconnect, CloseChannel
  <1>2. fdOpen = {k} /\ cur = k /\ k # 0 /\ Live = {k} /\ Shut = {} /\ timers = 1
    BY <1>1, CountUp DEF NothingLeaks, Conns
  <1>3. cur' = 0 /\ sock' = FALSE /\ fdOpen' = {} /\ timers' = 0
    BY <1>2 DEF Disconnect, CloseChannel
  <1>4. ASSUME NEW j \in Conns
        PROVE  watch'[j] # "live" /\ watch'[j] # "shut"
    <2>1. watch'[j] = CASE j = k -> "none"
                        [] j = cur /\ j # k -> "shut"
                        [] OTHER -> watch[j]
      BY Zenon DEF Disconnect, CloseChannel
    <2>2. j # k => watch[j] # "live" /\ watch[j] # "shut"
      BY <1>2 DEF Live, Shut
    <2>. QED  BY <1>2, <2>1, <2>2
  <1>5. Live' = {} /\ Shut' = {}
    BY <1>4 DEF Live, Shut
  <1>. QED  BY <1>3, <1>5, CountUp DEF NothingLeaks

LEMMA StepLeaks ==
  ASSUME Inv, NothingLeaks, [Next]_vars
  PROVE  NothingLeaks'
  <1>1. ASSUME NEW k \in Conns, OnData(k)
        PROVE  NothingLeaks'
    BY <1>1 DEF OnData, tcpVars, NothingLeaks, Live, Shut
  <1>2. ASSUME NEW k \in Conns, OnDisconnect(k) \/ OnShutChannel(k)
        PROVE  NothingLeaks'
    <2>1. Disconnect(k) /\ k \in Live \cup Shut
      BY <1>2 DEF OnDisconnect, OnShutChannel, Dispatched, Wakes
    <2>. QED  BY <2>1, DisconnectLeaks DEF NothingLeaks
  <1>3. ASSUME LoseClient
        PROVE  NothingLeaks'
    <2>1. Live' = {} /\ Shut' = {}
      BY <1>3 DEF LoseClient, Live, Shut
    <2>2. cur' = 0 /\ sock' = FALSE /\ timers' = 0 /\ fdOpen' = {}
      BY <1>3 DEF LoseClient
    <2>. QED  BY <2>1, <2>2, CountUp DEF NothingLeaks
  <1>4. ASSUME NEW k \in Conns, Server(k)
        PROVE  NothingLeaks'
    BY <1>4 DEF Server, PeerRegisters, PeerActs, PeerTicks, PeerSays, PeerGone, Tells, tcpVars, NothingLeaks, Live, Shut
  <1>5. ASSUME NEW f \in Fds, Connect(f)
        PROVE  NothingLeaks'
    BY <1>5, ConnectLeaks DEF NothingLeaks
  <1>6. ASSUME ConnectFails
        PROVE  NothingLeaks'
    <2>1. UNCHANGED <<cur, timers, watch, fdOpen>> /\ sock' = FALSE
      BY <1>6 DEF ConnectFails
    <2>2. ~doubled' => ~doubled /\ cur = 0
      BY <1>6 DEF ConnectFails
    <2>3. Live' = Live /\ Shut' = Shut
      BY <2>1 DEF Live, Shut
    <2>. QED  BY <2>1, <2>2, <2>3 DEF NothingLeaks
  <1>7. ASSUME User, ~ConnectFails, ~\E f \in Fds : Connect(f)
        PROVE  NothingLeaks'
    BY <1>3, <1>7 DEF User, DismissBox, Close, BadPort, Launch, tcpVars, NothingLeaks,
                      Live, Shut
  <1>8. CASE UNCHANGED vars
    BY <1>8 DEF vars, tcpVars, NothingLeaks, Live, Shut
  <1>. QED  BY <1>1, <1>2, <1>3, <1>4, <1>5, <1>6, <1>7, <1>8 DEF Next, Loop, BadPackageList

(* A customer who never connects on top of a connection leaves nothing     *)
(* behind, over any number of lost connections and launches.               *)
THEOREM PatientLeavesNothing == Spec => []NothingLeaks
  <1>1. Init => NothingLeaks
    BY CountUp DEF Init, NothingLeaks, Live, Shut
  <1>2. Inv /\ NothingLeaks /\ [Next]_vars => NothingLeaks'
    BY StepLeaks
  <1>. QED  BY <1>1, <1>2, InvAlways, PTL DEF Spec

(* --------------------------- what is believed -------------------------- *)

(* FollowsServer speaks of a station that has read everything.  What is    *)
(* preserved speaks of what it still has to read: the last line that sets  *)
(* locked_, the overlay or the clock will set it to what the server        *)
(* believes, and where there is no such line it has been set already.      *)
LockWriters == {"SESSION_START", "SESSION_END", "LOCK"}

CoverWriters == LockWriters \cup {"REGISTERED"}

ClockWriters == {"SESSION_START", "TICK"}

LockFollows(k) ==
    /\ \A m : IsLast(m, inbox[k], LockWriters) => m.type = "LOCK" /\ m.locked = peer[k].locked
    /\ Without(inbox[k], LockWriters) /\ peer[k].told => locked = peer[k].locked

\* REGISTERED raises the overlay, and after a late one nothing lowers it.
CoverFollows(k) ==
    /\ \A m : IsLast(m, inbox[k], CoverWriters) =>
         \/ m.type = "LOCK" /\ m.locked = peer[k].locked
         \/ m.type = "REGISTERED" /\ (peer[k].told => peer[k].reg = "late")
    /\ Without(inbox[k], CoverWriters) =>
         /\ peer[k].locked => cover
         /\ peer[k].told /\ peer[k].reg # "late" => cover = peer[k].locked

ClockFollows(k) ==
    peer[k].active =>
      /\ \A m : IsLast(m, inbox[k], ClockWriters) =>
           \/ m.type = "SESSION_START" /\ peer[k].elapsed = 0
           \/ m.type = "TICK" /\ m.elapsed = peer[k].elapsed
      /\ Without(inbox[k], ClockWriters) => shown = peer[k].elapsed

Follows(k) == LockFollows(k) /\ CoverFollows(k) /\ ClockFollows(k)

Followed(k) == cur = k /\ ~doubled /\ link[k] = "open"

(* A connection starts with nothing in it, and a session that runs has     *)
(* been announced.                                                         *)
NewConns == \A k \in Conns : k > nconn => /\ k \notin fdOpen
                                          /\ inbox[k] = << >> /\ peer[k] = Newcomer

ActiveIsTold == \A k \in Conns : peer[k].active => peer[k].told

FollowInv == NewConns /\ ActiveIsTold /\ \A k \in Conns : Followed(k) => Follows(k)

LEMMA NewcomerFields == /\ Newcomer.told = FALSE /\ Newcomer.active = FALSE
                        /\ Newcomer.locked = FALSE /\ Newcomer.reg = "no"
  BY DEF Newcomer, Belief, Fresh, Status

(* What the handlers write to the three places.                            *)
LEMMA HandlerWrites ==
  ASSUME NEW k \in Conns, NEW m \in ServerLine, HandleMessage(k, m)
  PROVE  /\ m.type \notin LockWriters => locked' = locked
         /\ m.type = "LOCK" => locked' = m.locked /\ cover' = m.locked
         /\ m.type \notin CoverWriters => cover' = cover
         /\ m.type = "REGISTERED" => cover' = TRUE
         /\ m.type = "SESSION_START" => shown' = 0
         /\ m.type = "TICK" => shown' = m.elapsed
         /\ m.type \notin ClockWriters => shown' = shown
  <1>. USE DEF LockWriters, CoverWriters, ClockWriters
  <1>1. CASE m.type = "REGISTERED" /\ ShowMainScreen
    BY <1>1 DEF ShowMainScreen, ApplyLockOverlay
  <1>2. CASE m.type = "SESSION_START" /\ OnSessionStart
    BY <1>2 DEF OnSessionStart
  <1>3. CASE m.type = "SESSION_END" /\ OnSessionEnd(k)
    BY <1>3 DEF OnSessionEnd
  <1>4. CASE m.type = "TICK" /\ OnTick(m)
    BY <1>4 DEF OnTick
  <1>5. CASE m.type = "LOCK" /\ OnLock(m.locked)
    <2>1. m.locked \in BOOLEAN
      BY <1>5, LineFields
    <2>. QED  BY <1>5, <2>1 DEF OnLock, ApplyLockOverlay
  <1>6. CASE m.type = "SERVER_MSG" /\ OnServerMsg(k)
    BY <1>6 DEF OnServerMsg
  <1>7. CASE /\ m.type \notin {"REGISTERED", "SESSION_START", "SESSION_END", "TICK", "LOCK", "SERVER_MSG"}
             /\ UNCHANGED windowVars
    BY <1>7 DEF windowVars
  <1>. QED  BY <1>1, <1>2, <1>3, <1>4, <1>5, <1>6, <1>7 DEF HandleMessage

(* Reading a line: what it leaves behind is what the lines after it, or    *)
(* the line itself, owe.                                                   *)
LEMMA ReadFollows ==
  ASSUME Inv, NEW k \in Conns, OnData(k), Follows(k)
  PROVE  Follows(k)'
  <1>. DEFINE q == inbox[k]
              h == Head(q)
              p == peer[k]
  <1>1. q \in Seq(ServerLine) /\ q # << >> /\ p \in Peer
    BY DEF Inv, WireOK, OnData
  <1>2. /\ h \in ServerLine /\ HandleMessage(k, h)
        /\ inbox'[k] = Tail(q) /\ peer'[k] = p
    BY <1>1, HeadTailProperties DEF OnData, Inv, WireOK
  <1>3. ASSUME NEW types
        PROVE  /\ \A m : IsLast(m, Tail(q), types) => IsLast(m, q, types)
               /\ Without(Tail(q), types) /\ h.type \notin types => Without(q, types)
               /\ Without(Tail(q), types) /\ h.type \in types => IsLast(h, q, types)
    BY <1>1, LastRead
  <1>4. /\ h.type \notin LockWriters => locked' = locked
        /\ h.type = "LOCK" => locked' = h.locked /\ cover' = h.locked
        /\ h.type \notin CoverWriters => cover' = cover
        /\ h.type = "REGISTERED" => cover' = TRUE
        /\ h.type = "SESSION_START" => shown' = 0
        /\ h.type = "TICK" => shown' = h.elapsed
        /\ h.type \notin ClockWriters => shown' = shown
    BY <1>2, HandlerWrites
  <1>. HIDE DEF h
  <1>5. LockFollows(k)'
    BY <1>2, <1>3, <1>4 DEF Follows, LockFollows
  <1>6. CoverFollows(k)'
    <2>1. \A m : IsLast(m, Tail(q), CoverWriters) =>
            \/ m.type = "LOCK" /\ m.locked = p.locked
            \/ m.type = "REGISTERED" /\ (p.told => p.reg = "late")
      BY <1>3 DEF Follows, CoverFollows
    <2>2. ASSUME Without(Tail(q), CoverWriters)
          PROVE  /\ p.locked => cover'
                 /\ p.told /\ p.reg # "late" => cover' = p.locked
      <3>1. CASE h.type \notin CoverWriters
        BY <1>3, <1>4, <2>2, <3>1 DEF Follows, CoverFollows
      <3>2. CASE h.type \in CoverWriters
        <4>1. \/ h.type = "LOCK" /\ h.locked = p.locked
              \/ h.type = "REGISTERED" /\ (p.told => p.reg = "late")
          BY <1>3, <2>2, <3>2 DEF Follows, CoverFollows
        <4>. QED  BY <1>4, <4>1
      <3>. QED  BY <3>1, <3>2
    <2>. QED  BY <1>2, <2>1, <2>2 DEF CoverFollows
  <1>7. ClockFollows(k)'
    BY <1>2, <1>3, <1>4 DEF Follows, ClockFollows
  <1>. QED  BY <1>5, <1>6, <1>7 DEF Follows

LEMMA BeliefFields ==
  \A r, t, s : LET b == Belief(r, t, s)
               IN  /\ b.reg = r /\ b.told = t
                   /\ b.active = s.active /\ b.locked = s.locked /\ b.elapsed = s.elapsed
  BY DEF Belief

(* What a deed must say for the invariant to hold after it.                *)
Says(d, p, r, t) ==
    /\ \/ \E m : IsLast(m, d.lines, LockWriters) /\ m.type = "LOCK" /\ m.locked = d.then.locked
       \/ Without(d.lines, LockWriters) /\ d.then.locked = p.locked /\ t = p.told
    /\ \/ \E m : IsLast(m, d.lines, CoverWriters) /\ m.type = "LOCK" /\ m.locked = d.then.locked
       \/ /\ \E m : IsLast(m, d.lines, CoverWriters) /\ m.type = "REGISTERED"
          /\ t => r = "late"
       \/ /\ Without(d.lines, CoverWriters)
          /\ d.then.locked = p.locked /\ t = p.told /\ r = p.reg
    /\ d.then.active =>
         \/ \E m : /\ IsLast(m, d.lines, ClockWriters)
                   /\ \/ m.type = "SESSION_START" /\ d.then.elapsed = 0
                      \/ m.type = "TICK" /\ m.elapsed = d.then.elapsed
         \/ Without(d.lines, ClockWriters) /\ p.active /\ d.then.elapsed = p.elapsed

LEMMA TellFollows ==
  ASSUME Inv, NEW k \in Conns, NEW d, DeedOK(d), NEW r, NEW t \in BOOLEAN,
         Tells(k, d, r, t), Says(d, peer[k], r, t), Follows(k)
  PROVE  Follows(k)'
  <1>. DEFINE q == inbox[k]
              p == peer[k]
              n == peer'[k]
              lines == d.lines
  <1>1. /\ q \in Seq(ServerLine) /\ lines \in Seq(ServerLine) /\ p \in Peer
        /\ d.then.locked \in BOOLEAN /\ d.then.active \in BOOLEAN
    BY DEF Inv, WireOK, DeedOK, Typed
  <1>2. /\ inbox'[k] = q \o lines /\ n = Belief(r, t, d.then)
        /\ UNCHANGED <<cover, locked, shown>>
    BY DEF Tells, Inv, WireOK, windowVars
  <1>3. /\ n.reg = r /\ n.told = t /\ n.active = d.then.active
        /\ n.locked = d.then.locked /\ n.elapsed = d.then.elapsed
    BY <1>2, BeliefFields
  <1>4. ASSUME NEW types, Without(lines, types)
        PROVE  /\ \A m : IsLast(m, q \o lines, types) => IsLast(m, q, types)
               /\ Without(q \o lines, types) => Without(q, types)
    BY <1>1, <1>4, LastStays
  <1>5. ASSUME NEW types, NEW m, IsLast(m, lines, types)
        PROVE  /\ \A j : IsLast(j, q \o lines, types) => j = m
               /\ ~Without(q \o lines, types)
    BY <1>1, <1>5, LastWritten
  <1>. HIDE DEF q, p, n, lines
  <1>6. LockFollows(k)'
    <2>1. CASE \E m : IsLast(m, lines, LockWriters) /\ m.type = "LOCK" /\ m.locked = d.then.locked
      BY <1>2, <1>3, <1>5, <2>1 DEF LockFollows, n
    <2>2. CASE Without(lines, LockWriters) /\ d.then.locked = p.locked /\ t = p.told
      BY <1>2, <1>3, <1>4, <2>2 DEF Follows, LockFollows, n, p, q
    <2>. QED  BY <2>1, <2>2 DEF Says, lines, p
  <1>7. CoverFollows(k)'
    <2>1. CASE \E m : IsLast(m, lines, CoverWriters) /\ m.type = "LOCK" /\ m.locked = d.then.locked
      BY <1>2, <1>3, <1>5, <2>1 DEF CoverFollows, n
    <2>2. CASE /\ \E m : IsLast(m, lines, CoverWriters) /\ m.type = "REGISTERED"
               /\ t => r = "late"
      BY <1>2, <1>3, <1>5, <2>2 DEF CoverFollows, n
    <2>3. CASE /\ Without(lines, CoverWriters)
               /\ d.then.locked = p.locked /\ t = p.told /\ r = p.reg
      BY <1>2, <1>3, <1>4, <2>3 DEF Follows, CoverFollows, n, p, q
    <2>. QED  BY <2>1, <2>2, <2>3 DEF Says, lines, p
  <1>8. ClockFollows(k)'
    <2>. SUFFICES ASSUME d.then.active PROVE ClockFollows(k)'
      BY <1>3 DEF ClockFollows, n
    <2>1. CASE \E m : /\ IsLast(m, lines, ClockWriters)
                      /\ \/ m.type = "SESSION_START" /\ d.then.elapsed = 0
                         \/ m.type = "TICK" /\ m.elapsed = d.then.elapsed
      BY <1>2, <1>3, <1>5, <2>1 DEF ClockFollows, n
    <2>2. CASE Without(lines, ClockWriters) /\ p.active /\ d.then.elapsed = p.elapsed
      BY <1>2, <1>3, <1>4, <2>2 DEF Follows, ClockFollows, n, p, q
    <2>. QED  BY <2>1, <2>2 DEF Says, lines, p
  <1>. QED  BY <1>6, <1>7, <1>8 DEF Follows

(* A running session has been announced, so that the tick of a deed that   *)
(* does not mention the lock tells nothing new.                            *)
LEMMA ServerFollows ==
  ASSUME Inv, ActiveIsTold, NEW k \in Conns, Server(k), Follows(k)
  PROVE  Follows(k)' \/ link'[k] # "open"
  <1>. DEFINE b == peer[k]
  <1>1. /\ b.reg \in {"no", "early", "late"} /\ b.told \in BOOLEAN /\ Typed(b)
        /\ b.active => b.told
    BY DEF Inv, WireOK, Peer, Typed, ActiveIsTold
  <1>. HIDE DEF b
  <1>2. CASE PeerRegisters(k)
    <2>. DEFINE d == RegisterDeed(b)
    <2>1. PICK r \in {"early", "late"} : Tells(k, d, r, b.told) /\ (b.told => r = "late")
      BY <1>2 DEF PeerRegisters, b
    <2>2. d.then = b
      BY DeedFields DEF RegisterDeed
    <2>3. /\ Without(d.lines, LockWriters) /\ Without(d.lines, ClockWriters)
          /\ IsLast(Registered, d.lines, CoverWriters)
      <3>1. /\ "REGISTERED" \notin LockWriters /\ "PACKAGES" \notin LockWriters
            /\ "REGISTERED" \notin ClockWriters /\ "PACKAGES" \notin ClockWriters
            /\ "REGISTERED" \in CoverWriters /\ "PACKAGES" \notin CoverWriters
        BY DEF LockWriters, ClockWriters, CoverWriters
      <3>. QED  BY <3>1, RegisterSays
    <2>4. DeedOK(d)
      BY <1>1, DeedTypes
    <2>. HIDE DEF d
    <2>5. Says(d, b, r, b.told)
      BY <2>1, <2>2, <2>3, TypesOfLines DEF Says
    <2>. QED  BY <1>1, <2>1, <2>4, <2>5, TellFollows DEF b
  <1>3. ASSUME NEW d \in StartDeeds(b) \cup EndDeeds(b) \cup {LockDeed(b)} \cup TickDeeds(b),
               Tells(k, d, b.reg, TRUE)
        PROVE  Follows(k)'
    <2>1. DeedOK(d)
      BY <1>1, DeedTypes
    <2>2. "LOCK" \in LockWriters /\ "LOCK" \in CoverWriters
      BY DEF LockWriters, CoverWriters
    <2>3. d.then.active =>
            \/ \E m : /\ IsLast(m, d.lines, ClockWriters)
                      /\ \/ m.type = "SESSION_START" /\ d.then.elapsed = 0
                         \/ m.type = "TICK" /\ m.elapsed = d.then.elapsed
            \/ Without(d.lines, ClockWriters) /\ b.active /\ d.then.elapsed = b.elapsed
      <3>1. ClockWriters = {"SESSION_START", "TICK"}
        BY DEF ClockWriters
      <3>2. ASSUME NEW types, types = {"SESSION_START", "TICK"}, d.then.active
            PROVE  \/ \E m : /\ IsLast(m, d.lines, types)
                            /\ \/ m.type = "SESSION_START" /\ d.then.elapsed = 0
                               \/ m.type = "TICK" /\ m.elapsed = d.then.elapsed
                   \/ Without(d.lines, types) /\ b.active /\ d.then.elapsed = b.elapsed
        BY <1>1, <3>2, ClockSaid
      <3>. QED  BY <3>1, <3>2, Zenon
    <2>4. CASE d \in StartDeeds(b) \cup EndDeeds(b) \cup {ExpireDeed(b), LockDeed(b)}
      <3>1. ASSUME NEW types, "LOCK" \in types
            PROVE  \E m : IsLast(m, d.lines, types) /\ m.type = "LOCK" /\ m.locked = d.then.locked
        BY <1>1, <2>4, <3>1, LockSaid
      <3>2. Says(d, b, b.reg, TRUE)
        BY <2>2, <2>3, <3>1 DEF Says
      <3>. QED  BY <1>3, <2>1, <3>2, TellFollows DEF b
    <2>5. CASE d = TickDeed(b) /\ b.active
      <3>1. "TICK" \notin LockWriters /\ "TICK" \notin CoverWriters
        BY DEF LockWriters, CoverWriters
      <3>2. /\ Without(d.lines, LockWriters) /\ Without(d.lines, CoverWriters)
            /\ d.then.locked = b.locked /\ b.told = TRUE
        BY <1>1, <2>5, <3>1, TickSaid
      <3>3. Says(d, b, b.reg, TRUE)
        BY <2>3, <3>2 DEF Says
      <3>. QED  BY <1>3, <2>1, <3>3, TellFollows DEF b
    <2>. QED  BY <2>4, <2>5 DEF TickDeeds
  <1>4. CASE PeerActs(k)
    BY <1>3, <1>4 DEF PeerActs, b
  <1>5. CASE PeerTicks(k)
    BY <1>3, <1>5 DEF PeerTicks, b
  <1>6. CASE PeerSays(k)
    <2>. DEFINE d == Deed(<<ServerMsg>>, b)
    <2>1. Tells(k, d, b.reg, b.told)
      BY <1>6 DEF PeerSays, b
    <2>2. d.then = b /\ d.lines = <<ServerMsg>>
      BY DeedFields
    <2>3. /\ Without(d.lines, LockWriters) /\ Without(d.lines, ClockWriters)
          /\ Without(d.lines, CoverWriters)
      <3>1. ServerMsg.type \notin LockWriters \cup ClockWriters \cup CoverWriters
        BY DEF LockWriters, ClockWriters, CoverWriters, ServerMsg
      <3>. QED  BY <2>2, <3>1, LastOfOne
    <2>4. DeedOK(d)
      BY <1>1, DeedTypes
    <2>. HIDE DEF d
    <2>5. Says(d, b, b.reg, b.told)
      BY <2>2, <2>3 DEF Says
    <2>. QED  BY <1>1, <2>1, <2>4, <2>5, TellFollows DEF b
  <1>7. CASE PeerGone(k)
    BY <1>7 DEF PeerGone, Inv, WireOK
  <1>. QED  BY <1>2, <1>4, <1>5, <1>6, <1>7 DEF Server

(* Only the connection in channel_ can call a handler, if none was ever    *)
(* made on top of another.                                                 *)
LEMMA StepFollows ==
  ASSUME Inv, NothingLeaks, FollowInv, [Next]_vars, NEW k \in Conns, Followed(k)'
  PROVE  Follows(k)'
  <1>. DEFINE Kept == UNCHANGED <<cur, doubled, link, inbox, peer, cover, locked, shown>>
  <1>k. Kept => Follows(k)'
    BY DEF FollowInv, Followed, Follows, LockFollows, CoverFollows, ClockFollows
  <1>n. k # 0 /\ Newcomer \in Peer
    BY NewcomerType DEF Conns
  <1>0. ASSUME NEW j \in Conns, Disconnect(j)
        PROVE  FALSE
    BY <1>0, <1>n DEF Disconnect, CloseChannel, Followed
  <1>1. ASSUME NEW j \in Conns, OnData(j)
        PROVE  Follows(k)'
    <2>1. Followed(k)
      BY <1>1 DEF OnData, tcpVars, Followed
    <2>2. j \in Live
      BY <1>1 DEF OnData, Dispatched
    <2>3. j = k
      BY <2>1, <2>2 DEF NothingLeaks, Followed
    <2>. QED  BY <1>1, <2>1, <2>3, ReadFollows DEF FollowInv
  <1>2. ASSUME NEW j \in Conns, OnDisconnect(j) \/ OnShutChannel(j)
        PROVE  Follows(k)'
    BY <1>0, <1>2 DEF OnDisconnect, OnShutChannel
  <1>3. ASSUME LoseClient
        PROVE  Follows(k)'
    BY <1>3, <1>n DEF LoseClient, Followed
  <1>4. ASSUME NEW j \in Conns, Server(j)
        PROVE  Follows(k)'
    <2>1. UNCHANGED <<cur, doubled, cover, locked, shown>>
      BY <1>4 DEF Server, PeerRegisters, PeerActs, PeerTicks, PeerSays, PeerGone, Tells,
                  windowVars, tcpVars
    <2>2. \A i \in Conns : i # j => /\ inbox'[i] = inbox[i] /\ link'[i] = link[i]
                                    /\ peer'[i] = peer[i]
      BY <1>4 DEF Server, PeerRegisters, PeerActs, PeerTicks, PeerSays, PeerGone, Tells, Inv,
                  WireOK
    <2>3. CASE j # k
      BY <2>1, <2>2, <2>3 DEF FollowInv, Followed, Follows, LockFollows, CoverFollows,
                              ClockFollows
    <2>4. CASE j = k
      <3>1. link'[k] = "open" => link[k] = "open"
        BY <1>4, <2>4 DEF Server, PeerRegisters, PeerActs, PeerTicks, PeerSays, PeerGone, Tells,
                          Inv, WireOK
      <3>2. Followed(k)
        BY <2>1, <3>1 DEF Followed
      <3>. QED  BY <1>4, <2>4, <3>2, ServerFollows DEF FollowInv, Followed
    <2>. QED  BY <2>3, <2>4
  <1>5. ASSUME NEW f \in Fds, Connect(f)
        PROVE  Follows(k)'
    <2>1. k = nconn + 1 /\ nconn \in Nat
      BY <1>5, ClientBounds DEF Connect, Followed, Inv, TcpOK
    <2>2. inbox'[k] = << >> /\ peer'[k] = Newcomer
      BY <1>5, <2>1 DEF Connect, wireVars, FollowInv, NewConns
    <2>3. \A types : \A m : ~IsLast(m, << >>, types)
      BY DEF IsLast
    <2>. QED  BY <2>2, <2>3, NewcomerFields DEF Follows, LockFollows, CoverFollows, ClockFollows
  <1>6. ASSUME User, ~\E f \in Fds : Connect(f)
        PROVE  Follows(k)'
    <2>1. CASE ConnectFails
      <3>1. Followed(k)
        BY <2>1 DEF ConnectFails, wireVars, Followed
      <3>2. Follows(k)
        BY <3>1 DEF FollowInv
      <3>. QED  BY <2>1, <3>2 DEF ConnectFails, windowVars, wireVars, Follows, LockFollows,
                                   CoverFollows, ClockFollows
    <2>2. CASE DismissBox \/ Launch
      BY <1>k, <2>2 DEF DismissBox, Launch, windowVars, tcpVars, wireVars
    <2>. QED  BY <1>3, <1>6, <2>1, <2>2 DEF User, Close, BadPort
  <1>7. CASE UNCHANGED vars
    BY <1>k, <1>7 DEF vars, windowVars, tcpVars, wireVars
  <1>. QED  BY <1>1, <1>2, <1>3, <1>4, <1>5, <1>6, <1>7 DEF Next, Loop, BadPackageList

LEMMA StepNewConns ==
  ASSUME Inv, NewConns, [Next]_vars
  PROVE  NewConns'
  <1>n. nconn \in Nat
    BY ClientBounds DEF Inv, TcpOK
  <1>1. ASSUME NEW j \in Conns, OnData(j)
        PROVE  NewConns'
    BY <1>1 DEF OnData, tcpVars, NewConns, Inv, WireOK
  <1>2. ASSUME NEW j \in Conns, OnDisconnect(j) \/ OnShutChannel(j)
        PROVE  NewConns'
    <2>1. Disconnect(j)
      BY <1>2 DEF OnDisconnect, OnShutChannel
    <2>2. \A k \in Conns : k > nconn' =>
            /\ k > nconn /\ k \notin fdOpen' /\ inbox'[k] = << >> /\ peer'[k] = Newcomer
      BY <2>1 DEF Disconnect, CloseChannel, Forget, NewConns, Inv, WireOK
    <2>. QED  BY <2>2 DEF NewConns
  <1>3. ASSUME LoseClient
        PROVE  NewConns'
    BY <1>3 DEF LoseClient, Forget, NewConns
  <1>4. ASSUME NEW j \in Conns, Server(j)
        PROVE  NewConns'
    <2>1. j \in fdOpen /\ UNCHANGED <<fdOpen, nconn>>
      BY <1>4 DEF Server, PeerRegisters, PeerActs, PeerTicks, PeerSays, PeerGone, Tells, tcpVars
    <2>2. \A i \in Conns : i # j => inbox'[i] = inbox[i] /\ peer'[i] = peer[i]
      BY <1>4 DEF Server, PeerRegisters, PeerActs, PeerTicks, PeerSays, PeerGone, Tells, Inv,
                  WireOK
    <2>. QED  BY <2>1, <2>2 DEF NewConns
  <1>5. ASSUME NEW f \in Fds, Connect(f)
        PROVE  NewConns'
    <2>1. nconn' = nconn + 1 /\ fdOpen' = fdOpen \cup {nconn + 1} /\ UNCHANGED <<inbox, peer>>
      BY <1>5 DEF Connect, wireVars
    <2>. QED  BY <1>n, <2>1 DEF NewConns, Conns
  <1>6. ASSUME User, ~\E f \in Fds : Connect(f)
        PROVE  NewConns'
    BY <1>3, <1>6 DEF User, ConnectFails, DismissBox, Close, BadPort, Launch, tcpVars, wireVars,
                      NewConns
  <1>7. CASE UNCHANGED vars
    BY <1>7 DEF vars, tcpVars, wireVars, NewConns
  <1>. QED  BY <1>1, <1>2, <1>3, <1>4, <1>5, <1>6, <1>7 DEF Next, Loop, BadPackageList

LEMMA StepActiveIsTold ==
  ASSUME Inv, ActiveIsTold, [Next]_vars
  PROVE  ActiveIsTold'
  <1>1. ASSUME NEW S \in SUBSET Conns, Forget(S)
        PROVE  ActiveIsTold'
    BY <1>1, NewcomerFields DEF Forget, ActiveIsTold
  <1>2. ASSUME NEW k \in Conns, NEW d, NEW r, NEW t \in BOOLEAN, Tells(k, d, r, t),
               d.then = peer[k], t = peer[k].told
        PROVE  ActiveIsTold'
    <2>1. /\ peer'[k].told = t /\ peer'[k].active = d.then.active
          /\ \A i \in Conns : i # k => peer'[i] = peer[i]
      BY <1>2, BeliefFields DEF Tells, Inv, WireOK
    <2>. QED  BY <1>2, <2>1 DEF ActiveIsTold
  <1>t. ASSUME NEW k \in Conns, NEW d, NEW r, Tells(k, d, r, TRUE)
        PROVE  ActiveIsTold'
    <2>1. /\ peer'[k].told = TRUE
          /\ \A i \in Conns : i # k => peer'[i] = peer[i]
      BY <1>t DEF Tells, Belief, Inv, WireOK
    <2>. QED  BY <2>1 DEF ActiveIsTold
  <1>3. ASSUME NEW k \in Conns, Server(k)
        PROVE  ActiveIsTold'
    <2>. DEFINE b == peer[k]
    <2>1. b.told \in BOOLEAN
      BY DEF Inv, WireOK, Peer
    <2>2. CASE PeerRegisters(k)
      <3>1. RegisterDeed(b).then = b
        BY DeedFields DEF RegisterDeed
      <3>. QED  BY <1>2, <2>1, <2>2, <3>1 DEF PeerRegisters
    <2>3. CASE PeerActs(k) \/ PeerTicks(k)
      <3>1. CASE PeerActs(k)
        BY <1>t, <3>1, Zenon DEF PeerActs
      <3>2. CASE PeerTicks(k)
        BY <1>t, <3>2, Zenon DEF PeerTicks
      <3>. QED  BY <2>3, <3>1, <3>2
    <2>4. CASE PeerSays(k)
      <3>1. Deed(<<ServerMsg>>, b).then = b
        BY DeedFields
      <3>. QED  BY <1>2, <2>1, <2>4, <3>1 DEF PeerSays
    <2>5. CASE PeerGone(k)
      BY <2>5 DEF PeerGone, ActiveIsTold
    <2>. QED  BY <1>3, <2>2, <2>3, <2>4, <2>5 DEF Server
  <1>4. ASSUME NEW k \in Conns, OnDisconnect(k) \/ OnShutChannel(k)
        PROVE  ActiveIsTold'
    <2>1. \A i \in Conns : peer'[i] = Newcomer \/ peer'[i] = peer[i]
      BY <1>4 DEF OnDisconnect, OnShutChannel, Disconnect, CloseChannel, Forget
    <2>. QED  BY <2>1, NewcomerFields DEF ActiveIsTold
  <1>5. ASSUME LoseClient
        PROVE  ActiveIsTold'
    BY <1>1, <1>5 DEF LoseClient
  <1>6. ASSUME User
        PROVE  ActiveIsTold'
    BY <1>5, <1>6 DEF User, Connect, ConnectFails, DismissBox, Close, BadPort, Launch, wireVars,
                      ActiveIsTold
  <1>7. CASE \/ UNCHANGED vars
             \/ \E k \in Conns : OnData(k)
    BY <1>7 DEF vars, wireVars, OnData, ActiveIsTold
  <1>. QED  BY <1>3, <1>4, <1>5, <1>6, <1>7 DEF Next, Loop, BadPackageList

(* What a station that has read its lines shows and does is what the       *)
(* server believes and bills, after any number of sessions, boxes, lost    *)
(* connections and launches, as long as nobody connects twice.             *)
THEOREM StationFollowsServer == Spec => []FollowsServer
  <1>1. Init => FollowInv
    <2>. SUFFICES ASSUME Init PROVE FollowInv
      OBVIOUS
    <2>1. \A k \in Conns : peer[k] = Newcomer /\ inbox[k] = << >> /\ cur # k /\ k \notin fdOpen
      BY DEF Init, Conns
    <2>. QED  BY <2>1, NewcomerFields DEF FollowInv, NewConns, ActiveIsTold, Followed
  <1>2. Inv /\ NothingLeaks /\ FollowInv /\ [Next]_vars => FollowInv'
    <2>. SUFFICES ASSUME Inv, NothingLeaks, FollowInv, [Next]_vars PROVE FollowInv'
      OBVIOUS
    <2>1. \A k \in Conns : Followed(k)' => Follows(k)'
      BY StepFollows
    <2>2. NewConns' /\ ActiveIsTold'
      BY StepNewConns, StepActiveIsTold DEF FollowInv
    <2>3. Conns' = Conns
      BY DEF Conns
    <2>. QED  BY <2>1, <2>2, <2>3 DEF FollowInv
  <1>3. Inv /\ FollowInv => FollowsServer
    <2>. SUFFICES ASSUME Inv, FollowInv, NEW k \in Conns, Followed(k), inbox[k] = << >>
                  PROVE  /\ peer[k].locked => cover
                         /\ peer[k].told => locked = peer[k].locked
                         /\ peer[k].told /\ peer[k].reg # "late" => cover = locked
                         /\ peer[k].active => shown = peer[k].elapsed
      BY DEF FollowsServer, Followed
    <2>1. Follows(k)
      BY DEF FollowInv
    <2>2. \A types : Without(inbox[k], types)
      BY DEF Without
    <2>. QED  BY <2>1, <2>2 DEF Follows, LockFollows, CoverFollows, ClockFollows
  <1>. QED  BY <1>1, <1>2, <1>3, InvAlways, PatientLeavesNothing, PTL DEF Spec
=============================================================================
