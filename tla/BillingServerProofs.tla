------------------------- MODULE BillingServerProofs -------------------------
(***************************************************************************)
(* Theorems about BillingServer, for every number of stations and sessions *)
(* and every set of packages and names.                                    *)
(***************************************************************************)
EXTENDS BillingServer, TLAPS, FiniteSetTheorems, SequenceTheorems

(* ----------------------- the record operators -------------------------- *)

(* A record stays a client record when its session starts, ticks or ends.  *)
LEMMA PackageTypes == \A p \in Packages \cup {NoPackage} : p \in Package
  <1>1. NoPackage \in Package
    BY DEF Package, NoPackage
  <1>. QED  BY <1>1, PackagesAssumption

LEMMA CostType ==
  ASSUME NEW p \in Packages \cup {NoPackage}, NEW e \in Nat
  PROVE  CalcCost(p, e) \in Int
  <1>1. p.price \in Int /\ p.is_timed \in BOOLEAN
    BY PackageTypes DEF Package
  <1>. QED  BY <1>1 DEF CalcCost

LEMMA NewClientType == NewClient \in ClientInfo
  BY UsersAssumption DEF NewClient, ClientInfo

LEMMA StartedType ==
  ASSUME NEW p \in Packages, NEW u \in Users, NEW s \in Nat
  PROVE  /\ Started(p, u, s) \in ClientInfo
         /\ Started(p, u, s).session_active
         /\ Started(p, u, s).sid = s
         /\ Started(p, u, s).package = p
         /\ Started(p, u, s).age = 0
         /\ Started(p, u, s).elapsed_sec = 0
         /\ Started(p, u, s).current_cost = 0
  BY DEF Started, ClientInfo

LEMMA TickedType ==
  ASSUME NEW i \in ClientInfo
  PROVE  /\ Ticked(i) \in ClientInfo
         /\ Ticked(i).session_active = i.session_active
         /\ Ticked(i).sid = i.sid
         /\ Ticked(i).package = i.package
         /\ Ticked(i).age = i.age
         /\ Ticked(i).elapsed_sec = i.elapsed_sec + 1
         /\ Ticked(i).current_cost = CalcCost(i.package, i.elapsed_sec + 1)
  <1>. DEFINE e == i.elapsed_sec + 1
              k == CalcCost(i.package, e)
  <1>1. i.package \in Packages \cup {NoPackage} /\ e \in Nat
    BY DEF ClientInfo
  <1>2. k \in Int
    BY <1>1, CostType
  <1>3. Ticked(i) = [i EXCEPT !.elapsed_sec = e, !.current_cost = k]
    BY DEF Ticked, ClientInfo
  <1>4. Ticked(i) \in ClientInfo
    <2>. HIDE DEF e, k
    <2>. QED  BY <1>1, <1>2, <1>3 DEF ClientInfo
  <1>5. /\ Ticked(i).session_active = i.session_active
        /\ Ticked(i).sid = i.sid
        /\ Ticked(i).package = i.package
        /\ Ticked(i).age = i.age
        /\ Ticked(i).elapsed_sec = e
        /\ Ticked(i).current_cost = k
    BY DEF Ticked, ClientInfo
  <1>. QED  BY <1>4, <1>5

LEMMA EndedType ==
  ASSUME NEW i \in ClientInfo
  PROVE  /\ Ended(i) \in ClientInfo
         /\ ~Ended(i).session_active
         /\ Ended(i).package = i.package
         /\ Ended(i).elapsed_sec = 0
         /\ Ended(i).current_cost = 0
  BY DEF Ended, ClientInfo

(* --------------------------- lines on a stream ------------------------- *)

(* What a step writes are lines of the protocol.                           *)
LEMMA PlainLines ==
  /\ <<Registered, PackageList>> \in Lines
  /\ <<Pong>> \in Lines
  /\ <<ChatServer>> \in Lines
  /\ <<ServerMsg>> \in Lines
  /\ MenuOffer \in Lines
  /\ << >> \in Lines
  BY DEF Registered, PackageList, Pong, ChatServer, ServerMsg, MenuOffer, Remainder,
         Lines, ServerLine, PlainTypes

LEMMA LockLine == Lock(TRUE) \in ServerLine /\ Lock(FALSE) \in ServerLine
  BY DEF Lock, ServerLine

LEMMA TwoLines ==
  ASSUME NEW a \in ServerLine, NEW b \in ServerLine
  PROVE  <<a, b>> \in Lines
  BY DEF Lines

LEMMA StartLinesType ==
  ASSUME NEW p \in Packages, NEW u \in Users
  PROVE  StartLines(p, u) \in Lines
  <1>1. SessionStart(p, u) \in ServerLine
    BY DEF SessionStart, ServerLine
  <1>. QED  BY <1>1, LockLine, TwoLines DEF StartLines

LEMMA EndLinesType ==
  ASSUME NEW i \in ClientInfo
  PROVE  EndLines(i) \in Lines
  <1>1. i.elapsed_sec \in Nat
    BY DEF ClientInfo
  <1>2. SessionEnd(i.elapsed_sec) \in ServerLine
    BY <1>1 DEF SessionEnd, ServerLine
  <1>. QED  BY <1>2, LockLine, TwoLines DEF EndLines

(* The time left is never negative, whatever number the package holds.     *)
LEMMA TickLineType ==
  ASSUME NEW i \in ClientInfo
  PROVE  TickLine(i) \in ServerLine
  <1>1. /\ i.elapsed_sec \in Nat
        /\ i.package \in Package
    BY PackageTypes DEF ClientInfo
  <1>2. i.package.duration_sec \in Int
    BY <1>1 DEF Package
  <1>3. Remaining(i) \in Nat
    BY <1>1, <1>2 DEF Remaining
  <1>. QED  BY <1>1, <1>3 DEF TickLine, Tick, ServerLine

LEMMA FittingType ==
  ASSUME NEW q \in Lines, NEW lines \in Lines
  PROVE  Fitting(q, lines) \in Lines
  <1>. DEFINE all == q \o lines
  <1>1. all \in Seq(ServerLine)
    BY ConcatProperties DEF Lines
  <1>2. CASE Len(all) <= SendCap
    BY <1>1, <1>2 DEF Fitting, Lines
  <1>3. CASE ~(Len(all) <= SendCap)
    <2>1. SendCap <= Len(all)
      BY <1>1, <1>3, LenProperties, BoundsAssumption
    <2>2. SubSeq(all, 1, SendCap) \in Seq(ServerLine)
      <3>. HIDE DEF all
      <3>. QED  BY <1>1, <2>1, BoundsAssumption
    <2>. QED  BY <1>3, <2>2 DEF Fitting, Lines
  <1>. QED  BY <1>2, <1>3

LEMMA ToEachType ==
  ASSUME NEW S, NEW lines \in Lines
  PROVE  ToEach(S, lines) \in [ClientIds -> Lines]
  BY PlainLines DEF ToEach

(* Whatever a step writes, the streams keep their type, and only a         *)
(* connected client's stream can be torn.                                  *)
LEMMA SendType ==
  ASSUME toClient \in [ClientIds -> Lines], torn \subseteq clients,
         NEW out \in [ClientIds -> Lines], Send(out)
  PROVE  toClient' \in [ClientIds -> Lines] /\ torn' \subseteq clients
  BY FittingType DEF Send

(* ------------------------ the table and the files ---------------------- *)

LEMMA ClientIdsFinite == \A S \in SUBSET ClientIds : IsFiniteSet(S) /\ Cardinality(S) \in Nat
  <1>1. IsFiniteSet(ClientIds)
    BY FS_Interval, BoundsAssumption DEF ClientIds
  <1>. QED  BY <1>1, FS_Subset, FS_CardinalityType

(* The rows of saved sessions are rows of the table, which stays finite.   *)
LEMMA SaveType ==
  ASSUME sessions \subseteq RowType, IsFiniteSet(sessions), failed \subseteq Sids,
         NEW S \in SUBSET ClientIds, NEW f, NEW fails \in SUBSET S,
         \A c \in S : f[c] \in ClientInfo /\ f[c].sid \in Sids,
         Save(S, f, fails)
  PROVE  /\ sessions' \subseteq RowType
         /\ IsFiniteSet(sessions')
         /\ failed' \subseteq Sids
  <1>. DEFINE T == S \ fails
              new == {Row(f[c], Place(c, T)) : c \in T}
              row == [c \in T |-> Row(f[c], Place(c, T))]
  <1>1. \A c \in T : Place(c, T) \in Nat
    <2>. SUFFICES ASSUME NEW c \in T PROVE Place(c, T) \in Nat
      OBVIOUS
    <2>1. {d \in T : d <= c} \in SUBSET ClientIds
      OBVIOUS
    <2>2. Cardinality(sessions) \in Nat
      BY FS_CardinalityType
    <2>3. Cardinality({d \in T : d <= c}) \in Nat
      BY <2>1, ClientIdsFinite
    <2>. QED  BY <2>2, <2>3 DEF Place
  <1>2. \A c \in T : Row(f[c], Place(c, T)) \in RowType
    <2>. SUFFICES ASSUME NEW c \in T PROVE Row(f[c], Place(c, T)) \in RowType
      OBVIOUS
    <2>1. f[c] \in ClientInfo
      OBVIOUS
    <2>2. Place(c, T) \in Nat
      BY <1>1
    <2>. HIDE DEF T
    <2>. QED  BY <2>1, <2>2 DEF Row, RowType, ClientInfo
  <1>3. IsFiniteSet(new)
    <2>1. row \in Surjection(T, new)
      BY DEF Surjection
    <2>2. IsFiniteSet(T)
      BY ClientIdsFinite
    <2>. HIDE DEF row, new, T
    <2>. QED  BY <2>1, <2>2, FS_Surjection
  <1>4. sessions' = sessions \cup new
    BY DEF Save
  <1>5. sessions' \subseteq RowType
    BY <1>2, <1>4
  <1>6. IsFiniteSet(sessions')
    <2>. HIDE DEF new
    <2>. QED  BY <1>3, <1>4, FS_Union
  <1>7. failed' \subseteq Sids
    BY DEF Save
  <1>. QED  BY <1>5, <1>6, <1>7

LEMMA ReceiptType ==
  ASSUME receipts \subseteq Sids, lastReceipt \in Sids \cup {0}, NEW S,
         \A c \in S : info[c].sid \in Sids, SaveReceipts(S)
  PROVE  receipts' \subseteq Sids /\ lastReceipt' \in Sids \cup {0}
  BY DEF SaveReceipts

(* ---------------------------- type correctness ------------------------- *)

(* TypeOK is not inductive alone: a receipt and an error are filed under   *)
(* the number of a running session, which must be one that was opened;     *)
(* row ids count the rows, which must be finitely many; and next_id_ may   *)
(* begin again at 1 because no client survives the process.                *)
TypeInv ==
  /\ TypeOK
  /\ IsFiniteSet(sessions)
  /\ ~up => clients = {}
  /\ \A c \in Active : info[c].sid \in 1..nsess

LEMMA InitTypeInv == Init => TypeInv
  <1>1. Init => TypeOK
    BY NewClientType, PlainLines, BoundsAssumption
    DEF Init, TypeOK, NoDialog, Holding, Dialog, ClientIds, Sids
  <1>. QED  BY <1>1, FS_EmptySet DEF Init, TypeInv, Active

(* What the steps below use of the invariant.                              *)
LEMMA TypeFacts ==
  ASSUME TypeInv
  PROVE  /\ clients \in SUBSET ClientIds
         /\ \A c \in ClientIds : info[c] \in ClientInfo /\ toClient[c] \in Lines
         /\ Active \subseteq clients
         /\ \A c \in Active : info[c].sid \in Sids
         /\ nextId \in Nat
         /\ nsess \in Nat
         /\ nextId \in ClientIds \cup {MaxId + 1}
  BY BoundsAssumption DEF TypeInv, TypeOK, ClientIds, Sids, Active

LEMMA TypeStep == TypeInv /\ [Next]_vars => TypeInv'
  <1>. SUFFICES ASSUME TypeInv, [Next]_vars PROVE TypeInv'
    OBVIOUS
  <1>. USE DEF TypeInv
  <1>f. /\ clients \in SUBSET ClientIds
        /\ \A c \in ClientIds : info[c] \in ClientInfo /\ toClient[c] \in Lines
        /\ Active \subseteq clients
        /\ \A c \in Active : info[c].sid \in Sids
        /\ nextId \in Nat
        /\ nsess \in Nat
    BY TypeFacts
  <1>1. CASE OnAcceptReady
    <2>1. nextId \in ClientIds
      BY <1>1, <1>f, BoundsAssumption DEF OnAcceptReady, TypeOK, ClientIds
    <2>2. info' \in [ClientIds -> ClientInfo]
      BY <1>1, <2>1, NewClientType DEF OnAcceptReady, TypeOK
    <2>3. clients' \subseteq 1..(nextId' - 1) /\ nextId' \in 1..(MaxId + 1)
      BY <1>1, <1>f, BoundsAssumption DEF OnAcceptReady, TypeOK
    <2>4. TypeOK'
      BY <1>1, <2>2, <2>3 DEF OnAcceptReady, Silent, TypeOK
    <2>5. \A c \in Active' : info'[c].sid \in 1..nsess'
      BY <1>1, <2>1, <1>f DEF OnAcceptReady, TypeOK, Active, NewClient
    <2>. QED  BY <1>1, <2>4, <2>5 DEF OnAcceptReady
  <1>2. ASSUME NEW c \in ClientIds, NEW line \in ClientLine, OnClientData(c, line)
        PROVE  TypeInv'
    <2>1. info' \in [ClientIds -> ClientInfo]
      <3>1. line.type = "REGISTER" => line.username \in Users
        BY DEF ClientLine
      <3>. QED  BY <1>2, <3>1 DEF OnClientData, TypeOK, ClientInfo
    <2>2. toClient' \in [ClientIds -> Lines] /\ torn' \subseteq clients'
      BY <1>2, PlainLines, ToEachType, SendType DEF OnClientData, To, TypeOK
    <2>3. TypeOK'
      BY <1>2, <2>1, <2>2 DEF OnClientData, TypeOK
    <2>4. \A d \in Active' : d \in Active /\ info'[d].sid = info[d].sid
      BY <1>2, <1>f DEF OnClientData, TypeOK, Active, ClientInfo
    <2>. QED  BY <1>2, <2>3, <2>4 DEF OnClientData
  <1>3. ASSUME NEW c \in ClientIds, OnClientDisconnect(c)
        PROVE  TypeInv'
    <2>1. info' \in [ClientIds -> ClientInfo]
      BY <1>3, NewClientType DEF OnClientDisconnect, TypeOK
    <2>2. toClient' \in [ClientIds -> Lines] /\ torn' \subseteq clients'
      BY <1>3, PlainLines DEF OnClientDisconnect, TypeOK
    <2>3. /\ sessions' \subseteq RowType
          /\ IsFiniteSet(sessions')
          /\ failed' \subseteq Sids
      <3>1. PICK fails \in SUBSET ({c} \cap Active) : Save({c} \cap Active, info, fails)
        BY <1>3 DEF OnClientDisconnect
      <3>. QED  BY <3>1, <1>f, SaveType DEF TypeOK
    <2>4. dialog' \in Dialog
      BY <1>3, <1>f DEF OnClientDisconnect, TypeOK, Dialog
    <2>5. TypeOK'
      BY <1>3, <2>1, <2>2, <2>3, <2>4 DEF OnClientDisconnect, TypeOK
    <2>6. \A d \in Active' : d \in Active /\ info'[d].sid = info[d].sid
      BY <1>3, <1>f DEF OnClientDisconnect, TypeOK, Active
    <2>. QED  BY <1>3, <2>3, <2>5, <2>6 DEF OnClientDisconnect
  <1>4. ASSUME NEW c \in ClientIds, PeerRead(c)
        PROVE  TypeInv'
    <2>1. Tail(toClient[c]) \in Lines
      BY <1>4, <1>f, HeadTailProperties DEF PeerRead, Lines
    <2>2. TypeOK'
      BY <1>4, <2>1 DEF PeerRead, TypeOK
    <2>. QED  BY <1>4, <2>2 DEF PeerRead, Active
  <1>5. CASE OnTick
    <2>. DEFINE now == [c \in ClientIds |-> Ticked(info[c])]
                out == [c \in ClientIds |->
                          IF c \in Expiring THEN <<TickLine(now[c])>> \o EndLines(now[c])
                          ELSE IF c \in Active THEN <<TickLine(now[c])>>
                          ELSE << >>]
    <2>1. Expiring \subseteq Active
      BY DEF Expiring
    <2>2. \A c \in ClientIds : /\ now[c] \in ClientInfo
                               /\ now[c].session_active = info[c].session_active
                               /\ now[c].sid = info[c].sid
      BY <1>f, TickedType
    <2>3. \A c \in ClientIds : Ended(now[c]) \in ClientInfo /\ ~Ended(now[c]).session_active
      BY <2>2, EndedType
    <2>4. info' = [c \in ClientIds |-> IF c \in Expiring THEN Ended(now[c])
                                       ELSE IF c \in Active THEN now[c] ELSE info[c]]
      BY <1>5 DEF OnTick
    <2>5. info' \in [ClientIds -> ClientInfo]
      <3>. HIDE DEF now
      <3>. QED  BY <1>f, <2>2, <2>3, <2>4
    <2>6. toClient' \in [ClientIds -> Lines] /\ torn' \subseteq clients'
      <3>1. \A c \in ClientIds : TickLine(now[c]) \in ServerLine
        BY <2>2, TickLineType
      <3>2. \A c \in ClientIds : <<TickLine(now[c])>> \in Lines
        <4>. HIDE DEF now
        <4>. QED  BY <3>1 DEF Lines
      <3>3. \A c \in ClientIds : <<TickLine(now[c])>> \o EndLines(now[c]) \in Lines
        <4>1. \A c \in ClientIds : EndLines(now[c]) \in Lines
          BY <2>2, EndLinesType
        <4>. HIDE DEF now
        <4>. QED  BY <3>2, <4>1, ConcatProperties DEF Lines
      <3>4. out \in [ClientIds -> Lines]
        <4>. HIDE DEF now
        <4>. QED  BY <3>2, <3>3, PlainLines
      <3>5. Send(out)
        BY <1>5 DEF OnTick
      <3>. HIDE DEF out
      <3>. QED  BY <1>5, <3>4, <3>5, SendType DEF OnTick, TypeOK
    <2>7. /\ sessions' \subseteq RowType
          /\ IsFiniteSet(sessions')
          /\ failed' \subseteq Sids
      <3>1. PICK fails \in SUBSET Expiring : Save(Expiring, now, fails)
        BY <1>5 DEF OnTick
      <3>2. \A c \in Expiring : now[c] \in ClientInfo /\ now[c].sid \in Sids
        BY <1>f, <2>1, <2>2
      <3>. HIDE DEF now
      <3>. QED  BY <3>1, <3>2, <1>f, <2>1, SaveType DEF TypeOK
    <2>8. receipts' \subseteq Sids /\ lastReceipt' \in Sids \cup {0}
      BY <1>5, <1>f, <2>1, ReceiptType DEF OnTick, TypeOK
    <2>9. TypeOK'
      BY <1>5, <2>5, <2>6, <2>7, <2>8 DEF OnTick, TypeOK
    <2>10. \A c \in Active' : c \in Active /\ info'[c].sid = info[c].sid
      <3>. HIDE DEF now
      <3>. QED  BY <1>5, <1>f, <2>2, <2>3, <2>4 DEF OnTick, Active
    <2>. QED  BY <1>5, <2>7, <2>9, <2>10 DEF OnTick
  <1>6. CASE Second
    <2>1. info' \in [ClientIds -> ClientInfo]
      <3>1. \A c \in ClientIds : [info[c] EXCEPT !.age = @ + 1] \in ClientInfo
        BY <1>f DEF ClientInfo
      <3>. QED  BY <1>6, <1>f, <3>1 DEF Second
    <2>2. \A c \in ClientIds : /\ info'[c].session_active = info[c].session_active
                               /\ info'[c].sid = info[c].sid
      BY <1>6, <1>f DEF Second, ClientInfo
    <2>3. TypeOK'
      BY <1>6, <2>1 DEF Second, Silent, TypeOK
    <2>. QED  BY <1>6, <1>f, <2>2, <2>3 DEF Second, Active
  <1>7. ASSUME NEW c \in ClientIds, OpenStart(c)
        PROVE  TypeInv'
    <2>1. dialog' \in Dialog
      BY <1>7 DEF OpenStart, NoDialog, Holding, Dialog, ClientIds
    <2>2. TypeOK'
      BY <1>7, <2>1 DEF OpenStart, Silent, TypeOK
    <2>. QED  BY <1>7, <2>2 DEF OpenStart, Active
  <1>8. ASSUME NEW k \in ClientIds \cup {0}, NEW p \in Packages, NEW u \in Users,
               ConfirmStart(k, p, u)
        PROVE  TypeInv'
    <2>1. NoDialog \in Dialog
      BY DEF NoDialog, Holding, Dialog
    <2>2. CASE k \notin clients
      <3>1. UNCHANGED <<up, nextId, clients, info, toClient, torn, sessions, receipts,
                        lastReceipt, ticked, nsess, failed, dropped>> /\ dialog' = NoDialog
        BY <1>8, <2>2 DEF ConfirmStart, Silent
      <3>2. TypeOK'
        BY <3>1, <2>1 DEF TypeOK
      <3>. QED  BY <3>1, <3>2 DEF Active
    <2>3. CASE k \in clients
      <3>1. /\ k \in ClientIds
            /\ nsess < MaxSessions
            /\ nsess' = nsess + 1
            /\ info' = [info EXCEPT ![k] = Started(p, u, nsess + 1)]
            /\ Send(To(k, StartLines(p, u)))
        BY <1>8, <2>3, <1>f DEF ConfirmStart
      <3>2. nsess' \in 0..MaxSessions /\ nsess' \in Nat
        BY <3>1, <1>f, BoundsAssumption
      <3>3. Started(p, u, nsess') \in ClientInfo /\ Started(p, u, nsess').sid = nsess'
        BY <3>2, StartedType
      <3>4. info' \in [ClientIds -> ClientInfo]
        BY <3>1, <3>3 DEF TypeOK
      <3>5. toClient' \in [ClientIds -> Lines] /\ torn' \subseteq clients'
        BY <1>8, <3>1, StartLinesType, ToEachType, SendType DEF To, TypeOK, ConfirmStart
      <3>6. TypeOK'
        BY <1>8, <2>1, <3>2, <3>4, <3>5 DEF ConfirmStart, TypeOK
      <3>7. \A c \in Active' : info'[c].sid \in 1..nsess'
        BY <1>8, <1>f, <3>1, <3>2, <3>3 DEF ConfirmStart, TypeOK, Active
      <3>. QED  BY <1>8, <3>6, <3>7 DEF ConfirmStart
    <2>. QED  BY <2>2, <2>3
  <1>9. ASSUME NEW c \in ClientIds, OpenStop(c)
        PROVE  TypeInv'
    <2>1. info[c].sid \in Nat
      BY <1>f DEF ClientInfo
    <2>2. dialog' \in Dialog
      BY <1>9, <2>1 DEF OpenStop, NoDialog, Holding, Dialog, ClientIds
    <2>3. TypeOK'
      BY <1>9, <2>2 DEF OpenStop, Silent, TypeOK
    <2>. QED  BY <1>9, <2>3 DEF OpenStop, Active
  <1>10. CASE ConfirmStop
    <2>. DEFINE c == dialog.cid
                S == {c} \cap Active
    <2>1. S \in SUBSET ClientIds
      BY <1>f
    <2>2. /\ sessions' \subseteq RowType
          /\ IsFiniteSet(sessions')
          /\ failed' \subseteq Sids
      <3>1. PICK fails \in SUBSET S : Save(S, info, fails)
        BY <1>10 DEF ConfirmStop
      <3>. QED  BY <3>1, <2>1, <1>f, SaveType DEF TypeOK
    <2>3. receipts' \subseteq Sids /\ lastReceipt' \in Sids \cup {0}
      <3>1. SaveReceipts(S)
        BY <1>10 DEF ConfirmStop
      <3>. QED  BY <3>1, <1>f, ReceiptType DEF TypeOK
    <2>4. dialog' \in Dialog
      BY <1>10 DEF ConfirmStop, NoDialog, Holding, Dialog
    <2>5. /\ info' \in [ClientIds -> ClientInfo]
          /\ toClient' \in [ClientIds -> Lines]
          /\ torn' \subseteq clients'
          /\ \A d \in Active' : d \in Active /\ info'[d].sid = info[d].sid
      <3>1. CASE S = {}
        <4>1. UNCHANGED <<info, clients, toClient, torn>>
          BY <1>10, <3>1 DEF ConfirmStop, Silent
        <4>. QED  BY <4>1 DEF TypeOK, Active
      <3>2. CASE S # {}
        <4>1. /\ c \in Active
              /\ info' = [info EXCEPT ![c] = Ended(@)]
              /\ Send(To(c, EndLines(info[c])))
              /\ UNCHANGED clients
          BY <1>10, <3>2 DEF ConfirmStop
        <4>2. Ended(info[c]) \in ClientInfo /\ ~Ended(info[c]).session_active
          BY <4>1, <1>f, EndedType
        <4>3. EndLines(info[c]) \in Lines
          BY <4>1, <1>f, EndLinesType
        <4>. HIDE DEF c
        <4>. QED  BY <4>1, <4>2, <4>3, <1>f, ToEachType, SendType DEF To, TypeOK, Active
      <3>. QED  BY <3>1, <3>2
    <2>6. TypeOK'
      BY <1>10, <2>2, <2>3, <2>4, <2>5 DEF ConfirmStop, TypeOK
    <2>. QED  BY <1>10, <2>2, <2>5, <2>6 DEF ConfirmStop
  <1>11. CASE OpenOther
    <2>1. dialog' \in Dialog
      BY <1>11 DEF OpenOther, NoDialog, Holding, Dialog
    <2>2. TypeOK'
      BY <1>11, <2>1 DEF OpenOther, Silent, TypeOK
    <2>. QED  BY <1>11, <2>2 DEF OpenOther, Active
  <1>12. ASSUME NEW S, NEW lines \in Lines, ConfirmOther(S, lines)
         PROVE  TypeInv'
    <2>1. dialog' \in Dialog
      BY <1>12 DEF ConfirmOther, NoDialog, Holding, Dialog
    <2>2. toClient' \in [ClientIds -> Lines] /\ torn' \subseteq clients'
      BY <1>12, ToEachType, SendType DEF ConfirmOther, TypeOK
    <2>3. TypeOK'
      BY <1>12, <2>1, <2>2 DEF ConfirmOther, TypeOK
    <2>. QED  BY <1>12, <2>3 DEF ConfirmOther, Active
  <1>13. CASE Dismiss
    <2>1. dialog' \in Dialog
      BY <1>13 DEF Dismiss, NoDialog, Holding, Dialog
    <2>2. TypeOK'
      BY <1>13, <2>1 DEF Dismiss, Silent, TypeOK
    <2>. QED  BY <1>13, <2>2 DEF Dismiss, Active
  <1>14. ASSUME NEW c \in ClientIds, OnLockClicked(c)
         PROVE  TypeInv'
    <2>1. [info[c] EXCEPT !.locked = ~@] \in ClientInfo
      BY <1>f, Zenon DEF ClientInfo
    <2>2. info' = [info EXCEPT ![c] = [info[c] EXCEPT !.locked = ~@]]
      BY <1>14, <1>f DEF OnLockClicked, TypeOK
    <2>3. info' \in [ClientIds -> ClientInfo]
      BY <2>1, <2>2 DEF TypeOK
    <2>4. Lock(~info[c].locked) \in ServerLine
      BY LockLine, <1>f DEF ClientInfo
    <2>5. toClient' \in [ClientIds -> Lines] /\ torn' \subseteq clients'
      <3>1. <<Lock(~info[c].locked)>> \in Lines
        BY <2>4 DEF Lines
      <3>. QED  BY <1>14, <3>1, ToEachType, SendType DEF OnLockClicked, To, TypeOK
    <2>6. TypeOK'
      BY <1>14, <2>3, <2>5 DEF OnLockClicked, TypeOK
    <2>7. \A d \in ClientIds : /\ info'[d].session_active = info[d].session_active
                               /\ info'[d].sid = info[d].sid
      BY <2>2, <1>f DEF TypeOK, ClientInfo
    <2>. QED  BY <1>14, <1>f, <2>6, <2>7 DEF OnLockClicked, Active
  <1>15. ASSUME NEW c \in ClientIds, SendChat(c)
         PROVE  TypeInv'
    <2>1. toClient' \in [ClientIds -> Lines] /\ torn' \subseteq clients'
      BY <1>15, PlainLines, ToEachType, SendType DEF SendChat, To, TypeOK
    <2>2. TypeOK'
      BY <1>15, <2>1 DEF SendChat, TypeOK
    <2>. QED  BY <1>15, <2>2 DEF SendChat, Active
  <1>16. CASE LoseProcess
    <2>1. info' \in [ClientIds -> ClientInfo]
      BY <1>16, NewClientType DEF LoseProcess
    <2>2. dialog' \in Dialog
      BY <1>16 DEF LoseProcess, NoDialog, Holding, Dialog
    <2>3. toClient' \in [ClientIds -> Lines]
      BY <1>16, PlainLines DEF LoseProcess
    <2>4. dropped' \subseteq Sids
      BY <1>16, <1>f DEF LoseProcess, TypeOK
    <2>5. TypeOK'
      BY <1>16, <2>1, <2>2, <2>3, <2>4 DEF LoseProcess, TypeOK
    <2>. QED  BY <1>16, <2>5 DEF LoseProcess, Active
  <1>17. CASE Start
    <2>1. nextId' \in 1..(MaxId + 1) /\ clients' \subseteq 1..(nextId' - 1)
      BY <1>17, BoundsAssumption DEF Start
    <2>2. TypeOK'
      BY <1>17, <2>1 DEF Start, TypeOK
    <2>. QED  BY <1>17, <2>2 DEF Start, Active
  <1>18. CASE UNCHANGED vars
    <2>1. TypeOK'
      BY <1>18 DEF vars, TypeOK
    <2>. QED  BY <1>18, <2>1 DEF vars, Active
  <1>19. CASE OnBroadcastMenuClicked
    <2>1. toClient' \in [ClientIds -> Lines] /\ torn' \subseteq clients'
      BY <1>19, PlainLines, ToEachType, SendType DEF OnBroadcastMenuClicked, TypeOK
    <2>2. TypeOK'
      BY <1>19, <2>1 DEF OnBroadcastMenuClicked, TypeOK
    <2>. QED  BY <1>19, <2>2 DEF OnBroadcastMenuClicked, Active
  <1>. QED
    BY <1>1, <1>2, <1>3, <1>4, <1>5, <1>6, <1>7, <1>8, <1>9, <1>10, <1>11, <1>12,
       <1>13, <1>14, <1>15, <1>16, <1>17, <1>18, <1>19, PlainLines
    DEF Next, Work, Talk, Sockets, Admin, Process, Stop, Crash

(* Every reachable state of the server has the shape TypeOK gives it, for  *)
(* any number of stations, sessions and packages.                          *)
THEOREM TypeCorrect == Spec => []TypeOK
  <1>1. Init => TypeInv
    BY InitTypeInv
  <1>2. TypeInv /\ [Next]_vars => TypeInv'
    BY TypeStep
  <1>3. TypeInv => TypeOK
    BY DEF TypeInv
  <1>. QED  BY <1>1, <1>2, <1>3, PTL DEF Spec

(* ---------------------- what a step does to sessions ------------------- *)

(* Every step is of one of four kinds: it leaves the sessions alone, it    *)
(* opens one, it saves some that were running, or it is the end of the     *)
(* process (LoseProcess).                                                  *)
Untouched ==
  /\ Active' = Active
  /\ \A c \in Active : info'[c].sid = info[c].sid
  /\ UNCHANGED <<sessions, failed, dropped, nsess>>

Opened(k) ==
  /\ Shows("start")
  /\ k \in StartTargets
  /\ dialog' = NoDialog
  /\ Active' = Active \cup {k}
  /\ info'[k].sid = nsess + 1
  /\ \A c \in Active \ {k} : info'[c].sid = info[c].sid
  /\ nsess' = nsess + 1
  /\ UNCHANGED <<sessions, failed, dropped>>

Settled(S, f, fails) ==
  /\ Active' = Active \ S
  /\ \A c \in Active \ S : info'[c].sid = info[c].sid
  /\ \A c \in S : f[c].sid = info[c].sid
  /\ Save(S, f, fails)
  /\ UNCHANGED <<dropped, nsess>>

SomeSettled ==
  \E S \in SUBSET Active : \E fails \in SUBSET S : \E f \in [ClientIds -> ClientInfo] :
    Settled(S, f, fails)

LEMMA EveryStep ==
  ASSUME TypeInv, [Next]_vars
  PROVE  Untouched \/ (\E k \in clients : Opened(k)) \/ SomeSettled \/ LoseProcess
  <1>f. /\ clients \in SUBSET ClientIds
        /\ \A c \in ClientIds : info[c] \in ClientInfo
        /\ Active \subseteq clients
        /\ info \in [ClientIds -> ClientInfo]
        /\ nsess \in Nat
    BY TypeFacts DEF TypeInv, TypeOK
  <1>1. CASE OnAcceptReady
    <2>1. nextId \in ClientIds /\ nextId \notin clients
      BY <1>1, BoundsAssumption DEF OnAcceptReady, TypeInv, TypeOK, ClientIds
    <2>2. ~info'[nextId].session_active /\ \A c \in Active : info'[c] = info[c]
      BY <1>1, <1>f, <2>1 DEF OnAcceptReady, NewClient
    <2>. QED  BY <1>1, <1>f, <2>1, <2>2 DEF OnAcceptReady, Untouched, Active
  <1>2. ASSUME NEW c \in ClientIds, NEW line \in ClientLine, OnClientData(c, line)
        PROVE  Untouched
    <2>1. \A d \in ClientIds : /\ info'[d].session_active = info[d].session_active
                               /\ info'[d].sid = info[d].sid
      BY <1>2, <1>f DEF OnClientData, ClientInfo
    <2>. QED  BY <1>2, <1>f, <2>1 DEF OnClientData, Untouched, Active
  <1>3. ASSUME NEW c \in ClientIds, OnClientDisconnect(c)
        PROVE  SomeSettled
    <2>. DEFINE S == {c} \cap Active
    <2>1. PICK fails \in SUBSET S : Save(S, info, fails)
      BY <1>3 DEF OnClientDisconnect
    <2>2. \A d \in Active \ S : d # c /\ info'[d] = info[d]
      BY <1>3, <1>f DEF OnClientDisconnect
    <2>3. Active' = Active \ S
      BY <1>3, <1>f, <2>2 DEF OnClientDisconnect, Active
    <2>4. Settled(S, info, fails)
      BY <1>3, <2>1, <2>2, <2>3 DEF OnClientDisconnect, Settled
    <2>. QED  BY <1>f, <2>4 DEF SomeSettled
  <1>4. ASSUME NEW c \in ClientIds, PeerRead(c)
        PROVE  Untouched
    BY <1>4 DEF PeerRead, Untouched, Active
  <1>5. CASE OnTick
    <2>. DEFINE now == [c \in ClientIds |-> Ticked(info[c])]
    <2>1. Expiring \in SUBSET Active
      BY DEF Expiring
    <2>2. \A c \in ClientIds : /\ now[c] \in ClientInfo
                               /\ now[c].session_active = info[c].session_active
                               /\ now[c].sid = info[c].sid
                               /\ ~Ended(now[c]).session_active
      BY <1>f, TickedType, EndedType
    <2>3. PICK fails \in SUBSET Expiring : Save(Expiring, now, fails)
      BY <1>5 DEF OnTick
    <2>4. info' = [c \in ClientIds |-> IF c \in Expiring THEN Ended(now[c])
                                       ELSE IF c \in Active THEN now[c] ELSE info[c]]
      BY <1>5 DEF OnTick
    <2>5. now \in [ClientIds -> ClientInfo]
      BY <2>2
    <2>. HIDE DEF now
    <2>6. \A c \in Active \ Expiring : info'[c] = now[c]
      BY <1>f, <2>4
    <2>7. Active' = Active \ Expiring
      BY <1>5, <1>f, <2>1, <2>2, <2>4 DEF OnTick, Active
    <2>8. Settled(Expiring, now, fails)
      BY <1>5, <1>f, <2>1, <2>2, <2>3, <2>6, <2>7 DEF OnTick, Settled
    <2>. QED  BY <2>1, <2>5, <2>8 DEF SomeSettled
  <1>6. CASE Second
    <2>1. \A c \in ClientIds : /\ info'[c].session_active = info[c].session_active
                               /\ info'[c].sid = info[c].sid
      BY <1>6, <1>f DEF Second, ClientInfo
    <2>. QED  BY <1>6, <1>f, <2>1 DEF Second, Untouched, Active
  <1>7. ASSUME NEW c \in ClientIds, OpenStart(c)
        PROVE  Untouched
    BY <1>7 DEF OpenStart, Untouched, Active
  <1>8. ASSUME NEW k \in ClientIds \cup {0}, NEW p \in Packages, NEW u \in Users,
               ConfirmStart(k, p, u)
        PROVE  Untouched \/ (\E j \in clients : Opened(j))
    <2>1. CASE k \notin clients
      BY <1>8, <2>1 DEF ConfirmStart, Untouched, Active
    <2>2. CASE k \in clients
      <3>1. Started(p, u, nsess + 1).session_active /\ Started(p, u, nsess + 1).sid = nsess + 1
        BY DEF Started
      <3>2. info' = [info EXCEPT ![k] = Started(p, u, nsess + 1)]
        BY <1>8, <2>2 DEF ConfirmStart
      <3>3. Opened(k)
        BY <1>8, <1>f, <2>2, <3>1, <3>2 DEF ConfirmStart, Opened, Active
      <3>. QED  BY <2>2, <3>3
    <2>. QED  BY <2>1, <2>2
  <1>9. ASSUME NEW c \in ClientIds, OpenStop(c)
        PROVE  Untouched
    BY <1>9 DEF OpenStop, Untouched, Active
  <1>10. CASE ConfirmStop
    <2>. DEFINE c == dialog.cid
                S == {c} \cap Active
    <2>1. PICK fails \in SUBSET S : Save(S, info, fails)
      BY <1>10 DEF ConfirmStop
    <2>2. /\ UNCHANGED <<clients, dropped, nsess>>
          /\ IF S = {} THEN UNCHANGED info ELSE info' = [info EXCEPT ![c] = Ended(@)]
      BY <1>10 DEF ConfirmStop
    <2>3. c \in Active => ~Ended(info[c]).session_active
      BY <1>f, EndedType
    <2>. HIDE DEF c
    <2>4. Active' = Active \ S /\ \A d \in Active \ S : info'[d] = info[d]
      BY <1>f, <2>2, <2>3 DEF Active
    <2>5. Settled(S, info, fails)
      BY <2>1, <2>2, <2>4 DEF Settled
    <2>. QED  BY <1>f, <2>5 DEF SomeSettled
  <1>11. CASE OpenOther
    BY <1>11 DEF OpenOther, Untouched, Active
  <1>12. ASSUME NEW S, NEW lines, ConfirmOther(S, lines)
         PROVE  Untouched
    BY <1>12 DEF ConfirmOther, Untouched, Active
  <1>13. CASE Dismiss
    BY <1>13 DEF Dismiss, Untouched, Active
  <1>14. ASSUME NEW c \in ClientIds, OnLockClicked(c)
         PROVE  Untouched
    <2>1. \A d \in ClientIds : /\ info'[d].session_active = info[d].session_active
                               /\ info'[d].sid = info[d].sid
      BY <1>14, <1>f DEF OnLockClicked, ClientInfo
    <2>. QED  BY <1>14, <1>f, <2>1 DEF OnLockClicked, Untouched, Active
  <1>15. ASSUME NEW c \in ClientIds, SendChat(c)
         PROVE  Untouched
    BY <1>15 DEF SendChat, Untouched, Active
  <1>16. CASE Start
    BY <1>16 DEF Start, Untouched, Active
  <1>17. CASE UNCHANGED vars
    BY <1>17 DEF vars, Untouched, Active
  <1>18. CASE OnBroadcastMenuClicked
    BY <1>18 DEF OnBroadcastMenuClicked, Untouched, Active
  <1>. QED
    BY <1>1, <1>2, <1>3, <1>4, <1>5, <1>6, <1>7, <1>8, <1>9, <1>10, <1>11, <1>12,
       <1>13, <1>14, <1>15, <1>16, <1>17, <1>18
    DEF Next, Work, Talk, Sockets, Admin, Process, Stop, Crash

(* ------------------- the start dialog finds a free station ------------- *)

(* Whatever record the start dialog's dangling pointer has come to         *)
(* designate, no session runs in it: ids only grow, so a later client is   *)
(* one that connected while the dialog was up, when none could be started. *)
LEMMA StartFreeStep ==
  ASSUME TypeInv, StartTargetsFree, [Next]_vars
  PROVE  StartTargetsFree'
  <1>f. /\ clients \in SUBSET ClientIds
        /\ Active \subseteq clients
        /\ clients \subseteq 1..(nextId - 1)
        /\ nextId \in Nat
        /\ dialog \in Dialog
        /\ info \in [ClientIds -> ClientInfo]
    BY TypeFacts DEF TypeInv, TypeOK
  <1>. SUFFICES ASSUME Shows("start")' PROVE (StartTargets \cap Active = {})'
    BY DEF StartTargetsFree
  <1>1. CASE \E k \in clients : Opened(k)
    BY <1>1 DEF Opened, Shows, NoDialog, Holding
  <1>2. CASE LoseProcess
    BY <1>2 DEF LoseProcess, Shows, NoDialog, Holding
  <1>3. CASE Active' \subseteq Active
    <2>1. CASE dialog' = dialog
      <3>1. \A k \in StartTargets' : k \in StartTargets \/ k \notin Active
        BY <1>f, <1>3, <2>1 DEF StartTargets
      <3>. QED  BY <1>3, <2>1, <3>1 DEF StartTargetsFree, Shows
    <2>2. ASSUME NEW c \in ClientIds, OpenStart(c)
          PROVE  (StartTargets \cap Active = {})'
      BY <1>3, <2>2 DEF OpenStart, Holding, StartTargets
    <2>3. ASSUME NEW c \in ClientIds, OnClientDisconnect(c), dialog' # dialog
          PROVE  (StartTargets \cap Active = {})'
      <3>1. dialog' = [dialog EXCEPT !.freedAt = nextId] /\ clients' \subseteq clients
        BY <2>3 DEF OnClientDisconnect
      <3>2. dialog'.freedAt = nextId \/ dialog'.freedAt = 0
        BY <3>1, <1>f DEF Dialog
      <3>3. nextId # 0
        BY <1>f, <2>3 DEF OnClientDisconnect
      <3>4. dialog'.freedAt = nextId
        BY <3>1, <1>f DEF Dialog
      <3>5. StartTargets' \subseteq {0}
        BY <3>1, <3>3, <3>4, <1>f DEF StartTargets
      <3>. QED  BY <3>5, <1>3, <1>f
    <2>4. dialog' = dialog \/ (\E c \in ClientIds : OpenStart(c) \/ OnClientDisconnect(c))
      <3>1. CASE \/ OnAcceptReady \/ OnTick \/ Second \/ Start \/ UNCHANGED vars
                 \/ OnBroadcastMenuClicked
                 \/ \E c \in ClientIds : \/ \E line \in ClientLine : OnClientData(c, line)
                                         \/ PeerRead(c) \/ OnLockClicked(c) \/ SendChat(c)
        BY <3>1 DEF OnAcceptReady, OnTick, Second, Start, vars, OnClientData, PeerRead,
                    OnLockClicked, SendChat, OnBroadcastMenuClicked
      <3>2. CASE \/ OpenOther \/ ConfirmStop \/ Dismiss \/ LoseProcess
                 \/ \E c \in ClientIds : OpenStop(c)
        BY <3>2 DEF OpenOther, ConfirmStop, Dismiss, LoseProcess, OpenStop, Shows, NoDialog,
                    Holding
      <3>3. ASSUME NEW S, NEW lines, ConfirmOther(S, lines)
            PROVE  FALSE
        BY <3>3 DEF ConfirmOther, Shows, NoDialog, Holding
      <3>4. ASSUME NEW k, NEW p, NEW u, ConfirmStart(k, p, u)
            PROVE  FALSE
        BY <3>4 DEF ConfirmStart, Shows, NoDialog, Holding
      <3>. QED
        BY <3>1, <3>2, <3>3, <3>4 DEF Next, Work, Talk, Sockets, Admin, Process, Stop, Crash
    <2>. QED  BY <2>1, <2>2, <2>3, <2>4
  <1>. QED  BY <1>1, <1>2, <1>3, EveryStep DEF Untouched, SomeSettled, Settled

(* The pointer the start dialog holds may dangle, but it never leads to a  *)
(* station on which a session runs.                                        *)
THEOREM StartFindsFreeStation == Spec => []StartTargetsFree
  <1>1. Init => StartTargetsFree
    BY DEF Init, StartTargetsFree, Active
  <1>2. Spec => []TypeInv
    BY InitTypeInv, TypeStep, PTL DEF Spec
  <1>3. TypeInv /\ StartTargetsFree /\ [Next]_vars => StartTargetsFree'
    BY StartFreeStep
  <1>. QED  BY <1>1, <1>2, <1>3, PTL DEF Spec

(* Both invariants, as the steps below use them.                           *)
BaseInv == TypeInv /\ StartTargetsFree

LEMMA BaseInvariant == Spec => []BaseInv
  <1>1. Init => BaseInv
    BY InitTypeInv DEF Init, StartTargetsFree, BaseInv, Active
  <1>2. BaseInv /\ [Next]_vars => BaseInv'
    BY TypeStep, StartFreeStep DEF BaseInv
  <1>. QED  BY <1>1, <1>2, PTL DEF Spec

(* startSession has no guard of its own, and yet no running session is     *)
(* ever overwritten by another one.                                        *)
THEOREM NothingOverwritten == Spec => NoOverwrite
  <1>1. BaseInv /\ [Next]_vars => [\A c \in Active : c \in Active' => info'[c].sid = info[c].sid]_vars
    <2>. SUFFICES ASSUME BaseInv, [Next]_vars, NEW c \in Active, c \in Active'
                  PROVE  info'[c].sid = info[c].sid
      OBVIOUS
    <2>1. CASE Untouched
      BY <2>1 DEF Untouched
    <2>2. ASSUME NEW k \in clients, Opened(k)
          PROVE  info'[c].sid = info[c].sid
      BY <2>2 DEF Opened, BaseInv, StartTargetsFree
    <2>3. CASE SomeSettled
      BY <2>3 DEF SomeSettled, Settled
    <2>4. CASE LoseProcess
      BY <2>4 DEF LoseProcess, Active
    <2>. QED  BY <2>1, <2>2, <2>3, <2>4, EveryStep DEF BaseInv
  <1>. QED  BY <1>1, BaseInvariant, PTL DEF Spec, NoOverwrite

(* --------------------- every session is accounted for ------------------ *)

(* Saving running sessions moves each of them to the table or to the       *)
(* errors, once.                                                           *)
LEMMA SettledAccounted ==
  ASSUME Accounted, Active \subseteq ClientIds, NEW S \in SUBSET Active,
         NEW fails \in SUBSET S, NEW f, Settled(S, f, fails)
  PROVE  Accounted'
  <1>. DEFINE ok == S \ fails
              new == {Row(f[c], Place(c, ok)) : c \in ok}
  <1>1. \A c \in ok : Row(f[c], Place(c, ok)).sid = info[c].sid
    BY DEF Settled, Row
  <1>2. sessions' = sessions \cup new
    BY DEF Settled, Save
  <1>3. failed' = failed \cup {info[c].sid : c \in fails}
    BY DEF Settled, Save
  <1>4. Recorded' = Recorded \cup {info[c].sid : c \in ok}
    BY <1>1, <1>2 DEF Recorded
  <1>5. Running' = {info[c].sid : c \in Active \ S}
    BY DEF Running, Settled
  <1>6. \A c, d \in Active' : info'[c].sid = info'[d].sid => c = d
    BY DEF Settled, Accounted
  <1>7. \A q, r \in sessions' : q.sid = r.sid => q = r
    <2>1. \A c \in ok : info[c].sid \notin Recorded
      BY DEF Accounted, Running
    <2>2. \A q \in new : \E c \in ok : /\ q = Row(f[c], Place(c, ok))
                                       /\ q.sid = info[c].sid
      BY <1>1
    <2>3. \A q, r \in new : q.sid = r.sid => q = r
      <3>. SUFFICES ASSUME NEW q \in new, NEW r \in new, q.sid = r.sid PROVE q = r
        OBVIOUS
      <3>1. PICK c \in ok : q = Row(f[c], Place(c, ok)) /\ q.sid = info[c].sid
        BY <2>2
      <3>2. PICK d \in ok : r = Row(f[d], Place(d, ok)) /\ r.sid = info[d].sid
        BY <2>2
      <3>3. c = d
        BY <3>1, <3>2 DEF Accounted
      <3>. QED  BY <3>1, <3>2, <3>3
    <2>4. \A q \in new, r \in sessions : q.sid # r.sid
      <3>. SUFFICES ASSUME NEW q \in new, NEW r \in sessions PROVE q.sid # r.sid
        OBVIOUS
      <3>1. q.sid \notin Recorded
        <4>. HIDE DEF new, ok
        <4>. QED  BY <2>1, <2>2
      <3>. QED  BY <3>1 DEF Recorded
    <2>. QED  BY <1>2, <2>3, <2>4 DEF Accounted
  <1>8. /\ Running' \cup Recorded' \cup failed' \cup dropped' = 1..nsess'
        /\ Running' \cap (Recorded' \cup failed' \cup dropped') = {}
        /\ Recorded' \cap (failed' \cup dropped') = {}
        /\ failed' \cap dropped' = {}
    <2>1. nsess' = nsess /\ dropped' = dropped
      BY DEF Settled
    <2>2. /\ Running = {info[c].sid : c \in Active}
          /\ \A c, d \in Active : info[c].sid = info[d].sid => c = d
          /\ Running \cup Recorded \cup failed \cup dropped = 1..nsess
          /\ Running \cap (Recorded \cup failed \cup dropped) = {}
          /\ Recorded \cap (failed \cup dropped) = {}
          /\ failed \cap dropped = {}
      BY DEF Accounted, Running
    <2>. HIDE DEF new
    <2>. QED  BY <1>3, <1>4, <1>5, <2>1, <2>2
  <1>. QED  BY <1>6, <1>7, <1>8 DEF Accounted

LEMMA AccountedStep ==
  ASSUME BaseInv, Accounted, [Next]_vars
  PROVE  Accounted'
  <1>f. /\ Active \subseteq ClientIds
        /\ nsess \in Nat
        /\ \A c \in Active : info[c].sid \in 1..nsess
    BY TypeFacts DEF BaseInv, TypeInv
  <1>1. CASE Untouched
    <2>1. Running' = Running
      BY <1>1 DEF Untouched, Running
    <2>2. Recorded' = Recorded
      BY <1>1 DEF Untouched, Recorded
    <2>. QED  BY <1>1, <2>1, <2>2 DEF Untouched, Accounted
  <1>2. ASSUME NEW k \in clients, Opened(k)
        PROVE  Accounted'
    <2>1. k \notin Active
      BY <1>2 DEF Opened, BaseInv, StartTargetsFree
    <2>2. Running' = Running \cup {nsess + 1}
      BY <1>2, <2>1 DEF Opened, Running
    <2>3. Recorded' = Recorded
      BY <1>2 DEF Opened, Recorded
    <2>4. nsess' = nsess + 1 /\ failed' = failed /\ dropped' = dropped /\ sessions' = sessions
      BY <1>2 DEF Opened
    <2>5. 1..nsess' = (1..nsess) \cup {nsess + 1} /\ nsess + 1 \notin 1..nsess
      BY <1>f, <2>4
    <2>6. \A c, d \in Active' : info'[c].sid = info'[d].sid => c = d
      BY <1>2, <1>f, <2>1, <2>5 DEF Opened, Accounted
    <2>. QED  BY <2>2, <2>3, <2>4, <2>5, <2>6 DEF Accounted
  <1>3. CASE SomeSettled
    BY <1>3, <1>f, SettledAccounted DEF SomeSettled
  <1>4. CASE LoseProcess
    <2>1. Active' = {} /\ Running' = {}
      BY <1>4 DEF LoseProcess, Active, Running
    <2>2. dropped' = dropped \cup Running
      BY <1>4 DEF LoseProcess, Running
    <2>3. UNCHANGED <<sessions, failed, nsess>> /\ Recorded' = Recorded
      BY <1>4 DEF LoseProcess, Recorded
    <2>. QED  BY <2>1, <2>2, <2>3 DEF Accounted
  <1>. QED  BY <1>1, <1>2, <1>3, <1>4, EveryStep DEF BaseInv

(* Every session ever opened is in exactly one place, for any number of    *)
(* stations and sessions: running, in one row of the table, or lost to a   *)
(* failed INSERT or the end of the process.                                *)
THEOREM SessionsAccounted == Spec => []Accounted
  <1>1. Init => Accounted
    BY DEF Init, Accounted, Active, Running, Recorded
  <1>2. BaseInv /\ Accounted /\ [Next]_vars => Accounted'
    BY AccountedStep
  <1>. QED  BY <1>1, <1>2, BaseInvariant, PTL DEF Spec

(* -------------------- what a step does to a meter ---------------------- *)

(* A running session's meter stands still, begins at zero or takes the     *)
(* tick that did not end the session.                                      *)
StandsStill(c) ==
  /\ c \in Active
  /\ info'[c].package = info[c].package
  /\ info'[c].elapsed_sec = info[c].elapsed_sec

BeginsAtZero(c) == info'[c].elapsed_sec = 0

TakesTick(c) ==
  /\ c \in Active \ Expiring
  /\ info'[c] = Ticked(info[c])

LEMMA MeterStep ==
  ASSUME TypeInv, [Next]_vars
  PROVE  \A c \in Active' : StandsStill(c) \/ BeginsAtZero(c) \/ TakesTick(c)
  <1>. SUFFICES ASSUME NEW c \in Active'
                PROVE  StandsStill(c) \/ BeginsAtZero(c) \/ TakesTick(c)
    OBVIOUS
  <1>. USE DEF StandsStill, BeginsAtZero, TakesTick
  <1>f. /\ clients \in SUBSET ClientIds
        /\ \A d \in ClientIds : info[d] \in ClientInfo
        /\ Active \subseteq clients
        /\ info \in [ClientIds -> ClientInfo]
        /\ nextId \in Nat
    BY TypeFacts DEF TypeInv, TypeOK
  <1>1. CASE OnAcceptReady
    <2>1. nextId \in ClientIds
      BY <1>1, <1>f, BoundsAssumption DEF OnAcceptReady, TypeInv, TypeOK, ClientIds
    <2>2. NewClient.elapsed_sec = 0
      BY DEF NewClient
    <2>. QED  BY <1>1, <1>f, <2>1, <2>2 DEF OnAcceptReady, Active
  <1>2. ASSUME NEW d \in ClientIds, NEW line \in ClientLine, OnClientData(d, line)
        PROVE  StandsStill(c)
    <2>1. \A e \in ClientIds : /\ info'[e].session_active = info[e].session_active
                               /\ info'[e].package = info[e].package
                               /\ info'[e].elapsed_sec = info[e].elapsed_sec
      BY <1>2, <1>f DEF OnClientData, ClientInfo
    <2>. QED  BY <1>2, <1>f, <2>1 DEF OnClientData, Active
  <1>3. ASSUME NEW d \in ClientIds, OnClientDisconnect(d)
        PROVE  StandsStill(c)
    BY <1>3, <1>f DEF OnClientDisconnect, Active
  <1>4. ASSUME NEW d \in ClientIds, PeerRead(d)
        PROVE  StandsStill(c)
    BY <1>4 DEF PeerRead, Active
  <1>5. CASE OnTick
    <2>. DEFINE now == [d \in ClientIds |-> Ticked(info[d])]
    <2>1. \A d \in ClientIds : ~Ended(now[d]).session_active
      BY <1>f, TickedType, EndedType
    <2>2. info' = [d \in ClientIds |-> IF d \in Expiring THEN Ended(now[d])
                                       ELSE IF d \in Active THEN now[d] ELSE info[d]]
      BY <1>5 DEF OnTick
    <2>3. c \in clients /\ c \in ClientIds /\ info'[c].session_active
      BY <1>5, <1>f DEF OnTick, Active
    <2>4. c \in Active \ Expiring /\ info'[c] = now[c]
      <3>. HIDE DEF now
      <3>. QED  BY <2>1, <2>2, <2>3 DEF Active
    <2>. QED  BY <2>3, <2>4
  <1>6. CASE Second
    <2>1. \A d \in ClientIds : /\ info'[d].session_active = info[d].session_active
                               /\ info'[d].package = info[d].package
                               /\ info'[d].elapsed_sec = info[d].elapsed_sec
      BY <1>6, <1>f DEF Second, ClientInfo
    <2>. QED  BY <1>6, <1>f, <2>1 DEF Second, Active
  <1>7. CASE \/ OpenOther \/ Dismiss \/ Start \/ UNCHANGED vars
             \/ OnBroadcastMenuClicked
             \/ \E d \in ClientIds : OpenStart(d) \/ OpenStop(d) \/ SendChat(d)
    BY <1>7 DEF OpenOther, Dismiss, Start, vars, OpenStart, OpenStop, SendChat,
               OnBroadcastMenuClicked, Active
  <1>8. ASSUME NEW k, NEW p, NEW u, ConfirmStart(k, p, u)
        PROVE  StandsStill(c) \/ BeginsAtZero(c)
    <2>1. Started(p, u, nsess + 1).elapsed_sec = 0
      BY DEF Started
    <2>. QED  BY <1>8, <1>f, <2>1 DEF ConfirmStart, Active
  <1>9. CASE ConfirmStop
    <2>. DEFINE d == dialog.cid
    <2>1. /\ UNCHANGED clients
          /\ IF {d} \cap Active = {} THEN UNCHANGED info
             ELSE info' = [info EXCEPT ![d] = Ended(@)]
      BY <1>9 DEF ConfirmStop
    <2>2. d \in Active => ~Ended(info[d]).session_active
      BY <1>f, EndedType
    <2>. HIDE DEF d
    <2>. QED  BY <1>f, <2>1, <2>2 DEF Active
  <1>10. ASSUME NEW S, NEW lines, ConfirmOther(S, lines)
         PROVE  StandsStill(c)
    BY <1>10 DEF ConfirmOther, Active
  <1>11. ASSUME NEW d \in ClientIds, OnLockClicked(d)
         PROVE  StandsStill(c)
    <2>1. \A e \in ClientIds : /\ info'[e].session_active = info[e].session_active
                               /\ info'[e].package = info[e].package
                               /\ info'[e].elapsed_sec = info[e].elapsed_sec
      BY <1>11, <1>f DEF OnLockClicked, ClientInfo
    <2>. QED  BY <1>11, <1>f, <2>1 DEF OnLockClicked, Active
  <1>12. CASE LoseProcess
    BY <1>12 DEF LoseProcess, Active
  <1>. QED
    BY <1>1, <1>2, <1>3, <1>4, <1>5, <1>6, <1>7, <1>8, <1>9, <1>10, <1>11, <1>12
    DEF Next, Work, Talk, Sockets, Admin, Process, Stop, Crash

(* No session on a fixed package runs at or beyond its duration, whatever  *)
(* the package, the number of stations and the dialogs on the screen.      *)
THEOREM NobodyStaysBeyond == Spec => []NoOvertime
  <1>1. Init => NoOvertime
    BY DEF Init, NoOvertime, Active
  <1>2. ASSUME TypeInv, NoOvertime, [Next]_vars
        PROVE  NoOvertime'
    <2>. SUFFICES ASSUME NEW c \in Active', Timed(info'[c].package)
                  PROVE  info'[c].elapsed_sec < info'[c].package.duration_sec
      BY DEF NoOvertime
    <2>1. CASE StandsStill(c)
      BY <1>2, <2>1 DEF StandsStill, NoOvertime
    <2>2. CASE BeginsAtZero(c)
      BY <2>2 DEF BeginsAtZero, Timed
    <2>3. CASE TakesTick(c)
      <3>1. ~Expired(info'[c])
        BY <2>3 DEF TakesTick, Expiring
      <3>2. info'[c] \in ClientInfo
        <4>1. info[c] \in ClientInfo
          BY <1>2, <2>3, TypeFacts DEF TakesTick
        <4>. QED  BY <4>1, <2>3, TickedType DEF TakesTick
      <3>3. info'[c].elapsed_sec \in Int /\ info'[c].package.duration_sec \in Int
        BY <3>2, PackageTypes DEF ClientInfo, Package
      <3>. QED  BY <3>1, <3>3 DEF Expired
    <2>. QED  BY <1>2, <2>1, <2>2, <2>3, MeterStep
  <1>3. Spec => []TypeInv
    BY InitTypeInv, TypeStep, PTL DEF Spec
  <1>. QED  BY <1>1, <1>2, <1>3, PTL DEF Spec

(* ------------------ the stop dialog names its session ------------------ *)

(* No session begins while a dialog is up but by the start dialog's answer *)
(* (EveryStep), so the station of a stop dialog has the session it had, or *)
(* none.                                                                   *)
LEMMA StopNamesStep ==
  ASSUME TypeInv, StopDialogNamesSession, [Next]_vars
  PROVE  StopDialogNamesSession'
  <1>. SUFFICES ASSUME NEW c \in Active', Shows("stop")', dialog'.cid = c
                PROVE  info'[c].sid = dialog'.sid
    BY DEF StopDialogNamesSession, Shows
  <1>1. CASE \E k \in clients : Opened(k)
    BY <1>1 DEF Opened, Shows, NoDialog, Holding
  <1>2. CASE LoseProcess
    BY <1>2 DEF LoseProcess, Shows, NoDialog, Holding
  <1>3. CASE Active' \subseteq Active /\ \A d \in Active' : info'[d].sid = info[d].sid
    <2>1. CASE dialog' = dialog
      BY <1>3, <2>1 DEF StopDialogNamesSession, Shows
    <2>2. ASSUME NEW d \in ClientIds, OpenStop(d)
          PROVE  info'[c].sid = dialog'.sid
      BY <1>3, <2>2 DEF OpenStop, Holding
    <2>3. dialog' = dialog \/ \E d \in ClientIds : OpenStop(d)
      <3>1. CASE \/ OnAcceptReady \/ OnTick \/ Second \/ Start \/ UNCHANGED vars
                 \/ OnBroadcastMenuClicked
                 \/ \E d \in ClientIds : \/ \E line \in ClientLine : OnClientData(d, line)
                                         \/ PeerRead(d) \/ OnLockClicked(d) \/ SendChat(d)
        BY <3>1 DEF OnAcceptReady, OnTick, Second, Start, vars, OnClientData, PeerRead,
                    OnLockClicked, SendChat, OnBroadcastMenuClicked
      <3>2. CASE \/ OpenOther \/ ConfirmStop \/ Dismiss \/ LoseProcess
                 \/ \E d \in ClientIds : OpenStart(d)
        BY <3>2 DEF OpenOther, ConfirmStop, Dismiss, LoseProcess, OpenStart, Shows, NoDialog,
                    Holding
      <3>3. ASSUME NEW S, NEW lines, ConfirmOther(S, lines)
            PROVE  FALSE
        BY <3>3 DEF ConfirmOther, Shows, NoDialog, Holding
      <3>4. ASSUME NEW k, NEW p, NEW u, ConfirmStart(k, p, u)
            PROVE  FALSE
        BY <3>4 DEF ConfirmStart, Shows, NoDialog, Holding
      <3>5. ASSUME NEW d \in ClientIds, OnClientDisconnect(d)
            PROVE  dialog' = dialog
        <4>. SUFFICES ASSUME dialog' = [dialog EXCEPT !.freedAt = nextId], Shows("start")
                      PROVE  FALSE
          BY <3>5 DEF OnClientDisconnect
        <4>1. dialog'.kind = "start"
          BY DEF TypeInv, TypeOK, Dialog, Shows
        <4>. QED  BY <4>1 DEF Shows
      <3>. QED
        BY <3>1, <3>2, <3>3, <3>4, <3>5
        DEF Next, Work, Talk, Sockets, Admin, Process, Stop, Crash
    <2>. QED  BY <2>1, <2>2, <2>3
  <1>. QED  BY <1>1, <1>2, <1>3, EveryStep DEF Untouched, SomeSettled, Settled

(* onStopClicked's answer ends the session the admin was asked about, or   *)
(* none, whatever has expired, left or connected meanwhile.                *)
THEOREM StopMeansItsSession == Spec => []StopDialogNamesSession
  <1>1. Init => StopDialogNamesSession
    BY DEF Init, StopDialogNamesSession, Active
  <1>2. Spec => []TypeInv
    BY InitTypeInv, TypeStep, PTL DEF Spec
  <1>3. TypeInv /\ StopDialogNamesSession /\ [Next]_vars => StopDialogNamesSession'
    BY StopNamesStep
  <1>. QED  BY <1>1, <1>2, <1>3, PTL DEF Spec

(* ------------------------- what a session costs ------------------------ *)

(* The two invariants of the bill belong together: a row takes its cost    *)
(* and its time from the record of the session that ends, so what is said  *)
(* of the rows has to be said of the records, of those too that hold no    *)
(* session, for startSession and endSession leave zero in them.  Until its *)
(* first tick a session costs nothing, be its package flat or not.         *)
Slack == IF ticked THEN 1 ELSE 0

CostOf(p, elapsed) == IF elapsed = 0 THEN 0 ELSE CalcCost(p, elapsed)

Billed(i) == i.current_cost = CostOf(i.package, i.elapsed_sec)

Within(i, n) == i.elapsed_sec <= i.age + n

RowOK(r) == r.duration_sec <= r.wall + 1 /\ r.total_cost = CostOf(r.package, r.duration_sec)

RecordsOK == /\ \A c \in ClientIds : Billed(info[c])
             /\ \A c \in Active : Within(info[c], Slack)

BillInv == RecordsOK /\ \A r \in sessions : RowOK(r)

LEMMA BillInvGives ==
  ASSUME TypeInv, BillInv
  PROVE  CostIsCurrent /\ BilledWithinWallClock
  <1>1. clients \in SUBSET ClientIds
    BY TypeFacts
  <1>2. BilledWithinWallClock
    BY <1>1 DEF BillInv, RecordsOK, RowOK, Within, Slack, BilledWithinWallClock
  <1>3. \A c \in clients : info[c].elapsed_sec > 0
          => info[c].current_cost = CalcCost(info[c].package, info[c].elapsed_sec)
    <2>1. \A e : e > 0 => e # 0
      OBVIOUS
    <2>2. \A c \in clients : Billed(info[c])
      BY <1>1 DEF BillInv, RecordsOK
    <2>. QED  BY <2>1, <2>2 DEF Billed, CostOf
  <1>4. \A r \in sessions : r.duration_sec > 0
          => r.total_cost = CalcCost(r.package, r.duration_sec)
    <2>1. \A e : e > 0 => e # 0
      OBVIOUS
    <2>. QED  BY <2>1 DEF BillInv, RowOK, CostOf
  <1>. QED
    BY <1>2, <1>3, <1>4 DEF CostIsCurrent

LEMMA SlackType == Slack \in Nat /\ Slack <= 1
  BY DEF Slack

\* A record without a session, or with one that has just begun.
LEMMA ZeroIsBilled ==
  ASSUME NEW i, i.elapsed_sec = 0, i.current_cost = 0
  PROVE  Billed(i)
  BY DEF Billed, CostOf

LEMMA TickedIsBilled ==
  ASSUME NEW i \in ClientInfo
  PROVE  /\ Billed(Ticked(i))
         /\ Within(i, 0) => Within(Ticked(i), 1)
  <1>1. i.elapsed_sec \in Nat /\ i.age \in Nat
    BY DEF ClientInfo
  <1>2. CostOf(i.package, i.elapsed_sec + 1) = CalcCost(i.package, i.elapsed_sec + 1)
    BY <1>1 DEF CostOf
  <1>3. Billed(Ticked(i))
    BY <1>2, TickedType DEF Billed
  <1>4. Within(i, 0) => Within(Ticked(i), 1)
    BY <1>1, TickedType DEF Within
  <1>. QED  BY <1>3, <1>4

(* The rows of sessions whose records are right are right.                 *)
LEMMA RowsStep ==
  ASSUME \A r \in sessions : RowOK(r),
         NEW S, NEW f, NEW fails,
         \A c \in S : Billed(f[c]) /\ Within(f[c], 1),
         Save(S, f, fails)
  PROVE  \A r \in sessions' : RowOK(r)
  <1>1. ASSUME NEW c \in S, NEW n
        PROVE  RowOK(Row(f[c], n))
    <2>1. /\ Row(f[c], n).duration_sec = f[c].elapsed_sec
          /\ Row(f[c], n).wall = f[c].age
          /\ Row(f[c], n).package = f[c].package
          /\ Row(f[c], n).total_cost = f[c].current_cost
      BY DEF Row
    <2>. QED  BY <2>1 DEF RowOK, Billed, Within
  <1>2. \A r \in sessions' : r \in sessions \/ \E c \in S : \E n : r = Row(f[c], n)
    BY DEF Save
  <1>. QED  BY <1>1, <1>2

\* Nothing that the bill is made of.
SameBill(c) ==
  /\ info'[c].package = info[c].package
  /\ info'[c].elapsed_sec = info[c].elapsed_sec
  /\ info'[c].current_cost = info[c].current_cost
  /\ info'[c].age = info[c].age

LEMMA SameRecords ==
  ASSUME RecordsOK, \A c \in ClientIds : SameBill(c), Active' \subseteq Active,
         Active \subseteq ClientIds, ticked' = ticked
  PROVE  RecordsOK'
  BY DEF RecordsOK, SameBill, Billed, Within, Slack

LEMMA OtherRecords ==
  ASSUME RecordsOK, Active \subseteq ClientIds, ticked' = ticked, NEW k,
         \A c \in ClientIds \ {k} : info'[c] = info[c],
         k \in ClientIds => Billed(info'[k]),
         Active' \subseteq Active \cup {k},
         k \in Active' => Within(info'[k], 0) /\ info'[k].age \in Nat
                                              /\ info'[k].elapsed_sec \in Nat,
         Active' \subseteq ClientIds
  PROVE  RecordsOK'
  <1>1. \A c \in ClientIds : Billed(info'[c])
    BY DEF RecordsOK
  <1>2. \A c \in Active' : Within(info'[c], Slack)
    <2>1. k \in Active' => Within(info'[k], Slack)
      BY SlackType DEF Within
    <2>. QED  BY <2>1 DEF RecordsOK
  <1>. QED  BY <1>1, <1>2 DEF RecordsOK, Slack

LEMMA TickKeepsBills ==
  ASSUME TypeInv, BillInv, OnTick
  PROVE  BillInv'
  <1>. DEFINE now == [c \in ClientIds |-> Ticked(info[c])]
  <1>f. /\ Active \subseteq ClientIds /\ Expiring \subseteq Active
        /\ \A c \in ClientIds : info[c] \in ClientInfo
    BY TypeFacts DEF Expiring
  <1>1. \A c \in ClientIds : Billed(now[c])
    BY <1>f, TickedIsBilled
  <1>2. \A c \in Active : Within(now[c], 1)
    <2>1. Slack = 0
      BY DEF OnTick, TimerDue, Slack
    <2>. QED  BY <1>f, <2>1, TickedIsBilled DEF BillInv, RecordsOK
  <1>3. \A r \in sessions' : RowOK(r)
    <2>1. PICK fails \in SUBSET Expiring : Save(Expiring, now, fails)
      BY DEF OnTick
    <2>2. \A c \in Expiring : Billed(now[c]) /\ Within(now[c], 1)
      BY <1>f, <1>1, <1>2
    <2>3. \A r \in sessions : RowOK(r)
      BY DEF BillInv
    <2>. HIDE DEF now
    <2>. QED  BY <2>1, <2>2, <2>3, RowsStep
  <1>4. /\ info' = [c \in ClientIds |-> IF c \in Expiring THEN Ended(now[c])
                                        ELSE IF c \in Active THEN now[c] ELSE info[c]]
        /\ clients' = clients /\ ticked' = TRUE
    BY DEF OnTick
  <1>5. \A c \in ClientIds : /\ Billed(Ended(now[c]))
                             /\ ~Ended(now[c]).session_active
                             /\ now[c].session_active = info[c].session_active
    <2>1. \A c \in ClientIds : now[c] \in ClientInfo
      BY <1>f, TickedType
    <2>2. \A c \in ClientIds : now[c].session_active = info[c].session_active
      BY <1>f, TickedType
    <2>. HIDE DEF now
    <2>. QED  BY <2>1, <2>2, EndedType, ZeroIsBilled
  <1>6. \A c \in ClientIds : Billed(info'[c])
    <2>. HIDE DEF now
    <2>. QED  BY <1>1, <1>4, <1>5 DEF BillInv, RecordsOK
  <1>7. \A c \in Active' : c \in Active /\ info'[c] = now[c]
    <2>. HIDE DEF now
    <2>1. clients \in SUBSET ClientIds
      BY TypeFacts
    <2>. QED  BY <1>4, <1>5, <2>1 DEF Active
  <1>8. RecordsOK'
    <2>. HIDE DEF now
    <2>1. \A c \in Active' : Within(info'[c], 1)
      BY <1>2, <1>7
    <2>. QED  BY <1>4, <1>6, <2>1 DEF RecordsOK, Slack
  <1>. QED  BY <1>3, <1>8 DEF BillInv

LEMMA SecondKeepsBills ==
  ASSUME TypeInv, BillInv, Second
  PROVE  BillInv'
  <1>f. /\ Active \subseteq ClientIds
        /\ \A c \in ClientIds : info[c] \in ClientInfo
    BY TypeFacts
  <1>1. /\ clients' = clients /\ sessions' = sessions /\ ticked' = FALSE
        /\ info' = [c \in ClientIds |->
                      IF c \in Active THEN [info[c] EXCEPT !.age = @ + 1] ELSE info[c]]
    BY DEF Second
  <1>2. \A c \in ClientIds : /\ info'[c].session_active = info[c].session_active
                             /\ info'[c].package = info[c].package
                             /\ info'[c].elapsed_sec = info[c].elapsed_sec
                             /\ info'[c].current_cost = info[c].current_cost
                             /\ c \in Active => info'[c].age = info[c].age + 1
    BY <1>f, <1>1 DEF ClientInfo
  <1>3. Active' = Active
    <2>1. clients \in SUBSET ClientIds
      BY TypeFacts
    <2>. QED  BY <1>1, <1>2, <2>1 DEF Active
  <1>4. \A c \in ClientIds : Billed(info'[c])
    BY <1>2 DEF BillInv, RecordsOK, Billed
  <1>5. \A c \in Active' : Within(info'[c], 0)
    <2>. SUFFICES ASSUME NEW c \in Active PROVE Within(info'[c], 0)
      BY <1>3
    <2>1. info[c].age \in Nat /\ info[c].elapsed_sec \in Nat
      BY <1>f DEF ClientInfo
    <2>2. info[c].elapsed_sec <= info[c].age + Slack
      BY DEF BillInv, RecordsOK, Within
    <2>. QED  BY <1>f, <1>2, <2>1, <2>2, SlackType DEF Within
  <1>. QED  BY <1>1, <1>4, <1>5 DEF BillInv, RecordsOK, Slack

(* Saving a session of records that are right, and what is left in them.   *)
LEMMA SaveKeepsBills ==
  ASSUME TypeInv, BillInv, NEW S \in SUBSET Active, NEW fails, Save(S, info, fails)
  PROVE  \A r \in sessions' : RowOK(r)
  <1>1. \A c \in S : Billed(info[c]) /\ Within(info[c], 1)
    <2>. SUFFICES ASSUME NEW c \in S PROVE Billed(info[c]) /\ Within(info[c], 1)
      OBVIOUS
    <2>1. c \in ClientIds /\ info[c].age \in Nat /\ info[c].elapsed_sec \in Nat
      BY TypeFacts DEF ClientInfo
    <2>2. Billed(info[c]) /\ info[c].elapsed_sec <= info[c].age + Slack
      BY <2>1 DEF BillInv, RecordsOK, Within
    <2>. QED  BY <2>1, <2>2, SlackType DEF Within
  <1>. QED  BY <1>1, RowsStep DEF BillInv

LEMMA BillStep ==
  ASSUME TypeInv, BillInv, [Next]_vars
  PROVE  BillInv'
  <1>f. /\ clients \in SUBSET ClientIds
        /\ Active \subseteq ClientIds
        /\ \A c \in ClientIds : info[c] \in ClientInfo
        /\ info \in [ClientIds -> ClientInfo]
        /\ RecordsOK
        /\ \A r \in sessions : RowOK(r)
    BY TypeFacts DEF TypeInv, TypeOK, BillInv
  <1>n. Billed(NewClient) /\ ~NewClient.session_active
    BY ZeroIsBilled DEF NewClient
  <1>1. CASE OnAcceptReady
    <2>1. nextId \in ClientIds
      BY <1>1, BoundsAssumption DEF OnAcceptReady, TypeInv, TypeOK, ClientIds
    <2>2. /\ info' = [info EXCEPT ![nextId] = NewClient]
          /\ clients' = clients \cup {nextId}
          /\ ticked' = ticked /\ sessions' = sessions
      BY <1>1 DEF OnAcceptReady
    <2>3. nextId \notin Active' /\ Active' \subseteq Active
      BY <1>f, <1>n, <2>1, <2>2 DEF Active
    <2>4. RecordsOK'
      BY <1>f, <1>n, <2>1, <2>2, <2>3, OtherRecords
    <2>. QED  BY <1>f, <2>2, <2>4 DEF BillInv
  <1>2. ASSUME NEW d \in ClientIds, NEW line \in ClientLine, OnClientData(d, line)
        PROVE  BillInv'
    <2>1. \A c \in ClientIds : SameBill(c) /\ info'[c].session_active = info[c].session_active
      BY <1>2, <1>f DEF OnClientData, ClientInfo, SameBill
    <2>2. clients' = clients /\ ticked' = ticked /\ sessions' = sessions
      BY <1>2 DEF OnClientData
    <2>3. Active' \subseteq Active
      BY <1>f, <2>1, <2>2 DEF Active
    <2>. QED  BY <1>f, <2>1, <2>2, <2>3, SameRecords DEF BillInv
  <1>3. ASSUME NEW d \in ClientIds, OnClientDisconnect(d)
        PROVE  BillInv'
    <2>1. /\ info' = [info EXCEPT ![d] = NewClient]
          /\ clients' = clients \ {d}
          /\ ticked' = ticked
      BY <1>3 DEF OnClientDisconnect
    <2>2. PICK fails : Save({d} \cap Active, info, fails)
      BY <1>3 DEF OnClientDisconnect
    <2>3. \A r \in sessions' : RowOK(r)
      BY <2>2, SaveKeepsBills
    <2>4. d \notin Active' /\ Active' \subseteq Active
      BY <1>f, <2>1 DEF Active
    <2>5. RecordsOK'
      BY <1>f, <1>n, <2>1, <2>4, OtherRecords
    <2>. QED  BY <2>3, <2>5 DEF BillInv
  <1>4. CASE OnTick
    BY <1>4, TickKeepsBills
  <1>5. CASE Second
    BY <1>5, SecondKeepsBills
  <1>6. CASE \/ OpenOther \/ Dismiss \/ UNCHANGED vars
             \/ OnBroadcastMenuClicked
             \/ \E d \in ClientIds : OpenStart(d) \/ OpenStop(d) \/ SendChat(d) \/ PeerRead(d)
    <2>1. UNCHANGED <<info, clients, ticked, sessions>>
      BY <1>6 DEF OpenOther, Dismiss, vars, OpenStart, OpenStop, SendChat,
                 OnBroadcastMenuClicked, PeerRead
    <2>2. Active' = Active /\ \A c \in ClientIds : SameBill(c)
      BY <2>1 DEF Active, SameBill
    <2>. QED  BY <1>f, <2>1, <2>2, SameRecords DEF BillInv
  <1>7. CASE Start
    <2>1. Active' = {} /\ info' = info /\ sessions' = sessions
      BY <1>7 DEF Start, TypeInv, Active
    <2>. QED  BY <1>f, <2>1 DEF BillInv, RecordsOK
  <1>8. ASSUME NEW k \in ClientIds \cup {0}, NEW p \in Packages, NEW u \in Users, ConfirmStart(k, p, u)
        PROVE  BillInv'
    <2>1. ticked' = ticked /\ sessions' = sessions /\ clients' = clients
      BY <1>8 DEF ConfirmStart
    <2>2. CASE k \in clients
      <3>. DEFINE new == Started(p, u, nsess + 1)
      <3>1. info' = [info EXCEPT ![k] = new]
        BY <1>8, <2>2 DEF ConfirmStart
      <3>2. new.elapsed_sec = 0 /\ new.current_cost = 0 /\ new.age = 0
        BY DEF Started
      <3>. HIDE DEF new
      <3>3. Billed(new) /\ Within(new, 0)
        BY <3>2, ZeroIsBilled DEF Within
      <3>4. Active' \subseteq Active \cup {k} /\ Active' \subseteq ClientIds
        BY <1>f, <2>1, <3>1 DEF Active
      <3>5. RecordsOK'
        BY <1>f, <2>1, <2>2, <3>1, <3>2, <3>3, <3>4, OtherRecords
      <3>. QED  BY <1>f, <2>1, <3>5 DEF BillInv
    <2>3. CASE k \notin clients
      <3>1. info' = info
        BY <1>8, <2>3 DEF ConfirmStart
      <3>2. Active' = Active /\ \A c \in ClientIds : SameBill(c)
        BY <2>1, <3>1 DEF Active, SameBill
      <3>. QED  BY <1>f, <2>1, <3>2, SameRecords DEF BillInv
    <2>. QED  BY <2>2, <2>3
  <1>9. CASE ConfirmStop
    <2>. DEFINE d == dialog.cid
    <2>1. /\ clients' = clients /\ ticked' = ticked
          /\ IF {d} \cap Active = {} THEN UNCHANGED info
             ELSE info' = [info EXCEPT ![d] = Ended(@)]
      BY <1>9 DEF ConfirmStop
    <2>2. PICK fails : Save({d} \cap Active, info, fails)
      BY <1>9 DEF ConfirmStop
    <2>. HIDE DEF d
    <2>3. \A r \in sessions' : RowOK(r)
      BY <2>2, SaveKeepsBills
    <2>4. CASE d \in Active
      <3>1. info' = [info EXCEPT ![d] = Ended(info[d])] /\ d \in ClientIds
        BY <1>f, <2>1, <2>4
      <3>2. Billed(Ended(info[d])) /\ ~Ended(info[d]).session_active
        BY <1>f, <3>1, EndedType, ZeroIsBilled
      <3>3. d \notin Active' /\ Active' \subseteq Active
        BY <1>f, <2>1, <3>1, <3>2 DEF Active
      <3>4. RecordsOK'
        BY <1>f, <2>1, <3>1, <3>2, <3>3, OtherRecords
      <3>. QED  BY <2>3, <3>4 DEF BillInv
    <2>5. CASE d \notin Active
      <3>1. info' = info
        BY <2>1, <2>5
      <3>2. Active' = Active /\ \A c \in ClientIds : SameBill(c)
        BY <2>1, <3>1 DEF Active, SameBill
      <3>. QED  BY <1>f, <2>1, <2>3, <3>2, SameRecords DEF BillInv
    <2>. QED  BY <2>4, <2>5
  <1>10. ASSUME NEW S, NEW lines, ConfirmOther(S, lines)
         PROVE  BillInv'
    <2>1. UNCHANGED <<info, clients, ticked, sessions>>
      BY <1>10 DEF ConfirmOther
    <2>2. Active' = Active /\ \A c \in ClientIds : SameBill(c)
      BY <2>1 DEF Active, SameBill
    <2>. QED  BY <1>f, <2>1, <2>2, SameRecords DEF BillInv
  <1>11. ASSUME NEW d \in ClientIds, OnLockClicked(d)
         PROVE  BillInv'
    <2>1. \A c \in ClientIds : SameBill(c) /\ info'[c].session_active = info[c].session_active
      BY <1>11, <1>f DEF OnLockClicked, ClientInfo, SameBill
    <2>2. clients' = clients /\ ticked' = ticked /\ sessions' = sessions
      BY <1>11 DEF OnLockClicked
    <2>3. Active' \subseteq Active
      BY <1>f, <2>1, <2>2 DEF Active
    <2>. QED  BY <1>f, <2>1, <2>2, <2>3, SameRecords DEF BillInv
  <1>12. CASE LoseProcess
    <2>1. /\ clients' = {} /\ sessions' = sessions
          /\ info' = [c \in ClientIds |-> NewClient]
      BY <1>12 DEF LoseProcess
    <2>2. Active' = {}
      BY <2>1 DEF Active
    <2>3. \A c \in ClientIds : Billed(info'[c])
      BY <1>n, <2>1
    <2>. QED  BY <1>f, <2>1, <2>2, <2>3 DEF BillInv, RecordsOK
  <1>. QED
    BY <1>1, <1>2, <1>3, <1>4, <1>5, <1>6, <1>7, <1>8, <1>9, <1>10, <1>11, <1>12
    DEF Next, Work, Talk, Sockets, Admin, Process, Stop, Crash

LEMMA BillAlways == Spec => []BillInv
  <1>1. Init => BillInv
    <2>1. Billed(NewClient)
      BY ZeroIsBilled DEF NewClient
    <2>. QED  BY <2>1 DEF Init, BillInv, RecordsOK, Active
  <1>2. Spec => []TypeInv
    BY InitTypeInv, TypeStep, PTL DEF Spec
  <1>3. TypeInv /\ BillInv /\ [Next]_vars => BillInv'
    BY BillStep
  <1>. QED  BY <1>1, <1>2, <1>3, PTL DEF Spec

(* From the first tick on current_cost is what calcCost makes of the       *)
(* elapsed time whenever it is shown or saved, in every record of clients_ *)
(* and every row.                                                          *)
THEOREM CostsAreCurrent == Spec => []CostIsCurrent
  <1>1. Spec => []TypeInv
    BY InitTypeInv, TypeStep, PTL DEF Spec
  <1>2. TypeInv /\ BillInv => CostIsCurrent
    BY BillInvGives
  <1>. QED  BY <1>1, <1>2, BillAlways, PTL

(* onTick never counts more seconds than went by but the one the session   *)
(* began in, for any number of late ticks, dialogs and earlier sessions.   *)
THEOREM BillsAreWithinTime == Spec => []BilledWithinWallClock
  <1>1. Spec => []TypeInv
    BY InitTypeInv, TypeStep, PTL DEF Spec
  <1>2. TypeInv /\ BillInv => BilledWithinWallClock
    BY BillInvGives
  <1>. QED  BY <1>1, <1>2, BillAlways, PTL

\* The fates of the sessions in terms of where their numbers are kept.
FatesOK ==
  \A s \in Sids :
    /\ s > nsess => FateOf(s) = "unopened"
    /\ s \in Running => FateOf(s) = "open"
    /\ s \in failed => FateOf(s) = "failed"
    /\ s \in dropped => FateOf(s) = "dropped"
    /\ s \in Recorded => FateOf(s) = "recorded"
    /\ s <= nsess => s \in Running \cup Recorded \cup failed \cup dropped

LEMMA FateIs == TypeInv /\ Accounted => FatesOK
  <1>. SUFFICES ASSUME TypeInv, Accounted, NEW s \in Sids
                PROVE  /\ s > nsess => FateOf(s) = "unopened"
                       /\ s \in Running => FateOf(s) = "open"
                       /\ s \in failed => FateOf(s) = "failed"
                       /\ s \in dropped => FateOf(s) = "dropped"
                       /\ s \in Recorded => FateOf(s) = "recorded"
                       /\ s <= nsess => s \in Running \cup Recorded \cup failed \cup dropped
    BY DEF FatesOK
  <1>1. s \in Nat /\ nsess \in Nat
    BY BoundsAssumption, TypeFacts DEF Sids
  <1>2. s \in Recorded => RecordedOnce(s)
    BY DEF Accounted, RecordedOnce, Recorded
  <1>3. s \in Running \cup Recorded \cup failed \cup dropped => ~(s > nsess)
    BY <1>1 DEF Accounted
  <1>4. /\ s \in failed => s \notin Running
        /\ s \in dropped => s \notin Running /\ s \notin failed
        /\ s \in Recorded => s \notin Running /\ s \notin failed /\ s \notin dropped
    BY DEF Accounted
  <1>5. s <= nsess => s \in 1..nsess
    BY <1>1, BoundsAssumption DEF Sids
  <1>6. s <= nsess => s \in Running \cup Recorded \cup failed \cup dropped
    BY <1>5 DEF Accounted
  <1>. QED  BY <1>2, <1>3, <1>4, <1>6 DEF FateOf

\* Where a step leaves the session numbers, fates are what they were.
LEMMA SameFates ==
  ASSUME FatesOK, FatesOK', Running' = Running, Recorded' = Recorded,
         UNCHANGED <<failed, dropped, nsess>>, nsess \in Nat
  PROVE  \A s \in Sids : FateOf(s)' = FateOf(s)
  <1>. SUFFICES ASSUME NEW s \in Sids PROVE FateOf(s)' = FateOf(s)
    OBVIOUS
  <1>1. s > nsess \/ s <= nsess
    BY BoundsAssumption DEF Sids
  <1>2. CASE s > nsess
    BY <1>2 DEF FatesOK
  <1>3. CASE s <= nsess
    BY <1>3 DEF FatesOK
  <1>. QED  BY <1>1, <1>2, <1>3

\* Where the numbers of settled sessions go.
LEMMA SettledSets ==
  ASSUME NEW S \in SUBSET Active, NEW fails \in SUBSET S, NEW f, Settled(S, f, fails)
  PROVE  /\ Running' = {info[c].sid : c \in Active \ S}
         /\ failed' = failed \cup {info[c].sid : c \in fails}
         /\ Recorded' = Recorded \cup {info[c].sid : c \in S \ fails}
  <1>. DEFINE ok == S \ fails
              new == {Row(f[c], Place(c, ok)) : c \in ok}
  <1>1. \A c \in ok : Row(f[c], Place(c, ok)).sid = info[c].sid
    BY DEF Settled, Row
  <1>2. sessions' = sessions \cup new
    BY DEF Settled, Save
  <1>3. failed' = failed \cup {info[c].sid : c \in fails}
    BY DEF Settled, Save
  <1>4. Recorded' = Recorded \cup {info[c].sid : c \in ok}
    BY <1>1, <1>2 DEF Recorded
  <1>5. Running' = {info[c].sid : c \in Active \ S}
    BY DEF Running, Settled
  <1>. QED  BY <1>3, <1>4, <1>5

LEMMA UpStep ==
  ASSUME [Next]_vars
  PROVE  up' = up \/ (~up /\ up') \/ (up /\ LoseProcess)
  <1>1. CASE Next
    BY <1>1 DEF Next, Work, Talk, Sockets, Admin, Process, Stop, Crash, Start, OnAcceptReady,
                OnClientData, OnClientDisconnect, PeerRead, OnTick, Second, OpenOther, Dismiss,
                OpenStart, OpenStop, OnLockClicked, SendChat, OnBroadcastMenuClicked,
                ConfirmStart, ConfirmStop, ConfirmOther
  <1>. QED  BY <1>1 DEF vars

\* What the ledger sees of the server.
fates == [s \in Sids |-> FateOf(s)]

LEMMA FatesStep ==
  ASSUME BaseInv, Accounted, [Next]_vars
  PROVE  \/ UNCHANGED <<up, fates>>
         \/ ~up /\ up' = TRUE /\ fates' = fates
         \/ /\ up /\ up' = up
            /\ \E s \in Sids : /\ fates[s] = "unopened"
                               /\ \A r \in Sids : r < s => fates[r] # "unopened"
                               /\ fates' = [fates EXCEPT ![s] = "open"]
         \/ /\ up /\ up' = up
            /\ \E S \in SUBSET {s \in Sids : fates[s] = "open"} : \E F \in SUBSET S :
                 /\ S # {}
                 /\ fates' = [s \in Sids |-> IF s \in F THEN "failed"
                                             ELSE IF s \in S THEN "recorded"
                                             ELSE fates[s]]
         \/ /\ up /\ up' = FALSE
            /\ fates' = [s \in Sids |-> IF fates[s] = "open" THEN "dropped" ELSE fates[s]]
  <1>t. TypeInv
    BY DEF BaseInv
  <1>f. /\ Active \subseteq ClientIds
        /\ nsess \in Nat
        /\ \A c \in Active : info[c].sid \in 1..nsess /\ info[c].sid \in Sids
    BY <1>t, TypeFacts DEF TypeInv
  <1>u. up \in BOOLEAN /\ (~up => Active = {})
    BY <1>t DEF TypeInv, TypeOK, Active
  <1>n. Sids \subseteq Nat
    BY BoundsAssumption DEF Sids
  <1>a. Accounted' /\ nsess' \in Nat
    BY AccountedStep, TypeStep, TypeFacts, <1>f DEF BaseInv, TypeInv, TypeOK
  <1>s. Sids' = Sids
    BY DEF Sids
  <1>1. FatesOK
    BY <1>t, FateIs
  <1>2. FatesOK'
    <2>1. TypeInv'
      BY <1>t, TypeStep
    <2>. QED  BY <1>a, <2>1, FateIs, PTL
  <1>3. fates' = [s \in Sids |-> FateOf(s)'] /\ fates = [s \in Sids |-> FateOf(s)]
    BY DEF fates, Sids
  <1>4. ASSUME \A s \in Sids : FateOf(s)' = FateOf(s)
        PROVE  fates' = fates
    BY <1>3, <1>4
  <1>5. CASE up /\ LoseProcess
    <2>1. up' = FALSE /\ Running' = {} /\ dropped' = dropped \cup Running
          /\ Recorded' = Recorded /\ UNCHANGED <<failed, nsess>>
      BY <1>5 DEF LoseProcess, Active, Running, Recorded
    <2>2. ASSUME NEW s \in Sids
          PROVE  FateOf(s)' = IF FateOf(s) = "open" THEN "dropped" ELSE FateOf(s)
      <3>1. s > nsess \/ s <= nsess
        BY <1>f, <1>n
      <3>2. CASE s > nsess
        BY <1>1, <1>2, <2>1, <3>2 DEF FatesOK
      <3>3. CASE s <= nsess
        BY <1>1, <1>2, <2>1, <3>3 DEF FatesOK
      <3>. QED  BY <3>1, <3>2, <3>3
    <2>3. fates' = [s \in Sids |-> IF fates[s] = "open" THEN "dropped" ELSE fates[s]]
      BY <1>3, <2>2
    <2>. QED  BY <1>5, <2>1, <2>3
  <1>6. CASE Untouched
    <2>1. Running' = Running /\ Recorded' = Recorded /\ UNCHANGED <<failed, dropped, nsess>>
      BY <1>6 DEF Untouched, Running, Recorded
    <2>2. fates' = fates
      BY <1>1, <1>2, <1>4, <1>f, <2>1, SameFates
    <2>. QED  BY <1>5, <1>u, <2>2, UpStep
  <1>7. ASSUME NEW k \in clients, Opened(k)
        PROVE  \E s \in Sids : /\ fates[s] = "unopened"
                               /\ \A r \in Sids : r < s => fates[r] # "unopened"
                               /\ fates' = [fates EXCEPT ![s] = "open"]
    <2>. DEFINE s == nsess + 1
    <2>1. s \in Sids
      <3>1. nsess' \in 0..MaxSessions
        BY <1>t, TypeStep DEF TypeInv, TypeOK
      <3>. QED  BY <1>7, <1>f, <3>1, BoundsAssumption DEF Opened, Sids
    <2>2. /\ Running' = Running \cup {s} /\ Recorded' = Recorded
          /\ nsess' = s /\ UNCHANGED <<failed, dropped>>
      <3>1. k \notin Active
        BY <1>7 DEF Opened, BaseInv, StartTargetsFree
      <3>. QED  BY <1>7, <3>1 DEF Opened, Running, Recorded
    <2>3. fates[s] = "unopened"
      BY <1>1, <1>3, <1>f, <2>1 DEF FatesOK
    <2>4. ASSUME NEW r \in Sids, r < s
          PROVE  fates[r] # "unopened"
      <3>1. r <= nsess
        BY <1>f, <1>n, <2>4
      <3>. QED  BY <1>1, <1>3, <3>1 DEF FatesOK
    <2>5. ASSUME NEW r \in Sids
          PROVE  FateOf(r)' = IF r = s THEN "open" ELSE FateOf(r)
      <3>1. CASE r = s
        BY <1>2, <2>2, <3>1 DEF FatesOK
      <3>2. CASE r <= nsess
        BY <1>1, <1>2, <1>f, <1>n, <2>2, <3>2 DEF FatesOK
      <3>3. CASE r > nsess /\ r # s
        <4>1. r > nsess'
          BY <1>f, <1>n, <2>2, <3>3
        <4>. QED  BY <1>1, <1>2, <3>3, <4>1 DEF FatesOK
      <3>4. r <= nsess \/ r > nsess
        BY <1>f, <1>n
      <3>. QED  BY <3>1, <3>2, <3>3, <3>4
    <2>6. fates' = [fates EXCEPT ![s] = "open"]
      <3>. HIDE DEF s
      <3>. QED  BY <1>3, <2>5
    <2>. QED  BY <2>1, <2>3, <2>4, <2>6
  <1>8. ASSUME NEW S \in SUBSET Active, NEW fails \in SUBSET S,
               NEW f \in [ClientIds -> ClientInfo], Settled(S, f, fails), S # {}
        PROVE  \E T \in SUBSET {s \in Sids : fates[s] = "open"} : \E F \in SUBSET T :
                 /\ T # {}
                 /\ fates' = [s \in Sids |-> IF s \in F THEN "failed"
                                             ELSE IF s \in T THEN "recorded"
                                             ELSE fates[s]]
    <2>. DEFINE T == {info[c].sid : c \in S}
                F == {info[c].sid : c \in fails}
    <2>1. /\ Running' = Running \ T
          /\ failed' = failed \cup F
          /\ Recorded' = Recorded \cup (T \ F)
      <3>1. /\ Running' = {info[c].sid : c \in Active \ S}
            /\ failed' = failed \cup {info[c].sid : c \in fails}
            /\ Recorded' = Recorded \cup {info[c].sid : c \in S \ fails}
        BY <1>8, SettledSets
      <3>2. \A c, d \in Active : info[c].sid = info[d].sid => c = d
        BY DEF Accounted
      <3>3. {info[c].sid : c \in Active \ S} = Running \ T
        BY <3>2 DEF Running
      <3>4. {info[c].sid : c \in S \ fails} = T \ F
        BY <3>2
      <3>. QED  BY <3>1, <3>3, <3>4
    <2>2. T \subseteq Running /\ T \subseteq Sids /\ F \subseteq T /\ T # {}
      BY <1>8, <1>f DEF Running
    <2>3. UNCHANGED <<nsess, dropped>>
      BY <1>8 DEF Settled
    <2>. HIDE DEF T, F
    <2>4. T \in SUBSET {s \in Sids : fates[s] = "open"}
      BY <1>1, <1>3, <2>2 DEF FatesOK
    <2>5. ASSUME NEW s \in Sids
          PROVE  FateOf(s)' = IF s \in F THEN "failed"
                              ELSE IF s \in T THEN "recorded"
                              ELSE FateOf(s)
      <3>1. CASE s \in T
        BY <1>2, <2>1, <2>2, <3>1 DEF FatesOK
      <3>2. CASE s > nsess
        <4>1. s \notin T
          BY <1>f, <1>n, <2>2, <3>2 DEF Accounted
        <4>. QED  BY <1>1, <1>2, <2>2, <2>3, <3>2, <4>1 DEF FatesOK
      <3>3. CASE s \notin T /\ s <= nsess
        BY <1>1, <1>2, <2>1, <2>2, <2>3, <3>3 DEF FatesOK
      <3>4. s <= nsess \/ s > nsess
        BY <1>f, <1>n
      <3>. QED  BY <3>1, <3>2, <3>3, <3>4
    <2>6. fates' = [s \in Sids |-> IF s \in F THEN "failed"
                                   ELSE IF s \in T THEN "recorded"
                                   ELSE fates[s]]
      BY <1>3, <2>5
    <2>. QED  BY <2>2, <2>4, <2>6
  <1>9. CASE SomeSettled
    <2>s. PICK S \in SUBSET Active :
            \E fails \in SUBSET S : \E f \in [ClientIds -> ClientInfo] : Settled(S, f, fails)
      BY <1>9 DEF SomeSettled
    <2>l. PICK fails \in SUBSET S :
            \E f \in [ClientIds -> ClientInfo] : Settled(S, f, fails)
      BY <2>s
    <2>1. PICK f \in [ClientIds -> ClientInfo] : Settled(S, f, fails)
      BY <2>l
    <2>2. CASE S = {}
      <3>1. /\ Running' = Running /\ Recorded' = Recorded
            /\ UNCHANGED <<failed, dropped, nsess>>
        <4>1. UNCHANGED <<dropped, nsess>>
          BY <2>1 DEF Settled
        <4>2. /\ Running' = {info[c].sid : c \in Active \ S}
              /\ failed' = failed \cup {info[c].sid : c \in fails}
              /\ Recorded' = Recorded \cup {info[c].sid : c \in S \ fails}
          BY <2>1, SettledSets
        <4>3. Active \ S = Active /\ fails = {} /\ S \ fails = {}
          BY <2>2
        <4>4. Running' = Running
          BY <4>2, <4>3 DEF Running
        <4>5. failed' = failed /\ Recorded' = Recorded
          BY <4>2, <4>3
        <4>. QED  BY <4>1, <4>4, <4>5
      <3>2. fates' = fates
        BY <1>1, <1>2, <1>4, <1>f, <3>1, SameFates
      <3>. QED  BY <1>5, <1>u, <3>2, UpStep
    <2>3. CASE S # {}
      <3>1. up /\ (up' = up \/ LoseProcess)
        BY <1>u, <2>3, UpStep
      <3>2. CASE up' = up
        BY <1>8, <2>1, <2>3, <3>1, <3>2
      <3>. QED  BY <1>5, <3>1, <3>2
    <2>. QED  BY <2>2, <2>3
  <1>10. CASE \E k \in clients : Opened(k)
    <2>1. up /\ (up' = up \/ LoseProcess)
      BY <1>10, <1>t, UpStep DEF TypeInv
    <2>. QED  BY <1>5, <1>7, <1>10, <2>1
  <1>11. CASE LoseProcess /\ ~up
    <2>1. Untouched
      BY <1>11, <1>u DEF LoseProcess, Untouched, Active
    <2>. QED  BY <1>6, <2>1
  <1>. QED  BY <1>t, <1>u, <1>5, <1>6, <1>9, <1>10, <1>11, EveryStep

(* The server implements SessionLedger: FateOf maps every step to one of   *)
(* the ledger's or to none.                                                *)
THEOREM LedgerIsKept == Spec => KeepsLedger
  <1>1. Init => Ledger!LedgerInit
    <2>. SUFFICES ASSUME Init PROVE Ledger!LedgerInit
      OBVIOUS
    <2>1. \A s \in Sids : s > nsess
      BY BoundsAssumption DEF Init, Sids
    <2>2. \A s \in Sids : FateOf(s) = "unopened"
      BY <2>1 DEF FateOf
    <2>. QED  BY <2>2 DEF Init, Ledger!LedgerInit
  <1>2. ASSUME BaseInv, Accounted, [Next]_vars
        PROVE  [Ledger!LedgerNext]_(Ledger!ledgerVars)
    BY <1>2, FatesStep
    DEF fates, Ledger!LedgerNext, Ledger!ledgerVars, Ledger!Open, Ledger!Settle, Ledger!Down,
        Ledger!Up, Ledger!With
  <1>3. Spec => []Accounted
    BY SessionsAccounted
  <1>. QED
    BY <1>1, <1>2, <1>3, BaseInvariant, PTL DEF Spec, KeepsLedger, Ledger!LedgerSpec
=============================================================================
