-------------------------- MODULE AdminViewsProofs --------------------------
(***************************************************************************)
(* Theorems about AdminViews, for every number of stations, sessions and   *)
(* days and every length of the session history.                           *)
(***************************************************************************)
EXTENDS AdminViews, BillingServerProofs

(* -------------------------- the ids of the rows ------------------------ *)

(* Rows are numbered through, in the order they were saved: the table's    *)
(* AUTOINCREMENT, of which no row is ever deleted.                         *)
RowsNumbered ==
  /\ \A r \in sessions : r.id \in 1..Cardinality(sessions)
  /\ \A q, r \in sessions : q.id = r.id => q = r

\* The ids that one step gives out follow those in the table, one by one.
LEMMA PlacesFollow ==
  ASSUME IsFiniteSet(sessions), NEW S \in SUBSET ClientIds
  PROVE  /\ \A c \in S : /\ Place(c, S) \in Nat
                         /\ Cardinality(sessions) < Place(c, S)
                         /\ Place(c, S) <= Cardinality(sessions) + Cardinality(S)
         /\ \A c, d \in S : Place(c, S) = Place(d, S) => c = d
  <1>. DEFINE upto(c) == {d \in S : d <= c}
  <1>n. S \subseteq Int
    BY BoundsAssumption DEF ClientIds
  <1>1. Cardinality(sessions) \in Nat
    BY FS_CardinalityType
  <1>2. IsFiniteSet(S) /\ Cardinality(S) \in Nat
    BY ClientIdsFinite
  <1>3. \A c \in S : /\ upto(c) \in SUBSET S
                     /\ IsFiniteSet(upto(c))
                     /\ Cardinality(upto(c)) \in Nat
                     /\ Cardinality(upto(c)) <= Cardinality(S)
    BY <1>2, FS_Subset, FS_CardinalityType
  <1>4. \A c \in S : Cardinality(upto(c)) # 0
    <2>1. \A c \in S : c \in upto(c)
      BY <1>n
    <2>. HIDE DEF upto
    <2>. QED  BY <1>3, <2>1, FS_EmptySet
  <1>5. ASSUME NEW c \in S, NEW d \in S, c < d
        PROVE  Cardinality(upto(c)) # Cardinality(upto(d))
    <2>1. upto(c) \in SUBSET upto(d) /\ d \in upto(d) /\ d \notin upto(c)
      <3>1. \A x \in S : x <= c => x <= d
        BY <1>n, <1>5
      <3>2. d <= d /\ ~(d <= c)
        BY <1>n, <1>5
      <3>. QED  BY <3>1, <3>2
    <2>2. IsFiniteSet(upto(d)) /\ upto(c) # upto(d)
      BY <1>3, <2>1
    <2>. HIDE DEF upto
    <2>. QED  BY <2>1, <2>2, FS_Subset
  <1>6. \A c \in S : Place(c, S) = Cardinality(sessions) + Cardinality(upto(c))
    BY DEF Place
  <1>. HIDE DEF upto
  <1>7. \A c, d \in S : Place(c, S) = Place(d, S) => c = d
    <2>. SUFFICES ASSUME NEW c \in S, NEW d \in S, Place(c, S) = Place(d, S)
                  PROVE  c = d
      OBVIOUS
    <2>1. Cardinality(upto(c)) = Cardinality(upto(d))
      BY <1>1, <1>3, <1>6
    <2>2. ~(c < d) /\ ~(d < c)
      BY <1>5, <2>1
    <2>. QED  BY <1>n, <2>2
  <1>. QED  BY <1>1, <1>2, <1>3, <1>4, <1>6, <1>7

LEMMA SaveNumbers ==
  ASSUME IsFiniteSet(sessions), RowsNumbered,
         NEW S \in SUBSET ClientIds, NEW fails \in SUBSET S, NEW f, Save(S, f, fails)
  PROVE  RowsNumbered'
  <1>. DEFINE T == S \ fails
              new == {Row(f[c], Place(c, T)) : c \in T}
              row == [c \in T |-> Row(f[c], Place(c, T))]
              n == Cardinality(sessions)
  <1>1. n \in Nat /\ IsFiniteSet(T) /\ Cardinality(T) \in Nat
    BY FS_CardinalityType, ClientIdsFinite
  <1>2. /\ \A c \in T : /\ Place(c, T) \in Nat
                        /\ n < Place(c, T)
                        /\ Place(c, T) <= n + Cardinality(T)
        /\ \A c, d \in T : Place(c, T) = Place(d, T) => c = d
    BY PlacesFollow
  <1>3. sessions' = sessions \cup new
    BY DEF Save
  <1>4. \A c \in T : row[c].id = Place(c, T) /\ row[c] = Row(f[c], Place(c, T))
    BY DEF Row
  <1>5. \A q \in new : \E c \in T : q = row[c]
    BY <1>4
  <1>6. row \in Bijection(T, new)
    <2>1. row \in Surjection(T, new)
      BY DEF Surjection
    <2>2. \A c, d \in T : row[c] = row[d] => c = d
      <3>. HIDE DEF row
      <3>. QED  BY <1>2, <1>4
    <2>. HIDE DEF row, new
    <2>. QED  BY <2>1, <2>2 DEF Surjection, Injection, IsInjective, Bijection
  <1>. HIDE DEF T, new, row, n
  <1>7. IsFiniteSet(new) /\ Cardinality(new) = Cardinality(T)
    BY <1>1, <1>6, FS_Bijection DEF ExistsBijection
  <1>8. \A q \in new : q.id \in Nat /\ n < q.id /\ q.id <= n + Cardinality(T)
    BY <1>2, <1>4, <1>5
  <1>9. \A r \in sessions : r.id \in Nat /\ 1 <= r.id /\ r.id <= n
    BY <1>1 DEF RowsNumbered, n
  <1>10. sessions \cap new = {}
    <2>. SUFFICES ASSUME NEW r \in sessions, r \in new PROVE FALSE
      OBVIOUS
    <2>. QED  BY <1>1, <1>8, <1>9
  <1>11. Cardinality(sessions') = n + Cardinality(T)
    <2>1. Cardinality(sessions \cup new) = Cardinality(sessions) + Cardinality(new)
                                             - Cardinality(sessions \cap new)
      BY <1>7, FS_Union
    <2>2. Cardinality(sessions \cap new) = 0
      BY <1>10, FS_EmptySet
    <2>. QED  BY <1>1, <1>3, <1>7, <2>1, <2>2 DEF n
  <1>12. \A r \in sessions' : r.id \in 1..Cardinality(sessions')
    BY <1>1, <1>3, <1>8, <1>9, <1>11
  <1>13. \A q, r \in new : q.id = r.id => q = r
    BY <1>2, <1>4, <1>5
  <1>14. \A q \in new, r \in sessions : q.id # r.id
    BY <1>1, <1>8, <1>9
  <1>15. \A q, r \in sessions' : q.id = r.id => q = r
    BY <1>3, <1>13, <1>14 DEF RowsNumbered
  <1>. QED  BY <1>12, <1>15 DEF RowsNumbered

LEMMA NumbersStep ==
  ASSUME TypeInv, RowsNumbered, [Next]_vars
  PROVE  RowsNumbered'
  <1>f. Active \in SUBSET ClientIds /\ IsFiniteSet(sessions)
    BY TypeFacts DEF TypeInv
  <1>1. CASE sessions' = sessions
    BY <1>1 DEF RowsNumbered
  <1>2. ASSUME NEW S \in SUBSET Active, NEW fails \in SUBSET S, NEW f, Settled(S, f, fails)
        PROVE  RowsNumbered'
    BY <1>2, <1>f, SaveNumbers DEF Settled
  <1>. QED
    BY <1>1, <1>2, EveryStep DEF Untouched, Opened, LoseProcess, SomeSettled

(* Sessions have one row each, so there are no more rows than sessions.    *)
LEMMA TableBounded ==
  ASSUME TypeInv, Accounted
  PROVE  Cardinality(sessions) \in Nat /\ Cardinality(sessions) <= MaxSessions
  <1>. DEFINE f == [r \in sessions |-> r.sid]
  <1>1. nsess \in Nat /\ nsess <= MaxSessions /\ MaxSessions \in Nat /\ IsFiniteSet(sessions)
    BY BoundsAssumption DEF TypeInv, TypeOK
  <1>2. f \in Injection(sessions, 1..nsess)
    <2>1. \A r \in sessions : r.sid \in 1..nsess
      BY DEF Accounted, Recorded
    <2>2. \A q, r \in sessions : q.sid = r.sid => q = r
      BY DEF Accounted
    <2>. QED  BY <2>1, <2>2 DEF Injection, IsInjective
  <1>3. IsFiniteSet(1..nsess) /\ Cardinality(1..nsess) = nsess
    BY <1>1, FS_Interval
  <1>. HIDE DEF f
  <1>4. Cardinality(sessions) <= nsess
    BY <1>2, <1>3, FS_Injection
  <1>. QED  BY <1>1, <1>4, FS_CardinalityType

IdsBounded == \A r \in sessions : r.id \in RowIds

LEMMA RowIdsBounded == TypeInv /\ Accounted /\ RowsNumbered => IdsBounded
  BY TableBounded, BoundsAssumption DEF RowsNumbered, IdsBounded, RowIds

(* ---------------------- the server under the window -------------------- *)

(* What is known of the server from BillingServerProofs, and of its table. *)
ServerInv == BaseInv /\ Accounted /\ RowsNumbered

LEMMA ServerStep == [ViewNext]_allVars => [Next]_vars
  <1>. SUFFICES ASSUME [ViewNext]_allVars PROVE [Next]_vars
    OBVIOUS
  <1>1. CASE UNCHANGED allVars
    BY <1>1 DEF allVars
  <1>2. CASE OnRefreshDashClicked \/ OnRefreshRevClicked
    BY <1>2 DEF OnRefreshDashClicked, OnRefreshRevClicked, vars
  <1>3. CASE AddClientStation \/ ShowTick \/ Clock \/ ShowStop \/ ShowNothing \/ Show
    BY <1>3 DEF AddClientStation, ShowTick, Clock, ShowStop, ShowNothing, Show,
                Next, Work, Sockets, Admin, Process
  <1>4. CASE Elsewhere
    BY <1>4 DEF Elsewhere, Next, Work, Talk, Sockets, Admin
  <1>5. ASSUME NEW c \in ClientIds,
               (\E line \in ClientLine : ShowClientData(c, line))
                 \/ RemoveClientStation(c) \/ ShowLock(c)
        PROVE  Next
    BY <1>5 DEF ShowClientData, RemoveClientStation, ShowLock, Next, Work, Talk, Sockets, Admin
  <1>6. ASSUME NEW k \in ClientIds \cup {0}, NEW p \in Packages, NEW u \in Users,
               ShowStart(k, p, u)
        PROVE  Next
    BY <1>6 DEF ShowStart, Next, Work, Admin
  <1>. QED  BY <1>1, <1>2, <1>3, <1>4, <1>5, <1>6 DEF ViewNext

(* The window adds nothing to what the server does, so all that is proved  *)
(* of BillingServer holds under the window.                                *)
LEMMA ServerUnderneath == ViewSpec => Spec
  BY ServerStep, PTL DEF ViewSpec, ViewInit, Spec

LEMMA ServerAlways == ViewSpec => []ServerInv
  <1>1. Init => RowsNumbered
    BY DEF Init, RowsNumbered
  <1>2. BaseInv /\ RowsNumbered /\ [Next]_vars => RowsNumbered'
    BY NumbersStep DEF BaseInv
  <1>3. Spec => []RowsNumbered
    BY <1>1, <1>2, BaseInvariant, PTL DEF Spec
  <1>. QED  BY <1>3, ServerUnderneath, BaseInvariant, SessionsAccounted, PTL DEF ServerInv

(* --------------------- what a step does to the views ------------------- *)

(* Every step is of one of five kinds: it leaves dashboard and history as  *)
(* they are, it reloads the dashboard, it reloads all three, a client      *)
(* leaves, or the window goes.                                             *)
KeepsViews ==
  /\ UNCHANGED <<up, clients, sessions, dash, history>>
  /\ \/ header' = header
     \/ header' = Header(Cardinality(clients'), header.today)
     \/ header' = Header(header.clients, Today(sessions'))

LoadsDash ==
  /\ UNCHANGED <<up, sessions, history>>
  /\ dash' = Dashboard(clients', info', sessions')
  /\ \/ header' = header /\ clients' = clients
     \/ header' = Header(Cardinality(clients'), header.today)

Reloads == UNCHANGED clients /\ ReloadRevenue

Leaves(c) ==
  /\ up' = up
  /\ clients' = clients \ {c}
  /\ header' = Header(Cardinality(clients) - 1, header.today)
  /\ dash' = Dashboard(clients, info, sessions')
  /\ UNCHANGED history

Closes ==
  /\ up' = FALSE
  /\ clients' = {}
  /\ header' = Header(0, {})
  /\ dash' = NoDashboard
  /\ history' = {}
  /\ UNCHANGED sessions

LEMMA NothingToSave ==
  ASSUME NEW f, NEW fails \in SUBSET {}, Save({}, f, fails)
  PROVE  sessions' = sessions
  BY DEF Save

LEMMA ViewStep ==
  ASSUME [ViewNext]_allVars
  PROVE  KeepsViews \/ LoadsDash \/ Reloads \/ (\E c \in clients : Leaves(c)) \/ Closes
  <1>1. CASE UNCHANGED allVars
    BY <1>1 DEF allVars, vars, viewVars, shownVars, KeepsViews
  <1>2. CASE AddClientStation
    BY <1>2 DEF AddClientStation, OnAcceptReady, CountClients, LoadsDash
  <1>3. ASSUME NEW c \in ClientIds, NEW line \in ClientLine, ShowClientData(c, line)
        PROVE  KeepsViews
    BY <1>3 DEF ShowClientData, OnClientData, CountClients, Unpainted, shownVars, KeepsViews
  <1>4. ASSUME NEW c \in ClientIds, RemoveClientStation(c)
        PROVE  c \in clients /\ Leaves(c)
    BY <1>4 DEF RemoveClientStation, OnClientDisconnect, Leaves
  <1>5. ASSUME NEW c \in ClientIds, ShowLock(c)
        PROVE  KeepsViews
    BY <1>5 DEF ShowLock, OnLockClicked, CountClients, KeepsViews
  <1>6. CASE ShowTick
    <2>1. UNCHANGED <<up, clients>>
      BY <1>6 DEF ShowTick, OnTick
    <2>2. CASE Expiring = {}
      <3>1. sessions' = sessions
        BY <1>6, <2>2, NothingToSave DEF ShowTick, OnTick
      <3>. QED  BY <1>6, <2>1, <2>2, <3>1 DEF ShowTick, KeepsViews
    <2>3. CASE Expiring # {}
      BY <1>6, <2>1, <2>3 DEF ShowTick, Reloads
    <2>. QED  BY <2>2, <2>3
  <1>7. CASE Clock
    BY <1>7 DEF Clock, Second, Unpainted, shownVars, KeepsViews
  <1>8. ASSUME NEW k \in ClientIds \cup {0}, NEW p \in Packages, NEW u \in Users,
               ShowStart(k, p, u)
        PROVE  KeepsViews
    BY <1>8 DEF ShowStart, ConfirmStart, CountClients, Unpainted, shownVars, KeepsViews
  <1>9. CASE ShowStop
    <2>1. UNCHANGED <<up, clients>>
      BY <1>9 DEF ShowStop, ConfirmStop
    <2>2. CASE dialog.cid \notin Active
      <3>1. {dialog.cid} \cap Active = {}
        BY <2>2
      <3>2. sessions' = sessions
        BY <1>9, <3>1, NothingToSave DEF ShowStop, ConfirmStop
      <3>. QED  BY <1>9, <2>1, <2>2, <3>2 DEF ShowStop, KeepsViews
    <2>3. CASE dialog.cid \in Active
      BY <1>9, <2>1, <2>3 DEF ShowStop, Reloads
    <2>. QED  BY <2>2, <2>3
  <1>10. CASE OnRefreshDashClicked
    BY <1>10 DEF OnRefreshDashClicked, vars, LoadsDash
  <1>11. CASE OnRefreshRevClicked
    BY <1>11 DEF OnRefreshRevClicked, vars, Reloads
  <1>12. CASE ShowNothing
    BY <1>12 DEF ShowNothing, Stop, Crash, LoseProcess, Closes
  <1>13. CASE Show
    BY <1>13 DEF Show, Start, Reloads
  <1>14. CASE Elsewhere
    <2>1. UNCHANGED <<up, clients, sessions>>
      BY <1>14 DEF Elsewhere, PeerRead, OpenStart, OpenStop, SendChat, ConfirmOther,
                   OpenOther, Dismiss, OnBroadcastMenuClicked
    <2>. QED  BY <1>14, <2>1 DEF Elsewhere, Unpainted, shownVars, KeepsViews
  <1>. QED
    BY <1>1, <1>2, <1>3, <1>4, <1>5, <1>6, <1>7, <1>8, <1>9, <1>10, <1>11, <1>12, <1>13,
       <1>14 DEF ViewNext

(* Dates: the day a session began is not touched again, and what is saved  *)
(* on another day is late.                                                 *)
DaysMove ==
  /\ day' \in Days /\ day <= day'
  /\ startDay' \in [Sids -> Days]
  /\ \A s \in 1..nsess : startDay'[s] = startDay[s]
  /\ \A s \in Sids : startDay'[s] \in {startDay[s], day}
  /\ late' = late \cup {r.sid : r \in {q \in sessions' \ sessions : startDay[q.sid] # day}}

LEMMA DaysStep ==
  ASSUME TypeInv, TypeInv', day \in Days, startDay \in [Sids -> Days], [ViewNext]_allVars
  PROVE  DaysMove
  <1>. DEFINE lateNow == late \cup {r.sid : r \in {q \in sessions' \ sessions :
                                                     startDay[q.sid] # day}}
  <1>d. day \in Nat /\ day <= day
    BY ViewBounds DEF Days
  <1>n. nsess \in Nat /\ MaxSessions \in Nat /\ nsess <= MaxSessions
    BY BoundsAssumption DEF TypeInv, TypeOK
  <1>s. \A s \in 1..nsess : s \in Sids
    BY <1>n DEF Sids
  <1>1. CASE day' = day /\ startDay' = startDay /\ late' = lateNow
    BY <1>1, <1>d, <1>s DEF DaysMove
  <1>2. ASSUME sessions' = sessions, NothingSaved
        PROVE  DaysMove
    BY <1>1, <1>2 DEF NothingSaved
  <1>3. CASE UNCHANGED allVars
    BY <1>2, <1>3 DEF allVars, vars, viewVars, NothingSaved
  <1>4. CASE AddClientStation
    BY <1>2, <1>4 DEF AddClientStation, OnAcceptReady
  <1>5. ASSUME NEW c \in ClientIds, NEW line \in ClientLine, ShowClientData(c, line)
        PROVE  DaysMove
    BY <1>2, <1>5 DEF ShowClientData, OnClientData
  <1>6. ASSUME NEW c \in ClientIds, RemoveClientStation(c)
        PROVE  DaysMove
    BY <1>1, <1>6 DEF RemoveClientStation, SameDay
  <1>7. ASSUME NEW c \in ClientIds, ShowLock(c)
        PROVE  DaysMove
    BY <1>2, <1>7 DEF ShowLock, OnLockClicked
  <1>8. CASE ShowTick \/ ShowStop
    BY <1>1, <1>8 DEF ShowTick, ShowStop, SameDay
  <1>9. CASE Clock
    <2>1. sessions' = sessions /\ startDay' = startDay /\ late' = late
      BY <1>9 DEF Clock, Second
    <2>2. day' \in Days /\ day <= day'
      BY <1>9, <1>d DEF Clock
    <2>. QED  BY <1>s, <2>1, <2>2 DEF DaysMove
  <1>10. ASSUME NEW k \in ClientIds \cup {0}, NEW p \in Packages, NEW u \in Users,
                ShowStart(k, p, u)
         PROVE  DaysMove
    <2>1. sessions' = sessions /\ day' = day /\ late' = late
      BY <1>10 DEF ShowStart, ConfirmStart
    <2>2. CASE startDay' = startDay
      BY <1>1, <2>1, <2>2
    <2>3. CASE startDay' = [startDay EXCEPT ![nsess'] = day] /\ nsess' = nsess + 1
      <3>1. nsess' \in Sids /\ nsess' \notin 1..nsess
        BY <1>n, <2>3 DEF TypeInv, TypeOK, Sids
      <3>. QED  BY <1>d, <1>s, <2>1, <2>3, <3>1 DEF DaysMove
    <2>. QED  BY <1>10, <2>2, <2>3 DEF ShowStart, ConfirmStart
  <1>11. CASE OnRefreshDashClicked \/ OnRefreshRevClicked
    BY <1>2, <1>11 DEF OnRefreshDashClicked, OnRefreshRevClicked, vars
  <1>12. CASE ShowNothing \/ Show
    BY <1>2, <1>12 DEF ShowNothing, Stop, Crash, LoseProcess, Show, Start
  <1>13. CASE Elsewhere
    <2>1. sessions' = sessions
      BY <1>13 DEF Elsewhere, PeerRead, OpenStart, OpenStop, SendChat, ConfirmOther,
                   OpenOther, Dismiss, OnBroadcastMenuClicked
    <2>. QED  BY <1>2, <1>13, <2>1 DEF Elsewhere
  <1>. QED
    BY <1>3, <1>4, <1>5, <1>6, <1>7, <1>8, <1>9, <1>10, <1>11, <1>12, <1>13 DEF ViewNext

(* ------------------------- the table under a step ---------------------- *)

\* Rows stay, and what is saved are sessions that were opened before.
LEMMA TableGrows ==
  ASSUME ServerInv, ServerInv', [Next]_vars
  PROVE  sessions \subseteq sessions' /\ \A r \in sessions' : r.sid \in 1..nsess
  <1>1. /\ \A r \in sessions : r.sid \in 1..nsess
        /\ \A r \in sessions' : r.sid \in 1..nsess'
    BY DEF ServerInv, Accounted, Recorded
  <1>2. CASE sessions' = sessions
    BY <1>1, <1>2
  <1>3. CASE SomeSettled
    <2>1. nsess' = nsess /\ sessions \subseteq sessions'
      BY <1>3 DEF SomeSettled, Settled, Save
    <2>. QED  BY <1>1, <2>1
  <1>. QED
    BY <1>2, <1>3, EveryStep DEF ServerInv, BaseInv, Untouched, Opened, LoseProcess

\* Without a gap in the numbers, the newest rows are those at the end.
LEMMA NewestAreLast ==
  ASSUME NEW rows, IsFiniteSet(rows), \A r \in rows : r.id \in 1..Cardinality(rows),
         \A q, r \in rows : q.id = r.id => q = r
  PROVE  Newest(rows) \subseteq (Cardinality(rows) - Latest + 1)..Cardinality(rows)
  <1>. DEFINE n == Cardinality(rows)
              num == [r \in rows |-> r.id]
  <1>1. n \in Nat /\ Latest \in Nat
    BY FS_CardinalityType, ViewBounds
  <1>2. num \in Injection(rows, 1..n)
    BY DEF Injection, IsInjective
  <1>3. IsFiniteSet(1..n) /\ Cardinality(1..n) = n
    BY <1>1, FS_Interval
  <1>4. num \in Surjection(rows, 1..n)
    <2>. HIDE DEF num
    <2>. QED  BY <1>2, <1>3, FS_Injection
  <1>5. \A i \in 1..n : \E r \in rows : r.id = i
    BY <1>4 DEF Surjection
  <1>6. ASSUME NEW q \in rows
        PROVE  Cardinality({p \in rows : p.id > q.id}) = n - q.id
    <2>. DEFINE above == {p \in rows : p.id > q.id}
                f == [p \in above |-> p.id]
    <2>1. q.id \in Nat /\ 1 <= q.id /\ q.id <= n
      BY <1>1
    <2>2. \A p \in above : p.id \in (q.id + 1)..n
      <3>1. \A p \in rows : p.id \in Nat /\ p.id <= n
        BY <1>1
      <3>. QED  BY <1>1, <2>1, <3>1
    <2>3. f \in Injection(above, (q.id + 1)..n)
      BY <2>2 DEF Injection, IsInjective
    <2>4. f \in Surjection(above, (q.id + 1)..n)
      <3>1. \A i \in (q.id + 1)..n : \E p \in above : p.id = i
        BY <1>1, <1>5, <2>1
      <3>. QED  BY <2>2, <3>1 DEF Surjection
    <2>5. IsFiniteSet((q.id + 1)..n) /\ Cardinality((q.id + 1)..n) = n - q.id
      <3>. HIDE DEF n
      <3>1. q.id + 1 \in Int /\ n \in Int
        BY <1>1, <2>1
      <3>2. /\ IsFiniteSet((q.id + 1)..n)
            /\ Cardinality((q.id + 1)..n) = IF q.id + 1 > n THEN 0 ELSE n - (q.id + 1) + 1
        BY <3>1, FS_Interval
      <3>. QED  BY <1>1, <2>1, <3>2
    <2>. HIDE DEF f, above
    <2>6. Cardinality(above) = Cardinality((q.id + 1)..n)
      BY <2>3, <2>4, <2>5, FS_Injection
    <2>. QED  BY <2>5, <2>6 DEF above
  <1>. HIDE DEF n, num
  <1>. SUFFICES ASSUME NEW q \in rows, Cardinality({p \in rows : p.id > q.id}) < Latest
                PROVE  q.id \in (n - Latest + 1)..n
    BY DEF Newest, n
  <1>7. n - q.id < Latest
    BY <1>6
  <1>8. q.id \in 1..n
    BY DEF n
  <1>. QED  BY <1>1, <1>7, <1>8

LEMMA HistoryBounded ==
  ASSUME NEW rows, IsFiniteSet(rows), \A r \in rows : r.id \in 1..Cardinality(rows),
         \A q, r \in rows : q.id = r.id => q = r
  PROVE  Cardinality(Newest(rows)) <= Latest
  <1>. DEFINE n == Cardinality(rows)
              last == (n - Latest + 1)..n
  <1>1. n \in Nat /\ Latest \in Nat
    BY FS_CardinalityType, ViewBounds
  <1>2. IsFiniteSet(last) /\ Cardinality(last) = Latest
    <2>. HIDE DEF n
    <2>1. n - Latest + 1 \in Int /\ n \in Int
      BY <1>1
    <2>2. Cardinality(last) = IF n - Latest + 1 > n THEN 0 ELSE n - (n - Latest + 1) + 1
      BY <2>1, FS_Interval
    <2>3. IsFiniteSet(last)
      BY <2>1, FS_Interval
    <2>. HIDE DEF last
    <2>. QED  BY <1>1, <2>2, <2>3
  <1>3. Newest(rows) \in SUBSET last
    BY NewestAreLast
  <1>. HIDE DEF last
  <1>. QED  BY <1>2, <1>3, FS_Subset

(* ------------------------------ the cards ------------------------------ *)

LEMMA CardOfType ==
  ASSUME NEW i \in ClientInfo
  PROVE  CardOf(i) \in CardType
  <1>1. /\ i.session_active \in BOOLEAN /\ i.locked \in BOOLEAN
        /\ i.elapsed_sec \in Nat /\ i.current_cost \in Int
        /\ i.package \in Package
    BY PackageTypes DEF ClientInfo
  <1>2. i.package.duration_sec \in Int
    BY <1>1 DEF Package
  <1>3. Remaining(i) \in Nat
    BY <1>1, <1>2 DEF Remaining
  <1>. QED  BY <1>1, <1>3 DEF CardOf, Card, CardType

LEMMA NoCardType == NoCard \in CardType
  BY DEF NoCard, Card, CardType

CardsTyped == card \in [ClientIds -> CardType]

\* A step that paints the cards of S must have left the other records alone.
LEMMA Repainted ==
  ASSUME CardsTyped, CardsAreCurrent, clients \in SUBSET ClientIds,
         clients' \in SUBSET ClientIds, \A c \in ClientIds : info'[c] \in ClientInfo,
         NEW S, Repaint(S),
         \A c \in clients' \ S : c \in clients /\ CardOf(info'[c]) = CardOf(info[c])
  PROVE  CardsTyped' /\ CardsAreCurrent'
  <1>1. CardsTyped'
    BY CardOfType DEF Repaint, CardsTyped
  <1>2. \A c \in clients' : card'[c] = CardOf(info'[c])
    BY DEF Repaint, CardsAreCurrent
  <1>. QED  BY <1>1, <1>2 DEF CardsAreCurrent

LEMMA NotPainted ==
  ASSUME CardsTyped, CardsAreCurrent, card' = card,
         \A c \in clients' : c \in clients /\ CardOf(info'[c]) = CardOf(info[c])
  PROVE  CardsTyped' /\ CardsAreCurrent'
  BY DEF CardsTyped, CardsAreCurrent

ClientsBounded == clients \in SUBSET ClientIds

LEMMA ClientsNumbered == TypeInv' => clients' \in SUBSET ClientIds
  <1>1. TypeInv => ClientsBounded
    BY TypeFacts DEF ClientsBounded
  <1>2. TypeInv' => ClientsBounded'
    BY <1>1, PTL
  <1>. QED  BY <1>2 DEF ClientsBounded, ClientIds

LEMMA CardsStep ==
  ASSUME TypeInv, TypeInv', CardsTyped, CardsAreCurrent, [ViewNext]_allVars
  PROVE  CardsTyped' /\ CardsAreCurrent'
  <1>f. /\ clients \in SUBSET ClientIds /\ clients' \in SUBSET ClientIds
        /\ info \in [ClientIds -> ClientInfo]
        /\ \A c \in ClientIds : info[c] \in ClientInfo
        /\ \A c \in ClientIds : info'[c] \in ClientInfo
    <2>1. info \in [ClientIds -> ClientInfo] /\ info' \in [ClientIds -> ClientInfo]
      BY DEF TypeInv, TypeOK
    <2>2. clients' \in SUBSET ClientIds
      BY ClientsNumbered
    <2>. QED  BY <2>1, <2>2, TypeFacts
  <1>1. ASSUME card' = card, info' = info, clients' = clients
        PROVE  CardsTyped' /\ CardsAreCurrent'
    <2>1. \A c \in clients' : c \in clients /\ CardOf(info'[c]) = CardOf(info[c])
      BY <1>1
    <2>2. card' = card
      BY <1>1
    <2>. QED  BY <2>1, <2>2, NotPainted
  <1>2. CASE UNCHANGED allVars
    BY <1>1, <1>2 DEF allVars, vars, viewVars, shownVars
  <1>3. CASE AddClientStation
    <2>1. nextId \in ClientIds
      BY <1>3, BoundsAssumption DEF AddClientStation, OnAcceptReady, TypeInv, TypeOK, ClientIds
    <2>2. \A c \in clients' \ {nextId} : c \in clients /\ info'[c] = info[c]
      BY <1>3, <1>f, <2>1 DEF AddClientStation, OnAcceptReady
    <2>3. Repaint({nextId})
      BY <1>3 DEF AddClientStation
    <2>. QED  BY <1>f, <2>2, <2>3, Repainted
  <1>4. ASSUME NEW c \in ClientIds, NEW line \in ClientLine, ShowClientData(c, line)
        PROVE  CardsTyped' /\ CardsAreCurrent'
    <2>1. CASE line.type = "REGISTER"
      <3>1. \A d \in clients' \ {c} : d \in clients /\ info'[d] = info[d]
        BY <1>4, <1>f, <2>1 DEF ShowClientData, OnClientData
      <3>2. Repaint({c})
        BY <1>4, <2>1 DEF ShowClientData
      <3>. QED  BY <1>f, <3>1, <3>2, Repainted
    <2>2. CASE line.type # "REGISTER"
      BY <1>1, <1>4, <2>2 DEF ShowClientData, OnClientData, Unpainted, shownVars
    <2>. QED  BY <2>1, <2>2
  <1>5. ASSUME NEW c \in ClientIds, RemoveClientStation(c)
        PROVE  CardsTyped' /\ CardsAreCurrent'
    <2>1. card' = [card EXCEPT ![c] = NoCard]
      BY <1>5 DEF RemoveClientStation
    <2>2. \A d \in clients' : d \in clients \ {c} /\ info'[d] = info[d]
      BY <1>5, <1>f DEF RemoveClientStation, OnClientDisconnect
    <2>3. CardsTyped'
      BY <2>1, NoCardType DEF CardsTyped
    <2>4. \A d \in clients' : card'[d] = card[d]
      BY <1>f, <2>1, <2>2 DEF CardsTyped
    <2>. QED  BY <2>2, <2>3, <2>4 DEF CardsAreCurrent
  <1>6. ASSUME NEW c \in ClientIds, ShowLock(c)
        PROVE  CardsTyped' /\ CardsAreCurrent'
    <2>1. \A d \in clients' \ {c} : d \in clients /\ info'[d] = info[d]
      BY <1>6, <1>f DEF ShowLock, OnLockClicked
    <2>2. Repaint({c})
      BY <1>6 DEF ShowLock
    <2>. QED  BY <1>f, <2>1, <2>2, Repainted
  <1>7. CASE ShowTick
    <2>1. Repaint(Active) /\ clients' = clients
      BY <1>7 DEF ShowTick, OnTick
    <2>2. \A c \in ClientIds \ Active : info'[c] = info[c]
      BY <1>7 DEF ShowTick, OnTick, Expiring
    <2>. QED  BY <1>f, <2>1, <2>2, Repainted
  <1>8. CASE Clock
    <2>1. card' = card /\ clients' = clients
      BY <1>8 DEF Clock, Second, Unpainted, shownVars
    <2>2. \A c \in ClientIds : \/ info'[c] = [info[c] EXCEPT !.age = @ + 1]
                               \/ info'[c] = info[c]
      BY <1>8 DEF Clock, Second
    <2>3. \A c \in ClientIds : CardOf(info'[c]) = CardOf(info[c])
      BY <1>f, <2>2 DEF CardOf, Remaining, Timed, ClientInfo
    <2>. QED  BY <1>f, <2>1, <2>3, NotPainted
  <1>9. ASSUME NEW k \in ClientIds \cup {0}, NEW p \in Packages, NEW u \in Users,
               ShowStart(k, p, u)
        PROVE  CardsTyped' /\ CardsAreCurrent'
    <2>1. CASE k \in clients
      <3>1. \A d \in clients' \ {k} : d \in clients /\ info'[d] = info[d]
        BY <1>9, <1>f, <2>1 DEF ShowStart, ConfirmStart
      <3>2. Repaint({k})
        BY <1>9, <2>1 DEF ShowStart
      <3>. QED  BY <1>f, <3>1, <3>2, Repainted
    <2>2. CASE k \notin clients
      BY <1>1, <1>9, <2>2 DEF ShowStart, ConfirmStart, Unpainted, shownVars
    <2>. QED  BY <2>1, <2>2
  <1>10. CASE ShowStop
    <2>. DEFINE S == {dialog.cid} \cap Active
    <2>1. Repaint(S)
      BY <1>10 DEF ShowStop
    <2>2. clients' = clients /\ \A d \in ClientIds \ S : info'[d] = info[d]
      BY <1>10, <1>f DEF ShowStop, ConfirmStop
    <2>. QED  BY <1>f, <2>1, <2>2, Repainted
  <1>11. CASE OnRefreshDashClicked \/ OnRefreshRevClicked
    BY <1>1, <1>11 DEF OnRefreshDashClicked, OnRefreshRevClicked, vars
  <1>12. CASE ShowNothing
    <2>1. card' = [c \in ClientIds |-> NoCard] /\ clients' = {}
      BY <1>12 DEF ShowNothing, Stop, Crash, LoseProcess
    <2>. QED  BY <2>1, NoCardType DEF CardsTyped, CardsAreCurrent
  <1>13. CASE Show
    BY <1>1, <1>13 DEF Show, Start
  <1>14. CASE Elsewhere
    <2>1. UNCHANGED <<info, clients>>
      BY <1>14 DEF Elsewhere, PeerRead, OpenStart, OpenStop, SendChat, ConfirmOther,
                   OpenOther, Dismiss, OnBroadcastMenuClicked
    <2>. QED  BY <1>1, <1>14, <2>1 DEF Elsewhere, Unpainted, shownVars
  <1>. QED
    BY <1>2, <1>3, <1>4, <1>5, <1>6, <1>7, <1>8, <1>9, <1>10, <1>11, <1>12, <1>13, <1>14
    DEF ViewNext

(* -------------------- header, dashboard and history -------------------- *)

(* The types of the rest need that row ids are bounded; a total is right   *)
(* only because dates never go back and no row changes its date or goes.   *)
DatesInOrder ==
  /\ \A s \in Sids : startDay[s] <= day
  /\ \A s \in late : s \in Recorded /\ startDay[s] < day

(* No total shows a row that was late, as long as the window lives.        *)
TotalsOnTime ==
  \A x \in header.today \cup dash.log : \E r \in sessions : r.id = x /\ r.sid \notin late

LEMMA DatesOrderStep ==
  ASSUME ServerInv, ServerInv', DatesInOrder, day \in Days, startDay \in [Sids -> Days],
         [ViewNext]_allVars
  PROVE  DatesInOrder' /\ \A r \in sessions' : startDay'[r.sid] = startDay[r.sid]
  <1>d. /\ DaysMove
        /\ sessions \subseteq sessions'
        /\ \A r \in sessions' : r.sid \in 1..nsess
    BY DaysStep, ServerStep, TableGrows DEF ServerInv, BaseInv
  <1>s. \A s \in 1..nsess : s \in Sids
    <2>1. nsess \in Nat /\ MaxSessions \in Nat /\ nsess <= MaxSessions
      BY BoundsAssumption DEF ServerInv, BaseInv, TypeInv, TypeOK
    <2>. QED  BY <2>1 DEF Sids
  <1>n. /\ day \in Nat /\ day' \in Nat
        /\ \A s \in Sids : startDay[s] \in Nat
        /\ \A s \in 1..nsess : s \in Sids
    BY <1>d, <1>s, ViewBounds DEF DaysMove, Days
  <1>1. \A r \in sessions' : startDay'[r.sid] = startDay[r.sid]
    BY <1>d DEF DaysMove
  <1>2. ASSUME NEW s \in Sids PROVE startDay'[s] <= day'
    BY <1>d, <1>n DEF DaysMove, DatesInOrder
  <1>3. ASSUME NEW s \in late' PROVE s \in Recorded' /\ startDay'[s] < day'
    <2>1. PICK r \in sessions' : r.sid = s /\ startDay[s] < day
      <3>1. CASE s \in late
        <4>1. PICK r \in sessions : r.sid = s
          BY <3>1 DEF DatesInOrder, Recorded
        <4>. QED  BY <1>d, <3>1, <4>1 DEF DatesInOrder
      <3>2. CASE s \notin late
        <4>1. PICK r \in sessions' : r.sid = s /\ startDay[s] # day
          BY <1>d, <1>3, <3>2 DEF DaysMove
        <4>2. startDay[s] <= day /\ startDay[s] \in Nat
          BY <1>d, <1>n, <4>1 DEF DatesInOrder
        <4>. QED  BY <1>n, <4>1, <4>2
      <3>. QED  BY <3>1, <3>2
    <2>2. startDay'[s] < day'
      <3>1. startDay'[s] = startDay[s] /\ startDay[s] \in Nat /\ day <= day'
        BY <1>1, <1>d, <1>n, <2>1 DEF DaysMove
      <3>. QED  BY <1>n, <2>1, <3>1
    <2>. QED  BY <2>1, <2>2 DEF Recorded
  <1>. QED  BY <1>1, <1>2, <1>3 DEF DatesInOrder

LEMMA TotalsStep ==
  ASSUME ServerInv, ServerInv', DatesInOrder, TotalsOnTime,
         day \in Days, startDay \in [Sids -> Days], [ViewNext]_allVars
  PROVE  TotalsOnTime'
  <1>d. DaysMove /\ sessions \subseteq sessions'
    BY DaysStep, ServerStep, TableGrows DEF ServerInv, BaseInv
  <1>1. \A q, r \in sessions' : q.sid = r.sid => q = r
    BY DEF ServerInv, Accounted
  <1>2. ASSUME NEW r \in sessions', r.sid \notin late, r \in sessions \/ startDay[r.sid] = day
        PROVE  r.sid \notin late'
    BY <1>d, <1>1, <1>2 DEF DaysMove
  <1>3. ASSUME NEW x \in header.today \cup dash.log
        PROVE  \E r \in sessions' : r.id = x /\ r.sid \notin late'
    <2>1. PICK r \in sessions : r.id = x /\ r.sid \notin late
      BY <1>3 DEF TotalsOnTime
    <2>. QED  BY <1>d, <1>2, <2>1
  <1>4. ASSUME NEW x \in Today(sessions')
        PROVE  \E r \in sessions' : r.id = x /\ r.sid \notin late'
    <2>1. PICK r \in sessions' : r.id = x /\ startDay[r.sid] = day
      BY <1>4 DEF Today
    <2>2. r.sid \notin late
      <3>1. day \in Nat
        BY ViewBounds DEF Days
      <3>. QED  BY <2>1, <3>1 DEF DatesInOrder
    <2>. QED  BY <1>2, <2>1, <2>2
  <1>5. header'.today \cup dash'.log \subseteq header.today \cup dash.log \cup Today(sessions')
    <2>1. CASE KeepsViews
      BY <2>1 DEF KeepsViews, Header
    <2>2. CASE LoadsDash
      BY <2>2 DEF LoadsDash, Header, Dashboard
    <2>3. CASE Reloads
      BY <2>3 DEF Reloads, ReloadRevenue, Header, Dashboard
    <2>4. CASE \E c \in clients : Leaves(c)
      BY <2>4 DEF Leaves, Header, Dashboard
    <2>5. CASE Closes
      BY <2>5 DEF Closes, Header, NoDashboard
    <2>. QED  BY <2>1, <2>2, <2>3, <2>4, <2>5, ViewStep
  <1>. QED  BY <1>3, <1>4, <1>5 DEF TotalsOnTime

LEMMA HeaderStep ==
  ASSUME TypeInv, TypeInv', HeaderCountsClients, [ViewNext]_allVars
  PROVE  HeaderCountsClients'
  <1>f. /\ clients \in SUBSET ClientIds
        /\ IsFiniteSet(clients)
        /\ ~up => clients = {}
    BY TypeFacts, ClientIdsFinite DEF TypeInv
  <1>1. CASE KeepsViews
    <2>1. UNCHANGED <<up, clients>>
      BY <1>1 DEF KeepsViews
    <2>2. header'.clients \in {header.clients, Cardinality(clients')}
      BY <1>1 DEF KeepsViews, Header
    <2>. QED  BY <2>1, <2>2 DEF HeaderCountsClients
  <1>4. CASE LoadsDash
    <2>1. up' = up
      BY <1>4 DEF LoadsDash
    <2>2. \/ header'.clients = Cardinality(clients')
          \/ header' = header /\ clients' = clients
      BY <1>4 DEF LoadsDash, Header
    <2>. QED  BY <2>1, <2>2 DEF HeaderCountsClients
  <1>5. CASE Reloads
    BY <1>5 DEF Reloads, ReloadRevenue, Header, HeaderCountsClients
  <1>2. ASSUME NEW c \in clients, Leaves(c)
        PROVE  HeaderCountsClients'
    <2>1. Cardinality(clients') = Cardinality(clients) - 1
      BY <1>2, <1>f, FS_RemoveElement DEF Leaves
    <2>. QED  BY <1>2, <2>1 DEF Leaves, Header, HeaderCountsClients
  <1>3. CASE Closes
    BY <1>3 DEF Closes, HeaderCountsClients
  <1>. QED  BY <1>1, <1>2, <1>3, <1>4, <1>5, ViewStep

LEMMA DashboardStep ==
  ASSUME ServerInv, ServerInv', DatesInOrder, DashboardLags,
         day \in Days, startDay \in [Sids -> Days], [ViewNext]_allVars
  PROVE  DashboardLags'
  <1>. DEFINE logOf(d) == {r.id : r \in {q \in sessions' : startDay'[q.sid] = d}}
  <1>f. /\ clients \in SUBSET ClientIds /\ clients' \in SUBSET ClientIds
        /\ IsFiniteSet(clients)
        /\ Cardinality(clients) \in Nat /\ Cardinality(clients') \in Nat
    BY TypeFacts, ClientsNumbered, ClientIdsFinite DEF ServerInv, BaseInv
  <1>s. \A r \in sessions' : startDay'[r.sid] = startDay[r.sid]
    BY DatesOrderStep
  <1>t. Today(sessions') = logOf(day)
    BY <1>s DEF Today
  <1>. SUFFICES ASSUME up'
                PROVE  /\ dash'.total - Cardinality(clients') \in {0, 1}
                       /\ dash'.log = logOf(dash'.day)
    BY DEF DashboardLags
  <1>1. CASE KeepsViews
    <2>1. UNCHANGED <<up, clients, sessions, dash>>
      BY <1>1 DEF KeepsViews
    <2>2. \A r \in sessions : startDay'[r.sid] = startDay[r.sid]
      BY <1>s, <2>1
    <2>. QED  BY <2>1, <2>2 DEF DashboardLags
  <1>2. CASE LoadsDash \/ Reloads
    <2>1. dash' = Dashboard(clients', info', sessions')
      BY <1>2 DEF LoadsDash, Reloads, ReloadRevenue
    <2>2. /\ dash'.total = Cardinality(clients')
          /\ dash'.log = Today(sessions')
          /\ dash'.day = day
      BY <2>1 DEF Dashboard
    <2>. QED  BY <1>f, <1>t, <2>2
  <1>3. ASSUME NEW c \in clients, Leaves(c)
        PROVE  /\ dash'.total - Cardinality(clients') \in {0, 1}
               /\ dash'.log = logOf(dash'.day)
    <2>1. Cardinality(clients') = Cardinality(clients) - 1
      BY <1>3, <1>f, FS_RemoveElement DEF Leaves
    <2>2. /\ dash'.total = Cardinality(clients)
          /\ dash'.log = Today(sessions')
          /\ dash'.day = day
      BY <1>3 DEF Leaves, Dashboard
    <2>. QED  BY <1>f, <1>t, <2>1, <2>2
  <1>. QED  BY <1>1, <1>2, <1>3, ViewStep DEF Closes

(* ------------------------------- theorems ------------------------------ *)

ViewInv ==
  /\ ViewTypeOK
  /\ CardsAreCurrent
  /\ HeaderCountsClients
  /\ DashboardLags
  /\ DatesInOrder
  /\ TotalsOnTime

LEMMA InitViewInv == ViewInit => ViewInv
  <1>. SUFFICES ASSUME ViewInit PROVE ViewInv
    OBVIOUS
  <1>1. /\ clients = {} /\ sessions = {} /\ late = {} /\ day = 0 /\ history = {}
        /\ startDay = [s \in Sids |-> 0]
        /\ card = [c \in ClientIds |-> NoCard]
        /\ header = Header(0, {})
        /\ dash = NoDashboard
    BY DEF ViewInit, Init, NoViews
  <1>2. Cardinality({}) = 0 /\ 0 \in Days /\ Latest \in Nat
    BY FS_EmptySet, ViewBounds DEF Days
  <1>3. ViewTypeOK
    <2>1. /\ card \in [ClientIds -> CardType]
          /\ header \in [clients : Nat, today : SUBSET RowIds]
          /\ dash \in [total : Nat, active : Nat, log : SUBSET RowIds, day : Days]
      BY <1>1, <1>2, NoCardType DEF Header, NoDashboard
    <2>. QED  BY <1>1, <1>2, <2>1 DEF ViewTypeOK
  <1>4. CardsAreCurrent /\ HeaderCountsClients /\ DashboardLags
    BY <1>1, <1>2 DEF CardsAreCurrent, HeaderCountsClients, DashboardLags, Header, NoDashboard
  <1>5. DatesInOrder /\ TotalsOnTime
    BY <1>1 DEF DatesInOrder, TotalsOnTime, Header, NoDashboard
  <1>. QED  BY <1>3, <1>4, <1>5 DEF ViewInv

LEMMA ViewTypeStep ==
  ASSUME ServerInv, ServerInv', ViewInv, [ViewNext]_allVars
  PROVE  ViewTypeOK'
  <1>t. TypeInv /\ TypeInv' /\ ViewTypeOK
    BY DEF ServerInv, BaseInv, ViewInv
  <1>d. DaysMove
    BY <1>t, DaysStep DEF ViewTypeOK
  <1>n. /\ Cardinality(clients) \in Nat /\ Cardinality(clients') \in Nat
        /\ \A S \in SUBSET clients : Cardinality(S) \in Nat
        /\ \A S \in SUBSET clients' : Cardinality(S) \in Nat
        /\ \A c \in clients : Cardinality(clients) - 1 \in Nat
    <2>1. clients \in SUBSET ClientIds /\ clients' \in SUBSET ClientIds
      BY <1>t, TypeFacts, ClientsNumbered
    <2>2. \A S \in SUBSET ClientIds : IsFiniteSet(S) /\ Cardinality(S) \in Nat
      BY ClientIdsFinite
    <2>3. clients # {} => Cardinality(clients) # 0
      BY <2>1, <2>2, FS_EmptySet
    <2>. QED  BY <2>1, <2>2, <2>3
  <1>i. \A r \in sessions' : r.id \in RowIds
    <2>1. TypeInv' /\ Accounted' /\ RowsNumbered' => IdsBounded'
      BY RowIdsBounded, PTL
    <2>. QED  BY <2>1 DEF ServerInv, BaseInv, IdsBounded, RowIds
  <1>j. Today(sessions') \subseteq RowIds /\ Newest(sessions') \subseteq RowIds
    BY <1>i DEF Today, Newest
  <1>1. day' \in Days /\ startDay' \in [Sids -> Days]
    BY <1>d DEF DaysMove
  <1>2. card' \in [ClientIds -> CardType]
    BY <1>t, CardsStep DEF ViewInv, ViewTypeOK, CardsTyped
  <1>3. header' \in [clients : Nat, today : SUBSET RowIds]
    <2>1. header.clients \in Nat /\ header.today \in SUBSET RowIds
      BY <1>t DEF ViewTypeOK
    <2>2. \A n \in Nat, t \in SUBSET RowIds :
            Header(n, t) \in [clients : Nat, today : SUBSET RowIds]
      BY DEF Header
    <2>3. \/ header' = header
          \/ \E n \in Nat, t \in SUBSET RowIds : header' = Header(n, t)
      <3>1. CASE KeepsViews
        BY <1>n, <1>j, <2>1, <3>1 DEF KeepsViews
      <3>2. CASE LoadsDash
        BY <1>n, <2>1, <3>2 DEF LoadsDash
      <3>3. CASE Reloads
        BY <1>n, <1>j, <3>3 DEF Reloads, ReloadRevenue
      <3>4. ASSUME NEW c \in clients, Leaves(c)
            PROVE  \E n \in Nat, t \in SUBSET RowIds : header' = Header(n, t)
        BY <1>n, <2>1, <3>4 DEF Leaves
      <3>5. CASE Closes
        BY <3>5 DEF Closes
      <3>. QED  BY <3>1, <3>2, <3>3, <3>4, <3>5, ViewStep
    <2>. QED  BY <1>t, <2>2, <2>3 DEF ViewTypeOK
  <1>4. dash' \in [total : Nat, active : Nat, log : SUBSET RowIds, day : Days]
    <2>. DEFINE Type == [total : Nat, active : Nat, log : SUBSET RowIds, day : Days]
    <2>1. dash \in Type /\ day \in Days
      BY <1>t DEF ViewTypeOK
    <2>2. NoDashboard \in Type
      BY ViewBounds DEF NoDashboard, Days
    <2>3. Dashboard(clients', info', sessions') \in Type
      BY <1>n, <1>j, <2>1 DEF Dashboard
    <2>4. Dashboard(clients, info, sessions') \in Type
      BY <1>n, <1>j, <2>1 DEF Dashboard
    <2>. HIDE DEF Type
    <2>5. \/ dash' = dash
          \/ dash' = NoDashboard
          \/ dash' = Dashboard(clients', info', sessions')
          \/ dash' = Dashboard(clients, info, sessions')
      BY ViewStep DEF KeepsViews, LoadsDash, Reloads, ReloadRevenue, Leaves, Closes
    <2>6. dash' \in Type
      BY <2>1, <2>2, <2>3, <2>4, <2>5
    <2>. QED  BY <2>6 DEF Type
  <1>5. history' \subseteq RowIds /\ Cardinality(history') <= Latest
    <2>1. history' = history \/ history' = {} \/ history' = Newest(sessions')
      BY ViewStep DEF KeepsViews, LoadsDash, Reloads, ReloadRevenue, Leaves, Closes
    <2>2. Cardinality(Newest(sessions')) <= Latest
      BY HistoryBounded, <1>t DEF ServerInv, RowsNumbered, TypeInv
    <2>3. Cardinality({}) = 0 /\ 0 <= Latest
      BY FS_EmptySet, ViewBounds
    <2>. QED  BY <1>t, <1>j, <2>1, <2>2, <2>3 DEF ViewTypeOK
  <1>6. late' \subseteq Sids
    <2>1. \A s \in late' : s \in Recorded'
      BY <1>t, DatesOrderStep DEF ViewInv, ViewTypeOK, DatesInOrder
    <2>2. \A s \in Recorded' : s \in 1..nsess'
      BY DEF ServerInv, Accounted
    <2>3. nsess' \in 0..MaxSessions
      BY <1>t DEF TypeInv, TypeOK
    <2>. QED  BY <2>1, <2>2, <2>3, BoundsAssumption DEF Sids
  <1>. QED  BY <1>1, <1>2, <1>3, <1>4, <1>5, <1>6 DEF ViewTypeOK

LEMMA ViewAlways == ViewSpec => []ViewInv
  <1>1. ServerInv /\ ServerInv' /\ ViewInv /\ [ViewNext]_allVars => ViewInv'
    <2>. SUFFICES ASSUME ServerInv, ServerInv', ViewInv, [ViewNext]_allVars PROVE ViewInv'
      OBVIOUS
    <2>1. /\ TypeInv /\ TypeInv' /\ CardsTyped
          /\ day \in Days /\ startDay \in [Sids -> Days]
      BY DEF ServerInv, BaseInv, ViewInv, ViewTypeOK, CardsTyped
    <2>2. ViewTypeOK'
      BY ViewTypeStep
    <2>3. CardsAreCurrent'
      BY <2>1, CardsStep DEF ViewInv
    <2>4. HeaderCountsClients'
      BY <2>1, HeaderStep DEF ViewInv
    <2>5. DashboardLags'
      BY <2>1, DashboardStep DEF ViewInv
    <2>6. DatesInOrder' /\ TotalsOnTime'
      BY <2>1, DatesOrderStep, TotalsStep DEF ViewInv
    <2>. QED  BY <2>2, <2>3, <2>4, <2>5, <2>6 DEF ViewInv
  <1>. QED  BY <1>1, InitViewInv, ServerAlways, PTL DEF ViewSpec

(* No view ever has a shape the code does not give it, for any number of   *)
(* stations, sessions, days and listed rows.                               *)
THEOREM ViewTypeCorrect == ViewSpec => []ViewTypeOK
  BY ViewAlways, PTL DEF ViewInv

(* However the server's callbacks follow each other, the card of every     *)
(* connected client shows its record, so the buttons that stand in for the *)
(* checks startSession and endSession lack are the right ones.             *)
THEOREM CardsStayCurrent == ViewSpec => []CardsAreCurrent
  BY ViewAlways, PTL DEF ViewInv

(* The header counts the clients that are connected, although it is        *)
(* written before a client that leaves is erased.                          *)
THEOREM HeaderIsRight == ViewSpec => []HeaderCountsClients
  BY ViewAlways, PTL DEF ViewInv

(* The dashboard counts at most the one station too many that left last,   *)
(* and lacks no row of the day it was loaded on.                           *)
THEOREM DashboardKeepsUp == ViewSpec => []DashboardLags
  BY ViewAlways, PTL DEF ViewInv

(* The money of a session that was saved on a later day than it began is   *)
(* in no total the window ever shows.                                      *)
THEOREM MidnightMoneyIsLost == ViewSpec => []MidnightMoney
  <1>1. ViewInv /\ ServerInv => MidnightMoney
    BY DEF ViewInv, ServerInv, RowsNumbered, TotalsOnTime, MidnightMoney
  <1>. QED  BY <1>1, ViewAlways, ServerAlways, PTL

(* Whoever's session is saved while its client stays, by expiry or by the  *)
(* admin, is listed in the history in the same step.                       *)
THEOREM HistoryKeepsUp == ViewSpec => HistoryLags
  <1>1. [ViewNext]_allVars
          => [sessions' # sessions /\ clients' = clients => history' = Newest(sessions')]_allVars
    <2>1. \A c \in clients : clients \ {c} # clients
      OBVIOUS
    <2>. QED
      BY <2>1, ViewStep DEF KeepsViews, LoadsDash, Reloads, ReloadRevenue, Leaves, Closes
  <1>. QED  BY <1>1, PTL DEF ViewSpec, HistoryLags
=============================================================================
