----------------------------- MODULE AdminViews -----------------------------
(***************************************************************************)
(* What the admin window shows: the cards of the stations, the header, the *)
(* dashboard and the session history (src/server/MainWindow.cpp), and the  *)
(* queries behind them (src/server/Database.cpp).  The window is painted   *)
(* by the server's callbacks, each of which calls some of its functions    *)
(* and not others, so this module composes BillingServer's actions with    *)
(* what each of them repaints; between repaints a view shows the past.     *)
(* Dates come in: sessions are selected by the day they began.             *)
(***************************************************************************)
EXTENDS BillingServer

CONSTANTS LastDay,  \* bound: days in a behaviour
          Latest    \* rows of the session history: 200 in getSessions

ASSUME ViewBounds == LastDay \in Nat /\ Latest \in Nat

Days == 0..LastDay

VARIABLES
    day,        \* today's date
    startDay,   \* per session, the date of session_start
    card,       \* per client, what its card shows
    header,     \* lbl_clients_, and the rows summed up in lbl_revenue_
    dash,       \* the dashboard; day is history: the date of its last reload
    history,    \* the rows in rev_store_
    late        \* history: sessions saved on a later day than they began

shownVars == <<card, header, dash, history>>
viewVars == <<day, startDay, shownVars, late>>
allVars == <<vars, viewVars>>

-----------------------------------------------------------------------------
(* The queries.  Today's revenue, count and average are those of the rows  *)
(* of getSessionsToday.                                                    *)

\* Seeded fault: everything up to today.
TodayOrBefore(rows) == {r.id : r \in {q \in rows : startDay[q.sid] <= day}}

Today(rows) == {r.id : r \in {q \in rows : startDay[q.sid] = day}}

\* Seeded fault: no LIMIT.
NewestAndAll(rows) == {r.id : r \in rows}

Newest(rows) == {r.id : r \in {q \in rows : Cardinality({p \in rows : p.id > q.id}) < Latest}}

(* What updateStationCard shows.  Start is sensitive exactly on a card that *)
(* is not busy, Stop on one that is.                                       *)
Card(busy, timer, cost, lockLabel) ==
    [busy |-> busy, timer |-> timer, cost |-> cost, locked |-> lockLabel]

CardOf(i) ==
    IF i.session_active
    THEN Card(TRUE, IF Timed(i.package) THEN Remaining(i) ELSE i.elapsed_sec,
              i.current_cost, i.locked)
    ELSE Card(FALSE, 0, 0, i.locked)

NoCard == Card(FALSE, 0, 0, FALSE)

Header(n, rows) == [clients |-> n, today |-> rows]

(* reloadDashboard.                                                        *)
Dashboard(C, f, rows) ==
    [total  |-> Cardinality(C),
     active |-> Cardinality({c \in C : f[c].session_active}),
     log    |-> Today(rows),
     day    |-> day]

NoDashboard == [total |-> 0, active |-> 0, log |-> {}, day |-> 0]

(* updateStationCard for the clients in S, by what a step makes of them.   *)
Repaint(S) == card' = [c \in ClientIds |-> IF c \in S THEN CardOf(info'[c]) ELSE card[c]]

CountClients == header' = Header(Cardinality(clients'), header.today)

(* reloadRevenue, which refreshes the label and the dashboard, too.        *)
ReloadRevenue ==
    /\ history' = Newest(sessions')
    /\ header' = Header(Cardinality(clients'), Today(sessions'))
    /\ dash' = Dashboard(clients', info', sessions')

Unpainted == UNCHANGED shownVars

(* The date stands still, and sessions saved now may be late.              *)
SameDay ==
    /\ UNCHANGED day
    /\ late' = late \cup {r.sid : r \in {q \in sessions' \ sessions : startDay[q.sid] # day}}

NothingSaved == UNCHANGED <<day, startDay, late>>

-----------------------------------------------------------------------------
NoViews ==
    /\ card = [c \in ClientIds |-> NoCard]
    /\ header = Header(0, {})
    /\ dash = NoDashboard
    /\ history = {}

ViewInit ==
    /\ Init
    /\ day = 0
    /\ startDay = [s \in Sids |-> 0]
    /\ NoViews
    /\ late = {}

AddClientStation ==
    /\ OnAcceptReady
    /\ Repaint({nextId})
    /\ CountClients
    /\ dash' = Dashboard(clients', info', sessions')
    /\ UNCHANGED history
    /\ NothingSaved

(* A registration repaints the card; a chat line goes to a transcript.     *)
ShowClientData(c, line) ==
    /\ OnClientData(c, line)
    /\ IF line.type = "REGISTER"
       THEN Repaint({c}) /\ CountClients /\ UNCHANGED <<dash, history>>
       ELSE Unpainted
    /\ NothingSaved

\* Seeded faults: the label counts the client that leaves; no reload.
RemoveClientStationCounted(c) ==
    /\ OnClientDisconnect(c)
    /\ card' = [card EXCEPT ![c] = NoCard]
    /\ header' = Header(Cardinality(clients), header.today)
    /\ dash' = Dashboard(clients, info, sessions')
    /\ UNCHANGED <<history, startDay>>
    /\ SameDay

RemoveClientStationOnly(c) ==
    /\ OnClientDisconnect(c)
    /\ card' = [card EXCEPT ![c] = NoCard]
    /\ header' = Header(Cardinality(clients) - 1, header.today)
    /\ UNCHANGED <<dash, history, startDay>>
    /\ SameDay

(* removeClientStation comes after the row is saved and before the client  *)
(* is erased: the label allows for that, the dashboard does not.           *)
RemoveClientStation(c) ==
    /\ OnClientDisconnect(c)
    /\ card' = [card EXCEPT ![c] = NoCard]
    /\ header' = Header(Cardinality(clients) - 1, header.today)
    /\ dash' = Dashboard(clients, info, sessions')
    /\ UNCHANGED <<history, startDay>>
    /\ SameDay

\* Seeded fault: onTick does not refresh the label.
ShowTickUnrefreshed ==
    /\ OnTick
    /\ Repaint(Active)
    /\ IF Expiring = {} THEN UNCHANGED <<header, dash, history>> ELSE ReloadRevenue
    /\ UNCHANGED startDay
    /\ SameDay

(* Every active station's card; a session that expires reloads the views   *)
(* from within the loop, the last of them after the last is saved; the     *)
(* label comes at the end in any case.                                     *)
ShowTick ==
    /\ OnTick
    /\ Repaint(Active)
    /\ IF Expiring = {}
       THEN header' = Header(header.clients, Today(sessions')) /\ UNCHANGED <<dash, history>>
       ELSE ReloadRevenue
    /\ UNCHANGED startDay
    /\ SameDay

(* startSession repaints the card and nothing else.                        *)
ShowStart(k, p, u) ==
    /\ ConfirmStart(k, p, u)
    /\ IF k \in clients
       THEN /\ Repaint({k}) /\ CountClients /\ UNCHANGED <<dash, history>>
            /\ startDay' = [startDay EXCEPT ![nsess'] = day]
       ELSE Unpainted /\ UNCHANGED startDay
    /\ UNCHANGED <<day, late>>

\* Seeded fault: endSession repaints the card only.
ShowStopCardOnly ==
    /\ ConfirmStop
    /\ Repaint({dialog.cid} \cap Active)
    /\ UNCHANGED <<header, dash, history, startDay>>
    /\ SameDay

ShowStop ==
    /\ ConfirmStop
    /\ Repaint({dialog.cid} \cap Active)
    /\ IF dialog.cid \in Active THEN ReloadRevenue ELSE UNCHANGED <<header, dash, history>>
    /\ UNCHANGED startDay
    /\ SameDay

\* Seeded fault: lockClient does not update the card.
ShowLockStale(c) == OnLockClicked(c) /\ Unpainted /\ NothingSaved

ShowLock(c) ==
    /\ OnLockClicked(c)
    /\ Repaint({c})
    /\ CountClients
    /\ UNCHANGED <<dash, history>>
    /\ NothingSaved

OnRefreshDashClicked ==
    /\ up /\ Shows("none")
    /\ dash' = Dashboard(clients, info, sessions)
    /\ UNCHANGED <<vars, card, header, history>>
    /\ NothingSaved

OnRefreshRevClicked ==
    /\ up /\ Shows("none")
    /\ UNCHANGED <<vars, card>>
    /\ ReloadRevenue
    /\ NothingSaved

(* The window goes with the process.                                       *)
ShowNothing ==
    /\ Stop \/ Crash
    /\ card' = [c \in ClientIds |-> NoCard]
    /\ header' = Header(0, {})
    /\ dash' = NoDashboard
    /\ history' = {}
    /\ NothingSaved

(* show builds the tabs and loads them before the main loop runs.          *)
Show ==
    /\ Start
    /\ UNCHANGED card
    /\ ReloadRevenue
    /\ NothingSaved

(* A second goes by, perhaps the last one of the day.                      *)
Clock ==
    /\ Second
    /\ Unpainted
    /\ day' \in {day, day + 1} \cap Days
    /\ UNCHANGED <<startDay, late>>

(* The window looks the same after all the other callbacks.                *)
Elsewhere ==
    /\ \/ \E c \in ClientIds : \/ PeerRead(c) \/ OpenStart(c) \/ OpenStop(c) \/ SendChat(c)
                               \/ ConfirmOther({c}, MenuOffer)
       \/ OpenOther \/ Dismiss
       \/ ConfirmOther(clients, <<ServerMsg>>) \/ ConfirmOther(clients, MenuOffer)
       \/ OnBroadcastMenuClicked
    /\ Unpainted
    /\ NothingSaved

ViewNext ==
    \/ AddClientStation
    \/ \E c \in ClientIds : \/ \E line \in ClientLine : ShowClientData(c, line)
                            \/ RemoveClientStation(c)
                            \/ ShowLock(c)
    \/ ShowTick
    \/ Clock
    \/ \E k \in ClientIds \cup {0}, p \in Packages, u \in Users : ShowStart(k, p, u)
    \/ ShowStop
    \/ OnRefreshDashClicked
    \/ OnRefreshRevClicked
    \/ ShowNothing
    \/ Show
    \/ Elsewhere

ViewSpec == ViewInit /\ [][ViewNext]_allVars

(* As in BillingServer: the timeout source runs, and time goes on.         *)
ViewFairSpec == ViewSpec /\ WF_allVars(ShowTick) /\ WF_allVars(Clock)

-----------------------------------------------------------------------------
(* Properties.                                                             *)

RowIds == 1..MaxSessions

CardType == [busy : BOOLEAN, timer : Nat, cost : Int, locked : BOOLEAN]

(* Every view has the shape the code gives it: no card shows a negative    *)
(* time, every count is one, and the history keeps to its LIMIT.           *)
ViewTypeOK ==
    /\ day \in Days
    /\ startDay \in [Sids -> Days]
    /\ card \in [ClientIds -> CardType]
    /\ header \in [clients : Nat, today : SUBSET RowIds]
    /\ dash \in [total : Nat, active : Nat, log : SUBSET RowIds, day : Days]
    /\ history \subseteq RowIds /\ Cardinality(history) <= Latest
    /\ late \subseteq Sids

(* Whatever callback ran last, every card shows its client's session, time *)
(* and lock: so the buttons the admin has are those BillingServer's        *)
(* OpenStart and OpenStop take for granted.                                *)
CardsAreCurrent == \A c \in clients : card[c] = CardOf(info[c])

(* The number of clients in the header is right, although it is counted    *)
(* before a client that leaves is erased and after one that comes is       *)
(* inserted.                                                               *)
HeaderCountsClients == up => header.clients = Cardinality(clients)

(* The dashboard is never far off: its number of stations is too high by   *)
(* at most the one that left last, and its log lacks no row that was saved *)
(* for the day it was reloaded on.                                         *)
DashboardLags ==
    up => /\ dash.total - Cardinality(clients) \in {0, 1}
          /\ dash.log = {r.id : r \in {q \in sessions : startDay[q.sid] = dash.day}}

(* The session history lags behind the table only by the rows of stations  *)
(* that left: whoever else's session ends, by expiry or by the admin, it   *)
(* is listed at once.                                                      *)
HistoryLags ==
    [][sessions' # sessions /\ clients' = clients => history' = Newest(sessions')]_allVars

(* Totals go by the day a session began: the money of one that was saved   *)
(* after midnight is in no total the window ever shows.                    *)
MidnightMoney ==
    \A r \in sessions : r.sid \in late => r.id \notin header.today \cup dash.log

(* A total in the header that a departure or midnight has made wrong is    *)
(* put right, whatever dialog stays open.                                  *)
RevenueComesTrue ==
    (up /\ header.today # Today(sessions)) ~> (~up \/ header.today = Today(sessions))
=============================================================================
