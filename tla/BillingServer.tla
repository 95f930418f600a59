---------------------------- MODULE BillingServer ----------------------------
(***************************************************************************)
(* The billing server: src/server/BillingServer.cpp with the parts of the  *)
(* admin window that start, stop and lock stations, the sessions table and *)
(* the receipt files.  The program is one thread, a GLib main loop, so     *)
(* every callback is one atomic step.  gtk_dialog_run, however, spins a    *)
(* nested main loop: between the opening of a dialog and its answer the    *)
(* timer and the sockets are served, and what the dialog's code holds from *)
(* before may no longer be true after.  Opening and answering a dialog are *)
(* therefore two actions, and a dialog keeps what its code captured.       *)
(***************************************************************************)
EXTENDS ServerSide, FiniteSets

CONSTANTS MaxId,       \* bound: connections accepted in one run of the process
          MaxSessions, \* bound: sessions opened in a behaviour
          MaxElapsed,  \* bound: ticks of a session that no expiry ends
          MaxLag,      \* bound: seconds in which the timer may fail to fire
          SendCap      \* lines that fit into a stream's unread buffers

ASSUME BoundsAssumption ==
    /\ MaxId \in Nat
    /\ MaxSessions \in Nat
    /\ MaxElapsed \in Nat
    /\ MaxLag \in Nat
    /\ SendCap \in Nat

ClientIds == 1..MaxId
Sids == 1..MaxSessions

VARIABLES
    up,          \* the process runs
    nextId,      \* next_id_
    clients,     \* the keys of clients_
    info,        \* the values of clients_: info[c] is read only for c in clients
    dialog,      \* the modal dialog on screen, with what its code captured
    toClient,    \* per connection, the lines written and not yet read
    torn,        \* connections whose stream lost (part of) a line
    sessions,    \* the sessions table
    receipts,    \* sessions whose receipt file is on disk
    lastReceipt, \* the session that owns the file named by this second, or 0
    ticked,      \* the timer's tick of this second is over
    nsess,       \* history: number of sessions opened so far
    failed,      \* history: sessions whose INSERT failed ("SQL error" on stderr)
    dropped      \* history: sessions active when the process ended

vars == <<up, nextId, clients, info, dialog, toClient, torn, sessions, receipts,
          lastReceipt, ticked, nsess, failed, dropped>>

-----------------------------------------------------------------------------
(* ClientInfo.  `age' stands for session_start: the seconds gone by since  *)
(* then.  `sid' is history: the number of the running session, else 0.     *)
(* current_cost is kept in 1/3600 of a rupiah, so the hourly rate needs no *)
(* fractions.                                                              *)

ClientInfo == [username : Users, session_active : BOOLEAN,
               package : Packages \cup {NoPackage},
               age : Nat, elapsed_sec : Nat, current_cost : Int,
               locked : BOOLEAN, sid : Nat]

NewClient == [username |-> NoName, session_active |-> FALSE, package |-> NoPackage,
              age |-> 0, elapsed_sec |-> 0, current_cost |-> 0,
              locked |-> FALSE, sid |-> 0]

CalcCost(p, elapsed) == IF p.is_timed THEN 3600 * p.price ELSE elapsed * p.price

Timed(p) == p.is_timed /\ p.duration_sec > 0

\* Seeded fault: one second too late.
ExpiredLate(i) == Timed(i.package) /\ i.elapsed_sec > i.package.duration_sec

Expired(i) == Timed(i.package) /\ i.elapsed_sec >= i.package.duration_sec

Remaining(i) == IF i.package.is_timed /\ i.package.duration_sec > i.elapsed_sec
                THEN i.package.duration_sec - i.elapsed_sec
                ELSE 0

(* The three ways a session changes a client's record.                     *)
Started(p, u, s) ==
    [username |-> u, session_active |-> TRUE, package |-> p, age |-> 0,
     elapsed_sec |-> 0, current_cost |-> 0, locked |-> FALSE, sid |-> s]

\* Seeded faults: the second is counted twice; the cost is computed before it.
TickedTwice(i) ==
    [i EXCEPT !.elapsed_sec = @ + 2,
              !.current_cost = CalcCost(i.package, i.elapsed_sec + 2)]

TickedCostFirst(i) ==
    [i EXCEPT !.elapsed_sec = @ + 1, !.current_cost = CalcCost(i.package, i.elapsed_sec)]

Ticked(i) ==
    [i EXCEPT !.elapsed_sec = @ + 1,
              !.current_cost = CalcCost(i.package, i.elapsed_sec + 1)]

\* Seeded fault: session_active is not reset.
EndedStillActive(i) == [i EXCEPT !.elapsed_sec = 0, !.current_cost = 0, !.locked = TRUE]

Ended(i) ==
    [username |-> i.username, session_active |-> FALSE, package |-> i.package, age |-> 0,
     elapsed_sec |-> 0, current_cost |-> 0, locked |-> TRUE, sid |-> 0]

Active == {c \in clients : info[c].session_active}

-----------------------------------------------------------------------------
(* The modal dialogs.  A start dialog holds a ClientInfo pointer: freedAt  *)
(* is 0 while it is good, else the next_id_ at the time the client was     *)
(* deleted.  A stop dialog holds a client id; sid is history, the session  *)
(* the dialog names to the admin.  "other" stands for the dialogs that     *)
(* hold nothing of a session (broadcast, menu offer, packages, settings).  *)

Dialog == [kind : {"none", "start", "stop", "receipt", "other"},
           cid : Nat, freedAt : Nat, sid : Nat]

Holding(k, c, s) == [kind |-> k, cid |-> c, freedAt |-> 0, sid |-> s]

NoDialog == Holding("none", 0, 0)

Shows(k) == dialog.kind = k

(* The client that startSession is called for when the start dialog is     *)
(* answered: the one whose record the pointer designates.  Reading through *)
(* a dangling pointer finds allocator data, which is no client's id, or,   *)
(* if the block was handed out again, the record of a later client.        *)
StartTargets ==
    IF dialog.freedAt = 0 THEN {dialog.cid}
    ELSE {0} \cup {k \in clients : k >= dialog.freedAt}

-----------------------------------------------------------------------------
(* sendRaw, for the lines one step writes.  The socket does not block and  *)
(* the status of the write is not looked at: what does not fit is lost.    *)
(* Only the stream up to the first loss is modelled: from then on the      *)
(* connection is in torn and what its peer makes of the rest is left open. *)

Fitting(q, lines) ==
    LET all == q \o lines
    IN  IF Len(all) <= SendCap THEN all ELSE SubSeq(all, 1, SendCap)

Send(out) ==
    /\ toClient' = [c \in ClientIds |->
                      IF c \in clients \ torn THEN Fitting(toClient[c], out[c])
                      ELSE toClient[c]]
    /\ torn' = torn \cup {c \in clients : Len(toClient[c]) + Len(out[c]) > SendCap}

ToEach(S, lines) == [c \in ClientIds |-> IF c \in S THEN lines ELSE << >>]

To(c, lines) == ToEach({c}, lines)

Silent == UNCHANGED <<toClient, torn>>

-----------------------------------------------------------------------------
(* saveSession for the clients in S, whose records are f: INSERT appends a *)
(* row with the next id.  S \ fails is what the table takes.               *)

Row(i, n) == [id |-> n, sid |-> i.sid, username |-> i.username, package |-> i.package,
              duration_sec |-> i.elapsed_sec, wall |-> i.age,
              total_cost |-> i.current_cost]

Place(c, S) == Cardinality(sessions) + Cardinality({d \in S : d <= c})

Save(S, f, fails) ==
    /\ sessions' = sessions \cup {Row(f[c], Place(c, S \ fails)) : c \in S \ fails}
    /\ failed' = failed \cup {f[c].sid : c \in fails}

(* Receipt::save: the file is named after the current second, so a second  *)
(* receipt in the same second replaces the first.  The sessions in S end   *)
(* in the order of their ids.                                              *)
SaveReceipts(S) ==
    IF S = {} THEN UNCHANGED <<receipts, lastReceipt>>
    ELSE \E c \in S :
           /\ \A d \in S : d <= c
           /\ receipts' = (receipts \ {lastReceipt}) \cup {info[c].sid}
           /\ lastReceipt' = info[c].sid

(* What startSession and endSession write to the station.                  *)
\* Seeded fault: the station is unlocked before it has a session.
StartLinesLockFirst(p, u) == <<Lock(FALSE), SessionStart(p, u)>>

StartLines(p, u) == <<SessionStart(p, u), Lock(FALSE)>>

\* Seeded fault: the station is not told to lock.
EndLinesNoLock(i) == <<SessionEnd(i.elapsed_sec)>>

EndLines(i) == <<SessionEnd(i.elapsed_sec), Lock(TRUE)>>

TickLine(i) == Tick(i.elapsed_sec, Remaining(i))

-----------------------------------------------------------------------------
Init ==
    /\ up = TRUE
    /\ nextId = 1
    /\ clients = {}
    /\ info = [c \in ClientIds |-> NewClient]
    /\ dialog = NoDialog
    /\ toClient = [c \in ClientIds |-> << >>]
    /\ torn = {}
    /\ sessions = {}
    /\ receipts = {}
    /\ lastReceipt = 0
    /\ ticked = TRUE
    /\ nsess = 0
    /\ failed = {}
    /\ dropped = {}

(* ------------------------------ sockets -------------------------------- *)

\* Seeded fault: next_id_ is not incremented.
OnAcceptReadySameId ==
    /\ up
    /\ nextId <= MaxId
    /\ clients' = clients \cup {nextId}
    /\ info' = [info EXCEPT ![nextId] = NewClient]
    /\ Silent
    /\ UNCHANGED <<up, nextId, dialog, sessions, receipts, lastReceipt, ticked, nsess,
                   failed, dropped>>

OnAcceptReady ==
    /\ up
    /\ nextId <= MaxId
    /\ clients' = clients \cup {nextId}
    /\ info' = [info EXCEPT ![nextId] = NewClient]
    /\ nextId' = nextId + 1
    /\ Silent
    /\ UNCHANGED <<up, dialog, sessions, receipts, lastReceipt, ticked, nsess,
                   failed, dropped>>

OnClientData(c, line) ==
    /\ up
    /\ c \in clients
    /\ \/ /\ line.type = "REGISTER"
          /\ info' = [info EXCEPT ![c].username = line.username]
          /\ Send(To(c, <<Registered, PackageList>>))
       \/ /\ line.type = "HEARTBEAT"
          /\ Send(To(c, <<Pong>>))
          /\ UNCHANGED info
    /\ UNCHANGED <<up, nextId, clients, dialog, sessions, receipts, lastReceipt,
                   ticked, nsess, failed, dropped>>

\* Seeded fault: the running session is not saved.
OnClientDisconnectUnsaved(c) ==
    /\ up
    /\ c \in clients
    /\ clients' = clients \ {c}
    /\ info' = [info EXCEPT ![c] = NewClient]
    /\ toClient' = [toClient EXCEPT ![c] = << >>]
    /\ torn' = torn \ {c}
    /\ UNCHANGED <<up, nextId, dialog, sessions, receipts, lastReceipt, ticked, nsess,
                   failed, dropped>>

(* The peer hangs up.  A running session is saved, without a receipt; the  *)
(* record is deleted, whoever still points to it.                          *)
OnClientDisconnect(c) ==
    /\ up
    /\ c \in clients
    /\ LET S == {c} \cap Active
       IN  \E fails \in SUBSET S : Save(S, info, fails)
    /\ clients' = clients \ {c}
    /\ info' = [info EXCEPT ![c] = NewClient]
    /\ toClient' = [toClient EXCEPT ![c] = << >>]
    /\ torn' = torn \ {c}
    /\ dialog' = IF Shows("start") /\ dialog.cid = c /\ dialog.freedAt = 0
                 THEN [dialog EXCEPT !.freedAt = nextId]
                 ELSE dialog
    /\ UNCHANGED <<up, nextId, receipts, lastReceipt, ticked, nsess, dropped>>

(* The peer takes a line from its end of the stream.                       *)
PeerRead(c) ==
    /\ toClient[c] # << >>
    /\ toClient' = [toClient EXCEPT ![c] = Tail(@)]
    /\ UNCHANGED <<up, nextId, clients, info, dialog, torn, sessions, receipts,
                   lastReceipt, ticked, nsess, failed, dropped>>

(* ------------------------------- timer --------------------------------- *)

(* The timeout source is due once a second; the nested loop of a dialog    *)
(* serves it like any other.                                               *)
\* Seeded fault: no tick while a dialog is up.
TimerDueNoDialog == up /\ ~ticked /\ Shows("none")

TimerDue == up /\ ~ticked

(* Every active session advances; those that reach their duration end in   *)
(* the same callback, after their tick is sent.                            *)
Expiring == {c \in Active : Expired(Ticked(info[c]))}

OnTick ==
    /\ TimerDue
    /\ \A c \in Active : Timed(info[c].package) \/ info[c].elapsed_sec < MaxElapsed
    /\ LET now == [c \in ClientIds |-> Ticked(info[c])]
       IN  /\ info' = [c \in ClientIds |->
                         IF c \in Expiring THEN Ended(now[c])
                         ELSE IF c \in Active THEN now[c]
                         ELSE info[c]]
           /\ \E fails \in SUBSET Expiring : Save(Expiring, now, fails)
           /\ SaveReceipts(Expiring)
           /\ Send([c \in ClientIds |->
                      IF c \in Expiring THEN <<TickLine(now[c])>> \o EndLines(now[c])
                      ELSE IF c \in Active THEN <<TickLine(now[c])>>
                      ELSE << >>])
    /\ ticked' = TRUE
    /\ UNCHANGED <<up, nextId, clients, dialog, nsess, dropped>>

(* A second goes by.  The timer fires at most once in it; when the loop is *)
(* late it fires not at all and GLib does not make up for it.              *)
Second ==
    /\ \/ ticked
       \/ ~up
       \/ \A c \in Active : info[c].age - info[c].elapsed_sec < MaxLag
    /\ ticked' = FALSE
    /\ lastReceipt' = 0
    /\ info' = [c \in ClientIds |->
                  IF c \in Active THEN [info[c] EXCEPT !.age = @ + 1] ELSE info[c]]
    /\ Silent
    /\ UNCHANGED <<up, nextId, clients, dialog, sessions, receipts, nsess, failed,
                   dropped>>

(* -------------------------- the admin window --------------------------- *)

(* A modal dialog blocks every other window, so each of these but the      *)
(* answers needs an empty screen.  A station's card offers Start when no   *)
(* session runs on it and Stop when one does.                              *)

\* Seeded fault: the Start button stays sensitive.
OpenStartAnyStation(c) ==
    /\ up /\ Shows("none")
    /\ c \in clients
    /\ dialog' = Holding("start", c, 0)
    /\ Silent
    /\ UNCHANGED <<up, nextId, clients, info, sessions, receipts, lastReceipt, ticked,
                   nsess, failed, dropped>>

OpenStart(c) ==
    /\ up /\ Shows("none")
    /\ c \in clients \ Active
    /\ dialog' = Holding("start", c, 0)
    /\ Silent
    /\ UNCHANGED <<up, nextId, clients, info, sessions, receipts, lastReceipt, ticked,
                   nsess, failed, dropped>>

(* startSession itself does not ask whether a session is running.          *)
ConfirmStart(k, p, u) ==
    /\ up /\ Shows("start")
    /\ k \in StartTargets
    /\ dialog' = NoDialog
    /\ IF k \in clients
       THEN /\ nsess < MaxSessions
            /\ nsess' = nsess + 1
            /\ info' = [info EXCEPT ![k] = Started(p, u, nsess + 1)]
            /\ Send(To(k, StartLines(p, u)))
       ELSE /\ UNCHANGED <<nsess, info>>
            /\ Silent
    /\ UNCHANGED <<up, nextId, clients, sessions, receipts, lastReceipt, ticked,
                   failed, dropped>>

\* Seeded fault: the button's data holds the id of the latest client.
OpenStopLatest(c) ==
    /\ up /\ Shows("none")
    /\ c \in Active
    /\ dialog' = Holding("stop", nextId - 1, info[c].sid)
    /\ Silent
    /\ UNCHANGED <<up, nextId, clients, info, sessions, receipts, lastReceipt, ticked,
                   nsess, failed, dropped>>

OpenStop(c) ==
    /\ up /\ Shows("none")
    /\ c \in Active
    /\ dialog' = Holding("stop", c, info[c].sid)
    /\ Silent
    /\ UNCHANGED <<up, nextId, clients, info, sessions, receipts, lastReceipt, ticked,
                   nsess, failed, dropped>>

(* endSession looks the client up again and does nothing when it is gone   *)
(* or its session has ended meanwhile; else its receipt is shown.          *)
ConfirmStop ==
    LET c == dialog.cid
        S == {c} \cap Active
    IN  /\ up /\ Shows("stop")
        /\ \E fails \in SUBSET S : Save(S, info, fails)
        /\ SaveReceipts(S)
        /\ IF S = {}
           THEN /\ dialog' = NoDialog
                /\ UNCHANGED info
                /\ Silent
           ELSE /\ dialog' = Holding("receipt", 0, 0)
                /\ info' = [info EXCEPT ![c] = Ended(@)]
                /\ Send(To(c, EndLines(info[c])))
        /\ UNCHANGED <<up, nextId, clients, ticked, nsess, dropped>>

OpenOther ==
    /\ up /\ Shows("none")
    /\ dialog' = Holding("other", 0, 0)
    /\ Silent
    /\ UNCHANGED <<up, nextId, clients, info, sessions, receipts, lastReceipt, ticked,
                   nsess, failed, dropped>>

(* The answer to a broadcast or a menu offer dialog.                       *)
ConfirmOther(S, lines) ==
    /\ up /\ Shows("other")
    /\ dialog' = NoDialog
    /\ Send(ToEach(S, lines))
    /\ UNCHANGED <<up, nextId, clients, info, sessions, receipts, lastReceipt, ticked,
                   nsess, failed, dropped>>

(* Any dialog may be dismissed, among them the receipt.                    *)
Dismiss ==
    /\ up /\ ~Shows("none")
    /\ dialog' = NoDialog
    /\ Silent
    /\ UNCHANGED <<up, nextId, clients, info, sessions, receipts, lastReceipt, ticked,
                   nsess, failed, dropped>>

(* The lock button toggles what the server believes.                       *)
OnLockClicked(c) ==
    /\ up /\ Shows("none")
    /\ c \in clients
    /\ info' = [info EXCEPT ![c].locked = ~@]
    /\ Send(To(c, <<Lock(~info[c].locked)>>))
    /\ UNCHANGED <<up, nextId, clients, dialog, sessions, receipts, lastReceipt,
                   ticked, nsess, failed, dropped>>

SendChat(c) ==
    /\ up /\ Shows("none")
    /\ c \in clients
    /\ Send(To(c, <<ChatServer>>))
    /\ UNCHANGED <<up, nextId, clients, info, dialog, sessions, receipts, lastReceipt,
                   ticked, nsess, failed, dropped>>

(* The menu tab's broadcast button asks nothing before it writes.          *)
OnBroadcastMenuClicked ==
    /\ up /\ Shows("none")
    /\ Send(ToEach(clients, MenuOffer))
    /\ UNCHANGED <<up, nextId, clients, info, dialog, sessions, receipts, lastReceipt,
                   ticked, nsess, failed, dropped>>

(* ------------------------------ process -------------------------------- *)

(* The end of the process, whatever ends it: the records are gone, and     *)
(* what is in them is not saved.                                           *)
LoseProcess ==
    /\ up' = FALSE
    /\ dropped' = dropped \cup {info[c].sid : c \in Active}
    /\ clients' = {}
    /\ info' = [c \in ClientIds |-> NewClient]
    /\ dialog' = NoDialog
    /\ toClient' = [c \in ClientIds |-> << >>]
    /\ torn' = {}
    /\ UNCHANGED <<nextId, sessions, receipts, lastReceipt, ticked, nsess, failed>>

(* The admin closes the window (a modal dialog blocks that too): the main  *)
(* loop returns and main calls stop.                                       *)
Stop == up /\ Shows("none") /\ LoseProcess

(* A power cut, a signal, or an exception nobody catches: the settings and *)
(* package forms convert their fields with stoi and stod unguarded.        *)
Crash == up /\ LoseProcess

(* main starts the program again; next_id_ begins at 1.                    *)
Start ==
    /\ ~up
    /\ up' = TRUE
    /\ nextId' = 1
    /\ ticked' = TRUE
    /\ UNCHANGED <<clients, info, dialog, toClient, torn, sessions, receipts,
                   lastReceipt, nsess, failed, dropped>>

-----------------------------------------------------------------------------
(* Lines that change nothing but a name: the peer's own messages and what  *)
(* is written in answer, chat, broadcasts and menu offers.                 *)
Talk == \/ \E c \in ClientIds : \/ \E line \in ClientLine : OnClientData(c, line)
                                \/ SendChat(c)
                                \/ ConfirmOther({c}, MenuOffer)
        \/ ConfirmOther(clients, <<ServerMsg>>)
        \/ ConfirmOther(clients, MenuOffer)
        \/ OnBroadcastMenuClicked

Sockets == \/ OnAcceptReady
           \/ \E c \in ClientIds : OnClientDisconnect(c) \/ PeerRead(c)

Admin == \/ \E c \in ClientIds : OpenStart(c) \/ OpenStop(c) \/ OnLockClicked(c)
         \/ \E k \in ClientIds \cup {0}, p \in Packages, u \in Users :
              ConfirmStart(k, p, u)
         \/ ConfirmStop
         \/ OpenOther
         \/ Dismiss

Process == Stop \/ Crash \/ Start

Work == Sockets \/ OnTick \/ Second \/ Admin \/ Process

Next == Work \/ Talk

Spec == Init /\ [][Next]_vars

(* The main loop keeps running its timeout source, in a nested loop as in  *)
(* the outer one, and time goes on; nothing else is promised.              *)
Fairness == WF_vars(OnTick) /\ WF_vars(Second)

FairSpec == Spec /\ Fairness

-----------------------------------------------------------------------------
(* Properties.                                                             *)

Lines == Seq(ServerLine)

RowType == [id : Nat, sid : Nat, username : Users,
            package : Packages \cup {NoPackage},
            duration_sec : Nat, wall : Nat, total_cost : Int]

(* Every variable keeps the shape the code gives it; in particular no line *)
(* ever carries a negative time.                                           *)
TypeOK ==
    /\ up \in BOOLEAN
    /\ nextId \in 1..(MaxId + 1)
    /\ clients \subseteq 1..(nextId - 1)
    /\ info \in [ClientIds -> ClientInfo]
    /\ dialog \in Dialog
    /\ toClient \in [ClientIds -> Lines]
    /\ torn \subseteq clients
    /\ sessions \subseteq RowType
    /\ receipts \subseteq Sids
    /\ lastReceipt \in Sids \cup {0}
    /\ ticked \in BOOLEAN
    /\ nsess \in 0..MaxSessions
    /\ failed \subseteq Sids
    /\ dropped \subseteq Sids

Running == {info[c].sid : c \in Active}

Recorded == {r.sid : r \in sessions}

(* Each session ever opened is in exactly one place: running on one        *)
(* station, in one row of the table, or lost to a failed INSERT or to the  *)
(* end of the process.  startSession overwrites whatever the record holds  *)
(* and three callbacks save, so this rests on the order they run in.       *)
Accounted ==
    /\ \A c, d \in Active : info[c].sid = info[d].sid => c = d
    /\ \A q, r \in sessions : q.sid = r.sid => q = r
    /\ Running \cup Recorded \cup failed \cup dropped = 1..nsess
    /\ Running \cap (Recorded \cup failed \cup dropped) = {}
    /\ Recorded \cap (failed \cup dropped) = {}
    /\ failed \cap dropped = {}

(* No customer uses a fixed package beyond its duration: the tick that     *)
(* reaches it ends the session before anything else can happen.            *)
NoOvertime ==
    \A c \in Active : Timed(info[c].package)
                        => info[c].elapsed_sec < info[c].package.duration_sec

(* The ticks billed never exceed the seconds the customer was there by     *)
(* more than the one the session began in, whatever dialogs, missed ticks  *)
(* and earlier sessions of the station came before.                        *)
BilledWithinWallClock ==
    /\ \A c \in Active :
         info[c].elapsed_sec <= info[c].age + (IF ticked THEN 1 ELSE 0)
    /\ \A r \in sessions : r.duration_sec <= r.wall + 1

(* From its first tick on the cached cost is never stale: what a station   *)
(* shows and what a row records is the price of the elapsed time under the *)
(* session's package, whatever ticks, dialogs and earlier sessions came in *)
(* between.  Of a session without a tick nothing is said here, for the     *)
(* README's flat price is not what it costs (FlatPriceIsPaid); and the     *)
(* price is the package's own, also of an hourly one: the hourly rate of   *)
(* the settings, which their form says applies, is read by nothing.        *)
CostIsCurrent ==
    /\ \A c \in clients : info[c].elapsed_sec > 0
         => info[c].current_cost = CalcCost(info[c].package, info[c].elapsed_sec)
    /\ \A r \in sessions : r.duration_sec > 0
         => r.total_cost = CalcCost(r.package, r.duration_sec)

(* While the stop dialog asks about a session, that session may expire or  *)
(* its client leave, but no other session can come in its place: the       *)
(* answer ends the session the admin was asked about, or none.             *)
StopDialogNamesSession ==
    \A c \in Active : Shows("stop") /\ dialog.cid = c => info[c].sid = dialog.sid

(* Whatever record the start dialog's pointer designates by the time of    *)
(* the answer, dangling or not, no session runs in it.                     *)
StartTargetsFree == Shows("start") => StartTargets \cap Active = {}

(* A running session is never overwritten by another one, although         *)
(* startSession would do it.                                               *)
NoOverwrite ==
    [][\A c \in Active : c \in Active' => info'[c].sid = info[c].sid]_vars

(* What an intact stream still holds for its reader.                       *)
Whole == clients \ torn

Brackets == {"SESSION_START", "TICK", "SESSION_END"}

(* What the last lines of a stream say is what the server believes: a      *)
(* reader that has caught up knows whether its session runs, how long, and *)
(* whether it is locked.                                                   *)
LastOf(q, types) ==
    {q[i] : i \in {j \in DOMAIN q :
                     /\ q[j].type \in types
                     /\ \A k \in DOMAIN q : k > j => q[k].type \notin types}}

StreamMirrorsServer ==
    \A c \in Whole :
      /\ \A m \in LastOf(toClient[c], {"LOCK"}) : m.locked = info[c].locked
      /\ \A m \in LastOf(toClient[c], Brackets) :
           /\ (m.type # "SESSION_END") = info[c].session_active
           /\ m.type = "TICK" => m.elapsed = info[c].elapsed_sec

(* A session with a fixed duration comes to an end, whatever the admin     *)
(* leaves on the screen and whatever the station does.                     *)
TimedSessionEnds ==
    \A s \in Sids :
      (\E c \in Active : info[c].sid = s /\ Timed(info[c].package)) ~> (s \notin Running)

(* The server keeps the promise of SessionLedger.                          *)
RecordedOnce(s) == \E r \in sessions : /\ r.sid = s
                                       /\ \A q \in sessions : q.sid = s => q = r

FateOf(s) == IF s > nsess THEN "unopened"
             ELSE IF s \in Running THEN "open"
             ELSE IF s \in failed THEN "failed"
             ELSE IF s \in dropped THEN "dropped"
             ELSE IF RecordedOnce(s) THEN "recorded"
             ELSE "unaccounted"

Ledger == INSTANCE SessionLedger WITH fate <- [s \in Sids |-> FateOf(s)]

KeepsLedger == Ledger!LedgerSpec

(* The server keeps the promise of StationStream, on which the clients'    *)
(* modules rest: no tick, end, expiry, click or broadcast changes what it  *)
(* believes of a station without telling it, or tells it anything that it  *)
(* does not believe, or in another order, whatever dialogs stay open and   *)
(* wherever the stream loses a line.                                       *)
\* The time left goes to a label only.
Bare(m) == IF m.type = "TICK" THEN Tick(m.elapsed, 0) ELSE m

StatusOf(i) == Status(i.session_active, i.locked, i.elapsed_sec)

Stream == INSTANCE StationStream
            WITH Stations <- ClientIds,
                 open <- clients,
                 status <- [c \in ClientIds |-> StatusOf(info[c])],
                 wire <- [c \in ClientIds |->
                            [i \in DOMAIN toClient[c] |-> Bare(toClient[c][i])]]

KeepsContract == Stream!StreamSpec

-----------------------------------------------------------------------------
(* What the repository says of the program and the program does not do.    *)

(* README.md: "The client workstation will be locked until the admin       *)
(* starts a session", so a session begins only on the station for which    *)
(* the admin opened the start dialog.                                      *)
StartHitsChosenStation ==
    [][\A c \in ClientIds :
         ~info[c].session_active /\ info'[c].session_active => c = dialog.cid]_vars

(* README.md: "Persistent revenue records and session history", so a       *)
(* session that no longer runs and whose INSERT did not fail is in the     *)
(* table.                                                                  *)
EndedSessionsAreRecorded == (1..nsess) \ (Running \cup failed) \subseteq Recorded

(* README.md: "Fixed time - Customer pays a flat price for a set           *)
(* duration", so a row on a fixed package has that price, however early    *)
(* the session was ended.                                                  *)
FlatPriceIsPaid ==
    \A r \in sessions : r.package.is_timed => r.total_cost = 3600 * r.package.price

=============================================================================
