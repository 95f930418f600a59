# CaféBill in TLA+

A verification project for CaféBill, the internet café billing system of this
repository: an admin server (GTK3, SQLite) that opens, bills and ends sessions
on the workstations connected to it, and two workstation clients. Paths below
are relative to the repository's root.

## 1. The system

| Component | State | Operations | Talks to |
|---|---|---|---|
| Billing server, `server/BillingServer.*` | `clients_` (one `ClientInfo` per connection: session, package, elapsed time, cost, lock), `next_id_`, the timer | accept, client data, disconnect, tick, start/end session, lock, chat, broadcast, menu offer, start, stop | sockets (lines out and in), admin window (calls both ways), database, receipts |
| Admin window, `server/MainWindow.*` | widgets, open dialogs and what their code captured, chat buffers, list stores | buttons of a station's card, dialogs, catalogue and settings forms, dashboard and revenue views | billing server, database |
| Database, `server/Database.*` | tables `sessions`, `packages`, `menu_items`, `settings` | append a session; add, update, delete packages and menu items; settings; revenue queries; first-run seeding | called by server and window |
| Receipts, `server/Receipt.*` | files in `~/cafebill-receipts`, named by the second | save | called when a session ends |
| Server process, `server/main.cpp` | - | open the database, listen, main loop, stop | all of the above |
| Wire protocol, `common/protocol.h` | - | encode, decode | both ends |
| GTK client, `client/*` | socket, screen, `locked_`, `session_active_`, times, dialogs, key grab | connect, line received, heartbeat, disconnect, chat, close | server |
| Windows client, `windows-client/*` | the same in globals, a receive thread, a message queue, lock window, keyboard hook | the same, on two threads | server |

The server is one thread: a GLib main loop that calls back for sockets, for the
one-second timer and for the admin's clicks. Each callback runs to its end, but
`gtk_dialog_run` spins a *nested* main loop, so between the opening of a dialog
and its answer any number of other callbacks run. That is where the server's
interleavings come from. The GTK client has the same shape; the Windows client
has a real second thread.

What is hard in this code (PROJECT.json, "hazards", gives each its line):

* data captured before a dialog and used after it (a `ClientInfo*` in the start
  dialog, a client id in the stop dialog);
* three callbacks that end sessions (the tick, the stop button, the disconnect),
  each with its own saving, and a `startSession` that overwrites without asking;
* sessions that live in memory only until they end, an INSERT whose failure is
  ignored, receipts that share a file name within a second;
* time counted in timer callbacks rather than in seconds, a cost that is cached;
* the order of the lines a station receives, lines that do not fit into a
  socket's buffer, values that contain the protocol's own separators;
* on the clients: modal dialogs inside message callbacks, reconnects, a lock
  that is kept in several variables, a window procedure that re-enters itself.

What makes each part correct:

* server: each session is billed once, for the time it took, at its package's
  price, on the station the admin chose; fixed packages end in time;
* window: what is on the screen is what the server believes; an answer acts on
  what the question was about;
* database and receipts: what ended is on disk;
* protocol and clients: a station that has read its lines shows and locks what
  the server believes.

## 2. The modules

| Module | What it is |
|---|---|
| `Protocol` | packages, and the lines server and stations exchange, as records |
| `ServerSide` | the contract between server and station: what the server may do to a station, the lines it writes in the same step, what it believes afterwards |
| `BillingServer` | the server, the parts of the admin window that act on sessions, the sessions table, the receipt files, the process; its properties |
| `SessionLedger` | an abstract specification of the server: one fate per session |
| `StationStream` | another one: every station is told, in order, all that the server does to it (`ServerSide`), until its stream loses a line |
| `AdminViews` | `BillingServer` composed with what its callbacks paint in the admin window: cards, header, dashboard, session history, dates |
| `Catalogue` | packages, menu and settings: their tables, the launch that fills them, the forms that edit them, in several processes that share one file |
| `GtkClient` | the GTK client: connections, messages, boxes, the lock; its environment is a server that does anything `ServerSide` allows |
| `WinClient` | the Windows client: receive threads, posted messages, the lock and the window procedure that re-enters it; the same environment |
| `ServerSideProofs`, `BillingServerProofs`, `AdminViewsProofs`, `GtkClientProofs`, `WinClientProofs`, `CatalogueProofs` | theorems and lemmas about the module of that name and their proofs |
| `BillingStreamProofs` | on top of `BillingServerProofs`: what the server writes, and that it implements `StationStream` |
| `MCBillingServer`, `MCAdminViews`, `MCCatalogue`, `MCGtkClient`, `MCWinClient` | constants and restricted next-state relations for the TLC runs |

How they compose. `AdminViews` extends `BillingServer`: each of its actions is
one of the server's with what the callback paints. Server and clients are
composed by contract, for a product of two streams, two message loops and two
sets of windows is out of TLC's reach. A *deed* of `ServerSide` is something done
to a station (a start, a tick, a tick that reaches the duration, an end, a lock,
talk) with the lines written in that step. `BillingServer` is shown to do nothing
but deeds (`KeepsContract`, a refinement of `StationStream`), and `GtkClient` and
`WinClient` are checked against a server that does any deed at any time, so what
they guarantee holds with the real one as long as no line is lost; that a deed
starts a session only on a station that has none is itself something the server
has to be shown to keep, for `startSession` does not ask. When a line was lost
the stations are on their own: their properties say nothing of it, and nobody in
the code notices.

In a component's module a definition marked "Seeded fault" is the definition
below it with a plausible bug. None is used by a specification; put in the place
of its neighbour it makes a property of a run fail, which PROJECT.json,
"mutants", lists.

### BillingServer and the code

State. `clients` and `info` are the keys and values of `clients_`; `nextId` is
`next_id_`; `dialog` is the modal dialog on the screen with the pointer
(`cid`, `freedAt`) or the id its code holds; `toClient` has the unread lines of
each connection and `torn` the connections that lost one; `sessions` is the
table; `receipts` and `lastReceipt` the receipt files; `ticked` says whether the
timer has fired in this second; `up` whether the process runs. `nsess`, `failed`
and `dropped`, and the field `sid` of records, rows and dialogs, are history: no
guard reads them except for the bound on the number of sessions.

Actions. One for each callback, with all that the callback does:

| Action | Code |
|---|---|
| `OnAcceptReady`, `OnClientData`, `OnClientDisconnect` | the functions of that name, called by `cb_accept` and `cb_client_data` |
| `OnTick` | `onTick` with the `endSession` calls inside its loop |
| `OpenStart`, `ConfirmStart` | `openStartSessionDialog` up to `gtk_dialog_run`; its answer and `startSession` |
| `OpenStop`, `ConfirmStop` | `onStopClicked` up to `gtk_dialog_run`; its answer, `endSession` and the opening of the receipt |
| `OpenOther`, `ConfirmOther`, `Dismiss` | the dialogs that hold nothing of a session; their answer where it writes to stations; any dialog closed without effect |
| `OnLockClicked`, `SendChat`, `OnBroadcastMenuClicked` | buttons that act at once |
| `Stop`, `Crash`, `Start` | the window is closed and `main` returns; the process is lost otherwise; `main` again |
| `PeerRead`, `Second` | the environment: the station reads a line, a second goes by |

Abstractions, and what they rest on:

* A callback is one step. A crash may come between callbacks, not inside one.
* Time is a sequence of seconds. In each the timer fires once or not at all
  (GLib does not catch up). `age`, which stands for `time() - session_start`, and
  the receipt's name change with `Second`, so one clock serves the timer, the
  rows and the receipts.
* Cost is kept in 1/3600 of a rupiah, so `elapsed / 3600.0 * price` needs no
  fractions. The rounding of a line's or a row's amount is left out.
* The start dialog's pointer. While the client is connected it designates its
  record. After `delete c` the dialog reads freed memory: either allocator data,
  which is no client's id, or, when the block has been handed out again, the
  record of a client that connected since (`StartTargets`). Both are outcomes a
  build can produce; that client ids of the past come out is subsumed by the
  first, for `getClient` finds neither.
* A line that does not fit is lost or cut. Up to the first loss the stream is
  modelled exactly (`Fitting`), after it the connection is in `torn` and nothing
  is claimed of it.
* The admin window is blocked while a modal dialog is up, its close button too.
* A chat window may outlive its client; what is typed there then goes nowhere,
  so `SendChat` is an action for connected clients only.
* Left out: host names, settings (they appear on receipts only), chat
  transcripts, the text of receipts, failing receipt files, labels and lists of
  the window. `Packages` is a constant set: a session copies its package when it
  starts, and any package of the set may be chosen at any time.

### GtkClient and the code

State. `screen`, `cover` (the overlay), `locked` (`locked_`), `grabbed`
(`kb_grabbed_`) and `shown` (`elapsed_sec_`) are the window's; `cur` and `sock`
are the client's `channel_` and `sock_fd_`, which need not agree. `hb_timer_` is
set and reset together with `channel_`, so `cur` stands for both, and `timers`
counts the sources that are installed. `watch`, `fd`, `fdOpen` and `inbox` are
what GLib and the kernel keep of each connection ever made, for the fields know
the latest one only. `boxes` is the stack of callbacks that are inside
`gtk_dialog_run`. `doubled` is history: a connect was made while there was a
connection.

| Action | Code |
|---|---|
| `Connect`, `ConnectFails`, `BadPort` | `onConnectClicked` with `TcpClient::connect`; its failing paths; `stoi` of a port that is no number |
| `OnData` with `HandleMessage` and the handlers | `cb_data` that reads a line, `onData`, `handleMessage` |
| `OnDisconnect` | `cb_data` that finds a hang-up or the end of file, `onDisconnect`, `disconnect` |
| `OnShutChannel` | `cb_data` called for a channel that `disconnect` has shut from another watch's callback |
| `DismissBox` | the answer to the innermost message box, after which its callback returns |
| `Close`, `BadPackageList`, `Launch` | the window's delete-event; `stoi` throwing on a package list; `main` |
| `PeerRegisters`, `PeerActs`, `PeerTicks`, `PeerSays`; `PeerGone` | the deeds of `ServerSide` on a connection; the network, or the end of the server |

What GLib does is modelled from how the code uses it: a watch is not dispatched
while its own callback runs; sources of one priority are dispatched in the order
they were added; a watch polls a descriptor's *number*, also after the channel
was shut; reading a channel that was shut is an error. A reset is noticed before
the lines that are still unread, an end of file after them. A keyboard grab may
fail. The descriptor of a new connection is any number that is free.

Left out: the chat window, labels other than the elapsed time, and the
heartbeat's line, for the client ignores the answer. `session_active_` and
`packages_` are written and never read.

### AdminViews and the code

The window has no loop of its own: it is painted by the server's callbacks, each
of which calls some of `updateClientStation`, `refreshRevenueLabel`,
`reloadRevenue`, `reloadDashboard` and not others. So each action here is an
action of `BillingServer` conjoined with what that callback repaints:
`AddClientStation`, `RemoveClientStation`, `ShowTick`, `ShowStart`, `ShowStop`,
`ShowLock`, `ShowClientData`; `Show` and `ShowNothing` with the process; two
refresh buttons; `Elsewhere` for all callbacks that repaint nothing.

State. `card` is what `updateStationCard` last showed of each client, `header`
the two labels, `dash` the dashboard, `history` the rows of the revenue tab. The
queries are functions of the table (`Today`, `Newest`): they are taken to
succeed. Totals are kept as the set of the rows summed up, so a sum is right
exactly when the set is; count and average are those of the same set. `day` is
the date and `startDay` the date of each session's start, for the queries select
by it. `late` and the dashboard's `day` are history.

`removeClientStation` runs before the client is erased from the map, so its
reload of the dashboard still counts it, while its label subtracts one; it does
not reload the history. `Newest` has `LIMIT` 200 in the code, the constant
`Latest` here.

### Catalogue and the code

A process goes through `Launch` (the file is opened), two looks at a table each
followed by a `Seed` step, the settings, and `Start` or `StartFails`; then the
window's forms are open to the admin until `Quit`. `BillingServer` and
`AdminViews` have what one process does while it runs; here the process is
little more than its port, and there are several. Nothing but the port keeps two
of them apart, and `main` opens and fills the database before it binds; a port
changed in the settings does not change the port in use. So `init`'s look at a
table and its INSERT are separate steps, with another process's statements in
between. The reads in `Start` are one step.

`init`, the lists, the choices and the settings are read with a SELECT each, and
several processes may hold the file's lock. `getPackages` and `getMenuItems`
return no rows when their SELECT cannot be prepared and stop early when a step
fails; an empty list is therefore not an empty table. `Reads` has all outcomes:
all rows, none, or those read before the failure. `seen` is history: of each
table a process has `all` or `part`, by its latest SELECT, or `old`, when another
process has changed the table since.

* A row is its number, its price in hundredths (any integer: the forms take what
  `stod` takes, a minus sign included), and `serial`, a history number that tells
  rows apart. The five and the ten default rows are one. Names,
  durations, categories and texts are left out: nothing depends on them.
* Each statement may fail, and no caller looks (`Unwritten`, `SaveSettings`,
  the second case of `Seed`). `reload` afterwards shows what its SELECT gives.
* The two edit dialogs show the price cut to an integer, towards zero (`Cut`; of
  one that no `int` can hold, any), and write back what they show or what is
  typed. An empty price is 0 for a menu item; for a
  package `stod` throws, which is one of the ways to `Quit`.
* `dialog` holds what an open dialog was filled with. GTK's modality makes the
  forms of one process exclude each other.
* The settings' other entries are printed or not read at all (the hourly rate is
  one that nothing reads), and the form's own
  entry is not a variable: any value of `Ports` may be in it.

### WinClient and the code

State. `win` has the screen, the overlay, `g_locked`, the window's shape, the
geometry to go back to, the keyboard hook and what the labels speak of, as one
record, so that functions that call each other compose: `ApplyLock`,
`ShowMainPanel` and the `WM_SIZE` handler are functions from windows to windows
(`GoFullscreen`, `Restore`, `MainPanel`, `SizedInApplyLock`). A `SetWindowPos`
that changes the size sends `WM_SIZE` from inside `ApplyLock`, and the handler's
own call of `ApplyLock` returns early because of `g_in_apply_lock`, after having
set `g_locked`. `queue` is the thread's message queue; `boxed` says that a
message box is open, whose loop dispatches posted messages as the outer one
does. `thread`, `reads` and `hold` are one receive thread per connection made,
each of which reads `sock_` (`sock`) anew at each call of `recv`.

| Action | Code |
|---|---|
| `Dispatch` with `HandleMsg` and the handlers, `OnSocketDisc` | the message loop, `HandleMsg`, the `WM_SOCKET_DISC` case |
| `Connect`; `Connected`, `ConnectFails` | the Connect button up to `::connect`; its return |
| `CallRecv`, `Received`, `Post`, `EndThread`, `Torn` | the steps of `recvThread`; a piece of a line lost to another thread on the same socket |
| `Resize`, `Close`, `DismissBox`, `Launch` | what the customer does to the window |
| `PeerRegisters`, `PeerStarts`, `PeerTicks`, `PeerEnds`, `PeerLocks`, `PeerSays`; `PeerGone` | the deeds of `ServerSide` on a connection; the network, or the end of the server |

What Windows does is modelled from how the code uses it: posted messages are
dispatched before input; a box disables its owner; `SetWindowPos` sends
`WM_SIZE` before it returns; a child window destroyed with its parent's other
children is gone, but `ShowConnectPanel` spares the overlay and forgets its
handle (`"left"`). `Layered` says whether the system makes layered child windows
(Windows 8 with a manifest that says so); without it the overlay is never there.
`SetWindowsHookEx` may fail (`hooked`). A socket reset destroys what was not yet
read.

## 3. The runs

Constants of each run are in its `.cfg` and in the `MC` module it names.

| Run | Module | Bounds | What it shows |
|---|---|---|---|
| `ledger` | `MCBillingServer` | 2 connections, 2 sessions, 2 packages (two seconds fixed; hourly, at most 2 ticks), one tick may be missed, `SendCap` 0 | `TypeOK`, `Accounted`, `NoOvertime`, `BilledWithinWallClock`, `CostIsCurrent`, `StopDialogNamesSession`, `StartTargetsFree`, `NoOverwrite`, and that the server implements `SessionLedger` (`KeepsLedger`) |
| `stream` | `MCBillingServer` | 1 connection, 2 sessions, fixed package, up to 3 unread lines, of all talk the menu, fairness | `StreamMirrorsServer`, `TimedSessionEnds`, and that the server implements `StationStream` (`KeepsContract`) |
| `views` | `MCAdminViews` | 2 connections, 2 sessions of one second, 2 days, a history of one row, fairness | `ViewTypeOK`, `CardsAreCurrent`, `HeaderCountsClients`, `DashboardLags`, `MidnightMoney`, `HistoryLags`, `RevenueComesTrue` |
| `catalogue` | `MCCatalogue` | 2 processes, 2 ports (one above 16 bits), 2 packages and 1 menu item ever inserted, negative prices, reads that fail or fall short | `TypeOK`, `IdsNameOneRow`, `ListsFollow`, `DialogsAreCurrent`, `LaunchKeepsRows` |
| `patient` | `MCGtkClient` | 2 connections one after the other, 1 tick, 4 unread lines, names that break the package list, fairness | `LockShows`, `NothingLeaks`, `FollowsServer`, `LockArrivesIfAnswered` |
| `tangle` | `MCGtkClient` | 3 connections, registrations, messages and hang-ups only, 2 unread lines | `TypeOK`, `FieldsAreWatched` |
| `windows` | `MCWinClient` | 2 connections, 3 lines under way; once the second was made on top of the first, 2 lines, registrations and hang-ups only; fairness | `TypeOK`, `LockIsWhole`, `StationFollows`, `PaymentIsAsked`, `LockTakesEffect`, `LossIsNoticed` |
| `wrong_station` | `MCBillingServer` | 2 connections, 1 session | violates `StartHitsChosenStation` |
| `lost_session` | `MCBillingServer` | 1 connection, 1 session | violates `EndedSessionsAreRecorded` |
| `flat_price` | `MCBillingServer` | 1 connection, 1 session, fixed and hourly packages | violates `FlatPriceIsPaid` |
| `close_covered` | `MCGtkClient` | 2 connections one after the other | violates `CoveredStays` |
| `win_unlock` | `MCWinClient` | as `windows` | violates `UnlockFrees` |

Why these bounds.

*Ledger.* Its hazards need two sessions that meet: in one tick, on one station
one after the other, or on a station that came while a dialog was open for
another; two connections and two sessions give each of them, with restarts of
the process in between. The fixed package of two seconds has a tick before the
one that ends it; the hourly one covers the other half of `calcCost`. `MaxLag` =
1 lets a session miss a tick and the next one arrive. With `SendCap` = 0 nothing
is kept of the streams, which the properties of `ledger` do not read.

*Stream.* `KeepsContract` compares every step with the deed it must be, so the
length of the stream matters only where lines are lost: three lines are the most
that one deed writes (a menu offer, a tick that ends its session), and a stream of
three meets every deed with room for all, some and none of its lines. Of all talk
it keeps the menu offer, to a station that has read everything; the other talk is
one line that no property looks at and only takes room from the others. One
station is enough, because the contract speaks of each station by itself.

*Views.* Two stations are what it takes to have one leave while another stays,
two sessions for one that is listed and one that is not (`Latest` = 1), and two
days for one midnight.

*Catalogue.* Two processes and two packages ever inserted give a delete and an
insert in one of them while the other has a list, a dialog or a launch under
way, and of two packages a SELECT can give none, the first or both. The port
73616 does not fit into 16 bits and is used as 8080. Prices are negative, which
the forms accept: a package costs -100 hundredths, typed or by default; the
default menu item costs -50, which an edit cuts to 0 (towards zero, where
rounding down would give -100), so that an edit changes the row. The processes
are interchangeable, and the properties are safety properties, so symmetry is
sound.

*GTK client.* A descriptor number is used again, while an old watch still polls
it, by the third connection at the earliest: two on top of each other, one
hang-up, one more; `tangle` has exactly that, and leaves out the lines that
neither open boxes nor matter to watches. `FollowsServer` and `NothingLeaks` say
nothing once a customer has connected twice at a time, so `patient` does not
explore that and affords longer streams; the second connection starts from what
the first has left behind. `LockShows` does not depend on connections at all (it
is proved for all of them), only on the messages and the reconnect.

*Windows client.* Each server step writes at most two lines, so three lines
under way let one step's lines meet another's in the queue while a box is open.
`hasty` is history: the customer has connected while a receive thread still ran,
which the agreement with the server presupposes has not happened. What such a
customer can break is the noticing of a loss (`LossIsNoticed`): two threads read
one `sock_`. From that click on the server only registers and hangs up
(`HastyDeeds`) and at most `HastyCap` lines are under way, for these are what a
loss consists of; the lines sent before it are of all kinds. `Layered` is TRUE,
else there is no overlay to be wrong; the theorem has both.

Deadlock is checked in every run but those of `WinClient`: at the server a
second can always go by, or a tick is due; in `catalogue` there is always a
process to launch or to quit; at the GTK client there is always something to
click. A Windows client that has used up its connections and is locked has
nothing left to click: the bound `MaxConn` stops it there.

### Fairness

* `stream` (`Fairness`) and `views`: `WF` of the tick and of `Second`. The
  timeout source stays installed (`G_SOURCE_CONTINUE`), the main loop and the
  nested loop of every dialog dispatch it, and no callback blocks; time goes on.
  Nothing is assumed of the admin, the stations or the database. A crash ends all
  sessions, so no fairness of `Start` is needed.
* `patient`: `WF(Loop(k))` for each connection. The main loop, or the innermost
  nested one, dispatches every watch that is ready. Nothing is assumed of the
  customer, so a box may stay open, and then no line is handled:
  `LockArrivesIfAnswered` says that this is the only reason why a lock may not
  arrive.
* `windows`: the threads run, `::connect` returns, and the loop
  dispatches what is posted. Nothing is assumed of the customer or the server.
  Here a box holds nothing back, so `LockTakesEffect` needs no premise.

### What the violations mean

Each states what the repository says of the program, in the words quoted under
"findings" in PROJECT.json:

* the start dialog may start, and unlock, a station nobody chose
  (`server/MainWindow.cpp:1515`);
* closing the admin window forgets the sessions that run
  (`server/BillingServer.cpp:107`);
* a fixed package that is ended before its first tick costs nothing
  (`server/BillingServer.cpp:259`);
* a covered station can be closed (`client/ClientWindow.cpp:276`);
* a Windows station that the admin unlocks by hand stays locked
  (`windows-client/main.cpp:517`).

The models hold more of the kind, which the hazards of PROJECT.json describe
and no run states: an hourly session is billed at its package's price, where
the settings' form says that its hourly rate applies
(`server/MainWindow.cpp:871`; `CostIsCurrent` states what the code does); a
SELECT that fails makes a launch insert the default rows into a table that is
not empty, and lists show less than there is (`server/Database.cpp:166`;
`LaunchKeepsRows` and `ListsFollow` allow it only then); a message box that is
left open keeps a GTK station unlocked (`client/ClientWindow.cpp:464`, the
premise of `LockArrivesIfAnswered`); of two sessions that expire in one tick
only the second keeps its receipt (`server/Receipt.cpp:26`); a menu offer
arrives as three lines (`server/BillingServer.cpp:348`); a package's name can
end every GTK client that registers (`client/ClientWindow.cpp:325`, the
constant `OddNames`); a registration served late covers a station that is
billed (`client/ClientWindow.cpp:287`, the exception in `FollowsServer` and in
`StationFollows`); two clicks on Connect leave a heartbeat, a watch and a
socket behind (`client/TcpClient.cpp:56`, the premise of `NothingLeaks`); the
money of a session that is saved after midnight is in no day's total
(`server/Database.cpp:336`, `MidnightMoney`); the default menu comes back when
the admin has emptied it (`server/Database.cpp:99`, which says "seeded only
once, on a fresh database"; `LaunchKeepsRows` claims no more than the code
keeps); a port that cannot be bound can be saved, after which no launch gets as
far as the settings (`server/main.cpp:41`, `StartFails`); an edit drops the
fraction of a price (`server/MainWindow.cpp:1073`, `Cut`).

## 4. What is proved

`BillingServerProofs` proves, for all values of the constants that satisfy the
named assumptions (`PackagesAssumption`, `UsersAssumption`, `BoundsAssumption`):

| Theorem | Statement |
|---|---|
| `TypeCorrect` | `Spec => []TypeOK` |
| `StartFindsFreeStation` | `Spec => []StartTargetsFree` |
| `NothingOverwritten` | `Spec => NoOverwrite` |
| `SessionsAccounted` | `Spec => []Accounted` |
| `NobodyStaysBeyond` | `Spec => []NoOvertime` |
| `StopMeansItsSession` | `Spec => []StopDialogNamesSession` |
| `CostsAreCurrent` | `Spec => []CostIsCurrent` |
| `BillsAreWithinTime` | `Spec => []BilledWithinWallClock` |
| `LedgerIsKept` | `Spec => KeepsLedger` |

The argument. `TypeOK` is not inductive: that the sets of session numbers stay
within `Sids` needs that a running session has a number in `1..nsess`, that the
table is finite (row ids are its size plus one) and that a process that is down
has no clients. `TypeInv` adds these. Relative to it:

* `StartTargetsFree` is inductive. It is what makes the missing check in
  `startSession` harmless for the ledger: ids only grow, so whatever later
  client the dangling pointer may designate connected while the start dialog was
  up, and no session can start while a dialog is up but by its answer.
* `EveryStep` sorts the steps by what they do to sessions: nothing, one session
  opened on a station that is free (by the previous point), some sessions of
  connected clients settled (each recorded or failed), or the process lost (all
  dropped). `NoOverwrite` and `Accounted` are proved from that classification
  and not from the actions, so a new action has to be classified once.
* `MeterStep` says what a step does to a session that is active after it: it
  stands still, begins at zero, or takes one tick without being due.
  `NoOvertime` follows.
* `StopDialogNamesSession` follows from `EveryStep` and a look at the dialogs: the
  stop dialog opens on a running session, and while any dialog is up a session
  begins only by the start dialog's answer, which is not the stop dialog's.
* Rows take their cost and time from the record of the session they end, so
  neither `CostIsCurrent` nor `BilledWithinWallClock` is inductive about rows
  alone. `BillInv` joins both properties about records (those without a session
  included, whose cost and time are zero) and about rows, and says what
  `CostIsCurrent` leaves open, that before the first tick the cost is zero
  (`CostOf`), for a record must have some cost to carry over; `RecordsOK` and
  `RowsStep` carry it through a step.
* `LedgerIsKept`: under `Accounted` the fate of a session follows from where its
  number is kept (`FateIs`). With that, each class of `EveryStep` is a step of
  the ledger: a session opened is `Open`, sessions settled are `Settle`, a process
  lost is `Down` (or nothing, if it was down), the rest are `Up` or stutter
  (`FatesStep`).

`BillingStreamProofs` goes on, from the same assumptions, with what is written to
the stations:

| Theorem | Statement |
|---|---|
| `ContractIsKept` | `Spec => KeepsContract` |
| `StreamsMirrorServer` | `Spec => []StreamMirrorsServer` |

The argument. `StreamInv` adds to the invariants of `BillingServerProofs` that
no stream is longer than its buffer (`Capped`) and that a connection that is not
in the map has a new record and nothing to read (`Vacant`), so that `Accepted`
finds what it has to.

* `EveryMove` takes each callback apart by station: to any one of them it is
  `Accepted`, `Left`, a `Done` deed, `Read` or `Unchanged`. The tick is the case
  with three kinds of stations at once (expiring, running, idle); a start is a
  deed only because `StartTargetsFree` holds.
* A stream is modelled until it loses a line: what is cut off is a suffix
  (`Cut`), so a torn stream still begins with lines in their order.
* `StreamsMirrorServer` does not look at the server at all. `DeedMirrors` says of
  each deed of `ServerSide` that its last line about the lock and its last line
  about the session say what is believed after it; with `ContractIsKept`'s
  classification that carries `MirrorInv` through every step.

`AdminViewsProofs` proves every safety property of the `views` run, from the
assumptions of `BillingServer` and `ViewBounds`:

| Theorem | Statement |
|---|---|
| `ViewTypeCorrect` | `ViewSpec => []ViewTypeOK` |
| `CardsStayCurrent` | `ViewSpec => []CardsAreCurrent` |
| `HeaderIsRight` | `ViewSpec => []HeaderCountsClients` |
| `DashboardKeepsUp` | `ViewSpec => []DashboardLags` |
| `MidnightMoneyIsLost` | `ViewSpec => []MidnightMoney` |
| `HistoryKeepsUp` | `ViewSpec => HistoryLags` |

The argument. Every step of the composition is one of the server's
(`ServerUnderneath`: `ViewSpec => Spec`), so what `BillingServerProofs` shows holds
here too (`ServerInv`); of the table it is needed that rows are numbered as they
are added (`RowsNumbered`), else `ORDER BY id DESC LIMIT 200` would not be the
newest ones. `ViewStep` sorts the steps by what they repaint: nothing of
dashboard and history, the dashboard, all three views, or what
`removeClientStation` does, or the window goes; `DaysStep` says how dates move,
`CardsStep` treats the cards. `ViewInv` joins the properties with two facts
about dates: a session began no later than today (`DatesInOrder`), and no total
holds a late row (`TotalsOnTime`). `removeClientStation` counts
the leaving client in the dashboard and not in the header; so the dashboard is
one too high until it is loaded again, and never more, for the next departure
loads it from the map too.

`GtkClientProofs` proves, from `ClientBounds` (with the assumptions of `Protocol`
for `FollowsServer`; `TypeOK` for any set of packages and names):

| Theorem | Statement |
|---|---|
| `ClientTypeCorrect` | `Spec => []TypeOK` |
| `LockAlwaysShows` | `Spec => []LockShows` |
| `ConnectionIsWatched` | `Spec => []FieldsAreWatched` |
| `PatientLeavesNothing` | `Spec => []NothingLeaks` |
| `StationFollowsServer` | `Spec => []FollowsServer` |

The argument. `TypeOK` lacks one fact: a connection in `channel_` has a heartbeat
source, else removing one could leave minus one; `Inv` adds it and is split by
the three groups of variables. Each of the other three is inductive relative to
`Inv`. `LockShows` goes by message handler, for no other callback touches the
lock. `FieldsAreWatched` rests on `disconnect` clearing `channel_` in the very
step that removes any watch. For `NothingLeaks`, a watch that is called is the
one of `channel_` as long as nothing is left behind, so `disconnect` undoes what
`connect` did.

`FollowsServer` speaks of a station that has read everything and is not
inductive. `FollowInv` speaks of what is still to be read: the *last* line in
`inbox` that sets `locked_` (`LockFollows`), the overlay (`CoverFollows`) or the
clock (`ClockFollows`) will set it to what the server believes, and where there
is no such line it has been set. A deed appends lines of which the last ones say
what it makes believed (the lemmas of `ServerSideProofs`); a handler takes a line
away, which was the last of its kind or was not. Boxes play no part, for they
hold lines back without changing their order. The exception for a late
registration appears where it belongs: REGISTERED may be the last line that sets
the overlay only if the server served it late.

`WinClientProofs` proves, from `WinBounds` and the assumptions of `Protocol`:

| Theorem | Statement |
|---|---|
| `TypeCorrect` | `Spec => []TypeOK` |
| `LockStaysWhole` | `Spec => []LockIsWhole` |
| `StationFollowsServer` | `Spec => []StationFollows` |
| `EndAsksForPayment` | `Spec => []PaymentIsAsked` |

The argument. `LockIsWhole` is a predicate on the record `win`, and the window's
functions are operators from records to records. So each of them (`GoFullscreen`,
`Restore`, `MainPanel`, `ShowConnectPanel`, `SetText`) is shown once to keep the
predicate, and the message handlers, which only compose them, keep it whatever
the nesting of `ApplyLock` and `WM_SIZE`. Threads and queue play no part in it,
so it holds for customers who connect at any time.

The other two speak of a customer who was not `hasty`, a patient one, and of a station that has handled all
its lines. Lines are in three places: posted to the window, held by the thread,
not yet received. A patient customer has one thread at a time that reads `sock_`,
only lines of the current connection are posted, and the window is told of the
end of a thread before the next click (`OneThread`); so the three are one stream,
`Pending`, in the order of dispatch, which receiving and posting do not change.
`Follows` says of that stream, as `FollowInv` of the GTK client does of its own,
what its last lines will set. Two ends of the stream need more than a last line. After a start come
`SESSION_START` and `LOCK 0`: the first restores the window, which builds the
panel again and locks it, and only the second frees it (`StartFrees`). After an
end come `SESSION_END` and `LOCK 1`: the first makes the window fullscreen before
it asks for payment, so the second builds no panel and keeps the text
(`EndAsks`). Both need the main panel, which is there because `REGISTERED` comes
first in the stream (`PanelComes`). `StartFrees` leaves out a window the customer
has resized, and a station the server registered late, as the property does.
`FollowInv`, the conjunction, was checked with TLC on the constants of `windows`
with 5 lines under way, for a patient customer, before it was proved.

`CatalogueProofs` proves every property of the `catalogue` run, from
`CatalogueConstants`:

| Theorem | Statement |
|---|---|
| `TypeCorrect` | `Spec => []TypeOK` |
| `NumbersNameOneRow` | `Spec => []IdsNameOneRow` |
| `ListsShowTables` | `Spec => []ListsFollow` |
| `CopiesAreCurrent` | `Spec => []DialogsAreCurrent` |
| `RowsSurviveLaunch` | `Spec => LaunchKeepsRows` |

The argument. That numbers name one row is not inductive by itself: a list and a
dialog may hold rows that are long deleted. `Inv` adds that every row, in the file
(`FileInv`), a dialog (`DialogInv`) or a list (`ListInv`), has the number it was
inserted with and none else was (`Plain`), that numbers given are at most
`lastId`, and that a process that is not up shows nothing. Prices are any
integers throughout. `Fresh` says of each process that its lists are the tables,
or part of them if `seen` says so (`FollowsAt`), that a table its launch found
empty is, unless the SELECT failed (`EmptyAt`), and that its dialog's copies are
in the table (`CurrentAt`); nothing is said of what another process has changed
since. A step is one process's own, which reads again what it wrote and notes in
`seen` what it got, or another's, which makes what the process has old.

`ServerSideProofs` has no theorem of its own, but the lemmas that the proofs about
the server's streams and about the clients share: every deed consists of lines of
the protocol and leaves a belief of the right type (`DeedTypes`); what being the
last line of a kind (`IsLast`, `Without`) means for a stream that is read from or
appended to; and, deed by deed, what its last lines say of lock, session and clock
(`LockSaid`, `TickSaid`, `ClockSaid`).

Only model-checked:

* liveness under fairness, which is beyond TLAPS: `TimedSessionEnds`,
  `RevenueComesTrue`, `LockArrivesIfAnswered`, `LockTakesEffect`, `LossIsNoticed`.

## 5. Plan

In this order; what is done is marked.

1. `Protocol`, `BillingServer`, `SessionLedger`, their runs - done.
2. `GtkClient` and its runs, `WinClient` and its runs - done.
3. The server and its stations together: `ServerSide`, `StationStream`,
   `KeepsContract`, the clients' environments made of deeds - done.
4. `AdminViews`, `Catalogue` - done.
5. `BillingServerProofs`, `GtkClientProofs`, `WinClientProofs`,
   `CatalogueProofs`, `AdminViewsProofs`, `BillingStreamProofs`: the theorems
   above, every safety property of every passing run among them - done.

## 6. Not modelled

* The chat windows and transcripts of the three programs: nothing but the window
  itself depends on them. That a chat line reaches its station is modelled.
* The looks of windows, the texts on labels but those that properties speak of,
  the text of a receipt, the settings that are only printed.
* `getMenuItemsByCategory`, which nothing calls, and `getMenuCategories`, which
  fills a combo box with texts.
* Values that contain the protocol's `|`. That a newline cuts a menu offer into
  three lines, and that a package's name can break the package list, is modelled.
* What a client makes of a stream that has lost a line or a part of one, and, at
  the Windows client, of a line torn between two threads beyond its loss.
* A station that loses power is never noticed by the server, for nothing checks
  heartbeats: its session is billed until the admin stops it. The model has that
  behaviour (`OnClientDisconnect` need never happen); no document promises
  otherwise, so no property is about it.
* Build files, images and documentation have no behaviour.
