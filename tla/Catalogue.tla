------------------------------ MODULE Catalogue ------------------------------
(***************************************************************************)
(* The packages, the menu and the settings: their tables in the database   *)
(* file (src/server/Database.cpp), the launch of the server, which fills   *)
(* them (src/server/main.cpp), and the tabs and dialogs in which the admin *)
(* edits them (src/server/MainWindow.cpp).                                 *)
(*                                                                         *)
(* The file is all that one process leaves to the next, and nothing but    *)
(* the port keeps two of them apart: a second launch works on the file     *)
(* before it finds the port taken, and finds it free if the port was       *)
(* changed in the settings.  So several processes share the file here.     *)
(*                                                                         *)
(* Of a row only the number and the price are modelled, of the settings    *)
(* the port: the others are printed, or read by nothing.  The five and ten *)
(* default rows are one.                                                   *)
(***************************************************************************)
EXTENDS Integers, FiniteSets, FiniteSetsExt

Tables == {"packages", "menu_items"}

CONSTANTS Procs,    \* processes of the server, on one database file
          Prices,   \* prices typed in each table's forms, in hundredths of a rupiah
          Ports,    \* ports that are typed
          Default,  \* the port and the prices that init inserts
          MaxId     \* bound, per table: rows ever inserted

ASSUME CatalogueConstants ==
    /\ Prices \in [Tables -> SUBSET Int]
    /\ Ports \subseteq Int
    /\ Default.port \in Ports /\ Default.price \in [Tables -> Int]
    /\ MaxId \in [Tables -> Nat]

VARIABLES
    table,   \* the rows of the two tables
    lastId,  \* the number last given in each, which AUTOINCREMENT remembers
    stored,  \* server_port in the table settings
    at,      \* how far each process has come
    empty,   \* whether init found the table it looks at empty
    port,    \* the port a process listens on
    list,    \* per process, the rows in pkg_store_ and menu_store_
    dialog,  \* the open dialog
    seen     \* history: how much a process has of what each table holds

file == <<table, lastId, stored>>
vars == <<file, at, empty, port, list, dialog, seen>>

-----------------------------------------------------------------------------
(* serial is history: it tells rows apart that have the same number.       *)
Row(id, price, serial) == [id |-> id, price |-> price, serial |-> serial]

IntMax == 2147483647

CInt == (0 - IntMax - 1)..IntMax

(* The whole part of a price, towards zero, which is what the edit dialogs *)
(* show; of a price that no int can hold, what the cast makes of it.       *)
Cut(price) ==
    LET whole == (IF price >= 0 THEN price ELSE price + 99) \div 100
    IN  {100 * n : n \in IF whole \in CInt THEN {whole} ELSE CInt}

(* What stod takes, signs included; what it takes and SQL does not ("nan") *)
(* makes the statement fail.  An empty price is 0 for a menu item; for a   *)
(* package, stod throws.                                                   *)
Typed(t) == Prices[t] \cup (IF t = "menu_items" THEN {0} ELSE {})

\* Seeded fault: the port is not cut to 16 bits.
HtonsWide(n) == n

Htons(n) == n % 65536

\* Seeded fault: a table without AUTOINCREMENT.
NextRowid(t) == Max({r.id : r \in table[t]} \cup {0}) + 1

NextId(t) == lastId[t] + 1

(* What is open is modal.  The rows are those the dialog was filled with;  *)
(* where it works on its copy of them, old is history: another process has *)
(* changed the table since.                                                *)
Dialog(kind, t, rows) == [kind |-> kind, table |-> t, rows |-> rows, old |-> FALSE]

NoDialog == Dialog("none", "none", {})

Message == Dialog("message", "none", {})

Idle(p) == at[p] = "up" /\ dialog[p] = NoDialog

Shows(p, kind) == at[p] = "up" /\ dialog[p].kind = kind

Copies(d) == d.kind \in {"edit", "choice"}

Aged(d, t) ==
    IF Copies(d) /\ d.table = t
    THEN [kind |-> d.kind, table |-> d.table, rows |-> d.rows, old |-> TRUE]
    ELSE d

(* p has answered its dialog, which wrote t or failed to.                  *)
Written(p, t) ==
    dialog' = [q \in Procs |-> IF q = p THEN NoDialog
                               ELSE IF table'[t] # table[t] THEN Aged(dialog[q], t)
                               ELSE dialog[q]]

Unwritten(p) ==
    /\ dialog' = [dialog EXCEPT ![p] = NoDialog]
    /\ UNCHANGED file

(* What a SELECT returns: the rows; none, if it cannot be prepared (no     *)
(* busy_timeout is set, and another process may hold the lock); or those   *)
(* it had come to when a step failed, of the packages the first ones.  The *)
(* order of the menu items is not modelled.                                *)
Reads(t, rows) ==
    {S \in SUBSET rows :
        t = "packages" => \A r \in S : \A q \in rows : q.id <= r.id => q \in S}

(* What a process has of a table is all of it or part of it, by the SELECT *)
(* it executed last, or old: another process has written the table since.  *)
(* A launch has read what it looks at.  What p has from now on is own.     *)
Knows(whole) == IF whole THEN "all" ELSE "part"

Unread == [t \in Tables |-> "all"]

Told(p, own, t) ==
    seen' = [q \in Procs |->
        IF q = p THEN own
        ELSE IF at[q] \in {"up", t} /\ table'[t] # table[t] THEN [seen[q] EXCEPT ![t] = "old"]
        ELSE seen[q]]

Insert(p, t, price) ==
    /\ lastId[t] < MaxId[t]
    /\ table' = [table EXCEPT ![t] = @ \cup {Row(NextId(t), price, lastId[t] + 1)}]
    /\ lastId' = [lastId EXCEPT ![t] = @ + 1]
    /\ Written(p, t)
    /\ UNCHANGED stored

Update(p, t, rows) ==
    /\ table' = [table EXCEPT ![t] = rows]
    /\ Written(p, t)
    /\ UNCHANGED <<lastId, stored>>

-----------------------------------------------------------------------------
NoLists == [t \in Tables |-> {}]

(* The settings init inserts or ignores are there before anything is read. *)
Init ==
    /\ table = NoLists
    /\ lastId = [t \in Tables |-> 0]
    /\ stored = Default.port
    /\ at = [p \in Procs |-> "down"]
    /\ empty = [p \in Procs |-> FALSE]
    /\ port = [p \in Procs |-> 0]
    /\ list = [p \in Procs |-> NoLists]
    /\ dialog = [p \in Procs |-> NoDialog]
    /\ seen = [p \in Procs |-> Unread]

(* init looks at one table after the other and fills it if it is empty: if *)
(* the list it reads is, which the list of any table is when the SELECT    *)
(* fails.                                                                  *)
Look(p, t, whole) ==
    /\ at' = [at EXCEPT ![p] = t]
    /\ empty' = [empty EXCEPT ![p] = ~whole \/ table[t] = {}]

Launch(p) ==
    \E whole \in {TRUE, table["packages"] = {}} :
        /\ at[p] = "down"
        /\ Look(p, "packages", whole)
        /\ seen' = [seen EXCEPT ![p] = [Unread EXCEPT !["packages"] = Knows(whole)]]
        /\ UNCHANGED <<file, port, list, dialog>>

(* The menu comes after the packages, the settings after the menu.         *)
GoOn(p) ==
    \/ \E whole \in {TRUE, table["menu_items"] = {}} :
        /\ at[p] = "packages"
        /\ Look(p, "menu_items", whole)
        /\ Told(p, [Unread EXCEPT !["menu_items"] = Knows(whole)], "packages")
    \/ /\ at[p] = "menu_items"
       /\ at' = [at EXCEPT ![p] = "settings"]
       /\ empty' = [empty EXCEPT ![p] = FALSE]
       /\ Told(p, Unread, "menu_items")

\* Seeded fault: the table is not looked at.
SeedAnyway(p) ==
    /\ at[p] \in Tables
    /\ Insert(p, at[p], Default.price[at[p]])
    /\ GoOn(p)
    /\ UNCHANGED <<port, list>>

(* exec's result is ignored: the INSERT may fail.                          *)
Seed(p) ==
    /\ at[p] \in Tables
    /\ \/ empty[p] /\ Insert(p, at[p], Default.price[at[p]])
       \/ Unwritten(p)
    /\ GoOn(p)
    /\ UNCHANGED <<port, list>>

(* loadSettings, start and, once bind has succeeded, show.  A settings     *)
(* table that cannot be read gives the default port.                       *)
Listening == {port[q] : q \in {r \in Procs : at[r] = "up"}} \ {0}

ReadsAll ==
    {l \in [Tables -> SUBSET UNION {table[t] : t \in Tables}] :
        \A t \in Tables : l[t] \in Reads(t, table[t])}

Start(p) ==
    \E loaded \in {stored, Default.port} : \E lists \in ReadsAll :
        /\ at[p] = "settings"
        /\ Htons(loaded) \notin Listening
        /\ at' = [at EXCEPT ![p] = "up"]
        /\ port' = [port EXCEPT ![p] = Htons(loaded)]
        /\ list' = [list EXCEPT ![p] = lists]
        /\ seen' = [seen EXCEPT ![p] = [t \in Tables |-> Knows(lists[t] = table[t])]]
        /\ UNCHANGED <<file, empty, dialog>>

(* The process ends: bind fails, be it that the port is taken or that it   *)
(* needs rights; the window is closed; or std::stod throws in a callback.  *)
(* What it leaves is the file.                                             *)
End(p) ==
    /\ at' = [at EXCEPT ![p] = "down"]
    /\ empty' = [empty EXCEPT ![p] = FALSE]
    /\ port' = [port EXCEPT ![p] = 0]
    /\ list' = [list EXCEPT ![p] = NoLists]
    /\ dialog' = [dialog EXCEPT ![p] = NoDialog]
    /\ seen' = [seen EXCEPT ![p] = Unread]
    /\ UNCHANGED file

StartFails(p) == at[p] = "settings" /\ End(p)

Quit(p) == at[p] # "down" /\ End(p)

(* ------------------------- packages and menu --------------------------- *)

Open(p, d) ==
    /\ Idle(p)
    /\ dialog' = [dialog EXCEPT ![p] = d]
    /\ UNCHANGED <<file, at, empty, port, list, seen>>

OpenAdd(p, t) == Open(p, Dialog("add", t, {}))

(* The number comes from the list, the row from the database; if that      *)
(* cannot be read, or the row is not in it, nothing opens.                 *)
Selected(p, t, id) == {r \in table[t] : r.id = id /\ \E q \in list[p][t] : q.id = id}

OpenEdit(p, t, id) ==
    /\ Selected(p, t, id) # {}
    /\ Open(p, Dialog("edit", t, Selected(p, t, id)))

(* Every answer ends with a reload of the list, whatever exec returned.    *)
(* The reload is a SELECT as well.                                         *)
Reload(p, t) ==
    \E rows \in Reads(t, table'[t]) :
        /\ list' = [list EXCEPT ![p][t] = rows]
        /\ Told(p, [seen[p] EXCEPT ![t] = Knows(rows = table'[t])], t)

\* Seeded fault: deletes at once, and while a dialog is open.
DeleteAtOnce(p, t, id) ==
    /\ at[p] = "up"
    /\ \E r \in list[p][t] : r.id = id
    /\ table' = [table EXCEPT ![t] = {r \in @ : r.id # id}]
    /\ Reload(p, t)
    /\ UNCHANGED <<lastId, stored, at, empty, port, dialog>>

OpenDelete(p, t, id) ==
    \E r \in list[p][t] : r.id = id /\ Open(p, Dialog("delete", t, {r}))

(* openStartSessionDialog and openMenuOfferDialog take all rows they read, *)
(* onSendMenuOfferClicked the one selected.  A menu without rows is a      *)
(* message, which offers as much as a choice of none.                      *)
OpenChoice(p, t) == \E rows \in Reads(t, table[t]) : Open(p, Dialog("choice", t, rows))

OpenOffer(p, id) ==
    /\ Selected(p, "menu_items", id) # {}
    /\ Open(p, Dialog("choice", "menu_items", Selected(p, "menu_items", id)))

ConfirmAdd(p) ==
    LET t == dialog[p].table IN
    /\ Shows(p, "add")
    /\ \/ \E price \in Typed(t) : Insert(p, t, price)
       \/ Unwritten(p)
    /\ Reload(p, t)
    /\ UNCHANGED <<at, empty, port>>

(* The price is typed, or is the one the dialog shows.                     *)
Repriced(t, r, price) == {IF q.id = r.id THEN Row(q.id, price, q.serial) ELSE q : q \in table[t]}

ConfirmEdit(p) ==
    LET t == dialog[p].table IN
    /\ Shows(p, "edit")
    /\ \/ \E r \in dialog[p].rows : \E price \in Typed(t) \cup Cut(r.price) :
            Update(p, t, Repriced(t, r, price))
       \/ Unwritten(p)
    /\ Reload(p, t)
    /\ UNCHANGED <<at, empty, port>>

\* Seeded fault: the list is not reloaded.
ConfirmDeleteOnly(p) ==
    LET t == dialog[p].table IN
    /\ Shows(p, "delete")
    /\ \E r \in dialog[p].rows :
         Update(p, t, {q \in table[t] : q.id # r.id}) \/ Unwritten(p)
    /\ UNCHANGED <<at, empty, port, list, seen>>

ConfirmDelete(p) ==
    LET t == dialog[p].table IN
    /\ Shows(p, "delete")
    /\ \E r \in dialog[p].rows :
         Update(p, t, {q \in table[t] : q.id # r.id}) \/ Unwritten(p)
    /\ Reload(p, t)
    /\ UNCHANGED <<at, empty, port>>

(* Cancel, a message's OK; or a choice, which hands a row of the dialog to *)
(* the billing server and leaves everything here as it is.                 *)
Close(p) ==
    /\ at[p] = "up" /\ dialog[p] # NoDialog
    /\ dialog' = [dialog EXCEPT ![p] = NoDialog]
    /\ UNCHANGED <<file, at, empty, port, list, seen>>

(* ------------------------------ settings ------------------------------- *)

(* The port in use stays, and "Settings saved." is said in any case.       *)
SaveSettings(p, n) ==
    /\ Idle(p)
    /\ stored' \in {n, stored}
    /\ dialog' = [dialog EXCEPT ![p] = Message]
    /\ UNCHANGED <<table, lastId, at, empty, port, list, seen>>

-----------------------------------------------------------------------------
Launching(p) == Launch(p) \/ Seed(p) \/ Start(p) \/ StartFails(p)

Editing(p) ==
    \/ \E t \in Tables : OpenAdd(p, t) \/ OpenChoice(p, t)
    \/ \E t \in Tables : \E id \in 1..MaxId[t] : OpenEdit(p, t, id) \/ OpenDelete(p, t, id)
    \/ \E id \in 1..MaxId["menu_items"] : OpenOffer(p, id)
    \/ ConfirmAdd(p) \/ ConfirmEdit(p) \/ ConfirmDelete(p) \/ Close(p)
    \/ \E n \in Ports : SaveSettings(p, n)

Next == \E p \in Procs : Launching(p) \/ Editing(p) \/ Quit(p)

Spec == Init /\ [][Next]_vars

-----------------------------------------------------------------------------
(* Properties.                                                             *)

Ids == Nat \ {0}

Rows == [id : Ids, price : Int, serial : Ids]

Dialogs == [kind : {"none", "add", "edit", "delete", "choice", "message"},
            table : Tables \cup {"none"}, rows : SUBSET Rows, old : BOOLEAN]

Places == Tables \cup {"down", "settings", "up"}

Extents == {"all", "part", "old"}

SixteenBits == 0..65535

(* Every variable keeps its shape: a port in use has 16 bits whatever was  *)
(* typed, no two rows have one number, and only an open window shows rows  *)
(* or dialogs.                                                             *)
TypeOK ==
    /\ table \in [Tables -> SUBSET Rows]
    /\ \A t \in Tables : \A r, q \in table[t] : r.id = q.id => r = q
    /\ lastId \in [Tables -> Nat]
    /\ stored \in Ports
    /\ at \in [Procs -> Places]
    /\ empty \in [Procs -> BOOLEAN]
    /\ port \in [Procs -> SixteenBits]
    /\ list \in [Procs -> [Tables -> SUBSET Rows]]
    /\ dialog \in [Procs -> Dialogs]
    /\ seen \in [Procs -> [Tables -> Extents]]
    /\ \A p \in Procs : at[p] # "up" => list[p] = NoLists /\ dialog[p] = NoDialog

(* The number of a deleted row is never another row's: what a list or a    *)
(* dialog still holds, however long it has been open and whatever another  *)
(* process did meanwhile, designates the row it shows or none.             *)
IdsNameOneRow ==
    \A p \in Procs, t \in Tables : \A q \in table[t] :
      /\ \A r \in list[p][t] : r.id = q.id => r.serial = q.serial
      /\ \A r \in dialog[p].rows : dialog[p].table = t /\ r.id = q.id => r.serial = q.serial

(* A list shows rows of the table as they are, but for what other          *)
(* processes changed since it was read, and it shows all of them unless    *)
(* the SELECT that filled it failed.  No result of exec is looked at: what *)
(* a statement that failed would have done is not shown either.            *)
ListsFollow ==
    \A p \in Procs, t \in Tables : at[p] = "up" =>
        /\ seen[p][t] # "old" => list[p][t] \subseteq table[t]
        /\ seen[p][t] = "all" => list[p][t] = table[t]

(* What the admin chooses or edits is what the table holds: the packages   *)
(* and items copied into an open dialog are not changed under it by the    *)
(* process that shows it.                                                  *)
DialogsAreCurrent ==
    \A p \in Procs : Copies(dialog[p]) /\ ~dialog[p].old
      => dialog[p].rows \subseteq table[dialog[p].table]

(* A launch leaves every row as it is.  It adds rows only to the table     *)
(* that init is at, and only if that has none, was filled by another       *)
(* process since init looked at it, or could not be read.  This is less    *)
(* than Database.cpp says: in the last two cases the default rows join     *)
(* others, against its "only when the table is empty"; and as a table that *)
(* the admin has emptied is filled again, the menu is not "seeded only     *)
(* once, on a fresh database".                                             *)
LaunchKeepsRows ==
    [][\A p \in Procs, t \in Tables : at[p] # "up" /\ at'[p] # at[p] =>
         /\ table[t] \subseteq table'[t]
         /\ table'[t] # table[t] =>
              at[p] = t /\ (table[t] = {} \/ seen[p][t] # "all")]_vars
=============================================================================
