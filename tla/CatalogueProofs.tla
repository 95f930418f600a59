--------------------------- MODULE CatalogueProofs ---------------------------
(***************************************************************************)
(* Theorems about Catalogue, for any number of processes on one file.  Two *)
(* facts make its type inductive: the number of a row is at most the last  *)
(* one given, so a new row has a new one, and it equals the row's serial,  *)
(* wherever the row is copied to.  The second part adds what a process     *)
(* knows of the tables.                                                    *)
(***************************************************************************)
EXTENDS Catalogue, TLAPS

Plain(S) == \A r \in S : r.id = r.serial

Forms == {"add", "edit", "delete", "choice"}

FileInv ==
    /\ table \in [Tables -> SUBSET Rows]
    /\ lastId \in [Tables -> Nat]
    /\ stored \in Ports
    /\ \A t \in Tables : \A r, q \in table[t] : r.id = q.id => r = q
    /\ \A t \in Tables : \A r \in table[t] : r.id <= lastId[t]
    /\ \A t \in Tables : Plain(table[t])

DialogInv ==
    /\ dialog \in [Procs -> Dialogs]
    /\ \A p \in Procs : dialog[p].kind \in Forms => dialog[p].table \in Tables
    /\ \A p \in Procs : Plain(dialog[p].rows)
    /\ \A p \in Procs : at[p] # "up" => dialog[p] = NoDialog

PlaceInv ==
    /\ at \in [Procs -> Places]
    /\ empty \in [Procs -> BOOLEAN]
    /\ port \in [Procs -> SixteenBits]
    /\ seen \in [Procs -> [Tables -> Extents]]

Lists == [Tables -> SUBSET Rows]

PlainLists(l) == \A t \in Tables : Plain(l[t])

ListInv ==
    /\ list \in [Procs -> Lists]
    /\ \A p \in Procs : PlainLists(list[p])
    /\ \A p \in Procs : at[p] # "up" => list[p] = NoLists

Inv == FileInv /\ DialogInv /\ PlaceInv /\ ListInv

-----------------------------------------------------------------------------
LEMMA InvGives == Inv => TypeOK /\ IdsNameOneRow
<1> SUFFICES ASSUME Inv PROVE TypeOK /\ IdsNameOneRow
  OBVIOUS
<1>1. TypeOK
  <2>1. /\ table \in [Tables -> SUBSET Rows] /\ lastId \in [Tables -> Nat] /\ stored \in Ports
        /\ \A t \in Tables : \A r, q \in table[t] : r.id = q.id => r = q
    BY DEF Inv, FileInv
  <2>2. /\ at \in [Procs -> Places] /\ empty \in [Procs -> BOOLEAN]
        /\ port \in [Procs -> SixteenBits] /\ seen \in [Procs -> [Tables -> Extents]]
    BY DEF Inv, PlaceInv
  <2>3. list \in [Procs -> [Tables -> SUBSET Rows]]
    BY DEF Inv, ListInv, Lists
  <2>4. dialog \in [Procs -> Dialogs]
    BY DEF Inv, DialogInv
  <2>5. \A p \in Procs : at[p] # "up" => list[p] = NoLists /\ dialog[p] = NoDialog
    BY DEF Inv, ListInv, DialogInv
  <2> QED
    BY <2>1, <2>2, <2>3, <2>4, <2>5 DEF TypeOK
<1>2. IdsNameOneRow
  <2> SUFFICES ASSUME NEW p \in Procs, NEW t \in Tables, NEW q \in table[t]
               PROVE /\ \A r \in list[p][t] : r.id = q.id => r.serial = q.serial
                     /\ \A r \in dialog[p].rows :
                          dialog[p].table = t /\ r.id = q.id => r.serial = q.serial
    BY DEF IdsNameOneRow
  <2>1. q.id = q.serial
    BY DEF Inv, FileInv, Plain
  <2>2. \A r \in list[p][t] : r.id = r.serial
    BY DEF Inv, ListInv, PlainLists, Plain
  <2>3. \A r \in dialog[p].rows : r.id = r.serial
    BY DEF Inv, DialogInv, Plain
  <2> QED
    BY <2>1, <2>2, <2>3
<1> QED
  BY <1>1, <1>2

LEMMA RowType ==
    ASSUME NEW i \in Nat \ {0}, NEW n \in Int, NEW s \in Nat \ {0}
    PROVE  Row(i, n, s) \in Rows /\ Row(i, n, s).id = i /\ Row(i, n, s).serial = s
BY DEF Row, Rows, Ids

LEMMA RowFacts == \A r \in Rows : r.id \in Nat \ {0} /\ r.serial \in Nat \ {0} /\ r.price \in Int
BY DEF Rows, Ids

LEMMA NoDialogType ==
    /\ NoDialog \in Dialogs /\ NoDialog.rows = {} /\ NoDialog.kind \notin Forms
    /\ Message \in Dialogs /\ Message.rows = {} /\ Message.kind \notin Forms
<1>1. {} \in SUBSET Rows
  OBVIOUS
<1> QED
  BY <1>1 DEF NoDialog, Message, Dialog, Dialogs, Forms

LEMMA CopiesForms == \A d : Copies(d) => d.kind \in Forms
BY DEF Copies, Forms

LEMMA DialogType ==
    ASSUME NEW kind \in Forms, NEW t \in Tables, NEW S \in SUBSET Rows
    PROVE  /\ Dialog(kind, t, S) \in Dialogs
           /\ Dialog(kind, t, S).rows = S /\ Dialog(kind, t, S).table = t
           /\ Dialog(kind, t, S).kind = kind
BY DEF Dialog, Dialogs, Forms

LEMMA AgedType ==
    ASSUME NEW d \in Dialogs, NEW t \in Tables
    PROVE  /\ Aged(d, t) \in Dialogs /\ Aged(d, t).rows = d.rows
           /\ Aged(d, t).table = d.table /\ Aged(d, t).kind = d.kind
           /\ d = NoDialog => Aged(d, t) = NoDialog
           /\ Copies(d) /\ d.table = t => Aged(d, t).old
           /\ ~(Copies(d) /\ d.table = t) => Aged(d, t) = d
<1>1. CASE Copies(d) /\ d.table = t
  <2>1. d.kind # "none" /\ NoDialog.kind = "none"
    BY <1>1 DEF Copies, NoDialog, Dialog
  <2> QED
    BY <1>1, <2>1 DEF Aged, Dialogs
<1>2. CASE ~(Copies(d) /\ d.table = t)
  BY <1>2 DEF Aged
<1> QED
  BY <1>1, <1>2

LEMMA NoListsType == NoLists \in Lists /\ PlainLists(NoLists)
BY DEF NoLists, Lists, PlainLists, Plain

(* The dialogs after a statement.                                          *)
LEMMA WrittenStep ==
    ASSUME Inv, NEW p \in Procs, NEW t \in Tables, Written(p, t) \/ Unwritten(p),
           \A q \in Procs : q # p => at'[q] = at[q]
    PROVE  DialogInv'
<1> USE NoDialogType
<1>1. CASE Written(p, t)
  <2>1. \A q \in Procs : q # p => dialog'[q] \in {dialog[q], Aged(dialog[q], t)}
    BY <1>1 DEF Written
  <2>2. dialog'[p] = NoDialog /\ dialog' = [q \in Procs |-> dialog'[q]]
    BY <1>1 DEF Written
  <2>3. \A q \in Procs : dialog[q] \in Dialogs
    BY DEF Inv, DialogInv
  <2>4. ASSUME NEW q \in Procs, q # p
        PROVE  /\ dialog'[q] \in Dialogs /\ dialog'[q].rows = dialog[q].rows
               /\ dialog'[q].kind = dialog[q].kind /\ dialog'[q].table = dialog[q].table
               /\ dialog[q] = NoDialog => dialog'[q] = NoDialog
    BY <2>1, <2>3, <2>4, AgedType
  <2>5. dialog' \in [Procs -> Dialogs]
    BY <2>2, <2>4
  <2>6. \A q \in Procs : Plain(dialog'[q].rows)
    BY <2>2, <2>4 DEF Inv, DialogInv, Plain
  <2>7. \A q \in Procs : at'[q] # "up" => dialog'[q] = NoDialog
    BY <2>2, <2>4 DEF Inv, DialogInv
  <2>8. \A q \in Procs : dialog'[q].kind \in Forms => dialog'[q].table \in Tables
    BY <2>2, <2>4 DEF Inv, DialogInv
  <2> QED
    BY <2>5, <2>6, <2>7, <2>8 DEF DialogInv
<1>2. CASE Unwritten(p)
  <2>1. dialog' = [dialog EXCEPT ![p] = NoDialog]
    BY <1>2 DEF Unwritten
  <2> QED
    BY <2>1 DEF Inv, DialogInv, Plain
<1> QED
  BY <1>1, <1>2

(* What is known of the tables after a SELECT.                             *)
LEMMA Known ==
    /\ \A whole \in BOOLEAN : Knows(whole) \in Extents
    /\ Unread \in [Tables -> Extents]
BY DEF Knows, Unread, Extents

LEMMA ToldType ==
    ASSUME Inv, NEW p \in Procs, NEW t \in Tables, NEW own \in [Tables -> Extents],
           Told(p, own, t)
    PROVE  seen' \in [Procs -> [Tables -> Extents]]
<1>1. "old" \in Extents
  BY DEF Extents
<1>2. \A q \in Procs : seen[q] \in [Tables -> Extents]
  BY DEF Inv, PlaceInv
<1>3. \A q \in Procs : [seen[q] EXCEPT ![t] = "old"] \in [Tables -> Extents]
  BY <1>1, <1>2
<1> QED
  BY <1>2, <1>3 DEF Told

LEMMA InsertStep ==
    ASSUME Inv, NEW p \in Procs, NEW t \in Tables, NEW price \in Int, Insert(p, t, price)
    PROVE  FileInv'
<1> DEFINE new == Row(lastId[t] + 1, price, lastId[t] + 1)
<1>1. /\ new \in Rows /\ new.id = lastId[t] + 1 /\ new.serial = lastId[t] + 1
  <2>1. lastId[t] + 1 \in Nat \ {0}
    BY DEF Inv, FileInv
  <2> QED
    BY <2>1, RowType
<1>2. /\ table' = [table EXCEPT ![t] = @ \cup {new}]
      /\ lastId' = [lastId EXCEPT ![t] = @ + 1]
      /\ stored' = stored
  BY DEF Insert, NextId
<1> HIDE DEF new
<1>3. table' \in [Tables -> SUBSET Rows] /\ lastId' \in [Tables -> Nat] /\ stored' \in Ports
  BY <1>1, <1>2 DEF Inv, FileInv
<1>4. \A u \in Tables : u # t => table'[u] = table[u] /\ lastId'[u] = lastId[u]
  BY <1>2 DEF Inv, FileInv
<1>5. table'[t] = table[t] \cup {new} /\ lastId'[t] = lastId[t] + 1
  BY <1>2 DEF Inv, FileInv
<1>6. \A r \in table[t] : r.id \in Nat /\ r.id <= lastId[t] /\ r.id = r.serial
  <2>1. \A r \in table[t] : r \in Rows
    BY DEF Inv, FileInv
  <2> QED
    BY <2>1, RowFacts DEF Inv, FileInv, Plain
<1>7. \A u \in Tables : \A r, q \in table'[u] : r.id = q.id => r = q
  <2> TAKE u \in Tables
  <2>1. CASE u = t
    <3>1. \A r, q \in table[t] : r.id = q.id => r = q
      BY DEF Inv, FileInv
    <3>2. \A r \in table[t] : r.id # new.id
      BY <1>1, <1>6 DEF Inv, FileInv
    <3> QED
      BY <2>1, <1>5, <3>1, <3>2
  <2>2. CASE u # t
    BY <2>2, <1>4 DEF Inv, FileInv
  <2> QED
    BY <2>1, <2>2
<1>8. \A u \in Tables : \A r \in table'[u] : r.id <= lastId'[u]
  <2> TAKE u \in Tables
  <2>1. CASE u = t
    <3> SUFFICES ASSUME NEW r \in table'[t] PROVE r.id <= lastId'[t]
      BY <2>1
    <3>1. CASE r = new
      BY <3>1, <1>1, <1>5 DEF Inv, FileInv
    <3>2. CASE r \in table[t]
      BY <3>2, <1>5, <1>6 DEF Inv, FileInv
    <3> QED
      BY <3>1, <3>2, <1>5
  <2>2. CASE u # t
    BY <2>2, <1>4 DEF Inv, FileInv
  <2> QED
    BY <2>1, <2>2
<1>9. \A u \in Tables : Plain(table'[u])
  BY <1>1, <1>4, <1>5, <1>6 DEF Inv, FileInv, Plain
<1> QED
  BY <1>3, <1>7, <1>8, <1>9 DEF FileInv

(* An UPDATE or DELETE: the rows R keep their numbers.                     *)
Kept(t, R) == /\ R \in SUBSET Rows
              /\ \A r, q \in R : r.id = q.id => r = q
              /\ \A r \in R : r.id <= lastId[t] /\ r.id = r.serial

LEMMA UpdateStep ==
    ASSUME Inv, NEW p \in Procs, NEW t \in Tables, NEW R, Kept(t, R), Update(p, t, R)
    PROVE  FileInv'
<1>1. table' = [table EXCEPT ![t] = R] /\ lastId' = lastId /\ stored' = stored
  BY DEF Update
<1>2. \A u \in Tables : u # t => table'[u] = table[u]
  BY <1>1 DEF Inv, FileInv
<1>3. table'[t] = R
  BY <1>1 DEF Inv, FileInv
<1>4. table' \in [Tables -> SUBSET Rows]
  BY <1>1 DEF Inv, FileInv, Kept
<1>5. \A u \in Tables : \A r, q \in table'[u] : r.id = q.id => r = q
  BY <1>2, <1>3 DEF Inv, FileInv, Kept
<1>6. \A u \in Tables : \A r \in table'[u] : r.id <= lastId'[u]
  BY <1>1, <1>2, <1>3 DEF Inv, FileInv, Kept
<1>7. \A u \in Tables : Plain(table'[u])
  BY <1>2, <1>3 DEF Inv, FileInv, Kept, Plain
<1> QED
  BY <1>1, <1>4, <1>5, <1>6, <1>7 DEF Inv, FileInv

LEMMA DeleteKeeps ==
    ASSUME Inv, NEW t \in Tables, NEW r
    PROVE  Kept(t, {q \in table[t] : q.id # r.id})
BY DEF Kept, Inv, FileInv, Plain

LEMMA RepriceKeeps ==
    ASSUME Inv, NEW t \in Tables, NEW r, NEW price \in Int
    PROVE  Kept(t, Repriced(t, r, price))
<1> DEFINE f(q) == IF q.id = r.id THEN Row(q.id, price, q.serial) ELSE q
<1>1. \A q \in table[t] : /\ q \in Rows /\ q.id \in Nat \ {0} /\ q.serial \in Nat \ {0}
                          /\ q.id <= lastId[t] /\ q.id = q.serial
  <2>1. \A q \in table[t] : q \in Rows
    BY DEF Inv, FileInv
  <2> QED
    BY <2>1, RowFacts DEF Inv, FileInv, Plain
<1>2. \A q \in table[t] : f(q) \in Rows /\ f(q).id = q.id /\ f(q).serial = q.serial
  <2> TAKE q \in table[t]
  <2>1. CASE q.id = r.id
    <3>1. q.id \in Nat \ {0} /\ q.serial \in Nat \ {0}
      BY <1>1
    <3>2. Row(q.id, price, q.serial) \in Rows /\ Row(q.id, price, q.serial).id = q.id
          /\ Row(q.id, price, q.serial).serial = q.serial
      BY <3>1, RowType
    <3> QED
      BY <2>1, <3>2
  <2>2. CASE q.id # r.id
    BY <1>1, <2>2
  <2> QED
    BY <2>1, <2>2
<1>3. Repriced(t, r, price) = {f(q) : q \in table[t]}
  BY DEF Repriced
<1> HIDE DEF f
<1>4. \A a, b \in table[t] : f(a).id = f(b).id => f(a) = f(b)
  BY <1>2 DEF Inv, FileInv
<1> QED
  BY <1>1, <1>2, <1>3, <1>4 DEF Kept

LEMMA PricesType ==
    /\ \A t \in Tables : Typed(t) \subseteq Int
    /\ \A n \in Int : Cut(n) \subseteq Int
    /\ \A t \in Tables : Default.price[t] \in Int
    /\ Default.port \in Ports
<1>1. \A t \in Tables : Typed(t) \subseteq Int
  BY CatalogueConstants DEF Typed
<1>2. ASSUME NEW n \in Int PROVE Cut(n) \subseteq Int
  <2> DEFINE whole == (IF n >= 0 THEN n ELSE n + 99) \div 100
  <2>1. whole \in Int
    <3>1. \A i \in Int : i \div 100 \in Int
      BY SMT
    <3>2. (IF n >= 0 THEN n ELSE n + 99) \in Int
      OBVIOUS
    <3> QED
      BY <3>1, <3>2
  <2>2. CInt \subseteq Int
    <3>1. IntMax \in Int
      BY DEF IntMax
    <3> QED
      BY <3>1 DEF CInt
  <2>3. Cut(n) = {100 * m : m \in IF whole \in CInt THEN {whole} ELSE CInt}
    BY DEF Cut
  <2> HIDE DEF whole
  <2>4. \A m \in Int : 100 * m \in Int
    OBVIOUS
  <2> QED
    BY <2>1, <2>2, <2>3, <2>4
<1> QED
  BY <1>1, <1>2, CatalogueConstants

LEMMA ReloadStep ==
    ASSUME Inv, FileInv', NEW p \in Procs, NEW t \in Tables, at[p] = "up", at' = at,
           Reload(p, t)
    PROVE  ListInv' /\ seen' \in [Procs -> [Tables -> Extents]]
<1>1. PICK rows \in Reads(t, table'[t]) :
        /\ list' = [list EXCEPT ![p][t] = rows]
        /\ Told(p, [seen[p] EXCEPT ![t] = Knows(rows = table'[t])], t)
  BY DEF Reload
<1>2. PICK l : l = [list[p] EXCEPT ![t] = rows]
  OBVIOUS
<1>3. list' = [list EXCEPT ![p] = l]
  BY <1>1, <1>2
<1>4. /\ list \in [Procs -> Lists] /\ list[p] \in Lists /\ PlainLists(list[p])
  BY DEF Inv, ListInv
<1>5. rows \subseteq table'[t]
  BY DEF Reads
<1>6. rows \in SUBSET Rows /\ Plain(rows)
  BY <1>5 DEF FileInv, Plain
<1>7. l \in Lists /\ PlainLists(l)
  BY <1>2, <1>4, <1>6 DEF Lists, PlainLists
<1>8. list'[p] = l /\ \A q \in Procs : q # p => list'[q] = list[q]
  BY <1>3, <1>4
<1>9. list' \in [Procs -> Lists]
  BY <1>3, <1>4, <1>7
<1>10. \A q \in Procs : PlainLists(list'[q])
  BY <1>7, <1>8 DEF Inv, ListInv
<1>11. \A q \in Procs : at'[q] # "up" => list'[q] = NoLists
  BY <1>8 DEF Inv, ListInv
<1>12. seen' \in [Procs -> [Tables -> Extents]]
  <2> DEFINE own == [seen[p] EXCEPT ![t] = Knows(rows = table'[t])]
  <2>1. seen[p] \in [Tables -> Extents]
    BY DEF Inv, PlaceInv
  <2>2. own \in [Tables -> Extents]
    BY <2>1, Known
  <2>3. Told(p, own, t)
    BY <1>1
  <2> HIDE DEF own
  <2> QED
    BY <2>2, <2>3, ToldType
<1> QED
  BY <1>9, <1>10, <1>11, <1>12 DEF ListInv

(* The answer of a form: statement, reload and the end of the dialog.      *)
LEMMA AnswerStep ==
    ASSUME Inv, NEW p \in Procs, NEW t \in Tables, at[p] = "up", FileInv',
           Written(p, t) \/ Unwritten(p), Reload(p, t), UNCHANGED <<at, empty, port>>
    PROVE  Inv'
<1>1. at' = at
  OBVIOUS
<1>2. DialogInv'
  BY <1>1, WrittenStep
<1>3. ListInv' /\ seen' \in [Procs -> [Tables -> Extents]]
  BY <1>1, ReloadStep
<1>4. PlaceInv'
  BY <1>3 DEF Inv, PlaceInv
<1> QED
  BY <1>2, <1>3, <1>4 DEF Inv

LEMMA FileStands == Inv /\ UNCHANGED file => FileInv'
BY DEF Inv, FileInv, file, Plain

LEMMA Shown ==
    ASSUME Inv, NEW p \in Procs, NEW kind \in Forms, Shows(p, kind)
    PROVE  /\ at[p] = "up" /\ dialog[p].table \in Tables
           /\ \A r \in dialog[p].rows : r \in Rows
BY DEF Inv, DialogInv, Dialogs, Shows

LEMMA ConfirmStep ==
    ASSUME Inv, NEW p \in Procs, ConfirmAdd(p) \/ ConfirmEdit(p) \/ ConfirmDelete(p)
    PROVE  Inv'
<1> DEFINE t == dialog[p].table
<1>1. CASE ConfirmAdd(p)
  <2>1. Shows(p, "add") /\ Reload(p, t) /\ UNCHANGED <<at, empty, port>>
    BY <1>1 DEF ConfirmAdd
  <2>2. at[p] = "up" /\ t \in Tables
    BY <2>1, Shown DEF Forms
  <2>3. ASSUME NEW price \in Typed(t), Insert(p, t, price) PROVE Inv'
    <3>1. FileInv'
      BY <2>2, <2>3, PricesType, InsertStep
    <3>2. Written(p, t)
      BY <2>3 DEF Insert
    <3> QED
      BY <2>1, <2>2, <3>1, <3>2, AnswerStep
  <2>4. ASSUME Unwritten(p) PROVE Inv'
    <3>1. FileInv'
      BY <2>4, FileStands DEF Unwritten
    <3> QED
      BY <2>1, <2>2, <2>4, <3>1, AnswerStep
  <2> QED
    BY <1>1, <2>3, <2>4 DEF ConfirmAdd
<1>2. CASE ConfirmEdit(p)
  <2>1. Shows(p, "edit") /\ Reload(p, t) /\ UNCHANGED <<at, empty, port>>
    BY <1>2 DEF ConfirmEdit
  <2>2. at[p] = "up" /\ t \in Tables /\ \A r \in dialog[p].rows : r \in Rows
    BY <2>1, Shown DEF Forms
  <2>3. ASSUME NEW r \in dialog[p].rows, NEW price \in Typed(t) \cup Cut(r.price),
               Update(p, t, Repriced(t, r, price))
        PROVE  Inv'
    <3>1. price \in Int
      <4>1. r.price \in Int
        BY <2>2, RowFacts
      <4> QED
        BY <2>2, <4>1, PricesType
    <3>2. FileInv'
      BY <2>2, <2>3, <3>1, RepriceKeeps, UpdateStep
    <3>3. Written(p, t)
      BY <2>3 DEF Update
    <3> QED
      BY <2>1, <2>2, <3>2, <3>3, AnswerStep
  <2>4. ASSUME Unwritten(p) PROVE Inv'
    <3>1. FileInv'
      BY <2>4, FileStands DEF Unwritten
    <3> QED
      BY <2>1, <2>2, <2>4, <3>1, AnswerStep
  <2> QED
    BY <1>2, <2>3, <2>4 DEF ConfirmEdit
<1>3. CASE ConfirmDelete(p)
  <2>1. Shows(p, "delete") /\ Reload(p, t) /\ UNCHANGED <<at, empty, port>>
    BY <1>3 DEF ConfirmDelete
  <2>2. at[p] = "up" /\ t \in Tables
    BY <2>1, Shown DEF Forms
  <2>3. ASSUME NEW r \in dialog[p].rows, Update(p, t, {q \in table[t] : q.id # r.id})
        PROVE  Inv'
    <3>1. FileInv'
      BY <2>2, <2>3, DeleteKeeps, UpdateStep
    <3>2. Written(p, t)
      BY <2>3 DEF Update
    <3> QED
      BY <2>1, <2>2, <3>1, <3>2, AnswerStep
  <2>4. ASSUME Unwritten(p) PROVE Inv'
    <3>1. FileInv'
      BY <2>4, FileStands DEF Unwritten
    <3> QED
      BY <2>1, <2>2, <2>4, <3>1, AnswerStep
  <2> QED
    BY <1>3, <2>3, <2>4 DEF ConfirmDelete
<1> QED
  BY <1>1, <1>2, <1>3

LEMMA PlacesStand ==
    Inv /\ UNCHANGED <<at, empty, port, list, seen>> => PlaceInv' /\ ListInv'
<1>1. Inv /\ UNCHANGED <<at, empty, port, seen>> => PlaceInv'
  BY DEF Inv, PlaceInv
<1>2. Inv /\ UNCHANGED <<at, list>> => ListInv'
  BY DEF Inv, ListInv
<1> QED
  BY <1>1, <1>2

(* A dialog with nothing in it replaces what p shows.                      *)
LEMMA ShownStep ==
    ASSUME Inv, NEW p \in Procs, NEW d \in {NoDialog, Message},
           dialog' = [dialog EXCEPT ![p] = d],
           d = NoDialog \/ at'[p] = "up", \A q \in Procs : q # p => at'[q] = at[q]
    PROVE  DialogInv'
<1>1. d \in Dialogs /\ d.rows = {} /\ d.kind \notin Forms
  BY NoDialogType
<1>2. dialog' \in [Procs -> Dialogs]
  BY <1>1 DEF Inv, DialogInv
<1>3. dialog'[p] = d /\ \A q \in Procs : q # p => dialog'[q] = dialog[q]
  BY DEF Inv, DialogInv
<1>4. \A q \in Procs : dialog'[q].kind \in Forms => dialog'[q].table \in Tables
  BY <1>1, <1>3 DEF Inv, DialogInv
<1>5. \A q \in Procs : Plain(dialog'[q].rows)
  BY <1>1, <1>3 DEF Inv, DialogInv, Plain
<1>6. \A q \in Procs : at'[q] # "up" => dialog'[q] = NoDialog
  BY <1>3 DEF Inv, DialogInv
<1> QED
  BY <1>2, <1>4, <1>5, <1>6 DEF DialogInv

LEMMA OpenStep ==
    ASSUME Inv, NEW p \in Procs, NEW t \in Tables, NEW kind \in Forms, NEW S,
           S \in SUBSET Rows, Plain(S), Open(p, Dialog(kind, t, S))
    PROVE  Inv'
<1>1. /\ at[p] = "up" /\ UNCHANGED <<file, at, empty, port, list, seen>>
      /\ dialog' = [dialog EXCEPT ![p] = Dialog(kind, t, S)]
  BY DEF Open, Idle
<1>2. FileInv'
  BY <1>1, FileStands
<1>3. PlaceInv' /\ ListInv'
  BY <1>1, PlacesStand
<1>4. /\ Dialog(kind, t, S) \in Dialogs /\ Dialog(kind, t, S).table = t
      /\ Dialog(kind, t, S).rows = S
  BY DialogType
<1>5. DialogInv'
  BY <1>1, <1>4 DEF Inv, DialogInv
<1> QED
  BY <1>2, <1>3, <1>5 DEF Inv

LEMMA EditingStep == ASSUME Inv, NEW p \in Procs, Editing(p) PROVE Inv'
<1> USE DEF Forms
<1>1. \A t \in Tables : table[t] \in SUBSET Rows /\ Plain(table[t])
  BY DEF Inv, FileInv
<1>2. \A t \in Tables : \A id : Selected(p, t, id) \in SUBSET Rows /\ Plain(Selected(p, t, id))
  BY <1>1 DEF Selected, Plain
<1>3. ASSUME NEW t \in Tables, OpenAdd(p, t) PROVE Inv'
  BY <1>3, OpenStep DEF OpenAdd, Plain
<1>4. ASSUME NEW t \in Tables, OpenChoice(p, t) PROVE Inv'
  <2>1. PICK S \in Reads(t, table[t]) : Open(p, Dialog("choice", t, S))
    BY <1>4 DEF OpenChoice
  <2>2. S \in SUBSET Rows /\ Plain(S)
    BY <1>1, <2>1 DEF Reads, Plain
  <2> QED
    BY <2>1, <2>2, OpenStep
<1>5. ASSUME NEW t \in Tables, NEW id, OpenEdit(p, t, id) PROVE Inv'
  BY <1>2, <1>5, OpenStep DEF OpenEdit
<1>6. ASSUME NEW t \in Tables, NEW id, OpenDelete(p, t, id) PROVE Inv'
  <2>1. PICK r \in list[p][t] : Open(p, Dialog("delete", t, {r}))
    BY <1>6 DEF OpenDelete
  <2>2. {r} \in SUBSET Rows /\ Plain({r})
    <3>1. list[p] \in Lists /\ PlainLists(list[p])
      BY DEF Inv, ListInv
    <3> QED
      BY <3>1 DEF Lists, PlainLists, Plain
  <2> QED
    BY <2>1, <2>2, OpenStep
<1>7. ASSUME NEW id, OpenOffer(p, id) PROVE Inv'
  <2>1. "menu_items" \in Tables
    BY DEF Tables
  <2>2. Open(p, Dialog("choice", "menu_items", Selected(p, "menu_items", id)))
    BY <1>7 DEF OpenOffer
  <2> QED
    BY <1>2, <2>1, <2>2, OpenStep
<1>8. CASE ConfirmAdd(p) \/ ConfirmEdit(p) \/ ConfirmDelete(p)
  BY <1>8, ConfirmStep
<1>9. CASE Close(p)
  <2>1. FileInv' /\ PlaceInv' /\ ListInv'
    BY <1>9, FileStands, PlacesStand DEF Close
  <2>2. DialogInv'
    BY <1>9, ShownStep DEF Close
  <2> QED
    BY <2>1, <2>2 DEF Inv
<1>10. ASSUME NEW n \in Ports, SaveSettings(p, n) PROVE Inv'
  <2>1. FileInv'
    BY <1>10 DEF SaveSettings, Inv, FileInv
  <2>2. PlaceInv' /\ ListInv'
    BY <1>10, PlacesStand DEF SaveSettings
  <2>3. DialogInv'
    BY <1>10, ShownStep DEF SaveSettings, Idle
  <2> QED
    BY <2>1, <2>2, <2>3 DEF Inv
<1> QED
  BY <1>3, <1>4, <1>5, <1>6, <1>7, <1>8, <1>9, <1>10 DEF Editing

(* at[p] moves to a place before the window is shown.                      *)
Moves(p) == /\ at' \in [Procs -> Places] /\ empty' \in [Procs -> BOOLEAN]
            /\ at'[p] # "up" /\ \A q \in Procs : q # p => at'[q] = at[q]

LEMMA MoveTo ==
    ASSUME Inv, NEW p \in Procs, NEW a \in Places \ {"up"}, NEW e \in BOOLEAN,
           at' = [at EXCEPT ![p] = a], empty' = [empty EXCEPT ![p] = e] \/ UNCHANGED empty
    PROVE  Moves(p)
BY DEF Moves, Inv, PlaceInv

LEMMA PlaceNames == /\ Tables \subseteq Places \ {"up", "down"} /\ "packages" \in Tables
                    /\ "menu_items" \in Tables /\ "settings" \in Places \ {"up"}
                    /\ "down" \in Places \ {"up"} /\ "up" \in Places
BY DEF Tables, Places

LEMMA MovesLists ==
    ASSUME Inv, NEW p \in Procs, at[p] # "up", Moves(p), list' = list
    PROVE  ListInv'
BY DEF Inv, ListInv, Moves

LEMMA MovesDialogs ==
    ASSUME Inv, NEW p \in Procs, at[p] # "up", Moves(p), dialog' = dialog
    PROVE  DialogInv'
BY DEF Inv, DialogInv, Moves

LEMMA GoOnStep ==
    ASSUME Inv, NEW p \in Procs, at[p] \in Tables, GoOn(p), port' = port
    PROVE  Moves(p) /\ PlaceInv'
<1>1. CASE at[p] = "packages"
  <2>1. PICK whole \in {TRUE, table["menu_items"] = {}} :
          /\ Look(p, "menu_items", whole)
          /\ Told(p, [Unread EXCEPT !["menu_items"] = Knows(whole)], "packages")
    BY <1>1 DEF GoOn
  <2>2. Moves(p)
    BY <2>1, MoveTo, PlaceNames DEF Look
  <2>3. [Unread EXCEPT !["menu_items"] = Knows(whole)] \in [Tables -> Extents]
    BY Known
  <2>4. seen' \in [Procs -> [Tables -> Extents]]
    BY <2>1, <2>3, ToldType, PlaceNames
  <2> QED
    BY <2>2, <2>4 DEF Inv, PlaceInv, Moves
<1>2. CASE at[p] # "packages"
  <2>1. /\ at' = [at EXCEPT ![p] = "settings"] /\ empty' = [empty EXCEPT ![p] = FALSE]
        /\ Told(p, Unread, "menu_items")
    BY <1>2 DEF GoOn
  <2>2. Moves(p)
    BY <2>1, MoveTo, PlaceNames
  <2>3. seen' \in [Procs -> [Tables -> Extents]]
    BY <2>1, ToldType, Known, PlaceNames
  <2> QED
    BY <2>2, <2>3 DEF Inv, PlaceInv, Moves
<1> QED
  BY <1>1, <1>2

LEMMA SeedStep == ASSUME Inv, NEW p \in Procs, Seed(p) PROVE Inv'
<1> DEFINE t == at[p]
<1>1. t \in Tables /\ t # "up" /\ GoOn(p) /\ UNCHANGED <<port, list>>
  BY PlaceNames DEF Seed
<1>2. Moves(p) /\ PlaceInv'
  BY <1>1, GoOnStep
<1>3. ListInv'
  BY <1>1, <1>2, MovesLists
<1>4. DialogInv' /\ FileInv'
  <2>1. CASE Insert(p, t, Default.price[t])
    <3>1. FileInv'
      BY <1>1, <2>1, PricesType, InsertStep
    <3>2. Written(p, t)
      BY <2>1 DEF Insert
    <3> QED
      BY <1>1, <1>2, <3>1, <3>2, WrittenStep DEF Moves
  <2>2. CASE Unwritten(p)
    <3>1. FileInv'
      BY <2>2, FileStands DEF Unwritten
    <3> QED
      BY <1>1, <1>2, <2>2, <3>1, WrittenStep DEF Moves
  <2> QED
    BY <2>1, <2>2 DEF Seed
<1> QED
  BY <1>2, <1>3, <1>4 DEF Inv

LEMMA EndStep == ASSUME Inv, NEW p \in Procs, End(p) PROVE Inv'
<1>1. FileInv'
  BY FileStands DEF End
<1>2. Moves(p)
  BY MoveTo, PlaceNames DEF End
<1>3. DialogInv'
  BY <1>2, ShownStep DEF End, Moves
<1>4. PlaceInv'
  <2>1. port' \in [Procs -> SixteenBits]
    <3>1. 0 \in SixteenBits
      BY DEF SixteenBits
    <3> QED
      BY <3>1 DEF End, Inv, PlaceInv
  <2>2. seen' \in [Procs -> [Tables -> Extents]]
    BY Known DEF End, Inv, PlaceInv
  <2> QED
    BY <1>2, <2>1, <2>2 DEF PlaceInv, Moves
<1>5. ListInv'
  <2>1. list' = [list EXCEPT ![p] = NoLists]
    BY DEF End
  <2> QED
    BY <1>2, <2>1, NoListsType DEF Inv, ListInv, Moves
<1> QED
  BY <1>1, <1>3, <1>4, <1>5 DEF Inv

LEMMA HtonsType == \A n \in Int : Htons(n) \in SixteenBits
BY SMTT(60) DEF Htons, SixteenBits

(* What Start chooses: the port and the lists it reads.                    *)
LEMMA Starts ==
    ASSUME Inv, NEW p \in Procs, Start(p)
    PROVE  \E loaded \in Ports : \E lists \in Lists :
             /\ \A t \in Tables : lists[t] \subseteq table[t]
             /\ at' = [at EXCEPT ![p] = "up"]
             /\ port' = [port EXCEPT ![p] = Htons(loaded)]
             /\ list' = [list EXCEPT ![p] = lists]
             /\ seen' = [seen EXCEPT ![p] = [t \in Tables |-> Knows(lists[t] = table[t])]]
             /\ UNCHANGED <<file, empty, dialog>>
<1>1. PICK loaded \in {stored, Default.port} : \E lists \in ReadsAll :
             /\ at' = [at EXCEPT ![p] = "up"]
             /\ port' = [port EXCEPT ![p] = Htons(loaded)]
             /\ list' = [list EXCEPT ![p] = lists]
             /\ seen' = [seen EXCEPT ![p] = [t \in Tables |-> Knows(lists[t] = table[t])]]
             /\ UNCHANGED <<file, empty, dialog>>
  BY DEF Start
<1>2. loaded \in Ports
  BY CatalogueConstants DEF Inv, FileInv
<1>3. \A lists \in ReadsAll : lists \in Lists /\ \A t \in Tables : lists[t] \subseteq table[t]
  <2> TAKE lists \in ReadsAll
  <2>1. lists \in [Tables -> SUBSET UNION {table[t] : t \in Tables}]
    BY DEF ReadsAll
  <2>2. \A t \in Tables : lists[t] \subseteq table[t]
    BY DEF ReadsAll, Reads
  <2>3. \A t \in Tables : table[t] \in SUBSET Rows
    BY DEF Inv, FileInv
  <2>4. \A t \in Tables : lists[t] \in SUBSET Rows
    BY <2>2, <2>3
  <2> QED
    BY <2>1, <2>2, <2>4 DEF Lists
<1> QED
  BY <1>1, <1>2, <1>3

LEMMA StartStep == ASSUME Inv, NEW p \in Procs, Start(p) PROVE Inv'
<1>1. PICK loaded \in Ports : \E lists \in Lists :
        /\ \A t \in Tables : lists[t] \subseteq table[t]
        /\ at' = [at EXCEPT ![p] = "up"]
        /\ port' = [port EXCEPT ![p] = Htons(loaded)]
        /\ list' = [list EXCEPT ![p] = lists]
        /\ seen' = [seen EXCEPT ![p] = [t \in Tables |-> Knows(lists[t] = table[t])]]
        /\ UNCHANGED <<file, empty, dialog>>
  BY Starts
<1>2. PICK lists \in Lists :
        /\ \A t \in Tables : lists[t] \subseteq table[t]
        /\ at' = [at EXCEPT ![p] = "up"]
        /\ port' = [port EXCEPT ![p] = Htons(loaded)]
        /\ list' = [list EXCEPT ![p] = lists]
        /\ seen' = [seen EXCEPT ![p] = [t \in Tables |-> Knows(lists[t] = table[t])]]
        /\ UNCHANGED <<file, empty, dialog>>
  BY <1>1
<1>3. FileInv'
  BY <1>2, FileStands
<1>4. at'[p] = "up" /\ \A q \in Procs : q # p => at'[q] = at[q]
  BY <1>2 DEF Inv, PlaceInv
<1>5. DialogInv'
  BY <1>2, <1>4 DEF Inv, DialogInv
<1>6. PlaceInv'
  <2>1. Htons(loaded) \in SixteenBits
    BY CatalogueConstants, HtonsType
  <2>2. port' \in [Procs -> SixteenBits]
    BY <1>2, <2>1 DEF Inv, PlaceInv
  <2>3. [t \in Tables |-> Knows(lists[t] = table[t])] \in [Tables -> Extents]
    BY Known
  <2>4. seen' \in [Procs -> [Tables -> Extents]]
    BY <1>2, <2>3 DEF Inv, PlaceInv
  <2> QED
    BY <1>2, <2>2, <2>4, PlaceNames DEF Inv, PlaceInv
<1>7. ListInv'
  <2>1. PlainLists(lists)
    BY <1>2 DEF Inv, FileInv, PlainLists, Plain
  <2> QED
    BY <1>2, <1>4, <2>1 DEF Inv, ListInv
<1> QED
  BY <1>3, <1>5, <1>6, <1>7 DEF Inv

LEMMA LaunchingStep == ASSUME Inv, NEW p \in Procs, Launching(p) \/ Quit(p) PROVE Inv'
<1>1. CASE Launch(p)
  <2>1. FileInv'
    BY <1>1, FileStands DEF Launch
  <2>2. PICK whole \in {TRUE, table["packages"] = {}} :
          /\ at[p] # "up" /\ at' = [at EXCEPT ![p] = "packages"]
          /\ empty' = [empty EXCEPT ![p] = ~whole \/ table["packages"] = {}]
          /\ seen' = [seen EXCEPT ![p] = [Unread EXCEPT !["packages"] = Knows(whole)]]
          /\ UNCHANGED <<port, list, dialog>>
    BY <1>1 DEF Launch, Look
  <2>3. Moves(p)
    BY <2>2, MoveTo, PlaceNames
  <2>4. DialogInv' /\ ListInv'
    BY <2>2, <2>3, MovesDialogs, MovesLists
  <2>5. seen' \in [Procs -> [Tables -> Extents]]
    <3>1. [Unread EXCEPT !["packages"] = Knows(whole)] \in [Tables -> Extents]
      BY Known
    <3> QED
      BY <2>2, <3>1 DEF Inv, PlaceInv
  <2>6. PlaceInv'
    BY <2>2, <2>3, <2>5 DEF Moves, Inv, PlaceInv
  <2> QED
    BY <2>1, <2>4, <2>6 DEF Inv
<1>2. CASE Seed(p)
  BY <1>2, SeedStep
<1>3. CASE Start(p)
  BY <1>3, StartStep
<1>4. CASE StartFails(p) \/ Quit(p)
  BY <1>4, EndStep DEF StartFails, Quit
<1> QED
  BY <1>1, <1>2, <1>3, <1>4 DEF Launching

LEMMA InitInv == Init => Inv
<1> SUFFICES ASSUME Init PROVE Inv
  OBVIOUS
<1>1. FileInv
  BY PricesType DEF Init, FileInv, NoLists, Plain
<1>2. DialogInv
  BY NoDialogType DEF Init, DialogInv, Plain
<1>3. PlaceInv
  BY PlaceNames, Known DEF Init, PlaceInv, SixteenBits
<1>4. ListInv
  BY NoListsType DEF Init, ListInv
<1> QED
  BY <1>1, <1>2, <1>3, <1>4 DEF Inv

LEMMA NextInv == Inv /\ [Next]_vars => Inv'
<1> SUFFICES ASSUME Inv, [Next]_vars PROVE Inv'
  OBVIOUS
<1>1. ASSUME NEW p \in Procs, Editing(p) PROVE Inv'
  BY <1>1, EditingStep
<1>2. ASSUME NEW p \in Procs, Launching(p) \/ Quit(p) PROVE Inv'
  BY <1>2, LaunchingStep
<1>3. CASE UNCHANGED vars
  <2>1. FileInv'
    BY <1>3, FileStands DEF vars
  <2>2. PlaceInv' /\ ListInv'
    BY <1>3, PlacesStand DEF vars
  <2>3. DialogInv'
    BY <1>3 DEF vars, Inv, DialogInv
  <2> QED
    BY <2>1, <2>2, <2>3 DEF Inv
<1> QED
  BY <1>1, <1>2, <1>3 DEF Next

LEMMA InvAlways == Spec => []Inv
BY InitInv, NextInv, PTL DEF Spec

(* The type invariant: main.cpp, Database.cpp and the forms of             *)
(* MainWindow.cpp, in any number of processes on one file, keep every row, *)
(* list, dialog and port in shape, and number rows apart.                  *)
THEOREM TypeCorrect == Spec => []TypeOK
<1>1. Inv => TypeOK
  BY InvGives
<1> QED
  BY <1>1, InvAlways, PTL

(* What a list or an open dialog of MainWindow.cpp holds, however old, is  *)
(* the number of the row it shows or of none.                              *)
THEOREM NumbersNameOneRow == Spec => []IdsNameOneRow
<1>1. Inv => IdsNameOneRow
  BY InvGives
<1> QED
  BY <1>1, InvAlways, PTL

-----------------------------------------------------------------------------
(***************************************************************************)
(* What a process has of the tables.  Each of the three facts is about one *)
(* process q: what another one writes is marked old, and what q itself     *)
(* writes it reads again, all of it or part of it.  EmptyAt is why a       *)
(* launch inserts only where there was nothing: what init saw is still so, *)
(* unless it did not see the rows or another process has written the table *)
(* since.                                                                  *)
(***************************************************************************)
FollowsAt(q) == at[q] = "up" => \A t \in Tables :
    /\ seen[q][t] # "old" => list[q][t] \subseteq table[t]
    /\ seen[q][t] = "all" => list[q][t] = table[t]

EmptyAt(q) == at[q] \in Tables /\ empty[q] => table[at[q]] = {} \/ seen[q][at[q]] # "all"

CurrentAt(q) == dialog[q].kind \in {"edit", "choice"} /\ ~dialog[q].old
                  => dialog[q].rows \subseteq table[dialog[q].table]

FreshAt(q) == FollowsAt(q) /\ EmptyAt(q) /\ CurrentAt(q)

Fresh == \A q \in Procs : FreshAt(q)

\* A statement on t leaves the other table alone.
Only(t) == table' = [table EXCEPT ![t] = table'[t]]

LEMMA OnlyOne ==
    ASSUME Inv, NEW t \in Tables, Only(t)
    PROVE  /\ \A u \in Tables : u # t => table'[u] = table[u]
           /\ table'[t] = table[t] => table' = table
BY DEF Only, Inv, FileInv

LEMMA Extent ==
    /\ \A whole \in BOOLEAN : Knows(whole) # "old" /\ (Knows(whole) = "all" <=> whole)
    /\ Unread = [t \in Tables |-> "all"]
BY DEF Knows, Unread

LEMMA StillFresh ==
    ASSUME NEW q \in Procs, FreshAt(q), table' = table, at'[q] = at[q],
           empty'[q] = empty[q], list'[q] = list[q], seen'[q] = seen[q],
           dialog'[q] = dialog[q]
    PROVE  FreshAt(q)'
<1>1. FollowsAt(q)'
  BY DEF FreshAt, FollowsAt
<1>2. EmptyAt(q)'
  BY DEF FreshAt, EmptyAt
<1>3. CurrentAt(q)'
  BY DEF FreshAt, CurrentAt
<1> QED
  BY <1>1, <1>2, <1>3 DEF FreshAt

LEMMA ToldFresh ==
    ASSUME Inv, NEW p \in Procs, NEW t \in Tables, NEW own, Told(p, own, t), Only(t),
           Written(p, t) \/ (Unwritten(p) /\ table' = table),
           NEW q \in Procs, q # p, FreshAt(q), at'[q] = at[q], empty'[q] = empty[q],
           list'[q] = list[q]
    PROVE  FreshAt(q)'
<1>1. CASE table'[t] = table[t]
  <2>1. table' = table
    BY <1>1, OnlyOne
  <2>2. seen'[q] = seen[q]
    BY <1>1 DEF Told
  <2>3. dialog'[q] = dialog[q]
    BY <1>1 DEF Written, Unwritten, Inv, DialogInv
  <2> QED
    BY <2>1, <2>2, <2>3, StillFresh
<1>2. CASE table'[t] # table[t]
  <2>1. /\ dialog'[q] = Aged(dialog[q], t)
        /\ seen'[q] = IF at[q] \in {"up", t} THEN [seen[q] EXCEPT ![t] = "old"] ELSE seen[q]
        /\ \A u \in Tables : u # t => table'[u] = table[u]
    BY <1>2, OnlyOne DEF Written, Told
  <2>2. dialog[q] \in Dialogs /\ (dialog[q].kind \in Forms => dialog[q].table \in Tables)
    BY DEF Inv, DialogInv
  <2>3. seen[q] \in [Tables -> Extents]
    BY DEF Inv, PlaceInv
  <2>4. FollowsAt(q)'
    <3> SUFFICES ASSUME at'[q] = "up", NEW u \in Tables
                 PROVE  /\ seen'[q][u] # "old" => list'[q][u] \subseteq table'[u]
                        /\ seen'[q][u] = "all" => list'[q][u] = table'[u]
      BY DEF FollowsAt
    <3>1. CASE u = t
      BY <2>1, <2>3, <3>1
    <3>2. CASE u # t
      BY <2>1, <2>3, <3>2 DEF FreshAt, FollowsAt
    <3> QED
      BY <3>1, <3>2
  <2>5. EmptyAt(q)'
    <3> SUFFICES ASSUME at[q] \in Tables, empty[q]
                 PROVE  table'[at[q]] = {} \/ seen'[q][at[q]] # "all"
      BY DEF EmptyAt
    <3>1. CASE at[q] = t
      BY <2>1, <2>3, <3>1
    <3>2. CASE at[q] # t
      <4>1. at[q] # "up"
        BY PlaceNames
      <4> QED
        BY <2>1, <3>2, <4>1 DEF FreshAt, EmptyAt
    <3> QED
      BY <3>1, <3>2
  <2>6. CurrentAt(q)'
    <3>1. CASE Copies(dialog[q]) /\ dialog[q].table = t
      BY <2>1, <2>2, <3>1, AgedType DEF CurrentAt
    <3>2. CASE ~(Copies(dialog[q]) /\ dialog[q].table = t)
      <4>1. dialog'[q] = dialog[q]
        BY <2>1, <2>2, <3>2, AgedType
      <4> SUFFICES ASSUME dialog[q].kind \in {"edit", "choice"}, ~dialog[q].old
                   PROVE  dialog[q].rows \subseteq table'[dialog[q].table]
        BY <4>1 DEF CurrentAt
      <4>2. dialog[q].table # t /\ dialog[q].table \in Tables
        BY <2>2, <3>2 DEF Copies, Forms
      <4> QED
        BY <2>1, <4>2 DEF FreshAt, CurrentAt
    <3> QED
      BY <3>1, <3>2
  <2> QED
    BY <2>4, <2>5, <2>6 DEF FreshAt
<1> QED
  BY <1>1, <1>2

(* What p shows has no copies; then CurrentAt says nothing.                *)
LEMMA NoCopies ==
    ASSUME NEW p \in Procs, dialog'[p] \in {NoDialog, Message}
    PROVE  CurrentAt(p)'
BY DEF CurrentAt, NoDialog, Message, Dialog

LEMMA AnswerFresh ==
    ASSUME Inv, Fresh, NEW p \in Procs, NEW t \in Tables, at[p] = "up", Only(t),
           Written(p, t) \/ (Unwritten(p) /\ table' = table),
           Reload(p, t), UNCHANGED <<at, empty, port>>
    PROVE  Fresh'
<1>1. PICK rows \in Reads(t, table'[t]) :
        /\ list' = [list EXCEPT ![p][t] = rows]
        /\ Told(p, [seen[p] EXCEPT ![t] = Knows(rows = table'[t])], t)
  BY DEF Reload
<1>2. /\ \A q \in Procs : q # p => list'[q] = list[q]
      /\ \A u \in Tables : u # t => list'[p][u] = list[p][u]
      /\ list'[p][t] = rows
  <2>1. list \in [Procs -> Lists] /\ list[p] \in Lists
    BY DEF Inv, ListInv
  <2> QED
    BY <1>1, <2>1 DEF Lists
<1>3. /\ \A u \in Tables : u # t => seen'[p][u] = seen[p][u]
      /\ seen'[p][t] = Knows(rows = table'[t])
  <2>1. seen[p] \in [Tables -> Extents]
    BY DEF Inv, PlaceInv
  <2> QED
    BY <1>1, <2>1 DEF Told
<1>4. dialog'[p] = NoDialog
  BY DEF Written, Unwritten, Inv, DialogInv
<1>5. FreshAt(p)'
  <2>1. FollowsAt(p)'
    <3> SUFFICES ASSUME NEW u \in Tables
                 PROVE  /\ seen'[p][u] # "old" => list'[p][u] \subseteq table'[u]
                        /\ seen'[p][u] = "all" => list'[p][u] = table'[u]
      BY DEF FollowsAt
    <3>1. CASE u = t
      <4>1. rows \subseteq table'[t]
        BY DEF Reads
      <4>2. Knows(rows = table'[t]) = "all" => rows = table'[t]
        BY Extent
      <4> QED
        BY <1>2, <1>3, <3>1, <4>1, <4>2
    <3>2. CASE u # t
      <4>1. table'[u] = table[u]
        BY <3>2, OnlyOne
      <4> QED
        BY <1>2, <1>3, <3>2, <4>1 DEF Fresh, FreshAt, FollowsAt
    <3> QED
      BY <3>1, <3>2
  <2>2. EmptyAt(p)'
    BY PlaceNames DEF EmptyAt
  <2> QED
    BY <1>4, <2>1, <2>2, NoCopies DEF FreshAt
<1>6. ASSUME NEW q \in Procs, q # p PROVE FreshAt(q)'
  BY <1>1, <1>2, <1>6, ToldFresh DEF Fresh
<1> QED
  BY <1>5, <1>6 DEF Fresh

LEMMA Statements ==
    ASSUME Inv, NEW p \in Procs, NEW t \in Tables
    PROVE  /\ \A price : Insert(p, t, price) => Written(p, t) /\ Only(t)
           /\ \A R : Update(p, t, R) => Written(p, t) /\ Only(t)
           /\ Unwritten(p) => table' = table /\ Only(t)
<1>1. table \in [Tables -> SUBSET Rows]
  BY DEF Inv, FileInv
<1>2. ASSUME NEW price, Insert(p, t, price) PROVE Written(p, t) /\ Only(t)
  BY <1>1, <1>2 DEF Insert, Only
<1>3. ASSUME NEW R, Update(p, t, R) PROVE Written(p, t) /\ Only(t)
  BY <1>1, <1>3 DEF Update, Only
<1>4. ASSUME Unwritten(p) PROVE table' = table /\ Only(t)
  BY <1>1, <1>4 DEF Unwritten, Only, file
<1> QED
  BY <1>2, <1>3, <1>4

LEMMA ConfirmFresh ==
    ASSUME Inv, Fresh, NEW p \in Procs, ConfirmAdd(p) \/ ConfirmEdit(p) \/ ConfirmDelete(p)
    PROVE  Fresh'
<1> DEFINE t == dialog[p].table
<1>1. at[p] = "up" /\ t \in Tables
  BY Shown DEF ConfirmAdd, ConfirmEdit, ConfirmDelete, Forms
<1>2. Reload(p, t) /\ UNCHANGED <<at, empty, port>>
  BY DEF ConfirmAdd, ConfirmEdit, ConfirmDelete
<1>3. \/ \E price : Insert(p, t, price)
      \/ \E R : Update(p, t, R)
      \/ Unwritten(p)
  <2>1. CASE ConfirmAdd(p)
    BY <2>1 DEF ConfirmAdd
  <2>2. CASE ConfirmEdit(p)
    BY <2>2 DEF ConfirmEdit
  <2>3. CASE ConfirmDelete(p)
    BY <2>3 DEF ConfirmDelete
  <2> QED
    BY <2>1, <2>2, <2>3
<1>4. Only(t) /\ (Written(p, t) \/ (Unwritten(p) /\ table' = table))
  BY <1>1, <1>3, Statements
<1> HIDE DEF t
<1> QED
  BY <1>1, <1>2, <1>4, AnswerFresh

(* A dialog opens, closes or says something; nothing else changes.         *)
LEMMA ShownFresh ==
    ASSUME Inv, Fresh, NEW p \in Procs, NEW d, dialog' = [dialog EXCEPT ![p] = d],
           table' = table, UNCHANGED <<at, empty, list, seen>>,
           \/ d \in {NoDialog, Message}
           \/ d.rows \subseteq table[d.table]
    PROVE  Fresh'
<1>1. dialog'[p] = d /\ \A q \in Procs : q # p => dialog'[q] = dialog[q]
  BY DEF Inv, DialogInv
<1>2. ASSUME NEW q \in Procs, q # p PROVE FreshAt(q)'
  BY <1>1, <1>2, StillFresh DEF Fresh
<1>3. FollowsAt(p)' /\ EmptyAt(p)'
  BY DEF Fresh, FreshAt, FollowsAt, EmptyAt
<1>4. CurrentAt(p)'
  <2>1. CASE d \in {NoDialog, Message}
    BY <1>1, <2>1, NoCopies
  <2>2. CASE d.rows \subseteq table[d.table]
    BY <1>1, <2>2 DEF CurrentAt
  <2> QED
    BY <2>1, <2>2
<1> QED
  BY <1>2, <1>3, <1>4 DEF Fresh, FreshAt

LEMMA OpenFresh ==
    ASSUME Inv, Fresh, NEW p \in Procs, NEW kind, NEW t \in Tables, NEW S,
           Open(p, Dialog(kind, t, S)), S \subseteq table[t] \/ kind \in {"add", "delete"}
    PROVE  Fresh'
<1> DEFINE d == Dialog(kind, t, S)
<1>1. /\ dialog' = [dialog EXCEPT ![p] = d] /\ table' = table
      /\ UNCHANGED <<at, empty, list, seen>>
  BY DEF Open, file
<1>2. d.rows = S /\ d.table = t /\ d.kind = kind
  BY DEF Dialog
<1> HIDE DEF d
<1>3. CASE S \subseteq table[t]
  BY <1>1, <1>2, <1>3, ShownFresh
<1>4. CASE kind \in {"add", "delete"}
  <2>1. dialog'[p] = d /\ \A q \in Procs : q # p => dialog'[q] = dialog[q]
    BY <1>1 DEF Inv, DialogInv
  <2>2. ASSUME NEW q \in Procs, q # p PROVE FreshAt(q)'
    BY <1>1, <2>1, <2>2, StillFresh DEF Fresh
  <2>3. FollowsAt(p)' /\ EmptyAt(p)'
    BY <1>1 DEF Fresh, FreshAt, FollowsAt, EmptyAt
  <2>4. CurrentAt(p)'
    BY <1>2, <1>4, <2>1 DEF CurrentAt
  <2> QED
    BY <2>2, <2>3, <2>4 DEF Fresh, FreshAt
<1> QED
  BY <1>3, <1>4

LEMMA EditingFresh == ASSUME Inv, Fresh, NEW p \in Procs, Editing(p) PROVE Fresh'
<1>1. "menu_items" \in Tables
  BY PlaceNames
<1>2. \A t \in Tables : \A id : Selected(p, t, id) \subseteq table[t]
  BY DEF Selected
<1>3. ASSUME NEW t \in Tables, OpenAdd(p, t) \/ OpenChoice(p, t) PROVE Fresh'
  <2>1. CASE OpenAdd(p, t)
    BY <2>1, OpenFresh DEF OpenAdd
  <2>2. CASE OpenChoice(p, t)
    <3>1. PICK S \in Reads(t, table[t]) : Open(p, Dialog("choice", t, S))
      BY <2>2 DEF OpenChoice
    <3>2. S \subseteq table[t]
      BY DEF Reads
    <3> QED
      BY <3>1, <3>2, OpenFresh
  <2> QED
    BY <1>3, <2>1, <2>2
<1>4. ASSUME NEW t \in Tables, NEW id, OpenEdit(p, t, id) \/ OpenDelete(p, t, id) PROVE Fresh'
  BY <1>2, <1>4, OpenFresh DEF OpenEdit, OpenDelete
<1>5. ASSUME NEW id, OpenOffer(p, id) PROVE Fresh'
  BY <1>1, <1>2, <1>5, OpenFresh DEF OpenOffer
<1>6. CASE ConfirmAdd(p) \/ ConfirmEdit(p) \/ ConfirmDelete(p)
  BY <1>6, ConfirmFresh
<1>7. CASE Close(p)
  BY <1>7, ShownFresh DEF Close, file
<1>8. ASSUME NEW n \in Ports, SaveSettings(p, n) PROVE Fresh'
  BY <1>8, ShownFresh DEF SaveSettings
<1> QED
  BY <1>3, <1>4, <1>5, <1>6, <1>7, <1>8 DEF Editing

(* The launch and the end of p leave the other processes what they have.   *)
LEMMA OthersFresh ==
    ASSUME Inv, Fresh, NEW p \in Procs, Launch(p) \/ Start(p) \/ End(p),
           NEW q \in Procs, q # p
    PROVE  FreshAt(q)' /\ table' = table
<1>1. table' = table
  BY DEF Launch, Start, End, file
<1>2. /\ at'[q] = at[q] /\ empty'[q] = empty[q] /\ list'[q] = list[q]
      /\ seen'[q] = seen[q] /\ dialog'[q] = dialog[q]
  <2>1. CASE Launch(p)
    BY <2>1 DEF Launch, Look, Inv, PlaceInv
  <2>2. CASE Start(p)
    BY <2>2 DEF Start, Inv, PlaceInv, ListInv
  <2>3. CASE End(p)
    BY <2>3 DEF End, Inv, PlaceInv, ListInv, DialogInv
  <2> QED
    BY <2>1, <2>2, <2>3
<1> QED
  BY <1>1, <1>2, StillFresh DEF Fresh

LEMMA SeedFresh == ASSUME Inv, Fresh, NEW p \in Procs, Seed(p) PROVE Fresh'
<1> DEFINE t == at[p]
<1>1. t \in Tables /\ t # "up" /\ GoOn(p) /\ list' = list
  BY PlaceNames DEF Seed
<1>2. (Written(p, t) \/ (Unwritten(p) /\ table' = table)) /\ Only(t)
  BY <1>1, Statements DEF Seed
<1>3. dialog'[p] = NoDialog
  BY <1>2 DEF Written, Unwritten, Inv, DialogInv
<1>4. FreshAt(p)' /\ \E own : Told(p, own, t)
  <2>1. CASE t = "packages"
    <3>1. PICK whole \in {TRUE, table["menu_items"] = {}} :
            /\ Look(p, "menu_items", whole)
            /\ Told(p, [Unread EXCEPT !["menu_items"] = Knows(whole)], "packages")
      BY <1>1, <2>1 DEF GoOn
    <3>2. /\ at'[p] = "menu_items" /\ empty'[p] = (~whole \/ table["menu_items"] = {})
          /\ seen'[p]["menu_items"] = Knows(whole)
      BY <3>1, PlaceNames, Extent DEF Look, Told, Inv, PlaceInv
    <3>3. table'["menu_items"] = table["menu_items"]
      BY <1>1, <1>2, <2>1, OnlyOne, PlaceNames
    <3>4. FollowsAt(p)' /\ EmptyAt(p)'
      BY <3>2, <3>3, Extent DEF FollowsAt, EmptyAt
    <3> QED
      BY <1>3, <2>1, <3>1, <3>4, NoCopies DEF FreshAt
  <2>2. CASE t # "packages"
    <3>1. /\ at'[p] = "settings" /\ "settings" \notin Tables
          /\ t = "menu_items" /\ Told(p, Unread, "menu_items")
      BY <1>1, <2>2 DEF GoOn, Inv, PlaceInv, Tables
    <3>2. FollowsAt(p)' /\ EmptyAt(p)'
      BY <3>1 DEF FollowsAt, EmptyAt
    <3> QED
      BY <1>3, <3>1, <3>2, NoCopies DEF FreshAt
  <2> QED
    BY <2>1, <2>2
<1>5. ASSUME NEW q \in Procs, q # p PROVE FreshAt(q)'
  <2>1. at'[q] = at[q] /\ empty'[q] = empty[q] /\ list'[q] = list[q]
    BY <1>1, <1>5 DEF GoOn, Look, Inv, PlaceInv
  <2> HIDE DEF t
  <2> QED
    BY <1>1, <1>2, <1>4, <1>5, <2>1, ToldFresh DEF Fresh
<1> QED
  BY <1>4, <1>5 DEF Fresh

LEMMA LaunchingFresh == ASSUME Inv, Fresh, NEW p \in Procs, Launching(p) \/ Quit(p) PROVE Fresh'
<1>1. CASE Launch(p)
  <2>1. PICK whole \in {TRUE, table["packages"] = {}} :
          /\ at'[p] = "packages" /\ empty'[p] = (~whole \/ table["packages"] = {})
          /\ seen'[p] = [Unread EXCEPT !["packages"] = Knows(whole)]
          /\ dialog'[p] = NoDialog /\ table' = table
    BY <1>1 DEF Launch, Look, file, Inv, PlaceInv, DialogInv
  <2>2. FollowsAt(p)' /\ EmptyAt(p)'
    <3>1. seen'[p]["packages"] = Knows(whole)
      BY <2>1, PlaceNames, Extent
    <3> QED
      BY <2>1, <3>1, Extent DEF FollowsAt, EmptyAt
  <2>3. FreshAt(p)'
    BY <2>1, <2>2, NoCopies DEF FreshAt
  <2> QED
    BY <1>1, <2>3, OthersFresh DEF Fresh
<1>2. CASE Seed(p)
  BY <1>2, SeedFresh
<1>3. CASE Start(p)
  <2>1. PICK loaded \in Ports : \E lists \in Lists :
          /\ \A t \in Tables : lists[t] \subseteq table[t]
          /\ at' = [at EXCEPT ![p] = "up"]
          /\ port' = [port EXCEPT ![p] = Htons(loaded)]
          /\ list' = [list EXCEPT ![p] = lists]
          /\ seen' = [seen EXCEPT ![p] = [t \in Tables |-> Knows(lists[t] = table[t])]]
          /\ UNCHANGED <<file, empty, dialog>>
    BY <1>3, Starts
  <2>2. FollowsAt(p)' /\ EmptyAt(p)'
    <3>1. PICK lists \in Lists :
            /\ \A t \in Tables : lists[t] \subseteq table[t]
            /\ at'[p] = "up" /\ list'[p] = lists /\ table' = table
            /\ seen'[p] = [t \in Tables |-> Knows(lists[t] = table[t])]
      BY <2>1 DEF file, Inv, PlaceInv, ListInv
    <3>2. \A t \in Tables : seen'[p][t] = "all" => lists[t] = table[t]
      BY <3>1, Extent
    <3> QED
      BY <3>1, <3>2, PlaceNames DEF FollowsAt, EmptyAt
  <2>3. dialog'[p] = NoDialog
    BY <1>3, <2>1, PlaceNames DEF Start, Inv, DialogInv
  <2>4. FreshAt(p)'
    BY <2>2, <2>3, NoCopies DEF FreshAt
  <2> QED
    BY <1>3, <2>4, OthersFresh DEF Fresh
<1>4. CASE End(p)
  <2>1. at'[p] = "down" /\ dialog'[p] = NoDialog
    BY <1>4 DEF End, Inv, PlaceInv, DialogInv
  <2>2. FollowsAt(p)' /\ EmptyAt(p)'
    BY <2>1, PlaceNames DEF FollowsAt, EmptyAt
  <2>3. FreshAt(p)'
    BY <2>1, <2>2, NoCopies DEF FreshAt
  <2> QED
    BY <1>4, <2>3, OthersFresh DEF Fresh
<1> QED
  BY <1>1, <1>2, <1>3, <1>4 DEF Launching, StartFails, Quit

LEMMA InitFresh == Init => Fresh
<1> SUFFICES ASSUME Init, NEW q \in Procs PROVE FreshAt(q)
  BY DEF Fresh
<1>1. at[q] = "down" /\ dialog[q] = NoDialog
  BY DEF Init
<1>2. FollowsAt(q) /\ EmptyAt(q)
  BY <1>1, PlaceNames DEF FollowsAt, EmptyAt
<1>3. CurrentAt(q)
  BY <1>1 DEF CurrentAt, NoDialog, Dialog
<1> QED
  BY <1>2, <1>3 DEF FreshAt

LEMMA NextFresh == Inv /\ Fresh /\ [Next]_vars => Fresh'
<1> SUFFICES ASSUME Inv, Fresh, [Next]_vars PROVE Fresh'
  OBVIOUS
<1>1. ASSUME NEW p \in Procs, Editing(p) PROVE Fresh'
  BY <1>1, EditingFresh
<1>2. ASSUME NEW p \in Procs, Launching(p) \/ Quit(p) PROVE Fresh'
  BY <1>2, LaunchingFresh
<1>3. CASE UNCHANGED vars
  BY <1>3, StillFresh DEF vars, file, Fresh
<1> QED
  BY <1>1, <1>2, <1>3 DEF Next

LEMMA FreshAlways == Spec => [](Inv /\ Fresh)
BY InitInv, InitFresh, NextInv, NextFresh, PTL DEF Spec

(* The lists of MainWindow.cpp show rows of the tables, but for what       *)
(* another process wrote: every callback that executes a statement         *)
(* reloads.  They show all rows, unless the SELECT failed.                 *)
THEOREM ListsShowTables == Spec => []ListsFollow
<1>1. Fresh => ListsFollow
  BY DEF Fresh, FreshAt, FollowsAt, ListsFollow
<1> QED
  BY <1>1, FreshAlways, PTL

(* The dialogs of MainWindow.cpp work on copies of rows that the process   *)
(* itself does not change under them.                                      *)
THEOREM CopiesAreCurrent == Spec => []DialogsAreCurrent
<1>1. Fresh => DialogsAreCurrent
  BY DEF Fresh, FreshAt, CurrentAt, DialogsAreCurrent, Copies
<1> QED
  BY <1>1, FreshAlways, PTL

(* Before the window is shown only Seed writes, into the table that init   *)
(* is at and has found empty.                                              *)
LEMMA LaunchStep ==
    ASSUME Inv, Fresh, [Next]_vars, NEW p \in Procs, at[p] # "up", at'[p] # at[p],
           NEW t \in Tables
    PROVE  /\ table[t] \subseteq table'[t]
           /\ table'[t] # table[t] => at[p] = t /\ (table[t] = {} \/ seen[p][t] # "all")
<1>1. ASSUME NEW q \in Procs, Editing(q) PROVE at' = at
  BY <1>1 DEF Editing, OpenAdd, OpenChoice, OpenEdit, OpenDelete, OpenOffer, Open,
              ConfirmAdd, ConfirmEdit, ConfirmDelete, Close, SaveSettings
<1>2. PICK q \in Procs : Launching(q) \/ Quit(q)
  BY <1>1 DEF Next, vars
<1>3. CASE table' = table
  BY <1>3
<1>4. CASE Seed(q)
  <2>1. q = p
    BY <1>4 DEF Seed, GoOn, Look, Inv, PlaceInv
  <2>2. CASE Unwritten(p)
    BY <1>3, <2>2 DEF Unwritten, file
  <2>3. CASE empty[p] /\ Insert(p, at[p], Default.price[at[p]])
    <3>1. at[p] \in Tables
      BY <1>4, <2>1 DEF Seed
    <3>2. table[at[p]] = {} \/ seen[p][at[p]] # "all"
      BY <2>3, <3>1 DEF Fresh, FreshAt, EmptyAt
    <3>3. CASE t # at[p]
      BY <2>3, <3>1, <3>3, Statements, OnlyOne
    <3>4. CASE t = at[p]
      <4>1. table[t] \subseteq table'[t]
        BY <2>3, <3>4 DEF Insert, Inv, FileInv
      <4> QED
        BY <3>2, <3>4, <4>1
    <3> QED
      BY <3>3, <3>4
  <2> QED
    BY <1>4, <2>1, <2>2, <2>3 DEF Seed
<1>5. CASE Launch(q) \/ Start(q) \/ End(q)
  BY <1>3, <1>5 DEF Launch, Start, End, file
<1> QED
  BY <1>2, <1>4, <1>5 DEF Launching, StartFails, Quit

(* main.cpp and Database::init leave the rows alone that are there, and    *)
(* add to them only where init saw none: the table had none, or another    *)
(* process has filled it since, or the SELECT failed.                      *)
THEOREM RowsSurviveLaunch == Spec => LaunchKeepsRows
<1>1. Inv /\ Fresh /\ [Next]_vars =>
        [\A p \in Procs, t \in Tables : at[p] # "up" /\ at'[p] # at[p] =>
           /\ table[t] \subseteq table'[t]
           /\ table'[t] # table[t] =>
                at[p] = t /\ (table[t] = {} \/ seen[p][t] # "all")]_vars
  BY LaunchStep
<1> QED
  BY <1>1, FreshAlways, PTL DEF Spec, LaunchKeepsRows
=============================================================================
