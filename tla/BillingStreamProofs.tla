------------------------- MODULE BillingStreamProofs -------------------------
(***************************************************************************)
(* What the billing server writes to its stations: that it implements      *)
(* StationStream, the contract the clients' modules rest on, and that the  *)
(* last lines of a stream say what the server believes.  For every number  *)
(* of stations, sessions and lines that fit into a stream.                 *)
(***************************************************************************)
EXTENDS BillingServerProofs, ServerSideProofs

(* ---------------------- streams without the time left ------------------ *)

BareAll(q) == [i \in DOMAIN q |-> Bare(q[i])]

LEMMA BareLine ==
  ASSUME NEW m \in ServerLine
  PROVE  /\ Bare(m) \in ServerLine
         /\ Bare(m).type = m.type
         /\ m.type # "TICK" => Bare(m) = m
         /\ m.type = "TICK" => Bare(m).elapsed = m.elapsed
  <1>1. CASE m.type = "TICK"
    <2>1. m.elapsed \in Nat
      BY <1>1 DEF ServerLine, PlainTypes
    <2>. QED  BY <1>1, <2>1 DEF Bare, Tick, ServerLine
  <1>2. CASE m.type # "TICK"
    BY <1>2 DEF Bare
  <1>. QED  BY <1>1, <1>2

LEMMA BareType ==
  ASSUME NEW q \in Lines
  PROVE  /\ BareAll(q) \in Lines
         /\ Len(BareAll(q)) = Len(q) /\ Len(q) \in Nat
         /\ \A i \in 1..Len(q) : q[i] \in ServerLine /\ BareAll(q)[i] = Bare(q[i])
  <1>1. Len(q) \in Nat /\ DOMAIN q = 1..Len(q) /\ \A i \in 1..Len(q) : q[i] \in ServerLine
    BY LenProperties, ElementOfSeq DEF Lines
  <1>2. BareAll(q) = [i \in 1..Len(q) |-> Bare(q[i])]
    BY <1>1 DEF BareAll
  <1>3. \A i \in 1..Len(q) : Bare(q[i]) \in ServerLine
    BY <1>1, BareLine
  <1>4. BareAll(q) \in [1..Len(q) -> ServerLine]
    BY <1>2, <1>3
  <1>5. BareAll(q) \in Seq(ServerLine)
    BY <1>1, <1>4, IsASeq
  <1>6. Len(BareAll(q)) = Len(q)
    BY <1>1, <1>4, <1>5, LenProperties
  <1>. QED  BY <1>1, <1>2, <1>5, <1>6 DEF Lines

LEMMA BareConcat ==
  ASSUME NEW q \in Lines, NEW r \in Lines
  PROVE  BareAll(q \o r) = BareAll(q) \o BareAll(r)
  <1>1. /\ q \o r \in Seq(ServerLine) /\ Len(q \o r) = Len(q) + Len(r)
        /\ \A i \in 1..Len(q) + Len(r) :
             (q \o r)[i] = IF i <= Len(q) THEN q[i] ELSE r[i - Len(q)]
    BY ConcatProperties DEF Lines
  <1>2. /\ BareAll(q) \in Seq(ServerLine) /\ Len(BareAll(q)) = Len(q) /\ Len(q) \in Nat
        /\ \A i \in 1..Len(q) : BareAll(q)[i] = Bare(q[i])
    BY BareType DEF Lines
  <1>3. /\ BareAll(r) \in Seq(ServerLine) /\ Len(BareAll(r)) = Len(r) /\ Len(r) \in Nat
        /\ \A i \in 1..Len(r) : BareAll(r)[i] = Bare(r[i])
    BY BareType DEF Lines
  <1>4. /\ BareAll(q \o r) \in Seq(ServerLine) /\ Len(BareAll(q \o r)) = Len(q \o r)
        /\ \A i \in 1..Len(q \o r) : BareAll(q \o r)[i] = Bare((q \o r)[i])
    BY <1>1, BareType DEF Lines
  <1>. DEFINE u == BareAll(q)
              v == BareAll(r)
  <1>5. /\ u \o v \in Seq(ServerLine) /\ Len(u \o v) = Len(u) + Len(v)
        /\ \A i \in 1..Len(u) + Len(v) :
             (u \o v)[i] = IF i <= Len(u) THEN u[i] ELSE v[i - Len(u)]
    <2>. HIDE DEF u, v
    <2>1. u \in Seq(ServerLine) /\ v \in Seq(ServerLine)
      BY <1>2, <1>3 DEF u, v
    <2>. QED  BY <2>1, ConcatProperties
  <1>6. Len(BareAll(q \o r)) = Len(u \o v)
    BY <1>1, <1>2, <1>3, <1>4, <1>5
  <1>7. ASSUME NEW i \in 1..Len(BareAll(q \o r))
        PROVE  BareAll(q \o r)[i] = (u \o v)[i]
    <2>1. i \in 1..Len(q) + Len(r) /\ i \in 1..Len(u) + Len(v) /\ i \in 1..Len(q \o r)
      BY <1>1, <1>2, <1>3, <1>4
    <2>2. CASE i <= Len(q)
      <3>1. (q \o r)[i] = q[i] /\ (u \o v)[i] = u[i] /\ i \in 1..Len(q)
        BY <1>1, <1>2, <1>3, <1>5, <2>1, <2>2
      <3>. QED  BY <1>2, <1>4, <2>1, <3>1
    <2>3. CASE ~(i <= Len(q))
      <3>1. /\ (q \o r)[i] = r[i - Len(q)] /\ (u \o v)[i] = v[i - Len(q)]
            /\ i - Len(q) \in 1..Len(r)
        BY <1>1, <1>2, <1>3, <1>5, <2>1, <2>3
      <3>. QED  BY <1>3, <1>4, <2>1, <3>1
    <2>. QED  BY <2>2, <2>3
  <1>. HIDE DEF u, v
  <1>8. BareAll(q \o r) = u \o v
    BY <1>4, <1>5, <1>6, <1>7, SeqEqual
  <1>. QED  BY <1>8 DEF u, v

LEMMA BareTail ==
  ASSUME NEW q \in Lines, q # << >>
  PROVE  BareAll(q) # << >> /\ BareAll(Tail(q)) = Tail(BareAll(q))
  <1>. DEFINE u == BareAll(q)
  <1>1. /\ u \in Seq(ServerLine) /\ Len(u) = Len(q) /\ Len(q) \in Nat
        /\ \A i \in 1..Len(q) : u[i] = Bare(q[i])
    BY BareType DEF Lines
  <1>2. Len(q) # 0
    BY EmptySeq DEF Lines
  <1>. HIDE DEF u
  <1>3. u # << >>
    BY <1>1, <1>2, EmptySeq
  <1>4. /\ Tail(q) \in Seq(ServerLine) /\ Len(Tail(q)) = Len(q) - 1
        /\ \A i \in 1..(Len(q) - 1) : Tail(q)[i] = q[i + 1]
    BY HeadTailProperties DEF Lines
  <1>5. /\ Tail(u) \in Seq(ServerLine) /\ Len(Tail(u)) = Len(u) - 1
        /\ \A i \in 1..(Len(u) - 1) : Tail(u)[i] = u[i + 1]
    BY <1>1, <1>3, HeadTailProperties
  <1>6. /\ BareAll(Tail(q)) \in Seq(ServerLine) /\ Len(BareAll(Tail(q))) = Len(Tail(q))
        /\ \A i \in 1..Len(Tail(q)) : BareAll(Tail(q))[i] = Bare(Tail(q)[i])
    <2>1. Tail(q) \in Lines
      BY <1>4 DEF Lines
    <2>2. BareAll(Tail(q)) \in Lines
      BY <2>1, BareType
    <2>. QED  BY <2>1, <2>2, BareType DEF Lines
  <1>7. \A i \in 1..Len(BareAll(Tail(q))) : BareAll(Tail(q))[i] = Tail(u)[i]
    <2>. SUFFICES ASSUME NEW i \in 1..(Len(q) - 1) PROVE BareAll(Tail(q))[i] = Tail(u)[i]
      BY <1>4, <1>6
    <2>1. i + 1 \in 1..Len(q)
      BY <1>1
    <2>. QED  BY <1>1, <1>4, <1>5, <1>6, <2>1
  <1>8. BareAll(Tail(q)) = Tail(u)
    BY <1>1, <1>4, <1>5, <1>6, <1>7, SeqEqual
  <1>. QED  BY <1>3, <1>8 DEF u

(* A stream that takes only the first n of some lines.                     *)
LEMMA BareSub ==
  ASSUME NEW q \in Lines, NEW n \in 0..Len(q)
  PROVE  /\ SubSeq(q, 1, n) \in Lines
         /\ BareAll(SubSeq(q, 1, n)) = SubSeq(BareAll(q), 1, n)
  <1>. DEFINE u == BareAll(q)
              s == SubSeq(q, 1, n)
              t == SubSeq(u, 1, n)
  <1>1. /\ u \in Seq(ServerLine) /\ Len(u) = Len(q) /\ Len(q) \in Nat
        /\ \A i \in 1..Len(q) : u[i] = Bare(q[i])
    BY BareType DEF Lines
  <1>2. s \in Seq(ServerLine) /\ Len(s) = n /\ \A i \in 1..n : s[i] = q[i]
    <2>1. \A i \in 1..n : q[i] \in ServerLine
      BY <1>1, ElementOfSeq DEF Lines
    <2>. QED  BY <1>1, <2>1, SubSeqProperties DEF Lines
  <1>3. t \in Seq(ServerLine) /\ Len(t) = n /\ \A i \in 1..n : t[i] = u[i]
    <2>. HIDE DEF u
    <2>1. \A i \in 1..n : u[i] \in ServerLine
      BY <1>1, ElementOfSeq
    <2>. QED  BY <1>1, <2>1, SubSeqProperties
  <1>4. /\ BareAll(s) \in Seq(ServerLine) /\ Len(BareAll(s)) = n
        /\ \A i \in 1..n : BareAll(s)[i] = Bare(s[i])
    <2>. HIDE DEF s
    <2>. QED  BY <1>2, BareType DEF Lines
  <1>. HIDE DEF u, s, t
  <1>5. \A i \in 1..Len(BareAll(s)) : BareAll(s)[i] = t[i]
    BY <1>1, <1>2, <1>3, <1>4
  <1>6. BareAll(s) = t
    BY <1>3, <1>4, <1>5, SeqEqual
  <1>. QED  BY <1>2, <1>6 DEF u, s, t, Lines

(* What is written to a station is one of the deeds, whatever is left on   *)
(* its label.                                                              *)
LEMMA BareOne == \A m \in ServerLine : BareAll(<<m>>) = <<Bare(m)>>
  BY DEF BareAll

LEMMA BarePair ==
  \A m, n \in ServerLine : BareAll(<<m, n>>) = <<Bare(m), Bare(n)>>
  BY DEF BareAll

LEMMA BarePlain ==
  ASSUME NEW q \in Lines, \A i \in 1..Len(q) : q[i].type # "TICK"
  PROVE  BareAll(q) = q
  <1>1. /\ BareAll(q) \in Seq(ServerLine) /\ Len(BareAll(q)) = Len(q) /\ Len(q) \in Nat
        /\ \A i \in 1..Len(q) : q[i] \in ServerLine /\ BareAll(q)[i] = Bare(q[i])
    BY BareType DEF Lines
  <1>2. \A i \in 1..Len(BareAll(q)) : BareAll(q)[i] = q[i]
    BY <1>1, BareLine
  <1>. QED  BY <1>1, <1>2, SeqEqual DEF Lines

(* --------------------------- one step, one station --------------------- *)

(* No stream exceeds its buffers, and where no station is connected there  *)
(* is nothing from an earlier one.                                         *)
Capped == \A c \in ClientIds : Len(toClient[c]) <= SendCap

Vacant == \A c \in ClientIds \ clients : info[c] = NewClient /\ toClient[c] = << >>

StreamInv == BaseInv /\ Capped /\ Vacant

LEMMA StreamFacts ==
  ASSUME StreamInv
  PROVE  /\ clients \in SUBSET ClientIds /\ torn \subseteq clients
         /\ Active \subseteq clients
         /\ info \in [ClientIds -> ClientInfo]
         /\ toClient \in [ClientIds -> Lines]
         /\ SendCap \in Nat
         /\ \A c \in ClientIds : /\ Len(toClient[c]) \in Nat
                                /\ Len(toClient[c]) <= SendCap
  BY TypeFacts, LenProperties, BoundsAssumption
  DEF StreamInv, BaseInv, TypeInv, TypeOK, Capped, Lines

LEMMA FreshStatus == StatusOf(NewClient) = Fresh
  BY DEF StatusOf, NewClient, Fresh, Status

(* What a step leaves alone.                                               *)
SameAt(c) == /\ toClient'[c] = toClient[c] /\ StatusOf(info'[c]) = StatusOf(info[c])
             /\ (c \in clients <=> c \in clients') /\ (c \in torn <=> c \in torn')

LEMMA Same ==
  ASSUME NEW c \in ClientIds, SameAt(c)
  PROVE  Stream!Unchanged(c)
  BY DEF SameAt, Stream!Unchanged, Stream!Stays, ClientIds

(* What fits of some lines, where not all of them do.                      *)
LEMMA Cut ==
  ASSUME NEW q \in Lines, NEW lines \in Lines, SendCap \in Nat,
         Len(q) <= SendCap, Len(q) + Len(lines) > SendCap
  PROVE  \E n \in 0..(Len(lines) - 1) :
           BareAll(SubSeq(q \o lines, 1, SendCap)) = BareAll(q) \o SubSeq(BareAll(lines), 1, n)
  <1>. DEFINE n == SendCap - Len(q)
              p == q \o lines
              a == SubSeq(p, 1, SendCap)
              s == SubSeq(lines, 1, n)
  <1>1. /\ Len(q) \in Nat /\ Len(lines) \in Nat
        /\ q \in Seq(ServerLine) /\ lines \in Seq(ServerLine)
    BY LenProperties DEF Lines
  <1>2. n \in 0..(Len(lines) - 1) /\ n \in 0..Len(lines) /\ Len(q) + n = SendCap
    BY <1>1
  <1>3. /\ p \in Seq(ServerLine) /\ Len(p) = Len(q) + Len(lines)
        /\ \A i \in 1..Len(q) + Len(lines) :
             p[i] = IF i <= Len(q) THEN q[i] ELSE lines[i - Len(q)]
    BY <1>1, ConcatProperties
  <1>. HIDE DEF n, p
  <1>4. a \in Seq(ServerLine) /\ Len(a) = SendCap /\ \A i \in 1..SendCap : a[i] = p[i]
    <2>1. \A i \in 1..SendCap : p[i] \in ServerLine
      BY <1>1, <1>3, ElementOfSeq
    <2>. QED  BY <1>1, <1>3, <2>1, SubSeqProperties
  <1>5. s \in Seq(ServerLine) /\ Len(s) = n /\ \A i \in 1..n : s[i] = lines[i]
    <2>1. \A i \in 1..n : lines[i] \in ServerLine
      BY <1>1, <1>2, ElementOfSeq
    <2>. QED  BY <1>1, <1>2, <2>1, SubSeqProperties
  <1>. HIDE DEF a, s
  <1>6. /\ q \o s \in Seq(ServerLine) /\ Len(q \o s) = SendCap
        /\ \A i \in 1..SendCap : (q \o s)[i] = IF i <= Len(q) THEN q[i] ELSE s[i - Len(q)]
    <2>1. /\ q \o s \in Seq(ServerLine) /\ Len(q \o s) = Len(q) + Len(s)
          /\ \A i \in 1..Len(q) + Len(s) :
               (q \o s)[i] = IF i <= Len(q) THEN q[i] ELSE s[i - Len(q)]
      BY <1>1, <1>5, ConcatProperties
    <2>. QED  BY <1>2, <1>5, <2>1
  <1>7. \A i \in 1..Len(a) : a[i] = (q \o s)[i]
    <2>. SUFFICES ASSUME NEW i \in 1..SendCap PROVE a[i] = (q \o s)[i]
      BY <1>4
    <2>1. CASE i <= Len(q)
      BY <1>1, <1>2, <1>3, <1>4, <1>6, <2>1
    <2>2. CASE ~(i <= Len(q))
      <3>1. i - Len(q) \in 1..n /\ i \in 1..Len(q) + Len(lines)
        BY <1>1, <1>2, <2>2
      <3>. QED  BY <1>3, <1>4, <1>5, <1>6, <2>2, <3>1
    <2>. QED  BY <2>1, <2>2
  <1>8. a = q \o s
    BY <1>4, <1>6, <1>7, SeqEqual
  <1>9. s \in Lines /\ BareAll(s) = SubSeq(BareAll(lines), 1, n)
    BY <1>2, BareSub DEF s
  <1>10. BareAll(q \o s) = BareAll(q) \o BareAll(s)
    BY <1>9, BareConcat
  <1>. QED  BY <1>2, <1>8, <1>9, <1>10 DEF a, p

(* A deed that is told in full, in part or, to a torn stream, not at all.  *)
Told(c, d) ==
    \/ c \notin torn' /\ BareAll(toClient'[c]) = BareAll(toClient[c]) \o d.lines
    \/ /\ c \in torn' \ torn
       /\ \E n \in 0..(Len(d.lines) - 1) :
            BareAll(toClient'[c]) = BareAll(toClient[c]) \o SubSeq(d.lines, 1, n)
    \/ c \in torn /\ toClient'[c] = toClient[c]

LEMMA SameDeeds == \A s : Stream!DeedsOf(s) = DeedsOf(s) /\ Stream!Fresh = Fresh
  BY DEF DeedsOf, StartDeeds, TickDeeds, EndDeeds, LockDeed, TalkDeeds, StartDeed, TickDeed,
         EndDeed, ExpireDeed, RegisterDeed, Deed, Status, Fresh, Tick, SessionEnd, SessionStart,
         Lock, Registered, PackageList, Pong, ChatServer, ServerMsg, MenuOffer, Remainder,
         Stream!DeedsOf, Stream!StartDeeds, Stream!TickDeeds, Stream!EndDeeds,
         Stream!LockDeed, Stream!TalkDeeds, Stream!StartDeed, Stream!TickDeed, Stream!EndDeed,
         Stream!ExpireDeed, Stream!RegisterDeed, Stream!Deed, Stream!Status, Stream!Fresh,
         Stream!Tick, Stream!SessionEnd, Stream!SessionStart, Stream!Lock, Stream!Registered,
         Stream!PackageList, Stream!Pong, Stream!ChatServer, Stream!ServerMsg,
         Stream!MenuOffer, Stream!Remainder

LEMMA ToldIsDone ==
  ASSUME NEW c \in ClientIds, c \in clients, c \in clients', c \in torn => c \in torn',
         NEW d \in DeedsOf(StatusOf(info[c])), StatusOf(info'[c]) = d.then, Told(c, d)
  PROVE  Stream!Done(c)
  BY SameDeeds DEF Told, Stream!Done, Stream!Stays, Stream!Written, BareAll, ClientIds

LEMMA Says ==
  ASSUME StreamInv, NEW out \in [ClientIds -> Lines], Send(out), clients' = clients,
         NEW c \in clients, NEW d \in DeedsOf(StatusOf(info[c])),
         BareAll(out[c]) = d.lines, StatusOf(info'[c]) = d.then
  PROVE  Stream!Done(c)
  <1>. DEFINE q == toClient[c]
              lines == out[c]
  <1>f. /\ c \in ClientIds /\ q \in Lines /\ lines \in Lines /\ SendCap \in Nat
        /\ Len(q) \in Nat /\ Len(q) <= SendCap
    BY StreamFacts
  <1>t. c \in torn' <=> (c \in torn \/ Len(q) + Len(lines) > SendCap)
    BY DEF Send
  <1>w. toClient'[c] = IF c \in torn THEN q ELSE Fitting(q, lines)
    BY <1>f DEF Send
  <1>. HIDE DEF q, lines
  <1>l. Len(lines) \in Nat /\ Len(q \o lines) = Len(q) + Len(lines)
    BY <1>f, LenProperties, ConcatProperties DEF Lines
  <1>b. BareAll(lines) = d.lines
    BY DEF lines
  <1>1. c \in torn => Told(c, d)
    BY <1>w DEF Told, q
  <1>2. ASSUME c \notin torn, Len(q) + Len(lines) <= SendCap
        PROVE  Told(c, d)
    <2>1. c \notin torn' /\ toClient'[c] = q \o lines
      BY <1>2, <1>f, <1>t, <1>w, <1>l DEF Fitting
    <2>2. BareAll(q \o lines) = BareAll(q) \o d.lines
      BY <1>f, <1>b, BareConcat
    <2>. QED  BY <2>1, <2>2 DEF Told, q
  <1>3. ASSUME c \notin torn, Len(q) + Len(lines) > SendCap
        PROVE  Told(c, d)
    <2>1. c \in torn' /\ toClient'[c] = SubSeq(q \o lines, 1, SendCap)
      BY <1>3, <1>f, <1>t, <1>w, <1>l DEF Fitting
    <2>2. Len(d.lines) = Len(lines)
      BY <1>f, <1>b, BareType
    <2>. QED  BY <1>3, <1>f, <1>b, <2>1, <2>2, Cut DEF Told, q
  <1>4. Told(c, d)
    BY <1>1, <1>2, <1>3, <1>f, <1>l
  <1>. QED  BY <1>4, <1>f, <1>t, ToldIsDone

(* Nothing is said to a station.                                           *)
LEMMA SaysNothing ==
  ASSUME StreamInv, NEW out \in [ClientIds -> Lines], Send(out), clients' = clients,
         NEW c \in ClientIds, c \notin clients \/ out[c] = << >>,
         StatusOf(info'[c]) = StatusOf(info[c])
  PROVE  Stream!Unchanged(c)
  <1>f. toClient[c] \in Seq(ServerLine) /\ Len(toClient[c]) \in Nat
        /\ Len(toClient[c]) <= SendCap /\ SendCap \in Nat /\ torn \subseteq clients
    BY StreamFacts DEF Lines
  <1>1. CASE c \notin clients
    <2>1. SameAt(c)
      BY <1>1, <1>f DEF Send, SameAt
    <2>. QED  BY <2>1, Same
  <1>2. CASE c \in clients /\ out[c] = << >>
    <2>1. toClient[c] \o << >> = toClient[c]
      BY <1>f, ConcatEmptySeq
    <2>2. Fitting(toClient[c], out[c]) = toClient[c]
      BY <1>2, <1>f, <2>1 DEF Fitting
    <2>3. ~(Len(toClient[c]) + Len(out[c]) > SendCap)
      BY <1>2, <1>f, EmptySeq
    <2>4. SameAt(c)
      BY <1>2, <2>2, <2>3 DEF Send, SameAt
    <2>. QED  BY <2>4, Same
  <1>. QED  BY <1>1, <1>2

(* ------------------- what each callback does and says ------------------ *)

Moves(c) == \/ Stream!Accepted(c) \/ Stream!Left(c) \/ Stream!Done(c) \/ Stream!Read(c)
            \/ Stream!Unchanged(c)

LEMMA StatusFields ==
  ASSUME NEW i \in ClientInfo
  PROVE  /\ Typed(StatusOf(i))
         /\ StatusOf(i).active = i.session_active
         /\ StatusOf(i).locked = i.locked
         /\ StatusOf(i).elapsed = i.elapsed_sec
  <1>1. i.session_active \in BOOLEAN /\ i.locked \in BOOLEAN /\ i.elapsed_sec \in Nat
    BY DEF ClientInfo
  <1>. QED  BY <1>1, StatusType DEF StatusOf

LEMMA SilentMoves ==
  ASSUME Silent, UNCHANGED clients, \A c \in ClientIds : StatusOf(info'[c]) = StatusOf(info[c])
  PROVE  \A c \in ClientIds : Moves(c)
  BY Same DEF Silent, SameAt, Moves

(* Talk is told to some stations and changes no belief.                    *)
LEMMA TalkMoves ==
  ASSUME StreamInv, NEW S, NEW lines \in Lines, Send(ToEach(S, lines)), UNCHANGED clients,
         \A c \in ClientIds : StatusOf(info'[c]) = StatusOf(info[c]),
         BareAll(lines) = lines,
         \A s : Deed(lines, s) \in TalkDeeds(s)
  PROVE  \A c \in ClientIds : Moves(c)
  <1>. SUFFICES ASSUME NEW c \in ClientIds PROVE Moves(c)
    OBVIOUS
  <1>1. ToEach(S, lines) \in [ClientIds -> Lines]
    BY ToEachType
  <1>2. CASE c \notin clients \/ c \notin S
    <2>1. c \notin clients \/ ToEach(S, lines)[c] = << >>
      BY <1>2 DEF ToEach
    <2>. QED  BY <1>1, <2>1, SaysNothing DEF Moves
  <1>3. CASE c \in clients /\ c \in S
    <2>. DEFINE d == Deed(lines, StatusOf(info[c]))
    <2>1. d \in DeedsOf(StatusOf(info[c]))
      BY DEF DeedsOf
    <2>2. d.lines = lines /\ d.then = StatusOf(info[c])
      BY DeedFields
    <2>3. ToEach(S, lines)[c] = lines
      BY <1>3 DEF ToEach
    <2>. HIDE DEF d
    <2>. QED  BY <1>1, <1>3, <2>1, <2>2, <2>3, Says DEF Moves
  <1>. QED  BY <1>2, <1>3

LEMMA PlainTalk ==
  /\ BareAll(<<Registered, PackageList>>) = <<Registered, PackageList>>
  /\ BareAll(MenuOffer) = MenuOffer
  /\ \A m \in {Pong, ChatServer, ServerMsg} : <<m>> \in Lines /\ BareAll(<<m>>) = <<m>>
  /\ MenuOffer \in Lines /\ <<Registered, PackageList>> \in Lines
  <1>1. \A m \in {Pong, ChatServer, ServerMsg, Registered, PackageList} :
          m \in ServerLine /\ m.type # "TICK"
    BY DEF Pong, ChatServer, ServerMsg, Registered, PackageList, ServerLine, PlainTypes
  <1>2. \A m \in {Pong, ChatServer, ServerMsg} : <<m>> \in Lines
    BY <1>1 DEF Lines
  <1>3. <<Registered, PackageList>> \in Lines
    BY <1>1, TwoLines
  <1>4. MenuOffer \in Lines /\ Len(MenuOffer) = 3
        /\ \A i \in 1..3 : MenuOffer[i].type # "TICK"
    BY DEF MenuOffer, Remainder, Lines, ServerLine, PlainTypes
  <1>5. BareAll(MenuOffer) = MenuOffer
    BY <1>4, BarePlain
  <1>6. \A m \in {Pong, ChatServer, ServerMsg, Registered, PackageList} : Bare(m) = m
    BY <1>1, BareLine
  <1>. QED  BY <1>1, <1>2, <1>3, <1>4, <1>5, <1>6, BareOne, BarePair

(* The station that one deed reaches; nothing happens to the others.       *)
LEMMA DeedMoves ==
  ASSUME StreamInv, UNCHANGED clients, NEW k \in clients, NEW lines \in Lines,
         Send(To(k, lines)), NEW d \in DeedsOf(StatusOf(info[k])),
         BareAll(lines) = d.lines, StatusOf(info'[k]) = d.then,
         \A c \in ClientIds \ {k} : info'[c] = info[c]
  PROVE  \A c \in ClientIds : Moves(c)
  <1>. SUFFICES ASSUME NEW c \in ClientIds PROVE Moves(c)
    OBVIOUS
  <1>1. To(k, lines) \in [ClientIds -> Lines]
    BY ToEachType DEF To
  <1>2. CASE c # k
    <2>1. To(k, lines)[c] = << >>
      BY <1>2 DEF To, ToEach
    <2>. QED  BY <1>1, <1>2, <2>1, SaysNothing DEF Moves
  <1>3. CASE c = k
    <2>1. To(k, lines)[c] = lines
      BY <1>3 DEF To, ToEach
    <2>. QED  BY <1>1, <1>3, <2>1, Says DEF Moves
  <1>. QED  BY <1>2, <1>3

LEMMA LockBare == \A b \in BOOLEAN : Lock(b) \in ServerLine /\ Bare(Lock(b)) = Lock(b)
  BY BareLine DEF Lock, ServerLine

LEMMA EndBare ==
  ASSUME NEW i \in ClientInfo
  PROVE  /\ EndLines(i) \in Lines /\ BareAll(EndLines(i)) = EndDeed(StatusOf(i)).lines
         /\ StatusOf(Ended(i)) = EndDeed(StatusOf(i)).then
  <1>1. i.elapsed_sec \in Nat /\ StatusOf(i).elapsed = i.elapsed_sec
    BY StatusFields DEF ClientInfo
  <1>2. SessionEnd(i.elapsed_sec) \in ServerLine /\ SessionEnd(i.elapsed_sec).type # "TICK"
    BY <1>1 DEF SessionEnd, ServerLine
  <1>3. Bare(SessionEnd(i.elapsed_sec)) = SessionEnd(i.elapsed_sec)
    BY <1>2, BareLine
  <1>4. BareAll(EndLines(i)) = EndLines(i)
    <2>. DEFINE l == Lock(TRUE)
    <2>1. l \in ServerLine /\ Bare(l) = l
      BY LockBare
    <2>. HIDE DEF l
    <2>2. BareAll(<<SessionEnd(i.elapsed_sec), l>>) = <<SessionEnd(i.elapsed_sec), l>>
      BY <1>2, <1>3, <2>1, BarePair
    <2>. QED  BY <2>2, Zenon DEF EndLines, l
  <1>5. EndDeed(StatusOf(i)).lines = EndLines(i)
    BY <1>1, DeedFields, Zenon DEF EndDeed, EndLines
  <1>6. StatusOf(Ended(i)) = Status(FALSE, TRUE, 0)
    <2>1. Ended(i).session_active = FALSE /\ Ended(i).locked = TRUE /\ Ended(i).elapsed_sec = 0
      BY Zenon DEF Ended
    <2>. QED  BY <2>1, Zenon DEF StatusOf
  <1>7. EndDeed(StatusOf(i)).then = Status(FALSE, TRUE, 0)
    BY DeedFields, Zenon DEF EndDeed
  <1>. QED  BY <1>4, <1>5, <1>6, <1>7, EndLinesType, Zenon

LEMMA TickBare ==
  ASSUME NEW i \in ClientInfo, i.session_active
  PROVE  LET now == Ticked(i)
             d == TickDeed(StatusOf(i))
         IN  /\ now \in ClientInfo /\ <<TickLine(now)>> \in Lines
             /\ BareAll(<<TickLine(now)>>) = d.lines
             /\ StatusOf(now) = d.then
  <1>. DEFINE now == Ticked(i)
              s == StatusOf(i)
  <1>1. now \in ClientInfo /\ now.elapsed_sec = i.elapsed_sec + 1
        /\ now.session_active = i.session_active
    BY TickedType
  <1>2. now.locked = i.locked
    BY DEF Ticked, ClientInfo
  <1>3. s.elapsed = i.elapsed_sec /\ s.locked = i.locked
    BY StatusFields
  <1>4. TickLine(now) \in ServerLine
    BY <1>1, TickLineType
  <1>5. Bare(TickLine(now)) = Tick(i.elapsed_sec + 1, 0)
    BY <1>1 DEF Bare, TickLine, Tick
  <1>6. /\ TickDeed(s).lines = <<Tick(i.elapsed_sec + 1, 0)>>
        /\ TickDeed(s).then = Status(TRUE, i.locked, i.elapsed_sec + 1)
    <2>1. TickDeed(s) = Deed(<<Tick(s.elapsed + 1, 0)>>, Status(TRUE, s.locked, s.elapsed + 1))
      BY Zenon DEF TickDeed
    <2>. DEFINE l == <<Tick(i.elapsed_sec + 1, 0)>>
                t == Status(TRUE, i.locked, i.elapsed_sec + 1)
    <2>2. TickDeed(s) = Deed(l, t)
      BY <1>3, <2>1, Zenon
    <2>. HIDE DEF s, l, t
    <2>3. TickDeed(s).lines = l /\ TickDeed(s).then = t
      BY <2>2, DeedFields
    <2>. QED  BY <2>3 DEF l, t
  <1>7. StatusOf(now) = Status(TRUE, i.locked, i.elapsed_sec + 1)
    <2>1. now.session_active = TRUE
      BY <1>1
    <2>. HIDE DEF now
    <2>. QED  BY <1>1, <1>2, <2>1, Zenon DEF StatusOf
  <1>8. BareAll(<<TickLine(now)>>) = <<Tick(i.elapsed_sec + 1, 0)>>
    BY <1>4, <1>5, BareOne
  <1>9. <<TickLine(now)>> \in Lines
    BY <1>4 DEF Lines
  <1>. QED  BY <1>1, <1>6, <1>7, <1>8, <1>9, Zenon

LEMMA ExpireBare ==
  ASSUME NEW i \in ClientInfo, i.session_active
  PROVE  LET now == Ticked(i)
             out == <<TickLine(now)>> \o EndLines(now)
             d == ExpireDeed(StatusOf(i))
         IN  out \in Lines /\ BareAll(out) = d.lines /\ StatusOf(Ended(now)) = d.then
  <1>. DEFINE now == Ticked(i)
              t == TickDeed(StatusOf(i))
              e == EndDeed(t.then)
  <1>1. /\ now \in ClientInfo /\ <<TickLine(now)>> \in Lines
        /\ BareAll(<<TickLine(now)>>) = t.lines /\ StatusOf(now) = t.then
    BY TickBare
  <1>. HIDE DEF now, t
  <1>2. /\ EndLines(now) \in Lines /\ BareAll(EndLines(now)) = e.lines
        /\ StatusOf(Ended(now)) = e.then
    BY <1>1, EndBare
  <1>. HIDE DEF e
  <1>3. <<TickLine(now)>> \o EndLines(now) \in Lines
    BY <1>1, <1>2, ConcatProperties DEF Lines
  <1>4. BareAll(<<TickLine(now)>> \o EndLines(now)) = t.lines \o e.lines
    BY <1>1, <1>2, BareConcat
  <1>5. ExpireDeed(StatusOf(i)).lines = t.lines \o e.lines /\ ExpireDeed(StatusOf(i)).then = e.then
    BY DeedFields DEF ExpireDeed, t, e
  <1>. QED  BY <1>2, <1>3, <1>4, <1>5 DEF now

LEMMA StartBare ==
  ASSUME NEW p \in Packages, NEW u \in Users, NEW n
  PROVE  /\ StartLines(p, u) \in Lines /\ BareAll(StartLines(p, u)) = StartDeed(p, u).lines
         /\ StatusOf(Started(p, u, n)) = StartDeed(p, u).then
  <1>. DEFINE a == SessionStart(p, u)
              l == Lock(FALSE)
  <1>1. a \in ServerLine /\ Bare(a) = a
    BY BareLine DEF SessionStart, ServerLine
  <1>2. l \in ServerLine /\ Bare(l) = l
    BY LockBare
  <1>3. StartDeed(p, u).then = Status(TRUE, FALSE, 0)
    BY DeedFields, Zenon DEF StartDeed
  <1>. HIDE DEF a, l
  <1>4. BareAll(<<a, l>>) = <<a, l>>
    BY <1>1, <1>2, BarePair
  <1>5. StartDeed(p, u).lines = <<a, l>> /\ StartLines(p, u) = <<a, l>>
    BY DeedFields DEF StartDeed, StartLines, a, l
  <1>6. StatusOf(Started(p, u, n)) = Status(TRUE, FALSE, 0)
    <2>1. /\ Started(p, u, n).session_active = TRUE /\ Started(p, u, n).locked = FALSE
          /\ Started(p, u, n).elapsed_sec = 0
      BY Zenon DEF Started
    <2>. QED  BY <2>1, Zenon DEF StatusOf
  <1>. QED  BY <1>3, <1>4, <1>5, <1>6, StartLinesType, Zenon

(* The timer tells every running session its time and ends some of them.   *)
LEMMA TickSends ==
  ASSUME StreamInv, OnTick
  PROVE  \E out \in [ClientIds -> Lines] :
           /\ Send(out)
           /\ \A c \in Active : \E d \in DeedsOf(StatusOf(info[c])) :
                BareAll(out[c]) = d.lines /\ StatusOf(info'[c]) = d.then
           /\ \A c \in ClientIds \ Active : out[c] = << >> /\ info'[c] = info[c]
  <1>. DEFINE now == [c \in ClientIds |-> Ticked(info[c])]
              out == [c \in ClientIds |->
                        IF c \in Expiring THEN <<TickLine(now[c])>> \o EndLines(now[c])
                        ELSE IF c \in Active THEN <<TickLine(now[c])>>
                        ELSE << >>]
  <1>f. /\ info \in [ClientIds -> ClientInfo] /\ Active \subseteq clients
        /\ clients \in SUBSET ClientIds
    BY StreamFacts
  <1>a. \A c \in Active : info[c].session_active
    BY DEF Active
  <1>e. Expiring \subseteq Active
    BY DEF Expiring
  <1>1. /\ info' = [c \in ClientIds |-> IF c \in Expiring THEN Ended(now[c])
                                        ELSE IF c \in Active THEN now[c] ELSE info[c]]
        /\ Send(out) /\ UNCHANGED clients
    BY DEF OnTick
  <1>2. \A c \in ClientIds : now[c] = Ticked(info[c])
    OBVIOUS
  <1>3. \A c \in ClientIds :
          out[c] = IF c \in Expiring THEN <<TickLine(now[c])>> \o EndLines(now[c])
                   ELSE IF c \in Active THEN <<TickLine(now[c])>> ELSE << >>
    OBVIOUS
  <1>. HIDE DEF now
  <1>4. ASSUME NEW c \in Active
        PROVE  /\ c \in ClientIds /\ out[c] \in Lines
               /\ \E d \in DeedsOf(StatusOf(info[c])) :
                    BareAll(out[c]) = d.lines /\ StatusOf(info'[c]) = d.then
    <2>i. c \in ClientIds /\ info[c] \in ClientInfo /\ info[c].session_active
          /\ StatusOf(info[c]).active
      BY <1>a, <1>f, StatusFields
    <2>1. TickDeed(StatusOf(info[c])) \in DeedsOf(StatusOf(info[c]))
          /\ ExpireDeed(StatusOf(info[c])) \in DeedsOf(StatusOf(info[c]))
      BY <2>i DEF DeedsOf, TickDeeds
    <2>2. CASE c \in Expiring
      <3>1. out[c] = <<TickLine(now[c])>> \o EndLines(now[c]) /\ info'[c] = Ended(now[c])
        BY <1>1, <1>3, <2>i, <2>2
      <3>. HIDE DEF out
      <3>. QED  BY <1>2, <2>1, <2>i, <3>1, ExpireBare
    <2>3. CASE c \notin Expiring
      <3>1. out[c] = <<TickLine(now[c])>> /\ info'[c] = now[c]
        BY <1>1, <1>3, <2>i, <2>3
      <3>. HIDE DEF out
      <3>. QED  BY <1>2, <2>1, <2>i, <3>1, TickBare
    <2>. QED  BY <2>2, <2>3
  <1>5. \A c \in ClientIds \ Active : out[c] = << >> /\ info'[c] = info[c]
    BY <1>1, <1>3, <1>e
  <1>o. out = [c \in ClientIds |-> out[c]]
    OBVIOUS
  <1>. HIDE DEF out
  <1>6. out \in [ClientIds -> Lines]
    <2>1. << >> \in Lines
      BY DEF Lines
    <2>2. \A c \in ClientIds : out[c] \in Lines
      BY <1>4, <1>5, <2>1
    <2>. QED  BY <1>o, <2>2
  <1>. QED  BY <1>1, <1>4, <1>5, <1>6

LEMMA TickMoves ==
  ASSUME StreamInv, OnTick
  PROVE  \A c \in ClientIds : Moves(c)
  <1>. SUFFICES ASSUME NEW c \in ClientIds PROVE Moves(c)
    OBVIOUS
  <1>1. PICK out \in [ClientIds -> Lines] :
          /\ Send(out)
          /\ \A k \in Active : \E d \in DeedsOf(StatusOf(info[k])) :
               BareAll(out[k]) = d.lines /\ StatusOf(info'[k]) = d.then
          /\ \A k \in ClientIds \ Active : out[k] = << >> /\ info'[k] = info[k]
    BY TickSends
  <1>2. UNCHANGED clients
    BY DEF OnTick
  <1>3. CASE c \in Active
    <2>1. c \in clients
      BY <1>3, StreamFacts
    <2>. QED  BY <1>1, <1>2, <1>3, <2>1, Says DEF Moves
  <1>4. CASE c \notin Active
    BY <1>1, <1>2, <1>4, SaysNothing DEF Moves
  <1>. QED  BY <1>3, <1>4

(* A start tells the station that the pointer has come to, on which no     *)
(* session runs.                                                           *)
LEMMA StartMoves ==
  ASSUME StreamInv, NEW k \in ClientIds \cup {0}, NEW p \in Packages, NEW u \in Users,
         ConfirmStart(k, p, u)
  PROVE  \A c \in ClientIds : Moves(c)
  <1>f. /\ info \in [ClientIds -> ClientInfo] /\ Active \subseteq clients
        /\ clients \in SUBSET ClientIds
    BY StreamFacts
  <1>1. CASE k \notin clients
    BY <1>1, SilentMoves DEF ConfirmStart
  <1>2. CASE k \in clients
    <2>1. /\ info' = [info EXCEPT ![k] = Started(p, u, nsess + 1)]
          /\ Send(To(k, StartLines(p, u))) /\ UNCHANGED clients
          /\ Shows("start") /\ k \in StartTargets
      BY <1>2 DEF ConfirmStart
    <2>2. ~info[k].session_active
      BY <1>2, <2>1 DEF StreamInv, BaseInv, StartTargetsFree, Active
    <2>3. StartDeed(p, u) \in DeedsOf(StatusOf(info[k]))
      <3>1. ~StatusOf(info[k]).active
        BY <1>2, <1>f, <2>2, StatusFields
      <3>. QED  BY <3>1 DEF DeedsOf, StartDeeds
    <2>4. info'[k] = Started(p, u, nsess + 1) /\ \A c \in ClientIds \ {k} : info'[c] = info[c]
      BY <1>2, <1>f, <2>1
    <2>. QED  BY <1>2, <2>1, <2>3, <2>4, StartBare, DeedMoves
  <1>. QED  BY <1>1, <1>2

LEMMA StopMoves ==
  ASSUME StreamInv, ConfirmStop
  PROVE  \A c \in ClientIds : Moves(c)
  <1>. DEFINE k == dialog.cid
  <1>f. /\ info \in [ClientIds -> ClientInfo] /\ Active \subseteq clients
        /\ clients \in SUBSET ClientIds
    BY StreamFacts
  <1>u. UNCHANGED clients
    BY DEF ConfirmStop
  <1>1. CASE k \notin Active
    <2>1. {k} \cap Active = {}
      BY <1>1
    <2>2. UNCHANGED info /\ Silent
      BY <2>1 DEF ConfirmStop
    <2>. QED  BY <1>u, <2>2, SilentMoves
  <1>2. CASE k \in Active
    <2>1. {k} \cap Active # {}
      BY <1>2
    <2>2. info' = [info EXCEPT ![k] = Ended(@)] /\ Send(To(k, EndLines(info[k])))
      BY <2>1 DEF ConfirmStop
    <2>. HIDE DEF k
    <2>3. info[k] \in ClientInfo /\ info[k].session_active /\ StatusOf(info[k]).active
      BY <1>2, <1>f, StatusFields DEF Active
    <2>4. EndDeed(StatusOf(info[k])) \in DeedsOf(StatusOf(info[k]))
      BY <2>3 DEF DeedsOf, EndDeeds
    <2>5. info'[k] = Ended(info[k]) /\ \A c \in ClientIds \ {k} : info'[c] = info[c]
      BY <1>2, <1>f, <2>2
    <2>. QED  BY <1>2, <1>f, <1>u, <2>2, <2>3, <2>4, <2>5, EndBare, DeedMoves
  <1>. QED  BY <1>1, <1>2

LEMMA LockMoves ==
  ASSUME StreamInv, NEW k \in ClientIds, OnLockClicked(k)
  PROVE  \A c \in ClientIds : Moves(c)
  <1>. DEFINE l == ~info[k].locked
              s == StatusOf(info[k])
  <1>f. info \in [ClientIds -> ClientInfo] /\ info[k] \in ClientInfo
    BY StreamFacts
  <1>1. /\ k \in clients /\ info' = [info EXCEPT ![k].locked = l]
        /\ Send(To(k, <<Lock(l)>>)) /\ UNCHANGED clients
    BY DEF OnLockClicked
  <1>2. l \in BOOLEAN /\ l = ~s.locked
    BY <1>f, StatusFields DEF ClientInfo
  <1>3. /\ info'[k].session_active = info[k].session_active /\ info'[k].locked = l
        /\ info'[k].elapsed_sec = info[k].elapsed_sec
        /\ \A c \in ClientIds \ {k} : info'[c] = info[c]
    BY <1>f, <1>1 DEF ClientInfo
  <1>4. LockDeed(s) = Deed(<<Lock(l)>>, Status(s.active, l, s.elapsed))
    BY <1>2, Zenon DEF LockDeed
  <1>5. StatusOf(info'[k]) = Status(s.active, l, s.elapsed)
    <2>1. s.active = info[k].session_active /\ s.elapsed = info[k].elapsed_sec
      BY <1>f, StatusFields
    <2>. HIDE DEF s, l
    <2>. QED  BY <1>3, <2>1, Zenon DEF StatusOf
  <1>6. LockDeed(s) \in DeedsOf(s)
    BY DEF DeedsOf
  <1>. HIDE DEF l
  <1>7. <<Lock(l)>> \in Lines /\ BareAll(<<Lock(l)>>) = <<Lock(l)>>
    <2>. DEFINE m == Lock(l)
    <2>1. m \in ServerLine /\ Bare(m) = m
      BY <1>2, LockBare
    <2>. HIDE DEF m
    <2>2. <<m>> \in Lines /\ BareAll(<<m>>) = <<m>>
      BY <2>1, BareOne DEF Lines
    <2>. QED  BY <2>2 DEF m
  <1>8. LockDeed(s).lines = <<Lock(l)>> /\ LockDeed(s).then = StatusOf(info'[k])
    <2>. DEFINE q == <<Lock(l)>>
                t == Status(s.active, l, s.elapsed)
    <2>1. LockDeed(s) = Deed(q, t) /\ StatusOf(info'[k]) = t
      BY <1>4, <1>5
    <2>. HIDE DEF s, q, t
    <2>2. LockDeed(s).lines = q /\ LockDeed(s).then = t
      BY <2>1, DeedFields
    <2>. QED  BY <2>1, <2>2 DEF q
  <1>. QED  BY <1>1, <1>3, <1>6, <1>7, <1>8, DeedMoves

LEMMA DataMoves ==
  ASSUME StreamInv, NEW k \in ClientIds, NEW line \in ClientLine, OnClientData(k, line)
  PROVE  \A c \in ClientIds : Moves(c)
  <1>f. info \in [ClientIds -> ClientInfo]
    BY StreamFacts
  <1>1. \A c \in ClientIds : StatusOf(info'[c]) = StatusOf(info[c])
    <2>1. \A c \in ClientIds : /\ info'[c].session_active = info[c].session_active
                               /\ info'[c].locked = info[c].locked
                               /\ info'[c].elapsed_sec = info[c].elapsed_sec
      BY <1>f DEF OnClientData, ClientInfo
    <2>. QED  BY <2>1, Zenon DEF StatusOf
  <1>2. \E lines \in {<<Registered, PackageList>>, <<Pong>>} : Send(ToEach({k}, lines))
    BY DEF OnClientData, To
  <1>3. \A s : Deed(<<Registered, PackageList>>, s) \in TalkDeeds(s) /\ Deed(<<Pong>>, s) \in TalkDeeds(s)
    BY DEF TalkDeeds, RegisterDeed
  <1>4. UNCHANGED clients
    BY DEF OnClientData
  <1>5. CASE Send(ToEach({k}, <<Pong>>))
    BY <1>1, <1>3, <1>4, <1>5, PlainTalk, TalkMoves
  <1>6. CASE Send(ToEach({k}, <<Registered, PackageList>>))
    BY <1>1, <1>3, <1>4, <1>6, PlainTalk, TalkMoves
  <1>. QED  BY <1>2, <1>5, <1>6

(* Chat, broadcasts and offers.                                            *)
LEMMA AdminTalkMoves ==
  ASSUME StreamInv, NEW S, NEW lines \in {MenuOffer, <<ServerMsg>>, <<ChatServer>>},
         Send(ToEach(S, lines)), UNCHANGED <<clients, info>>
  PROVE  \A c \in ClientIds : Moves(c)
  <1>1. \A s : /\ Deed(MenuOffer, s) \in TalkDeeds(s)
               /\ Deed(<<ServerMsg>>, s) \in TalkDeeds(s)
               /\ Deed(<<ChatServer>>, s) \in TalkDeeds(s)
    BY DEF TalkDeeds
  <1>2. lines \in Lines /\ BareAll(lines) = lines /\ \A s : Deed(lines, s) \in TalkDeeds(s)
    <2>1. CASE lines = MenuOffer
      BY <1>1, <2>1, PlainTalk
    <2>2. CASE lines = <<ServerMsg>>
      BY <1>1, <2>2, PlainTalk
    <2>3. CASE lines = <<ChatServer>>
      BY <1>1, <2>3, PlainTalk
    <2>. QED  BY <2>1, <2>2, <2>3
  <1>3. \A c \in ClientIds : StatusOf(info'[c]) = StatusOf(info[c])
    OBVIOUS
  <1>. QED  BY <1>2, <1>3, TalkMoves

(* Stations come and go, and read.                                         *)
LEMMA AcceptMoves ==
  ASSUME StreamInv, OnAcceptReady
  PROVE  \A c \in ClientIds : Moves(c)
  <1>f. /\ nextId \in ClientIds /\ nextId \notin clients /\ torn \subseteq clients
        /\ info \in [ClientIds -> ClientInfo]
    BY StreamFacts, BoundsAssumption
    DEF OnAcceptReady, StreamInv, BaseInv, TypeInv, TypeOK, ClientIds
  <1>1. /\ clients' = clients \cup {nextId} /\ toClient' = toClient /\ torn' = torn
        /\ info' = [info EXCEPT ![nextId] = NewClient]
    BY DEF OnAcceptReady, Silent
  <1>k. PICK k \in ClientIds : k = nextId
    BY <1>f
  <1>2. ASSUME NEW c \in ClientIds, c # k
        PROVE  Moves(c)
    BY <1>f, <1>k, <1>1, <1>2, Same DEF SameAt, Moves
  <1>3. Stream!Accepted(k)
    <2>1. toClient[k] = << >>
      BY <1>f, <1>k DEF StreamInv, Vacant
    <2>2. info'[k] = NewClient
      BY <1>f, <1>k, <1>1
    <2>3. StatusOf(info'[k]) = Fresh /\ toClient'[k] = << >>
      BY <1>1, <2>1, <2>2, FreshStatus
    <2>. QED  BY <1>f, <1>k, <1>1, <2>3, SameDeeds DEF Stream!Accepted, ClientIds
  <1>4. Moves(k)
    BY <1>3 DEF Moves
  <1>. QED  BY <1>2, <1>4

LEMMA GoneIsLeft ==
  ASSUME NEW c \in ClientIds, c \in clients, c \notin clients', c \notin torn',
         info'[c] = NewClient, toClient'[c] = << >>
  PROVE  Moves(c)
  <1>1. StatusOf(info'[c]) = Fresh
    BY FreshStatus
  <1>. QED  BY <1>1, SameDeeds DEF Moves, Stream!Left, ClientIds

LEMMA LeaveMoves ==
  ASSUME StreamInv, NEW k \in ClientIds, OnClientDisconnect(k)
  PROVE  \A c \in ClientIds : Moves(c)
  <1>f. info \in [ClientIds -> ClientInfo] /\ toClient \in [ClientIds -> Lines]
    BY StreamFacts
  <1>1. /\ k \in clients /\ clients' = clients \ {k} /\ torn' = torn \ {k}
        /\ info' = [info EXCEPT ![k] = NewClient]
        /\ toClient' = [toClient EXCEPT ![k] = << >>]
    BY DEF OnClientDisconnect
  <1>2. ASSUME NEW c \in ClientIds, c # k
        PROVE  Moves(c)
    BY <1>f, <1>1, <1>2, Same DEF SameAt, Moves
  <1>3. Moves(k)
    <2>1. info'[k] = NewClient /\ toClient'[k] = << >>
      BY <1>f, <1>1
    <2>. QED  BY <1>1, <2>1, GoneIsLeft
  <1>. QED  BY <1>2, <1>3

LEMMA LoseMoves ==
  ASSUME StreamInv, LoseProcess
  PROVE  \A c \in ClientIds : Moves(c)
  <1>1. /\ clients' = {} /\ torn' = {} /\ torn \subseteq clients
        /\ \A c \in ClientIds : info'[c] = NewClient /\ toClient'[c] = << >>
    BY StreamFacts DEF LoseProcess
  <1>2. ASSUME NEW c \in ClientIds
        PROVE  Moves(c)
    <2>1. CASE c \in clients
      BY <1>1, <2>1, GoneIsLeft
    <2>2. CASE c \notin clients
      <3>1. info[c] = NewClient /\ toClient[c] = << >>
        BY <2>2 DEF StreamInv, Vacant
      <3>. QED  BY <1>1, <2>2, <3>1, Same DEF SameAt, Moves
    <2>. QED  BY <2>1, <2>2
  <1>. QED  BY <1>2

LEMMA ReadMoves ==
  ASSUME StreamInv, NEW k \in ClientIds, PeerRead(k)
  PROVE  \A c \in ClientIds : Moves(c)
  <1>f. toClient \in [ClientIds -> Lines]
    BY StreamFacts
  <1>1. /\ toClient[k] # << >> /\ toClient' = [toClient EXCEPT ![k] = Tail(@)]
        /\ UNCHANGED <<clients, info, torn>>
    BY DEF PeerRead
  <1>2. ASSUME NEW c \in ClientIds, c # k
        PROVE  Moves(c)
    BY <1>f, <1>1, <1>2, Same DEF SameAt, Moves
  <1>3. Moves(k)
    <2>1. toClient'[k] = Tail(toClient[k]) /\ toClient[k] \in Lines
      BY <1>f, <1>1
    <2>2. BareAll(toClient[k]) # << >> /\ BareAll(toClient'[k]) = Tail(BareAll(toClient[k]))
      BY <1>1, <2>1, BareTail
    <2>. QED  BY <1>1, <2>2 DEF Moves, Stream!Read, Stream!Stays, BareAll, ClientIds
  <1>. QED  BY <1>2, <1>3

(* Every step does to each station what StationStream allows.              *)
LEMMA EveryMove ==
  ASSUME StreamInv, [Next]_vars
  PROVE  \A c \in ClientIds : Moves(c)
  <1>1. CASE OnAcceptReady \/ OnTick \/ ConfirmStop \/ LoseProcess
    BY <1>1, AcceptMoves, TickMoves, StopMoves, LoseMoves
  <1>2. ASSUME NEW k \in ClientIds, NEW line \in ClientLine, OnClientData(k, line)
        PROVE  \A c \in ClientIds : Moves(c)
    BY <1>2, DataMoves
  <1>3. ASSUME NEW k \in ClientIds, OnClientDisconnect(k) \/ PeerRead(k) \/ OnLockClicked(k)
        PROVE  \A c \in ClientIds : Moves(c)
    BY <1>3, LeaveMoves, ReadMoves, LockMoves
  <1>4. CASE Second
    <2>1. \A c \in ClientIds : info'[c] = info[c] \/ info'[c] = [info[c] EXCEPT !.age = @ + 1]
      BY <1>4 DEF Second
    <2>2. \A c \in ClientIds : StatusOf(info'[c]) = StatusOf(info[c])
      <3>1. \A c \in ClientIds : info[c] \in ClientInfo
        BY StreamFacts
      <3>2. \A c \in ClientIds : /\ info'[c].session_active = info[c].session_active
                                 /\ info'[c].locked = info[c].locked
                                 /\ info'[c].elapsed_sec = info[c].elapsed_sec
        BY <2>1, <3>1 DEF ClientInfo
      <3>. QED  BY <3>2, Zenon DEF StatusOf
    <2>. QED  BY <1>4, <2>2, SilentMoves DEF Second
  <1>5. ASSUME NEW k \in ClientIds, OpenStart(k) \/ OpenStop(k)
        PROVE  \A c \in ClientIds : Moves(c)
    BY <1>5, SilentMoves DEF OpenStart, OpenStop
  <1>6. ASSUME NEW k \in ClientIds \cup {0}, NEW p \in Packages, NEW u \in Users,
               ConfirmStart(k, p, u)
        PROVE  \A c \in ClientIds : Moves(c)
    BY <1>6, StartMoves
  <1>7. CASE OpenOther \/ Dismiss
    BY <1>7, SilentMoves DEF OpenOther, Dismiss
  <1>8. ASSUME NEW S, NEW lines \in {MenuOffer, <<ServerMsg>>}, ConfirmOther(S, lines)
        PROVE  \A c \in ClientIds : Moves(c)
    BY <1>8, AdminTalkMoves DEF ConfirmOther
  <1>9. ASSUME NEW k \in ClientIds, SendChat(k)
        PROVE  \A c \in ClientIds : Moves(c)
    <2>1. Send(ToEach({k}, <<ChatServer>>)) /\ UNCHANGED <<clients, info>>
      BY <1>9 DEF SendChat, To
    <2>. QED  BY <2>1, AdminTalkMoves
  <1>10. CASE OnBroadcastMenuClicked
    BY <1>10, AdminTalkMoves DEF OnBroadcastMenuClicked
  <1>11. CASE Start \/ UNCHANGED vars
    BY <1>11, SilentMoves DEF Start, Silent, vars
  <1>. QED
    BY <1>1, <1>2, <1>3, <1>4, <1>5, <1>6, <1>7, <1>8, <1>9, <1>10, <1>11
    DEF Next, Work, Talk, Sockets, Admin, Process, Stop, Crash

(* ----------------------- the inductive invariant ----------------------- *)

LEMMA CappedStep ==
  ASSUME StreamInv, [Next]_vars
  PROVE  Capped'
  <1>f. toClient \in [ClientIds -> Lines] /\ SendCap \in Nat
        /\ \A c \in ClientIds : Len(toClient[c]) \in Nat /\ Len(toClient[c]) <= SendCap
    BY StreamFacts
  <1>c. ClientIds' = ClientIds
    BY DEF ClientIds
  <1>1. ASSUME NEW out \in [ClientIds -> Lines], Send(out)
        PROVE  Capped'
    <2>. SUFFICES ASSUME NEW c \in ClientIds PROVE Len(toClient'[c]) <= SendCap
      BY <1>c DEF Capped
    <2>1. toClient'[c] = IF c \in clients \ torn THEN Fitting(toClient[c], out[c]) ELSE toClient[c]
      BY <1>1 DEF Send
    <2>2. Len(Fitting(toClient[c], out[c])) <= SendCap
      <3>. DEFINE all == toClient[c] \o out[c]
      <3>1. all \in Seq(ServerLine) /\ Len(all) \in Nat
        BY <1>f, ConcatProperties, LenProperties DEF Lines
      <3>. HIDE DEF all
      <3>2. CASE Len(all) <= SendCap
        BY <3>2 DEF Fitting, all
      <3>3. CASE ~(Len(all) <= SendCap)
        <4>1. \A i \in 1..SendCap : all[i] \in ServerLine
          BY <3>1, <3>3, <1>f, ElementOfSeq
        <4>2. Len(SubSeq(all, 1, SendCap)) = SendCap
          BY <3>1, <3>3, <4>1, <1>f, SubSeqProperties
        <4>. QED  BY <3>3, <4>2, <1>f DEF Fitting, all
      <3>. QED  BY <3>2, <3>3
    <2>. QED  BY <2>1, <2>2, <1>f
  <1>2. CASE toClient' = toClient
    BY <1>2, <1>f, <1>c DEF Capped
  <1>3. ASSUME NEW k \in ClientIds, OnClientDisconnect(k) \/ PeerRead(k)
        PROVE  Capped'
    <2>1. ASSUME NEW q \in {<< >>, Tail(toClient[k])}, toClient' = [toClient EXCEPT ![k] = q],
                 Len(q) <= SendCap
          PROVE  Capped'
      BY <2>1, <1>f, <1>c DEF Capped
    <2>2. CASE OnClientDisconnect(k)
      BY <2>1, <2>2, <1>f DEF OnClientDisconnect
    <2>3. CASE PeerRead(k)
      <3>1. toClient[k] # << >> /\ toClient' = [toClient EXCEPT ![k] = Tail(toClient[k])]
        BY <2>3 DEF PeerRead
      <3>2. Len(Tail(toClient[k])) <= SendCap
        BY <1>f, <3>1, HeadTailProperties DEF Lines
      <3>. QED  BY <2>1, <3>1, <3>2
    <2>. QED  BY <1>3, <2>2, <2>3
  <1>4. CASE LoseProcess
    BY <1>4, <1>f, <1>c DEF LoseProcess, Capped
  <1>5. \/ toClient' = toClient \/ LoseProcess
        \/ \E k \in ClientIds : OnClientDisconnect(k) \/ PeerRead(k)
        \/ \E out \in [ClientIds -> Lines] : Send(out)
    <2>1. ASSUME NEW S, NEW lines \in Lines, Send(ToEach(S, lines))
          PROVE  \E out \in [ClientIds -> Lines] : Send(out)
      BY <2>1, ToEachType
    <2>2. ASSUME NEW k \in ClientIds, NEW line \in ClientLine, OnClientData(k, line)
          PROVE  \E out \in [ClientIds -> Lines] : Send(out)
      BY <2>1, <2>2, PlainTalk DEF OnClientData, To
    <2>3. CASE OnTick
      <3>1. PICK out : out \in [ClientIds -> Lines] /\ Send(out)
        BY <2>3, TickSends
      <3>. QED  BY <3>1
    <2>4. ASSUME NEW k \in ClientIds \cup {0}, NEW p \in Packages, NEW u \in Users,
                 ConfirmStart(k, p, u)
          PROVE  toClient' = toClient \/ \E out \in [ClientIds -> Lines] : Send(out)
      BY <2>1, <2>4, StartLinesType DEF ConfirmStart, To, Silent
    <2>5. CASE ConfirmStop
      <3>1. Silent \/ (dialog.cid \in Active /\ Send(ToEach({dialog.cid}, EndLines(info[dialog.cid]))))
        BY <2>5 DEF ConfirmStop, To
      <3>2. dialog.cid \in Active => EndLines(info[dialog.cid]) \in Lines
        BY StreamFacts, EndLinesType
      <3>. QED  BY <2>1, <3>1, <3>2 DEF Silent
    <2>6. ASSUME NEW k \in ClientIds, OnLockClicked(k)
          PROVE  \E out \in [ClientIds -> Lines] : Send(out)
      <3>. DEFINE m == Lock(~info[k].locked)
      <3>1. Send(ToEach({k}, <<m>>))
        BY <2>6 DEF OnLockClicked, To
      <3>2. m \in ServerLine
        <4>1. (~info[k].locked) \in BOOLEAN
          OBVIOUS
        <4>. QED  BY <4>1, LockBare, Zenon
      <3>. HIDE DEF m
      <3>3. <<m>> \in Lines
        BY <3>2, One DEF Lines
      <3>. QED  BY <2>1, <3>1, <3>3
    <2>7. ASSUME NEW S, NEW lines \in {MenuOffer, <<ServerMsg>>}, ConfirmOther(S, lines)
          PROVE  \E out \in [ClientIds -> Lines] : Send(out)
      BY <2>1, <2>7, PlainTalk DEF ConfirmOther
    <2>8. ASSUME NEW k \in ClientIds, SendChat(k)
          PROVE  \E out \in [ClientIds -> Lines] : Send(out)
      BY <2>1, <2>8, PlainTalk DEF SendChat, To
    <2>9. CASE OnBroadcastMenuClicked
      BY <2>1, <2>9, PlainTalk DEF OnBroadcastMenuClicked
    <2>10. CASE \/ OnAcceptReady \/ Second \/ OpenOther \/ Dismiss \/ Start \/ UNCHANGED vars
                \/ \E k \in ClientIds : OpenStart(k) \/ OpenStop(k)
      BY <2>10 DEF OnAcceptReady, Second, OpenOther, Dismiss, Start, vars, OpenStart, OpenStop,
                   Silent
    <2>. QED
      BY <2>2, <2>3, <2>4, <2>5, <2>6, <2>7, <2>8, <2>9, <2>10
      DEF Next, Work, Talk, Sockets, Admin, Process, Stop, Crash
  <1>. QED  BY <1>1, <1>2, <1>3, <1>4, <1>5

LEMMA VacantStep ==
  ASSUME StreamInv, [Next]_vars
  PROVE  Vacant'
  <1>f. /\ info \in [ClientIds -> ClientInfo] /\ toClient \in [ClientIds -> Lines]
        /\ Active \subseteq clients /\ clients \in SUBSET ClientIds
    BY StreamFacts
  <1>c. ClientIds' = ClientIds
    BY DEF ClientIds
  <1>v. \A c \in ClientIds : c \notin clients => info[c] = NewClient /\ toClient[c] = << >>
    BY DEF StreamInv, Vacant
  <1>1. ASSUME UNCHANGED clients,
               \A c \in ClientIds : c \notin clients =>
                 info'[c] = info[c] /\ toClient'[c] = toClient[c]
        PROVE  Vacant'
    BY <1>1, <1>v, <1>c DEF Vacant
  <1>2. \A out : Send(out) => \A c \in ClientIds : c \notin clients => toClient'[c] = toClient[c]
    BY DEF Send
  <1>3. CASE OnAcceptReady
    BY <1>3, <1>f, <1>v, <1>c DEF OnAcceptReady, Silent, Vacant
  <1>4. ASSUME NEW k \in ClientIds, OnClientDisconnect(k)
        PROVE  Vacant'
    BY <1>4, <1>f, <1>v, <1>c DEF OnClientDisconnect, Vacant
  <1>5. CASE LoseProcess
    BY <1>5, <1>c DEF LoseProcess, Vacant
  <1>6. ASSUME NEW k \in ClientIds, PeerRead(k)
        PROVE  Vacant'
    <2>1. k \in clients
      BY <1>v, <1>6 DEF PeerRead
    <2>2. /\ UNCHANGED <<clients, info>>
          /\ \A c \in ClientIds : c \notin clients => toClient'[c] = toClient[c]
      BY <1>6, <1>f, <2>1 DEF PeerRead
    <2>. QED  BY <1>1, <2>2
  <1>7. CASE OnTick
    <2>1. UNCHANGED clients /\ \A c \in ClientIds : c \notin Active => info'[c] = info[c]
      BY <1>7, TickSends DEF OnTick
    <2>2. \E out : Send(out)
      BY <1>7, TickSends
    <2>. QED  BY <1>1, <1>2, <1>f, <2>1, <2>2
  <1>8. CASE Second
    <2>1. UNCHANGED <<clients, toClient>> /\ \A c \in ClientIds : c \notin Active => info'[c] = info[c]
      BY <1>8 DEF Second, Silent
    <2>. QED  BY <1>1, <1>f, <2>1
  <1>9. ASSUME NEW k \in ClientIds, NEW line \in ClientLine, OnClientData(k, line)
        PROVE  Vacant'
    BY <1>1, <1>2, <1>9, <1>f DEF OnClientData
  <1>10. ASSUME NEW k \in ClientIds \cup {0}, NEW p \in Packages, NEW u \in Users,
                ConfirmStart(k, p, u)
         PROVE  Vacant'
    BY <1>1, <1>2, <1>10, <1>f DEF ConfirmStart, Silent
  <1>11. CASE ConfirmStop
    <2>. DEFINE k == dialog.cid
    <2>1. UNCHANGED clients /\ (\/ UNCHANGED <<info, toClient>>
                               \/ /\ k \in Active /\ info' = [info EXCEPT ![k] = Ended(@)]
                                  /\ Send(To(k, EndLines(info[k]))))
      BY <1>11 DEF ConfirmStop, Silent
    <2>. HIDE DEF k
    <2>. QED  BY <1>1, <1>2, <1>f, <2>1
  <1>12. ASSUME NEW k \in ClientIds, OnLockClicked(k)
         PROVE  Vacant'
    BY <1>1, <1>2, <1>12, <1>f DEF OnLockClicked
  <1>13. CASE \/ OpenOther \/ Dismiss \/ Start \/ UNCHANGED vars \/ OnBroadcastMenuClicked
              \/ \E k \in ClientIds : OpenStart(k) \/ OpenStop(k) \/ SendChat(k)
    <2>1. UNCHANGED <<clients, info>> /\ (UNCHANGED toClient \/ \E out : Send(out))
      BY <1>13 DEF OpenOther, Dismiss, Start, vars, OnBroadcastMenuClicked, OpenStart, OpenStop,
                   SendChat, Silent
    <2>. QED  BY <1>1, <1>2, <2>1
  <1>14. ASSUME NEW S, NEW lines, ConfirmOther(S, lines)
         PROVE  Vacant'
    BY <1>1, <1>2, <1>14 DEF ConfirmOther
  <1>. QED
    BY <1>3, <1>4, <1>5, <1>6, <1>7, <1>8, <1>9, <1>10, <1>11, <1>12, <1>13, <1>14
    DEF Next, Work, Talk, Sockets, Admin, Process, Stop, Crash

LEMMA StreamInvariant == Spec => []StreamInv
  <1>1. Init => Capped /\ Vacant
    BY BoundsAssumption, EmptySeq DEF Init, Capped, Vacant
  <1>2. BaseInv /\ Capped /\ Vacant /\ [Next]_vars => Capped' /\ Vacant'
    BY CappedStep, VacantStep DEF StreamInv
  <1>. QED  BY <1>1, <1>2, BaseInvariant, PTL DEF Spec, StreamInv

(* The server keeps the promise of StationStream, on which the models of   *)
(* both clients rest.                                                      *)
THEOREM ContractIsKept == Spec => KeepsContract
  <1>1. Init => Stream!StreamInit
    <2>. SUFFICES ASSUME Init PROVE Stream!StreamInit
      OBVIOUS
    <2>1. \A c \in ClientIds : StatusOf(info[c]) = Stream!Fresh
      BY FreshStatus, SameDeeds DEF Init
    <2>2. \A c \in ClientIds : [i \in DOMAIN toClient[c] |-> Bare(toClient[c][i])] = << >>
      BY DEF Init
    <2>. QED  BY <2>1, <2>2 DEF Init, Stream!StreamInit
  <1>2. ASSUME StreamInv, [Next]_vars
        PROVE  [Stream!StreamNext]_(Stream!streamVars)
    BY <1>2, EveryMove DEF Stream!StreamNext, Moves
  <1>. QED  BY <1>1, <1>2, StreamInvariant, PTL DEF Spec, KeepsContract, Stream!StreamSpec

(* --------------------- the last lines of a stream ---------------------- *)

(* What is told last of the lock and of the session is what is believed.   *)
Mirrors(q, s) ==
    /\ \A m : IsLast(m, q, {"LOCK"}) => m.locked = s.locked
    /\ \A m : IsLast(m, q, Brackets) => /\ (m.type # "SESSION_END") = s.active
                                        /\ m.type = "TICK" => m.elapsed = s.elapsed

LEMMA TalkLines ==
  ASSUME NEW s, NEW d \in TalkDeeds(s)
  PROVE  d.lines \in Seq(ServerLine)
  <1>1. ASSUME NEW m \in {Pong, ChatServer, ServerMsg}, d = Deed(<<m>>, s)
        PROVE  d.lines \in Seq(ServerLine)
    <2>1. <<m>> \in Seq(ServerLine)
      BY PlainTalk DEF Lines
    <2>2. d.lines = <<m>>
      BY <1>1, DeedFields
    <2>. QED  BY <2>1, <2>2
  <1>2. ASSUME d = Deed(MenuOffer, s)
        PROVE  d.lines \in Seq(ServerLine)
    BY <1>2, PlainTalk, DeedFields, Zenon DEF Lines
  <1>3. ASSUME d = RegisterDeed(s)
        PROVE  d.lines \in Seq(ServerLine)
    BY <1>3, PlainTalk, DeedFields, Zenon DEF Lines, RegisterDeed
  <1>. QED  BY <1>1, <1>2, <1>3 DEF TalkDeeds

(* Each deed that changes the belief ends with a line that says so, or has *)
(* none of that kind: StationStream keeps its readers informed.            *)
LEMMA DeedMirrors ==
  ASSUME NEW s, Typed(s), NEW d \in DeedsOf(s), NEW q \in Seq(ServerLine), Mirrors(q, s)
  PROVE  Mirrors(q \o d.lines, d.then)
  <1>. DEFINE r == d.lines
              t == d.then
              K == {"LOCK"}
              e == s.elapsed + 1
  <1>k. "LOCK" \in K /\ "LOCK" \notin Brackets
    BY DEF Brackets
  <1>b. "SESSION_START" \in Brackets /\ "SESSION_END" \in Brackets /\ "TICK" \in Brackets
    BY DEF Brackets
  <1>1. r \in Seq(ServerLine)
    BY TalkLines, DeedTypes DEF DeedsOf, DeedOK
  <1>. HIDE DEF K, e
  <1>2. ASSUME NEW m, IsLast(m, r, K), m.locked = t.locked
        PROVE  \A n : IsLast(n, q \o r, K) => n.locked = t.locked
    BY <1>1, <1>2, LastWritten
  <1>3. ASSUME Without(r, K), t.locked = s.locked
        PROVE  \A n : IsLast(n, q \o r, K) => n.locked = t.locked
    BY <1>1, <1>3, LastStays DEF Mirrors, K
  <1>4. ASSUME NEW m, IsLast(m, r, Brackets), (m.type # "SESSION_END") = t.active,
               m.type = "TICK" => m.elapsed = t.elapsed
        PROVE  \A n : IsLast(n, q \o r, Brackets) => /\ (n.type # "SESSION_END") = t.active
                                                     /\ n.type = "TICK" => n.elapsed = t.elapsed
    BY <1>1, <1>4, LastWritten
  <1>5. ASSUME Without(r, Brackets), t.active = s.active, t.elapsed = s.elapsed
        PROVE  \A n : IsLast(n, q \o r, Brackets) => /\ (n.type # "SESSION_END") = t.active
                                                     /\ n.type = "TICK" => n.elapsed = t.elapsed
    BY <1>1, <1>5, LastStays DEF Mirrors
  <1>6. CASE d \in StartDeeds(s)
    <2>1. PICK p \in Packages, u \in Users : d = StartDeed(p, u)
      BY <1>6 DEF StartDeeds
    <2>2. t = Status(TRUE, FALSE, 0)
      BY <2>1, DeedFields DEF StartDeed
    <2>3. IsLast(Lock(FALSE), r, K) /\ IsLast(SessionStart(p, u), r, Brackets)
      BY <1>k, <1>b, <2>1, StartSays
    <2>4. Lock(FALSE).locked = t.locked
      BY <2>2 DEF Status, Lock
    <2>5. /\ SessionStart(p, u).type = "SESSION_START" /\ t.active = TRUE
      BY <2>2 DEF Status, SessionStart
    <2>6. \A n : IsLast(n, q \o r, K) => n.locked = t.locked
      BY <1>2, <2>3, <2>4, Zenon
    <2>. QED  BY <1>4, <2>3, <2>5, <2>6 DEF Mirrors, K
  <1>7. CASE d = TickDeed(s)
    <2>1. t = Status(TRUE, s.locked, e)
      BY <1>7, DeedFields DEF TickDeed, e
    <2>2. Without(r, K) /\ IsLast(Tick(e, 0), r, Brackets)
      BY <1>b, <1>7, TickSays DEF K, e
    <2>3. t.locked = s.locked /\ t.active = TRUE /\ t.elapsed = e
      BY <2>1 DEF Status
    <2>4. Tick(e, 0).type = "TICK" /\ Tick(e, 0).elapsed = e
      BY TypesOfLines
    <2>. QED  BY <1>3, <1>4, <2>2, <2>3, <2>4 DEF Mirrors, K
  <1>8. CASE d = EndDeed(s) \/ d = ExpireDeed(s)
    <2>1. t = Status(FALSE, TRUE, 0)
      <3>1. CASE d = EndDeed(s)
        BY <3>1, DeedFields, Zenon DEF EndDeed
      <3>2. CASE d = ExpireDeed(s)
        BY <3>2, DeedFields, Zenon DEF EndDeed, ExpireDeed
      <3>. QED  BY <1>8, <3>1, <3>2
    <2>2. IsLast(Lock(TRUE), r, K)
      BY <1>k, <1>8, EndSays, ExpireSays
    <2>3. \E x : IsLast(SessionEnd(x), r, Brackets)
      BY <1>k, <1>b, <1>8, EndSays, ExpireSays
    <2>4. t.active = FALSE /\ Lock(TRUE).locked = t.locked
      BY <2>1 DEF Status, Lock
    <2>5. \A x : SessionEnd(x).type = "SESSION_END"
      BY TypesOfLines
    <2>6. \A n : IsLast(n, q \o r, K) => n.locked = t.locked
      BY <1>2, <2>2, <2>4, Zenon
    <2>. QED  BY <1>4, <2>3, <2>4, <2>5, <2>6 DEF Mirrors, K
  <1>9. CASE d = LockDeed(s)
    <2>. DEFINE l == ~s.locked
                m == Lock(l)
    <2>1. t = Status(s.active, l, s.elapsed)
      BY <1>9, DeedFields DEF LockDeed
    <2>2. IsLast(m, r, K) /\ Without(r, Brackets)
      BY <1>k, <1>9, LockSays
    <2>3. m.locked = l
      BY DEF Lock
    <2>4. t.locked = l /\ t.active = s.active /\ t.elapsed = s.elapsed
      BY <2>1 DEF Status
    <2>. HIDE DEF m, l
    <2>5. \A n : IsLast(n, q \o r, K) => n.locked = t.locked
      BY <1>2, <2>2, <2>3, <2>4
    <2>. QED  BY <1>5, <2>2, <2>4, <2>5 DEF Mirrors, K
  <1>10. CASE d \in TalkDeeds(s)
    <2>1. Without(r, K) /\ Without(r, Brackets) /\ t = s
      <3>1. K \cap PlainTypes = {} /\ Brackets \cap PlainTypes = {}
        BY DEF K, Brackets, PlainTypes
      <3>. QED  BY <1>10, <3>1, TalkSays
    <2>. QED  BY <1>3, <1>5, <2>1 DEF Mirrors, K
  <1>. QED  BY <1>6, <1>7, <1>8, <1>9, <1>10 DEF DeedsOf, TickDeeds, EndDeeds

(* What StationStream alone implies of the streams that lost no line.      *)
MirrorInv == \A c \in ClientIds : c \in Whole => Mirrors(BareAll(toClient[c]), StatusOf(info[c]))

LEMMA MirrorStep ==
  ASSUME StreamInv, MirrorInv, [Next]_vars
  PROVE  MirrorInv'
  <1>. SUFFICES ASSUME NEW c \in ClientIds, c \in clients', c \notin torn'
                PROVE  Mirrors(BareAll(toClient'[c]), StatusOf(info'[c]))
    BY DEF MirrorInv, Whole, ClientIds
  <1>. DEFINE q == BareAll(toClient[c])
              s == StatusOf(info[c])
              qn == BareAll(toClient'[c])
              sn == StatusOf(info'[c])
  <1>1. /\ Moves(c)
        /\ toClient[c] \in Lines /\ Typed(s) /\ q \in Seq(ServerLine)
        /\ c \in Whole => Mirrors(q, s)
    <2>1. toClient[c] \in Lines /\ info[c] \in ClientInfo
      BY StreamFacts
    <2>2. q \in Seq(ServerLine) /\ Typed(s)
      BY <2>1, BareType, StatusFields DEF Lines
    <2>. QED  BY <2>1, <2>2, EveryMove DEF MirrorInv
  <1>2. Mirrors(<< >>, sn)
    BY DEF Mirrors, IsLast
  <1>3. CASE Stream!Accepted(c) \/ Stream!Left(c)
    <2>1. qn = << >>
      BY <1>3 DEF Stream!Accepted, Stream!Left, BareAll, ClientIds
    <2>. QED  BY <1>2, <2>1
  <1>4. CASE Stream!Done(c)
    <2>1. /\ c \in clients /\ c \notin torn
          /\ \E d \in DeedsOf(s) : sn = d.then /\ Stream!Written(c, d.lines)
      BY <1>4, SameDeeds DEF Stream!Done, Stream!Stays
    <2>2. PICK d \in DeedsOf(s) : sn = d.then /\ Stream!Written(c, d.lines)
      BY <2>1
    <2>3. qn = q \o d.lines
      BY <2>1, <2>2 DEF Stream!Written, BareAll, ClientIds
    <2>4. Mirrors(q \o d.lines, d.then)
      BY <1>1, <2>1, DeedMirrors DEF Whole
    <2>. QED  BY <2>2, <2>3, <2>4
  <1>5. CASE Stream!Read(c)
    <2>1. c \in Whole /\ q # << >> /\ qn = Tail(q) /\ sn = s
      BY <1>5 DEF Stream!Read, Stream!Stays, BareAll, Whole, ClientIds
    <2>2. ASSUME NEW types
          PROVE  \A m : IsLast(m, Tail(q), types) => IsLast(m, q, types)
      BY <1>1, <2>1, LastRead
    <2>3. Mirrors(q, s)
      BY <1>1, <2>1
    <2>4. Mirrors(Tail(q), s)
      BY <2>2, <2>3, Zenon DEF Mirrors
    <2>. QED  BY <2>1, <2>4
  <1>6. CASE Stream!Unchanged(c)
    <2>1. c \in Whole /\ qn = q /\ sn = s
      BY <1>6 DEF Stream!Unchanged, Stream!Stays, BareAll, Whole, ClientIds
    <2>. QED  BY <1>1, <2>1
  <1>. QED  BY <1>1, <1>3, <1>4, <1>5, <1>6 DEF Moves

LEMMA LastIsLast ==
  ASSUME NEW q \in Lines, NEW types, NEW m \in LastOf(q, types)
  PROVE  /\ IsLast(Bare(m), BareAll(q), types)
         /\ m \in ServerLine /\ m.type \in types
  <1>1. PICK j \in 1..Len(q) : /\ q[j] = m /\ m.type \in types
                               /\ \A k \in 1..Len(q) : k > j => q[k].type \notin types
    BY LenProperties DEF LastOf, Lines
  <1>2. /\ Len(BareAll(q)) = Len(q)
        /\ \A i \in 1..Len(q) : /\ q[i] \in ServerLine
                                  /\ BareAll(q)[i].type = q[i].type
                                  /\ BareAll(q)[i] = Bare(q[i])
    BY BareType, BareLine
  <1>. QED  BY <1>1, <1>2, BareLine DEF IsLast

(* Whatever a reader of an intact stream will have read last of the lock,  *)
(* of the session and of its clock is what the server believes, at every   *)
(* moment and however far the reader is behind.                            *)
THEOREM StreamsMirrorServer == Spec => []StreamMirrorsServer
  <1>1. Init => MirrorInv
    BY DEF Init, MirrorInv, Whole
  <1>2. StreamInv /\ MirrorInv /\ [Next]_vars => MirrorInv'
    BY MirrorStep
  <1>3. StreamInv /\ MirrorInv => StreamMirrorsServer
    <2>. SUFFICES ASSUME StreamInv, NEW c \in Whole,
                         Mirrors(BareAll(toClient[c]), StatusOf(info[c]))
                  PROVE  /\ \A m \in LastOf(toClient[c], {"LOCK"}) : m.locked = info[c].locked
                         /\ \A m \in LastOf(toClient[c], Brackets) :
                              /\ (m.type # "SESSION_END") = info[c].session_active
                              /\ m.type = "TICK" => m.elapsed = info[c].elapsed_sec
      BY StreamFacts DEF MirrorInv, StreamMirrorsServer, Whole
    <2>. DEFINE q == toClient[c]
                s == StatusOf(info[c])
    <2>1. q \in Lines /\ info[c] \in ClientInfo
      BY StreamFacts DEF Whole
    <2>2. /\ s.active = info[c].session_active /\ s.locked = info[c].locked
          /\ s.elapsed = info[c].elapsed_sec
      BY <2>1, StatusFields
    <2>. HIDE DEF s
    <2>3. ASSUME NEW m \in LastOf(q, {"LOCK"})
          PROVE  m.locked = info[c].locked
      <3>1. IsLast(Bare(m), BareAll(q), {"LOCK"}) /\ m \in ServerLine /\ m.type = "LOCK"
        BY <2>1, LastIsLast
      <3>2. Bare(m) = m
        BY <3>1, BareLine
      <3>3. Mirrors(BareAll(q), s)
        BY DEF s
      <3>. QED  BY <2>2, <3>1, <3>2, <3>3 DEF Mirrors
    <2>4. ASSUME NEW m \in LastOf(q, Brackets)
          PROVE  /\ (m.type # "SESSION_END") = info[c].session_active
                 /\ m.type = "TICK" => m.elapsed = info[c].elapsed_sec
      <3>1. IsLast(Bare(m), BareAll(q), Brackets) /\ m \in ServerLine
        BY <2>1, LastIsLast
      <3>2. Bare(m).type = m.type /\ (m.type = "TICK" => Bare(m).elapsed = m.elapsed)
        BY <3>1, BareLine
      <3>3. Mirrors(BareAll(q), s)
        BY DEF s
      <3>. QED  BY <2>2, <3>1, <3>2, <3>3 DEF Mirrors
    <2>. QED  BY <2>3, <2>4
  <1>. QED  BY <1>1, <1>2, <1>3, StreamInvariant, PTL DEF Spec
=============================================================================
