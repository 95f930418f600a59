--------------------------- MODULE ServerSideProofs ---------------------------
(***************************************************************************)
(* What ServerSide lets the server do consists of lines of the protocol    *)
(* and leaves it with a belief of the right type.                          *)
(***************************************************************************)
EXTENDS ServerSide, TLAPS, SequenceTheorems

Typed(s) == s.active \in BOOLEAN /\ s.locked \in BOOLEAN /\ s.elapsed \in Nat

DeedOK(d) == d.lines \in Seq(ServerLine) /\ Typed(d.then)

LEMMA LineTypes ==
  /\ Registered \in ServerLine /\ PackageList \in ServerLine /\ ServerMsg \in ServerLine
  /\ \A p \in Packages, u \in Users : SessionStart(p, u) \in ServerLine
  /\ \A e \in Nat : Tick(e, 0) \in ServerLine /\ SessionEnd(e) \in ServerLine
  /\ \A b \in BOOLEAN : Lock(b) \in ServerLine
  BY DEF Registered, PackageList, ServerMsg, SessionStart, Tick, SessionEnd, Lock,
         ServerLine, PlainTypes

LEMMA One == ASSUME NEW a \in ServerLine PROVE <<a>> \in Seq(ServerLine)
  OBVIOUS

LEMMA Pair ==
  ASSUME NEW a \in ServerLine, NEW b \in ServerLine
  PROVE  <<a, b>> \in Seq(ServerLine)
  OBVIOUS

LEMMA StatusType ==
  ASSUME NEW a \in BOOLEAN, NEW l \in BOOLEAN, NEW e \in Nat
  PROVE  /\ Typed(Status(a, l, e))
         /\ Status(a, l, e).active = a /\ Status(a, l, e).locked = l
         /\ Status(a, l, e).elapsed = e
  BY Zenon DEF Status, Typed

LEMMA MakeDeed ==
  ASSUME NEW lines \in Seq(ServerLine), NEW s, Typed(s)
  PROVE  DeedOK(Deed(lines, s))
  <1>1. Deed(lines, s).lines = lines /\ Deed(lines, s).then = s
    BY DEF Deed
  <1>. QED  BY <1>1 DEF DeedOK

LEMMA TickDeedOK ==
  ASSUME NEW s, Typed(s)
  PROVE  DeedOK(TickDeed(s))
  <1>1. s.elapsed + 1 \in Nat /\ s.locked \in BOOLEAN
    BY DEF Typed
  <1>2. <<Tick(s.elapsed + 1, 0)>> \in Seq(ServerLine)
    BY <1>1, LineTypes, One
  <1>3. Typed(Status(TRUE, s.locked, s.elapsed + 1))
    BY <1>1, StatusType
  <1>. QED  BY <1>2, <1>3, MakeDeed DEF TickDeed

LEMMA EndDeedOK ==
  ASSUME NEW s, Typed(s)
  PROVE  DeedOK(EndDeed(s))
  <1>1. <<SessionEnd(s.elapsed), Lock(TRUE)>> \in Seq(ServerLine)
    BY LineTypes, Pair DEF Typed
  <1>2. Typed(Status(FALSE, TRUE, 0))
    BY StatusType
  <1>. QED  BY <1>1, <1>2, MakeDeed DEF EndDeed

LEMMA ExpireDeedOK ==
  ASSUME NEW s, Typed(s)
  PROVE  DeedOK(ExpireDeed(s))
  <1>1. DeedOK(TickDeed(s))
    BY TickDeedOK
  <1>2. DeedOK(EndDeed(TickDeed(s).then))
    BY <1>1, EndDeedOK DEF DeedOK
  <1>3. TickDeed(s).lines \o EndDeed(TickDeed(s).then).lines \in Seq(ServerLine)
    BY <1>1, <1>2 DEF DeedOK
  <1>. QED  BY <1>2, <1>3, MakeDeed DEF ExpireDeed, DeedOK

LEMMA LockDeedOK ==
  ASSUME NEW s, Typed(s)
  PROVE  DeedOK(LockDeed(s))
  <1>. DEFINE l == ~s.locked
  <1>1. l \in BOOLEAN /\ s.active \in BOOLEAN /\ s.elapsed \in Nat
    BY DEF Typed
  <1>2. LockDeed(s) = Deed(<<Lock(l)>>, Status(s.active, l, s.elapsed))
    BY DEF LockDeed
  <1>. HIDE DEF l
  <1>3. <<Lock(l)>> \in Seq(ServerLine)
    BY <1>1, LineTypes, One
  <1>4. Typed(Status(s.active, l, s.elapsed))
    BY <1>1, StatusType
  <1>. QED  BY <1>2, <1>3, <1>4, MakeDeed

LEMMA StartDeedsOK ==
  ASSUME NEW s, NEW d \in StartDeeds(s)
  PROVE  DeedOK(d)
  <1>1. PICK p \in Packages, u \in Users : d = StartDeed(p, u)
    BY DEF StartDeeds
  <1>2. <<SessionStart(p, u), Lock(FALSE)>> \in Seq(ServerLine)
    BY LineTypes, Pair
  <1>3. Typed(Status(TRUE, FALSE, 0))
    BY StatusType
  <1>. QED  BY <1>1, <1>2, <1>3, MakeDeed DEF StartDeed

LEMMA DeedTypes ==
  ASSUME NEW s, Typed(s)
  PROVE  /\ \A d \in StartDeeds(s) \cup EndDeeds(s) \cup {LockDeed(s)} : DeedOK(d)
         /\ \A d \in TickDeeds(s) : DeedOK(d)
         /\ DeedOK(RegisterDeed(s)) /\ DeedOK(Deed(<<ServerMsg>>, s))
  <1>1. \A d \in EndDeeds(s) : DeedOK(d)
    BY EndDeedOK DEF EndDeeds
  <1>2. \A d \in TickDeeds(s) : DeedOK(d)
    BY TickDeedOK, ExpireDeedOK DEF TickDeeds
  <1>3. DeedOK(RegisterDeed(s)) /\ DeedOK(Deed(<<ServerMsg>>, s))
    BY LineTypes, One, Pair, MakeDeed DEF RegisterDeed
  <1>. QED  BY <1>1, <1>2, <1>3, StartDeedsOK, LockDeedOK

(* ------------------------- the last line of a kind --------------------- *)

(* What a reader will have been told when it has caught up depends on the  *)
(* last line of certain types that is still in the stream, if there is one.*)
IsLast(m, q, types) ==
    \E j \in 1..Len(q) : /\ q[j] = m /\ m.type \in types
                         /\ \A k \in 1..Len(q) : k > j => q[k].type \notin types

Without(q, types) == \A j \in 1..Len(q) : q[j].type \notin types

LEMMA ConcatParts ==
  ASSUME NEW S, NEW q \in Seq(S), NEW r \in Seq(S)
  PROVE  /\ q \o r \in Seq(S) /\ Len(q \o r) = Len(q) + Len(r)
         /\ Len(q) \in Nat /\ Len(r) \in Nat
         /\ \A j \in 1..Len(q) : j \in 1..Len(q \o r) /\ (q \o r)[j] = q[j]
         /\ \A j \in 1..Len(r) : /\ Len(q) + j \in 1..Len(q \o r)
                                /\ (q \o r)[Len(q) + j] = r[j]
         /\ \A j \in 1..Len(q \o r) : j \notin 1..Len(q) => j - Len(q) \in 1..Len(r)
  <1>1. q \o r \in Seq(S) /\ Len(q \o r) = Len(q) + Len(r)
    BY ConcatProperties
  <1>2. Len(q) \in Nat /\ Len(r) \in Nat
    BY LenProperties
  <1>3. \A j \in 1..Len(q) + Len(r) :
          (q \o r)[j] = IF j <= Len(q) THEN q[j] ELSE r[j - Len(q)]
    BY ConcatProperties
  <1>. QED  BY <1>1, <1>2, <1>3

(* Lines of other types do not change which one is the last.               *)
LEMMA LastStays ==
  ASSUME NEW q \in Seq(ServerLine), NEW r \in Seq(ServerLine), NEW types, Without(r, types)
  PROVE  /\ \A m : IsLast(m, q \o r, types) <=> IsLast(m, q, types)
         /\ Without(q \o r, types) <=> Without(q, types)
  <1>p. /\ Len(q \o r) = Len(q) + Len(r) /\ Len(q) \in Nat /\ Len(r) \in Nat
        /\ \A j \in 1..Len(q) : j \in 1..Len(q \o r) /\ (q \o r)[j] = q[j]
        /\ \A j \in 1..Len(r) : /\ Len(q) + j \in 1..Len(q \o r)
                               /\ (q \o r)[Len(q) + j] = r[j]
        /\ \A j \in 1..Len(q \o r) : j \notin 1..Len(q) => j - Len(q) \in 1..Len(r)
    BY ConcatParts
  <1>1. ASSUME NEW m, IsLast(m, q \o r, types)
        PROVE  IsLast(m, q, types)
    <2>1. PICK j \in 1..Len(q \o r) :
            /\ (q \o r)[j] = m /\ m.type \in types
            /\ \A k \in 1..Len(q \o r) : k > j => (q \o r)[k].type \notin types
      BY <1>1 DEF IsLast
    <2>2. j \in 1..Len(q)
      <3>. SUFFICES ASSUME j \notin 1..Len(q) PROVE FALSE
        OBVIOUS
      <3>1. j - Len(q) \in 1..Len(r) /\ Len(q) + (j - Len(q)) = j
        BY <1>p
      <3>2. (q \o r)[j] = r[j - Len(q)]
        BY <1>p, <3>1
      <3>. QED  BY <2>1, <3>1, <3>2 DEF Without
    <2>. QED  BY <1>p, <2>1, <2>2 DEF IsLast
  <1>o. \A j \in 1..Len(q \o r) : j \notin 1..Len(q) => (q \o r)[j].type \notin types
    <2>. SUFFICES ASSUME NEW j \in 1..Len(q \o r), j \notin 1..Len(q)
                  PROVE  (q \o r)[j].type \notin types
      OBVIOUS
    <2>1. j - Len(q) \in 1..Len(r) /\ Len(q) + (j - Len(q)) = j
      BY <1>p
    <2>2. (q \o r)[j] = r[j - Len(q)]
      BY <1>p, <2>1
    <2>. QED  BY <2>1, <2>2 DEF Without
  <1>2. ASSUME Without(q \o r, types)
        PROVE  Without(q, types)
    BY <1>2, <1>p DEF Without
  <1>3. ASSUME Without(q, types)
        PROVE  Without(q \o r, types)
    BY <1>3, <1>o, <1>p DEF Without
  <1>4. ASSUME NEW m, IsLast(m, q, types)
        PROVE  IsLast(m, q \o r, types)
    <2>1. PICK j \in 1..Len(q) :
            /\ q[j] = m /\ m.type \in types
            /\ \A k \in 1..Len(q) : k > j => q[k].type \notin types
      BY <1>4 DEF IsLast
    <2>2. \A k \in 1..Len(q \o r) : k > j => (q \o r)[k].type \notin types
      BY <1>p, <1>o, <2>1
    <2>. QED  BY <1>p, <2>1, <2>2 DEF IsLast
  <1>. QED  BY <1>1, <1>2, <1>3, <1>4

(* A line written after the others is the last of its types.               *)
LEMMA LastWritten ==
  ASSUME NEW q \in Seq(ServerLine), NEW r \in Seq(ServerLine), NEW types,
         NEW n, IsLast(n, r, types)
  PROVE  /\ IsLast(n, q \o r, types)
         /\ \A m : IsLast(m, q \o r, types) => m = n
         /\ ~Without(q \o r, types)
  <1>p. /\ Len(q \o r) = Len(q) + Len(r) /\ Len(q) \in Nat /\ Len(r) \in Nat
        /\ \A j \in 1..Len(q) : j \in 1..Len(q \o r) /\ (q \o r)[j] = q[j]
        /\ \A j \in 1..Len(r) : /\ Len(q) + j \in 1..Len(q \o r)
                               /\ (q \o r)[Len(q) + j] = r[j]
        /\ \A j \in 1..Len(q \o r) : j \notin 1..Len(q) => j - Len(q) \in 1..Len(r)
    BY ConcatParts
  <1>1. PICK i \in 1..Len(r) : /\ r[i] = n /\ n.type \in types
                              /\ \A k \in 1..Len(r) : k > i => r[k].type \notin types
    BY DEF IsLast
  <1>2. /\ Len(q) + i \in 1..Len(q \o r)
        /\ (q \o r)[Len(q) + i] = n
    BY <1>p, <1>1
  <1>3. \A k \in 1..Len(q \o r) : k > Len(q) + i => (q \o r)[k].type \notin types
    <2>. SUFFICES ASSUME NEW k \in 1..Len(q \o r), k > Len(q) + i
                  PROVE  (q \o r)[k].type \notin types
      OBVIOUS
    <2>1. k - Len(q) \in 1..Len(r) /\ k - Len(q) > i /\ Len(q) + (k - Len(q)) = k
      BY <1>p
    <2>2. (q \o r)[k] = r[k - Len(q)]
      BY <1>p, <2>1
    <2>. QED  BY <1>1, <2>1, <2>2
  <1>4. ASSUME NEW m, IsLast(m, q \o r, types)
        PROVE  m = n
    <2>1. PICK j \in 1..Len(q \o r) :
            /\ (q \o r)[j] = m /\ m.type \in types
            /\ \A k \in 1..Len(q \o r) : k > j => (q \o r)[k].type \notin types
      BY <1>4 DEF IsLast
    <2>2. j = Len(q) + i
      <3>1. ~(j > Len(q) + i)
        BY <1>3, <2>1
      <3>2. ~(Len(q) + i > j)
        BY <1>1, <1>2, <2>1
      <3>3. j \in Int /\ i \in Int /\ Len(q) \in Int
        BY <1>p
      <3>. QED  BY <3>1, <3>2, <3>3
    <2>. QED  BY <1>2, <2>1, <2>2
  <1>. QED  BY <1>1, <1>2, <1>3, <1>4 DEF Without, IsLast

(* Reading the first line: it may have been the last of its types.         *)
LEMMA LastRead ==
  ASSUME NEW S, NEW q \in Seq(S), q # << >>, NEW types
  PROVE  /\ \A m : IsLast(m, Tail(q), types) => IsLast(m, q, types)
         /\ Without(Tail(q), types) /\ Head(q).type \notin types => Without(q, types)
         /\ Without(Tail(q), types) /\ Head(q).type \in types => IsLast(Head(q), q, types)
  <1>. DEFINE t == Tail(q)
  <1>p. /\ Len(q) \in Nat /\ Len(q) >= 1 /\ Len(t) = Len(q) - 1 /\ Head(q) = q[1]
        /\ \A j \in 1..Len(t) : j + 1 \in 1..Len(q) /\ t[j] = q[j + 1]
        /\ \A j \in 1..Len(q) : j = 1 \/ (j - 1 \in 1..Len(t) /\ q[j] = t[j - 1])
    <2>1. Len(q) \in Nat /\ Len(q) # 0
      BY LenProperties, EmptySeq
    <2>2. Head(q) = q[1] /\ Len(t) = Len(q) - 1 /\ \A j \in 1..(Len(q) - 1) : t[j] = q[j + 1]
      BY HeadTailProperties
    <2>. HIDE DEF t
    <2>3. \A j \in 1..Len(t) : j + 1 \in 1..Len(q) /\ t[j] = q[j + 1]
      BY <2>1, <2>2
    <2>4. \A j \in 1..Len(q) : j = 1 \/ (j - 1 \in 1..Len(t) /\ q[j] = t[j - 1])
      <3>. SUFFICES ASSUME NEW j \in 1..Len(q), j # 1
                    PROVE  j - 1 \in 1..Len(t) /\ q[j] = t[j - 1]
        OBVIOUS
      <3>1. j - 1 \in 1..Len(t) /\ (j - 1) + 1 = j
        BY <2>1, <2>2
      <3>. QED  BY <2>3, <3>1
    <2>. QED  BY <2>1, <2>2, <2>3, <2>4
  <1>. HIDE DEF t
  <1>1. ASSUME NEW m, IsLast(m, t, types)
        PROVE  IsLast(m, q, types)
    <2>1. PICK j \in 1..Len(t) : /\ t[j] = m /\ m.type \in types
                                /\ \A k \in 1..Len(t) : k > j => t[k].type \notin types
      BY <1>1 DEF IsLast
    <2>2. \A k \in 1..Len(q) : k > j + 1 => q[k].type \notin types
      <3>. SUFFICES ASSUME NEW k \in 1..Len(q), k > j + 1
                    PROVE  q[k].type \notin types
        OBVIOUS
      <3>1. k # 1 /\ k - 1 > j
        BY <1>p
      <3>. QED  BY <1>p, <2>1, <3>1
    <2>. QED  BY <1>p, <2>1, <2>2 DEF IsLast
  <1>2. ASSUME Without(t, types)
        PROVE  \A k \in 1..Len(q) : k > 1 => q[k].type \notin types
    BY <1>2, <1>p DEF Without
  <1>3. 1 \in 1..Len(q)
    BY <1>p
  <1>4. ASSUME Without(t, types), Head(q).type \notin types
        PROVE  Without(q, types)
    BY <1>2, <1>4, <1>p DEF Without
  <1>5. ASSUME Without(t, types), Head(q).type \in types
        PROVE  IsLast(Head(q), q, types)
    BY <1>2, <1>3, <1>5, <1>p DEF IsLast
  <1>. QED  BY <1>1, <1>4, <1>5 DEF t

(* The last line of what one step writes.                                  *)
LEMMA LastOfOne ==
  ASSUME NEW a, NEW types
  PROVE  /\ a.type \in types => IsLast(a, <<a>>, types)
         /\ a.type \notin types => Without(<<a>>, types)
  BY DEF IsLast, Without

LEMMA LastOfPair ==
  ASSUME NEW a, NEW b, NEW types
  PROVE  /\ b.type \in types => IsLast(b, <<a, b>>, types)
         /\ b.type \notin types /\ a.type \in types => IsLast(a, <<a, b>>, types)
         /\ b.type \notin types /\ a.type \notin types => Without(<<a, b>>, types)
  <1>1. /\ Len(<<a, b>>) = 2 /\ <<a, b>>[1] = a /\ <<a, b>>[2] = b
        /\ \A j \in 1..2 : j = 1 \/ j = 2
    OBVIOUS
  <1>2. b.type \in types => IsLast(b, <<a, b>>, types)
    BY <1>1 DEF IsLast
  <1>3. b.type \notin types /\ a.type \in types => IsLast(a, <<a, b>>, types)
    BY <1>1 DEF IsLast
  <1>. QED  BY <1>1, <1>2, <1>3 DEF Without

LEMMA DeedFields == \A l, s : Deed(l, s).lines = l /\ Deed(l, s).then = s
  BY DEF Deed

LEMMA TypesOfLines ==
  /\ Registered.type = "REGISTERED" /\ PackageList.type = "PACKAGES"
  /\ \A m \in {Pong, ChatServer, ServerMsg} : m.type \in PlainTypes
  /\ \A p, u : SessionStart(p, u).type = "SESSION_START"
  /\ \A e, r : /\ Tick(e, r).type = "TICK" /\ Tick(e, r).elapsed = e
              /\ SessionEnd(e).type = "SESSION_END"
  /\ \A b : Lock(b).type = "LOCK" /\ Lock(b).locked = b
  BY DEF Registered, PackageList, Pong, ChatServer, ServerMsg, SessionStart, Tick, SessionEnd,
         Lock, PlainTypes

LEMMA StartSays ==
  ASSUME NEW p, NEW u, NEW types
  PROVE  LET lines == StartDeed(p, u).lines
         IN  IF "LOCK" \in types THEN IsLast(Lock(FALSE), lines, types)
             ELSE IF "SESSION_START" \in types THEN IsLast(SessionStart(p, u), lines, types)
             ELSE Without(lines, types)
  <1>1. StartDeed(p, u).lines = <<SessionStart(p, u), Lock(FALSE)>>
    BY DeedFields DEF StartDeed
  <1>. DEFINE a == SessionStart(p, u)
              b == Lock(FALSE)
  <1>2. a.type = "SESSION_START" /\ b.type = "LOCK"
    BY TypesOfLines
  <1>. HIDE DEF a, b
  <1>3. IF "LOCK" \in types THEN IsLast(b, <<a, b>>, types)
        ELSE IF "SESSION_START" \in types THEN IsLast(a, <<a, b>>, types)
        ELSE Without(<<a, b>>, types)
    BY <1>2, LastOfPair
  <1>. QED  BY <1>1, <1>3, Zenon DEF a, b

LEMMA TickSays ==
  ASSUME NEW s, NEW types
  PROVE  LET lines == TickDeed(s).lines
         IN  IF "TICK" \in types THEN IsLast(Tick(s.elapsed + 1, 0), lines, types)
             ELSE Without(lines, types)
  <1>1. TickDeed(s).lines = <<Tick(s.elapsed + 1, 0)>>
    BY DeedFields DEF TickDeed
  <1>. QED  BY <1>1, TypesOfLines, LastOfOne

LEMMA EndSays ==
  ASSUME NEW s, NEW types
  PROVE  LET lines == EndDeed(s).lines
         IN  IF "LOCK" \in types THEN IsLast(Lock(TRUE), lines, types)
             ELSE IF "SESSION_END" \in types THEN IsLast(SessionEnd(s.elapsed), lines, types)
             ELSE Without(lines, types)
  <1>1. EndDeed(s).lines = <<SessionEnd(s.elapsed), Lock(TRUE)>>
    BY DeedFields DEF EndDeed
  <1>. DEFINE a == SessionEnd(s.elapsed)
              b == Lock(TRUE)
  <1>2. a.type = "SESSION_END" /\ b.type = "LOCK"
    BY TypesOfLines
  <1>. HIDE DEF a, b
  <1>3. IF "LOCK" \in types THEN IsLast(b, <<a, b>>, types)
        ELSE IF "SESSION_END" \in types THEN IsLast(a, <<a, b>>, types)
        ELSE Without(<<a, b>>, types)
    BY <1>2, LastOfPair
  <1>. QED  BY <1>1, <1>3, Zenon DEF a, b

LEMMA ExpireSays ==
  ASSUME NEW s, Typed(s), NEW types
  PROVE  LET lines == ExpireDeed(s).lines
             e == s.elapsed + 1
         IN  IF "LOCK" \in types THEN IsLast(Lock(TRUE), lines, types)
             ELSE IF "SESSION_END" \in types THEN IsLast(SessionEnd(e), lines, types)
             ELSE IF "TICK" \in types THEN IsLast(Tick(e, 0), lines, types)
             ELSE Without(lines, types)
  <1>. DEFINE e == s.elapsed + 1
              q == TickDeed(s).lines
              r == EndDeed(TickDeed(s).then).lines
  <1>1. ExpireDeed(s).lines = q \o r
    BY DeedFields DEF ExpireDeed
  <1>2. q \in Seq(ServerLine)
    BY TickDeedOK DEF DeedOK
  <1>3. Typed(TickDeed(s).then) /\ r \in Seq(ServerLine)
    BY TickDeedOK, EndDeedOK DEF DeedOK
  <1>4. TickDeed(s).then.elapsed = e
    <2>1. TickDeed(s).then = Status(TRUE, s.locked, e)
      BY DeedFields DEF TickDeed
    <2>. QED  BY <2>1 DEF Status
  <1>5. IF "TICK" \in types THEN IsLast(Tick(e, 0), q, types) ELSE Without(q, types)
    BY TickSays
  <1>6. IF "LOCK" \in types THEN IsLast(Lock(TRUE), r, types)
        ELSE IF "SESSION_END" \in types THEN IsLast(SessionEnd(e), r, types)
        ELSE Without(r, types)
    BY <1>4, EndSays
  <1>. HIDE DEF q, r, e
  <1>7. CASE Without(r, types) /\ "LOCK" \notin types /\ "SESSION_END" \notin types
    BY <1>1, <1>2, <1>3, <1>5, <1>7, LastStays DEF e
  <1>8. CASE "LOCK" \in types
    <2>1. IsLast(Lock(TRUE), q \o r, types)
      BY <1>2, <1>3, <1>6, <1>8, LastWritten
    <2>. QED  BY <1>1, <1>8, <2>1, Zenon
  <1>9. CASE "LOCK" \notin types /\ "SESSION_END" \in types
    BY <1>1, <1>2, <1>3, <1>6, <1>9, LastWritten DEF e
  <1>. QED  BY <1>6, <1>7, <1>8, <1>9

LEMMA LockSays ==
  ASSUME NEW s, NEW types
  PROVE  LET lines == LockDeed(s).lines
         IN  IF "LOCK" \in types THEN IsLast(Lock(~s.locked), lines, types)
             ELSE Without(lines, types)
  <1>1. LockDeed(s).lines = <<Lock(~s.locked)>>
    BY DeedFields DEF LockDeed
  <1>. QED  BY <1>1, TypesOfLines, LastOfOne

LEMMA RegisterSays ==
  ASSUME NEW s, NEW types, "PACKAGES" \notin types
  PROVE  LET lines == RegisterDeed(s).lines
         IN  IF "REGISTERED" \in types THEN IsLast(Registered, lines, types)
             ELSE Without(lines, types)
  <1>1. RegisterDeed(s).lines = <<Registered, PackageList>>
    BY DeedFields DEF RegisterDeed
  <1>. QED  BY <1>1, TypesOfLines, LastOfPair

LEMMA TalkSays ==
  ASSUME NEW s, NEW types, types \cap PlainTypes = {}, NEW d \in TalkDeeds(s)
  PROVE  Without(d.lines, types) /\ d.then = s
  <1>1. ASSUME NEW m \in {Pong, ChatServer, ServerMsg}
        PROVE  Without(<<m>>, types)
    BY TypesOfLines, LastOfOne
  <1>2. Without(RegisterDeed(s).lines, types)
    BY RegisterSays DEF PlainTypes
  <1>3. Without(MenuOffer, types)
    BY DEF MenuOffer, Remainder, Without, PlainTypes
  <1>. QED  BY <1>1, <1>2, <1>3, DeedFields DEF TalkDeeds, RegisterDeed

(* A deed that changes the lock ends with the line that says so.           *)
LEMMA LockSaid ==
  ASSUME NEW s, Typed(s), NEW types, "LOCK" \in types,
         NEW d \in StartDeeds(s) \cup EndDeeds(s) \cup {ExpireDeed(s), LockDeed(s)}
  PROVE  \E m : IsLast(m, d.lines, types) /\ m.type = "LOCK" /\ m.locked = d.then.locked
  <1>1. CASE d \in StartDeeds(s)
    <2>1. PICK p \in Packages, u \in Users : d = StartDeed(p, u)
      BY <1>1 DEF StartDeeds
    <2>2. IsLast(Lock(FALSE), d.lines, types)
      BY <2>1, StartSays
    <2>3. d.then = Status(TRUE, FALSE, 0)
      BY <2>1, DeedFields DEF StartDeed
    <2>4. Lock(FALSE).type = "LOCK" /\ Lock(FALSE).locked = d.then.locked
      BY <2>3 DEF Lock, Status
    <2>. QED  BY <2>2, <2>4
  <1>2. CASE d = EndDeed(s) \/ d = ExpireDeed(s)
    <2>1. IsLast(Lock(TRUE), d.lines, types)
      BY <1>2, EndSays, ExpireSays
    <2>2. d.then = Status(FALSE, TRUE, 0)
      <3>1. CASE d = EndDeed(s)
        BY <3>1, DeedFields, Zenon DEF EndDeed
      <3>2. CASE d = ExpireDeed(s)
        BY <3>2, DeedFields, Zenon DEF EndDeed, ExpireDeed
      <3>. QED  BY <1>2, <3>1, <3>2
    <2>3. Lock(TRUE).type = "LOCK" /\ Lock(TRUE).locked = d.then.locked
      BY <2>2 DEF Lock, Status
    <2>. QED  BY <2>1, <2>3
  <1>3. CASE d = LockDeed(s)
    <2>. DEFINE l == ~s.locked
                m == Lock(l)
    <2>1. IsLast(m, d.lines, types)
      BY <1>3, LockSays
    <2>2. d.then = Status(s.active, l, s.elapsed)
      BY <1>3, DeedFields DEF LockDeed
    <2>3. m.type = "LOCK" /\ m.locked = d.then.locked
      BY <2>2 DEF Lock, Status
    <2>. HIDE DEF m
    <2>. QED  BY <2>1, <2>3
  <1>. QED  BY <1>1, <1>2, <1>3 DEF EndDeeds

(* A tick says how long the session runs, and nothing of the lock.         *)
LEMMA TickSaid ==
  ASSUME NEW s, Typed(s)
  PROVE  LET d == TickDeed(s)
         IN  /\ d.then.active = TRUE /\ d.then.locked = s.locked
             /\ \A types : "TICK" \notin types => Without(d.lines, types)
             /\ \A types : "TICK" \in types =>
                  \E m : /\ IsLast(m, d.lines, types) /\ m.type = "TICK"
                         /\ m.elapsed = d.then.elapsed
  <1>. DEFINE d == TickDeed(s)
              e == s.elapsed + 1
  <1>1. d.then = Status(TRUE, s.locked, e)
    BY DeedFields DEF TickDeed
  <1>2. d.then.active = TRUE /\ d.then.locked = s.locked /\ d.then.elapsed = e
    BY <1>1 DEF Status
  <1>3. ASSUME NEW types, "TICK" \notin types
        PROVE  Without(d.lines, types)
    BY <1>3, TickSays
  <1>4. ASSUME NEW types, "TICK" \in types
        PROVE  IsLast(Tick(e, 0), d.lines, types)
    BY <1>4, TickSays
  <1>5. Tick(e, 0).type = "TICK" /\ Tick(e, 0).elapsed = e
    BY TypesOfLines
  <1>. HIDE DEF d, e
  <1>6. ASSUME NEW types, "TICK" \in types
        PROVE  \E m : /\ IsLast(m, d.lines, types) /\ m.type = "TICK"
                      /\ m.elapsed = d.then.elapsed
    BY <1>2, <1>4, <1>5, <1>6
  <1>. QED  BY <1>2, <1>3, <1>6 DEF d

(* Where a session runs after a deed, the deed's last word of it is how    *)
(* long, or the deed does not mention it.                                  *)
LEMMA ClockSaid ==
  ASSUME NEW s, Typed(s), NEW types, types = {"SESSION_START", "TICK"},
         NEW d \in StartDeeds(s) \cup EndDeeds(s) \cup {LockDeed(s)} \cup TickDeeds(s),
         d.then.active
  PROVE  \/ \E m : /\ IsLast(m, d.lines, types)
                   /\ \/ m.type = "SESSION_START" /\ d.then.elapsed = 0
                      \/ m.type = "TICK" /\ m.elapsed = d.then.elapsed
         \/ Without(d.lines, types) /\ s.active /\ d.then.elapsed = s.elapsed
  <1>1. CASE d \in StartDeeds(s)
    <2>1. PICK p \in Packages, u \in Users : d = StartDeed(p, u)
      BY <1>1 DEF StartDeeds
    <2>2. IsLast(SessionStart(p, u), d.lines, types)
      BY <2>1, StartSays
    <2>3. d.then = Status(TRUE, FALSE, 0)
      BY <2>1, DeedFields DEF StartDeed
    <2>4. SessionStart(p, u).type = "SESSION_START" /\ d.then.elapsed = 0
      BY <2>3 DEF SessionStart, Status
    <2>. QED  BY <2>2, <2>4
  <1>2. CASE d = EndDeed(s) \/ d = ExpireDeed(s)
    <2>1. d.then = Status(FALSE, TRUE, 0)
      <3>1. CASE d = EndDeed(s)
        BY <3>1, DeedFields, Zenon DEF EndDeed
      <3>2. CASE d = ExpireDeed(s)
        BY <3>2, DeedFields, Zenon DEF EndDeed, ExpireDeed
      <3>. QED  BY <1>2, <3>1, <3>2
    <2>. QED  BY <2>1 DEF Status
  <1>3. CASE d = LockDeed(s)
    <2>. DEFINE l == ~s.locked
    <2>1. Without(d.lines, types)
      BY <1>3, LockSays
    <2>2. d.then = Status(s.active, l, s.elapsed)
      BY <1>3, DeedFields DEF LockDeed
    <2>3. l \in BOOLEAN /\ s.active \in BOOLEAN /\ s.elapsed \in Nat
      BY DEF Typed
    <2>. HIDE DEF l
    <2>4. /\ Status(s.active, l, s.elapsed).active = s.active
          /\ Status(s.active, l, s.elapsed).elapsed = s.elapsed
      BY <2>3, StatusType
    <2>5. d.then.active = s.active /\ d.then.elapsed = s.elapsed
      BY <2>2, <2>4, Zenon
    <2>. QED  BY <2>1, <2>5
  <1>4. CASE d = TickDeed(s)
    BY <1>4, TickSaid
  <1>. QED  BY <1>1, <1>2, <1>3, <1>4 DEF EndDeeds, TickDeeds
=============================================================================
