------------------------------ MODULE ServerSide ------------------------------
(***************************************************************************)
(* The contract between the billing server and a station: what the server  *)
(* may do to a station (src/server/BillingServer.cpp), the lines it writes *)
(* in the same step, and what it believes of the station afterwards.       *)
(* BillingServer is shown to keep it (KeepsContract); GtkClient and        *)
(* WinClient are checked against a server that does anything it allows.    *)
(* A deed is a function of what the server believed before.                *)
(***************************************************************************)
EXTENDS Protocol

(* What the server believes of a station.                                  *)
Status(a, l, e) == [active |-> a, locked |-> l, elapsed |-> e]

Statuses == [active : BOOLEAN, locked : BOOLEAN, elapsed : Nat]

Fresh == Status(FALSE, FALSE, 0)

Deed(lines, s) == [lines |-> lines, then |-> s]

(* The time left is on the station's label only: it is not told apart.     *)
TickDeed(s) == Deed(<<Tick(s.elapsed + 1, 0)>>, Status(TRUE, s.locked, s.elapsed + 1))

EndDeed(s) == Deed(<<SessionEnd(s.elapsed), Lock(TRUE)>>, Status(FALSE, TRUE, 0))

\* The tick that reaches the duration, and the end it brings with it.
ExpireDeed(s) == LET e == EndDeed(TickDeed(s).then)
                 IN  Deed(TickDeed(s).lines \o e.lines, e.then)

StartDeed(p, u) == Deed(<<SessionStart(p, u), Lock(FALSE)>>, Status(TRUE, FALSE, 0))

StartDeeds(s) == IF s.active THEN {} ELSE {StartDeed(p, u) : p \in Packages, u \in Users}

TickDeeds(s) == IF s.active THEN {TickDeed(s), ExpireDeed(s)} ELSE {}

EndDeeds(s) == IF s.active THEN {EndDeed(s)} ELSE {}

LockDeed(s) == Deed(<<Lock(~s.locked)>>, Status(s.active, ~s.locked, s.elapsed))

(* What is said without anything being done.                               *)
RegisterDeed(s) == Deed(<<Registered, PackageList>>, s)

TalkDeeds(s) ==
    {RegisterDeed(s), Deed(MenuOffer, s)}
      \cup {Deed(<<m>>, s) : m \in {Pong, ChatServer, ServerMsg}}

DeedsOf(s) == StartDeeds(s) \cup TickDeeds(s) \cup EndDeeds(s) \cup {LockDeed(s)} \cup TalkDeeds(s)
=============================================================================
