--------------------------- MODULE MCBillingServer ---------------------------
(***************************************************************************)
(* Instances of BillingServer for TLC: the packages of each run.           *)
(***************************************************************************)
EXTENDS BillingServer

\* A fixed package that expires at its second tick, and the hourly one.
TwoSeconds == [is_timed |-> TRUE, duration_sec |-> 2, price |-> 5]
Hourly == [is_timed |-> FALSE, duration_sec |-> 0, price |-> 3]

FixedAndHourly == {TwoSeconds, Hourly}
FixedOnly == {TwoSeconds}

(* Of all talk the menu, which takes three lines, to a station that has    *)
(* read all there was: talk only takes room from the lines that the        *)
(* properties are about.                                                   *)
Seldom == OnBroadcastMenuClicked /\ \A c \in ClientIds : toClient[c] = << >>

SeldomSpec == Init /\ [][Work \/ Seldom]_vars

SeldomFairSpec == SeldomSpec /\ Fairness

Nobody == {NoName}
=============================================================================
