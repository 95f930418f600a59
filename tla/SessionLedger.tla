---------------------------- MODULE SessionLedger ----------------------------
(***************************************************************************)
(* What the billing server promises the owner of the cafe: every session   *)
(* ever opened is accounted for exactly once.  A session is open, then     *)
(* recorded in the sessions table; the only other ends it may have are the *)
(* two faults the code does not guard against, a failed INSERT and the end *)
(* of the process, and the process takes all the open sessions with it.    *)
(* A session is never taken over by another one.                           *)
(***************************************************************************)
EXTENDS Naturals

CONSTANT Sids  \* the sessions: natural numbers, in the order they are opened

VARIABLES up,    \* the server process runs
          fate   \* what has become of each session

ledgerVars == <<up, fate>>

Fates == {"unopened", "open", "recorded", "failed", "dropped"}

With(f) == {s \in Sids : fate[s] = f}

LedgerTypeOK == /\ up \in BOOLEAN
                /\ fate \in [Sids -> Fates]

LedgerInit == /\ up = TRUE
              /\ fate = [s \in Sids |-> "unopened"]

Open(s) == /\ up
           /\ fate[s] = "unopened"
           /\ \A r \in Sids : r < s => fate[r] # "unopened"
           /\ fate' = [fate EXCEPT ![s] = "open"]
           /\ UNCHANGED up

(* A set of open sessions ends at once (the timer serves all stations in   *)
(* one go); each of them is recorded or its INSERT fails.                  *)
Settle == /\ up
          /\ \E S \in SUBSET With("open") : \E F \in SUBSET S :
               /\ S # {}
               /\ fate' = [s \in Sids |-> IF s \in F THEN "failed"
                                          ELSE IF s \in S THEN "recorded"
                                          ELSE fate[s]]
          /\ UNCHANGED up

Down == /\ up
        /\ up' = FALSE
        /\ fate' = [s \in Sids |-> IF fate[s] = "open" THEN "dropped" ELSE fate[s]]

Up == /\ ~up
      /\ up' = TRUE
      /\ UNCHANGED fate

LedgerNext == (\E s \in Sids : Open(s)) \/ Settle \/ Down \/ Up

LedgerSpec == LedgerInit /\ [][LedgerNext]_ledgerVars
=============================================================================
