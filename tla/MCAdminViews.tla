---------------------------- MODULE MCAdminViews ----------------------------
(* The package of the run of AdminViews, which expires at its first tick.  *)
EXTENDS AdminViews

OneSecond == [is_timed |-> TRUE, duration_sec |-> 1, price |-> 5]
FixedOnly == {OneSecond}
=============================================================================
