---------------------------- MODULE MCGtkClient ----------------------------
(***************************************************************************)
(* Instances of GtkClient for TLC.  What a package is makes no difference  *)
(* to the client's control, so there is one.                               *)
(***************************************************************************)
EXTENDS GtkClient

OnePackage == {[is_timed |-> TRUE, duration_sec |-> 2, price |-> 5]}

Nobody == {NoName}

(* A customer who waits for the first connection before making another.    *)
Patient == cur' # cur => cur = 0 \/ cur' = 0

PatientSpec == Init /\ [][Next /\ Patient]_vars

PatientFairSpec == PatientSpec /\ \A k \in Conns : WF_vars(Loop(k))

(* Three connections at once, on which the server registers, writes a      *)
(* message or hangs up: what watches, boxes and descriptors do to each     *)
(* other does not depend on the lines in between.                          *)
Terse(k) == PeerRegisters(k) \/ PeerSays(k) \/ PeerGone(k)

TangledNext == \/ \E k \in Conns : Loop(k) \/ OnShutChannel(k) \/ Terse(k)
               \/ \E f \in Fds : Connect(f)
               \/ ConnectFails \/ DismissBox

TangledSpec == Init /\ [][TangledNext]_vars
=============================================================================
