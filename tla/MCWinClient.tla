---------------------------- MODULE MCWinClient ----------------------------
(* Constants of the runs of WinClient.                                     *)
EXTENDS WinClient

OnePackage == {NoPackage}
=============================================================================
