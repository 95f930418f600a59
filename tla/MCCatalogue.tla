---------------------------- MODULE MCCatalogue ----------------------------
(* Constants of the runs of Catalogue.                                     *)
EXTENDS Catalogue, TLC

\* Negative prices.  Packages have one, typed or inserted by init.  A menu item
\* is inserted with half a rupiah, which an edit drops or an empty price
\* replaces by 0.  More prices would only multiply the states.
Few == [packages |-> {-100}, menu_items |-> {}]

Fresh == [port |-> 12345, price |-> [packages |-> -100, menu_items |-> -50]]

TwoPackages == [packages |-> 2, menu_items |-> 1]

Interchangeable == Permutations(Procs)
=============================================================================
