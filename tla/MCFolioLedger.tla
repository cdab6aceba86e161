---------------------------- MODULE MCFolioLedger ----------------------------
(* Small instances of the serial ledger for TLC. *)
EXTENDS FolioLedger, TLC

CONSTANTS t1, g1, g2, i1, l1, l2, r1

MCOneTrip == [g \in {g1, g2} |-> t1]

\* Tracked, then untracked at a new price; a second tracked price; withdrawn.
MCCatalogRows ==
  {[status |-> "active", counted |-> TRUE, price |-> 150],
   [status |-> "active", counted |-> FALSE, price |-> 350],
   [status |-> "archived", counted |-> TRUE, price |-> 150]}

MCRestock == {-1, 1}

MCSymmetry == Permutations({l1, l2})
=============================================================================
