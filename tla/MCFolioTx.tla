------------------------------ MODULE MCFolioTx ------------------------------
(* Small instances of the concurrent ledger for TLC. *)
EXTENDS FolioTx, TLC

CONSTANTS t1, g1, g2, i1, l1, l2, r1, p1, p2, p3

MCTripOf == [g \in Guests |-> t1]

MCRow(counted, price) == [status |-> "active", counted |-> counted, price |-> price]
MCTracked == {MCRow(TRUE, 150)}
MCRepriced == {MCRow(TRUE, 150), MCRow(FALSE, 350)}
MCNone == {}

Adds == [kind: {"add"}, guest: Guests, item: Items, qty: Quantities, request: {r1}]
Edits == [kind: {"update"}, guest: Guests, line: LineIds, qty: Quantities]
           \cup [kind: {"void"}, guest: Guests, line: LineIds]
TipJobs == [kind: {"tip"}, guest: Guests, amount: Tips]
             \cup [kind: {"retip"}, guest: Guests, line: LineIds, amount: Tips]
             \cup [kind: {"void"}, guest: Guests, line: LineIds]
Closes == [kind: {"close"}, guest: Guests, method: Methods]
Opens == [kind: {"open"}, guest: Guests] \cup [kind: {"start"}, trip: Trips]

MCCharging == Adds \cup Edits \cup Closes
MCOpening == Adds \cup TipJobs \cup Closes \cup Opens

MCSymmetry == Permutations(Procs) \cup Permutations(LineIds)
=============================================================================
