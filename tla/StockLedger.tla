----------------------------- MODULE StockLedger -----------------------------
(***************************************************************************)
(* What the consumption ledger promises about a boat's stock, with no       *)
(* trips, lines, locks or transactions: every unit that leaves the boat     *)
(* through a guest's folio is charged to that guest at the same instant,    *)
(* and once the folio is sealed its charges never move again.  The serial   *)
(* ledger (FolioLedger) and the concurrent one (FolioTx) implement it.      *)
(***************************************************************************)
EXTENDS Integers

CONSTANTS Guests, Items

VARIABLES
  charged,   \* charged[g][i]: units of item i standing on guest g's folio
  sealed,    \* sealed[g]: the folio of g has been settled
  onHand     \* onHand[i]: units of item i the boat's inventory shows

vars == <<charged, sealed, onHand>>

Init ==
  /\ charged = [g \in Guests |-> [i \in Items |-> 0]]
  /\ sealed = [g \in Guests |-> FALSE]
  /\ onHand \in [Items -> Int]

(***************************************************************************)
(* Units that move onto (or off) the folio of g move off (or onto) the boat *)
(***************************************************************************)
MoveUnits(g) ==
  /\ ~sealed[g]
  /\ \A h \in Guests \ {g} : charged'[h] = charged[h]
  /\ \A i \in Items :
       /\ charged'[g][i] \in Nat
       /\ onHand'[i] = onHand[i] + charged[g][i] - charged'[g][i]

Charge(g) == MoveUnits(g) /\ UNCHANGED sealed

\* Settling may still move units: lines older than live posting are charged here.
Seal(g) ==
  /\ MoveUnits(g)
  /\ sealed' = [sealed EXCEPT ![g] = TRUE]

\* Staff correct one item's count by hand.
Recount(i) ==
  /\ \A j \in Items \ {i} : onHand'[j] = onHand[j]
  /\ UNCHANGED <<charged, sealed>>

Next ==
  \/ \E g \in Guests : Charge(g) \/ Seal(g)
  \/ \E i \in Items : Recount(i)

Spec == Init /\ [][Next]_vars

=============================================================================
