----------------------------- MODULE FolioLedger -----------------------------
(***************************************************************************)
(* The real-time consumption ledger of one boat: guest folios, their lines, *)
(* the stock each line takes, and settlement.  Every action is one          *)
(* transaction of internal/store (or one HTTP handler around a single       *)
(* statement) taken as a single step; FolioTx splits the same transactions  *)
(* at their row locks and statements.                                       *)
(*                                                                         *)
(* A row that exists is in the domain of its variable; `lines` holds voided *)
(* lines too, as the table does.  Prices are the effective price of an item *)
(* (base or override), money is in USD cents.                               *)
(***************************************************************************)
EXTENDS Integers, FiniteSets, Functions

CONSTANTS
  Trips, Guests, Items,  \* voyages of the boat, their guests, catalog items
  TripOf,                \* the voyage each guest travels on
  LineIds,               \* ids of folio lines: bounds how many are ever inserted
  Requests,              \* client request ids a device may send, and resend
  NoRequest, NoItem,     \* an empty request id; a tip's absent catalog item
  Quantities, Tips,      \* quantities and tip amounts staff enter
  CatalogRows,           \* what an edit of a catalog item may leave in its row
  FeeRates, Methods,     \* card fees (basis points), enabled payment methods
  Deltas, MaxStock,      \* manual stock adjustments, and the bound on counts
  LegacyIds              \* lines that may predate live stock posting

ASSUME DataAssumption ==
  /\ TripOf \in [Guests -> Trips]
  /\ Quantities \subseteq Nat \ {0}
  /\ Tips \subseteq Nat
  /\ CatalogRows \subseteq
       [status: {"active", "inactive", "archived"}, counted: BOOLEAN, price: Nat]
  /\ FeeRates \subseteq Nat
  /\ Deltas \subseteq Int \ {0}
  /\ MaxStock \in Nat
  /\ IsFiniteSet(LineIds) /\ LegacyIds \subseteq LineIds
  /\ NoItem \notin Items
  /\ NoRequest \notin Requests

VARIABLES
  trip,      \* trips.status
  revoked,   \* trip_guests.revoked_at is set
  catalog,   \* the catalog_items row, with the effective price
  feeRate,   \* organization_payment_settings.card_fee_basis_points
  folio,     \* guest_folios.status, "none" when there is no row
  bill,      \* the money snapshot written when a folio is closed
  lines,     \* guest_folio_lines: a function whose domain is the rows inserted
  moved,     \* for each line, the sum of its stock_movements deltas
  stock      \* boat_inventory_items.quantity_on_hand, 0 when there is no row

manifestVars == <<trip, revoked>>
settingVars == <<catalog, feeRate>>
lineVars == <<lines, moved, stock>>
vars == <<trip, revoked, catalog, feeRate, folio, bill, lines, moved, stock>>

TripStatus == {"planned", "active", "completed", "cancelled"}
FolioStatus == {"none", "open", "closed"}

Line ==
  [guest: Guests, type: {"catalog_item", "crew_tip"}, item: Items \cup {NoItem},
   qty: Nat \ {0}, unit: Nat, total: Nat, counted: BOOLEAN, posted: BOOLEAN,
   voided: BOOLEAN, request: Requests \cup {NoRequest}]

NoBill == [subtotal |-> 0, fee |-> 0, total |-> 0, rate |-> 0, method |-> "unset"]

-----------------------------------------------------------------------------
(***************************************************************************)
(* Reading the tables                                                      *)
(***************************************************************************)
Live(l) == ~lines[l].voided

LiveLines(g) == {l \in DOMAIN lines : lines[l].guest = g /\ Live(l)}

Charges(g) == [l \in LiveLines(g) |-> lines[l].total]

Operational(t) == trip[t] \in {"planned", "active"}

\* Round half up, as the integer division in CloseGuestFolio does.
CardFee(subtotal, rate) == (subtotal * rate + 5000) \div 10000

\* Mutants of MayMutate: one forgets the folio's status, the other the trip's.
MayMutateAnyFolio(g) == ~revoked[g] /\ trip[TripOf[g]] = "active"
MayMutateAnyVoyage(g) == ~revoked[g] /\ folio[g] = "open"

\* The lock-and-check every line mutation starts with, when the folio exists.
MayMutate(g) ==
  /\ ~revoked[g]
  /\ trip[TripOf[g]] = "active"
  /\ folio[g] = "open"

\* Mutant of FreshRequest: a voided line no longer answers for its request.
FreshAmongLive(g, r) == \A m \in LiveLines(g) : lines[m].request # r

\* No line of the guest, voided ones included, carries this client request id.
FreshRequest(g, r) ==
  r # NoRequest => \A m \in DOMAIN lines : ~(lines[m].guest = g /\ lines[m].request = r)

\* Mutant of TipLines: the upsert inserts without looking for the tip line.
NoTipLines(g) == {}

TipLines(g) == {m \in LiveLines(g) : lines[m].type = "crew_tip"}

\* Mutant of Unposted: settlement takes stock again for lines posted live.
Counted(g) == {l \in LiveLines(g) : lines[l].counted}

\* What is still to be taken from stock for a line that was never posted.
Unposted(g) == {l \in LiveLines(g) : lines[l].counted /\ ~lines[l].posted}

\* Mutant of MarkPosted: settlement takes the stock and forgets to say so.
LeaveUnposted(row) == row

MarkPosted(row) == [row EXCEPT !.posted = TRUE]

UnitsOf(i, S) == SumFunction([l \in {m \in S : lines[m].item = i} |-> lines[l].qty])

(***************************************************************************)
(* Writing the tables                                                      *)
(***************************************************************************)
InsertLine(l, row) ==
  lines' = [m \in DOMAIN lines \cup {l} |-> IF m = l THEN row ELSE lines[m]]

\* Mutant of PostMovement: the movement is recorded, the count is not updated.
RecordMovement(l, delta) ==
  /\ moved' = [moved EXCEPT ![l] = @ + delta]
  /\ UNCHANGED stock

\* One movement row for line l, and the on-hand quantity it leaves.
PostMovement(l, delta) ==
  /\ moved' = [moved EXCEPT ![l] = @ + delta]
  /\ stock' = [stock EXCEPT ![lines[l].item] = @ + delta]

-----------------------------------------------------------------------------
(***************************************************************************)
(* Folios and lines                                                        *)
(***************************************************************************)
OpenGuestFolio(g) ==
  /\ ~revoked[g]
  /\ Operational(TripOf[g])
  /\ folio[g] = "none"
  /\ folio' = [folio EXCEPT ![g] = "open"]
  /\ UNCHANGED <<manifestVars, settingVars, lineVars, bill>>

(***************************************************************************)
(* A request id the guest's lines already carry (voided ones too) commits   *)
(* without writing anything, so only a fresh id inserts.  The folio is      *)
(* opened on the way when the guest has none.                               *)
(***************************************************************************)
AddCatalogLine(g, i, q, r, l) ==
  LET row == catalog[i]
      delta == IF row.counted THEN -q ELSE 0
  IN
  /\ ~revoked[g]
  /\ trip[TripOf[g]] = "active"
  /\ folio[g] # "closed"
  /\ row.status = "active"
  /\ FreshRequest(g, r)
  /\ l \notin DOMAIN lines
  /\ folio' = [folio EXCEPT ![g] = "open"]
  /\ InsertLine(l, [guest |-> g, type |-> "catalog_item", item |-> i, qty |-> q,
                    unit |-> row.price, total |-> row.price * q,
                    counted |-> row.counted, posted |-> row.counted,
                    voided |-> FALSE, request |-> r])
  /\ moved' = [moved EXCEPT ![l] = @ + delta]
  /\ stock' = [stock EXCEPT ![i] = @ + delta]
  /\ UNCHANGED <<manifestVars, settingVars, bill>>

\* The unvoided tip line of the folio is overwritten, or a new one inserted.
AddCrewTip(g, amount, l) ==
  /\ ~revoked[g]
  /\ trip[TripOf[g]] = "active"
  /\ folio[g] # "closed"
  /\ folio' = [folio EXCEPT ![g] = "open"]
  /\ \/ /\ l \in TipLines(g)
        /\ lines' = [lines EXCEPT ![l].unit = amount, ![l].total = amount]
     \/ /\ TipLines(g) = {}
        /\ l \notin DOMAIN lines
        /\ InsertLine(l, [guest |-> g, type |-> "crew_tip", item |-> NoItem,
                          qty |-> 1, unit |-> amount, total |-> amount,
                          counted |-> FALSE, posted |-> FALSE,
                          voided |-> FALSE, request |-> NoRequest])
  /\ UNCHANGED <<manifestVars, settingVars, bill, moved, stock>>

\* Only the difference is posted, and only for a line whose stock was posted.
UpdateQuantity(l, q) ==
  /\ l \in DOMAIN lines
  /\ MayMutate(lines[l].guest)
  /\ Live(l)
  /\ lines[l].type = "catalog_item"
  /\ lines' = [lines EXCEPT ![l].qty = q, ![l].total = lines[l].unit * q]
  /\ IF lines[l].counted /\ lines[l].posted
       THEN PostMovement(l, lines[l].qty - q)
       ELSE UNCHANGED <<moved, stock>>
  /\ UNCHANGED <<manifestVars, settingVars, folio, bill>>

UpdateTip(l, amount) ==
  /\ l \in DOMAIN lines
  /\ MayMutate(lines[l].guest)
  /\ Live(l)
  /\ lines[l].type = "crew_tip"
  /\ lines' = [lines EXCEPT ![l].unit = amount, ![l].total = amount]
  /\ UNCHANGED <<manifestVars, settingVars, folio, bill, moved, stock>>

\* Mutant of DeleteLine: the line is voided by setting its quantity to zero.
DeleteByZeroing(l) ==
  /\ l \in DOMAIN lines
  /\ MayMutate(lines[l].guest)
  /\ Live(l)
  /\ lines' = [lines EXCEPT ![l].qty = 0, ![l].total = 0]
  /\ IF lines[l].counted /\ lines[l].posted
       THEN PostMovement(l, lines[l].qty)
       ELSE UNCHANGED <<moved, stock>>
  /\ UNCHANGED <<manifestVars, settingVars, folio, bill>>

DeleteLine(l) ==
  /\ l \in DOMAIN lines
  /\ MayMutate(lines[l].guest)
  /\ Live(l)
  /\ lines' = [lines EXCEPT ![l].voided = TRUE]
  /\ IF lines[l].counted /\ lines[l].posted
       THEN PostMovement(l, lines[l].qty)
       ELSE UNCHANGED <<moved, stock>>
  /\ UNCHANGED <<manifestVars, settingVars, folio, bill>>

(***************************************************************************)
(* Settlement asks nothing of the trip's status: a folio left open when the *)
(* voyage completes can still be closed.  Lines written before stock was    *)
(* posted live are posted here.                                             *)
(***************************************************************************)
CloseGuestFolio(g, method) ==
  LET subtotal == SumFunction(Charges(g))
      fee == IF method = "card" THEN CardFee(subtotal, feeRate) ELSE 0
      late == Unposted(g)
  IN
  /\ folio[g] = "open"
  /\ ~revoked[g]
  /\ LiveLines(g) # {}
  /\ folio' = [folio EXCEPT ![g] = "closed"]
  /\ bill' = [bill EXCEPT ![g] =
                [subtotal |-> subtotal, fee |-> fee, total |-> subtotal + fee,
                 rate |-> feeRate, method |-> method]]
  /\ lines' = [l \in DOMAIN lines |->
                 IF l \in late THEN MarkPosted(lines[l]) ELSE lines[l]]
  /\ moved' = [l \in LineIds |-> IF l \in late THEN moved[l] - lines[l].qty ELSE moved[l]]
  /\ stock' = [i \in Items |-> stock[i] - UnitsOf(i, late)]
  /\ UNCHANGED <<manifestVars, settingVars>>

-----------------------------------------------------------------------------
(***************************************************************************)
(* Stock taken or counted by hand, catalog and payment settings            *)
(***************************************************************************)
MayCount(i) == catalog[i].counted /\ catalog[i].status # "archived"

\* A result below zero is refused; folio lines alone may take stock negative.
AdjustStock(i, delta) ==
  /\ MayCount(i)
  /\ stock[i] + delta \in 0..MaxStock
  /\ stock' = [stock EXCEPT ![i] = @ + delta]
  /\ UNCHANGED <<manifestVars, settingVars, folio, bill, lines, moved>>

SetBoatInventoryItem(i, n) ==
  /\ MayCount(i)
  /\ stock' = [stock EXCEPT ![i] = n]
  /\ UNCHANGED <<manifestVars, settingVars, folio, bill, lines, moved>>

UpdateCatalogItem(i, row) ==
  /\ catalog' = [catalog EXCEPT ![i] = row]
  /\ UNCHANGED <<manifestVars, feeRate, folio, bill, lineVars>>

UpdatePaymentSettings(rate) ==
  /\ feeRate' = rate
  /\ UNCHANGED <<manifestVars, catalog, folio, bill, lineVars>>

-----------------------------------------------------------------------------
(***************************************************************************)
(* The voyage and its manifest, as far as the ledger reads them.  Whether a *)
(* trip is ready to start is Voyages' subject: here it may always be.      *)
(***************************************************************************)
StartTrip(t) ==
  /\ trip[t] = "planned"
  /\ trip' = [trip EXCEPT ![t] = "active"]
  /\ folio' = [g \in Guests |->
                 IF TripOf[g] = t /\ ~revoked[g] /\ folio[g] = "none"
                   THEN "open" ELSE folio[g]]
  /\ UNCHANGED <<revoked, settingVars, bill, lineVars>>

CompleteTrip(t) ==
  /\ trip[t] = "active"
  /\ trip' = [trip EXCEPT ![t] = "completed"]
  /\ UNCHANGED <<revoked, settingVars, folio, bill, lineVars>>

CancelTrip(t) ==
  /\ trip[t] = "planned"
  /\ trip' = [trip EXCEPT ![t] = "cancelled"]
  /\ UNCHANGED <<revoked, settingVars, folio, bill, lineVars>>

\* A guest can be taken off the manifest with a folio open, and put back.
RevokeTripGuestInvite(g) ==
  /\ Operational(TripOf[g])
  /\ revoked' = [revoked EXCEPT ![g] = TRUE]
  /\ UNCHANGED <<trip, settingVars, folio, bill, lineVars>>

ResendTripGuestInvite(g) ==
  /\ Operational(TripOf[g])
  /\ revoked' = [revoked EXCEPT ![g] = FALSE]
  /\ UNCHANGED <<trip, settingVars, folio, bill, lineVars>>

-----------------------------------------------------------------------------
(***************************************************************************)
(* The ledger starts when live stock posting is deployed: open folios may   *)
(* hold lines whose stock was left for settlement to take.                  *)
(***************************************************************************)
LegacyLines ==
  {[guest |-> g, type |-> "catalog_item", item |-> i, qty |-> q,
    unit |-> row.price, total |-> row.price * q, counted |-> row.counted,
    posted |-> FALSE, voided |-> FALSE, request |-> NoRequest] :
     g \in Guests, i \in Items, q \in Quantities, row \in CatalogRows}

Init ==
  /\ trip \in [Trips -> {"planned", "active"}]
  /\ revoked = [g \in Guests |-> FALSE]
  /\ catalog \in [Items -> CatalogRows]
  /\ feeRate \in FeeRates
  /\ folio \in [Guests -> {"none", "open"}]
  /\ bill = [g \in Guests |-> NoBill]
  /\ \E D \in SUBSET LegacyIds : lines \in [D -> LegacyLines]
  /\ \A l \in DOMAIN lines : folio[lines[l].guest] = "open"
  /\ moved = [l \in LineIds |-> 0]
  /\ stock \in [Items -> 0..MaxStock]

FolioStep(g) ==
  \/ OpenGuestFolio(g)
  \/ \E i \in Items, q \in Quantities, r \in Requests \cup {NoRequest}, l \in LineIds :
       AddCatalogLine(g, i, q, r, l)
  \/ \E amount \in Tips, l \in LineIds : AddCrewTip(g, amount, l)
  \/ \E method \in Methods : CloseGuestFolio(g, method)

LineStep(l) ==
  \/ \E q \in Quantities : UpdateQuantity(l, q)
  \/ \E amount \in Tips : UpdateTip(l, amount)
  \/ DeleteLine(l)

SettingStep ==
  \/ \E i \in Items, delta \in Deltas : AdjustStock(i, delta)
  \/ \E i \in Items, n \in 0..MaxStock : SetBoatInventoryItem(i, n)
  \/ \E i \in Items, row \in CatalogRows : UpdateCatalogItem(i, row)
  \/ \E rate \in FeeRates : UpdatePaymentSettings(rate)

ManifestStep ==
  \/ \E t \in Trips : StartTrip(t) \/ CompleteTrip(t) \/ CancelTrip(t)
  \/ \E g \in Guests : RevokeTripGuestInvite(g) \/ ResendTripGuestInvite(g)

Next ==
  \/ \E g \in Guests : FolioStep(g)
  \/ \E l \in LineIds : LineStep(l)
  \/ SettingStep
  \/ ManifestStep

Spec == Init /\ [][Next]_vars

-----------------------------------------------------------------------------
(***************************************************************************)
(* Invariants                                                              *)
(***************************************************************************)
\* Every table holds rows of its type (what the amounts on a bill are is for
\* ClosedFolioBalances to say, and what a count is for ImplementsStockLedger).
TypeOK ==
  /\ trip \in [Trips -> TripStatus]
  /\ revoked \in [Guests -> BOOLEAN]
  /\ catalog \in [Items -> CatalogRows]
  /\ feeRate \in FeeRates
  /\ folio \in [Guests -> FolioStatus]
  /\ DOMAIN bill = Guests
  /\ DOMAIN lines \subseteq LineIds
  /\ lines \in [DOMAIN lines -> Line]
  /\ moved \in [LineIds -> Int]
  /\ DOMAIN stock = Items

(***************************************************************************)
(* The stock movements recorded for a line always add up to what the guest  *)
(* is being charged for: minus its quantity while it stands and has been    *)
(* posted, nothing otherwise -- after any mix of quantity edits, voids,     *)
(* catalog edits that flip stock tracking, and late posting at settlement   *)
(* (AddGuestFolioLine, UpdateGuestFolioLine, DeleteGuestFolioLine,          *)
(* CloseGuestFolio).                                                       *)
(***************************************************************************)
LineStockBalances ==
  \A l \in LineIds :
    moved[l] = IF l \in DOMAIN lines /\ Live(l) /\ lines[l].posted
                 THEN -lines[l].qty ELSE 0

(***************************************************************************)
(* A device that resends a charge it got no answer for never charges twice: *)
(* one client request id names at most one line of a guest for ever, even   *)
(* when that line has been voided (folioLineByClientRequestTx and the       *)
(* unique index behind insertFolioLineTx).                                  *)
(***************************************************************************)
OneLinePerRequest ==
  \A k, l \in DOMAIN lines :
    /\ lines[k].guest = lines[l].guest
    /\ lines[k].request = lines[l].request
    /\ lines[k].request # NoRequest
    => k = l

(***************************************************************************)
(* A settled folio's snapshot is the bill of the lines it shows: subtotal,  *)
(* the card fee at the rate frozen with it, and their sum; and no counted   *)
(* unit on it was left out of the boat's stock (CloseGuestFolio).           *)
(***************************************************************************)
ClosedFolioBalances ==
  \A g \in Guests : folio[g] = "closed" =>
    /\ bill[g].subtotal = SumFunction(Charges(g))
    /\ bill[g].fee = IF bill[g].method = "card"
                       THEN CardFee(bill[g].subtotal, bill[g].rate) ELSE 0
    /\ bill[g].total = bill[g].subtotal + bill[g].fee
    /\ Unposted(g) = {}

\* Two devices adding a tip leave one tip on the folio (upsertTipLineTx).
OneTipPerFolio ==
  \A k, l \in DOMAIN lines :
    /\ lines[k].guest = lines[l].guest
    /\ lines[k].type = "crew_tip" /\ lines[l].type = "crew_tip"
    /\ Live(k) /\ Live(l)
    => k = l

(***************************************************************************)
(* Action properties                                                       *)
(***************************************************************************)
\* Closed folios are immutable: neither the bill nor any line ever changes again,
\* whatever happens to the trip, the manifest, the catalog or the fee.
ClosedFolioFrozen ==
  [][\A g \in Guests : folio[g] = "closed" =>
       /\ folio'[g] = "closed"
       /\ bill'[g] = bill[g]
       /\ \A l \in DOMAIN lines' : lines'[l].guest = g =>
            /\ l \in DOMAIN lines
            /\ lines'[l] = lines[l]
            /\ moved'[l] = moved[l]]_vars

\* A guest's charges grow, shrink or change only while the guest's own voyage is
\* under way and the guest is on its manifest; settlement may only mark lines posted.
ChargesMoveOnlyUnderWay ==
  [][\A g \in Guests :
       (trip[TripOf[g]] # "active" \/ revoked[g]) =>
         Charges(g)' = Charges(g)]_vars

(***************************************************************************)
(* The ledger implements the stock promise                                 *)
(***************************************************************************)
Stock == INSTANCE StockLedger WITH
  charged <- [g \in Guests |-> [i \in Items |->
                UnitsOf(i, {l \in LiveLines(g) : lines[l].posted})]],
  sealed <- [g \in Guests |-> folio[g] = "closed"],
  onHand <- stock

\* Every transaction moves stock and charges together, or moves neither.
ImplementsStockLedger == Stock!Spec

=============================================================================
