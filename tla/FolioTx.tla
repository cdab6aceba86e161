------------------------------- MODULE FolioTx -------------------------------
(***************************************************************************)
(* The transactions of the consumption ledger as PostgreSQL runs them at    *)
(* READ COMMITTED: each process is one request; a transaction takes the row *)
(* locks of its FOR UPDATE, INSERT and foreign-key checks one statement at  *)
(* a time, remembers what it read, and publishes its writes at commit.  A   *)
(* client may vanish at any statement, and PostgreSQL breaks lock cycles.   *)
(*                                                                         *)
(* Lines have no lock of their own here: every writer of a line holds the   *)
(* lock of its trip.  Operations of one statement and one row (counts,      *)
(* catalog, settings, manifest, completing or cancelling a voyage) are one  *)
(* step each, taken when that row is free; the checks their handlers make   *)
(* on the pool beforehand may be stale by then and are left out.            *)
(***************************************************************************)
EXTENDS FolioLedger, RowLocks

CONSTANTS
  Jobs,     \* the requests clients send, members of AllJobs
  Nothing   \* no job, row, item or guest looked at yet

VARIABLES
  tx,         \* what each process is doing
  stockRows   \* the items boat_inventory_items has a row for

ledger == vars
txVars == <<ledger, tx, owner, stockRows>>

Rows == ({"trip"} \X Trips) \cup ({"guest"} \X Guests)
          \cup ({"folio"} \X Guests) \cup ({"stock"} \X Items)

LineJobs == {"update", "retip", "void"}
Mutations == {"add", "tip"} \cup LineJobs

AllJobs ==
  [kind: {"add"}, guest: Guests, item: Items, qty: Quantities,
   request: Requests \cup {NoRequest}]
  \cup [kind: {"tip"}, guest: Guests, amount: Tips]
  \cup [kind: {"update"}, guest: Guests, line: LineIds, qty: Quantities]
  \cup [kind: {"retip"}, guest: Guests, line: LineIds, amount: Tips]
  \cup [kind: {"void"}, guest: Guests, line: LineIds]
  \cup [kind: {"close"}, guest: Guests, method: Methods]
  \cup [kind: {"open"}, guest: Guests]
  \cup [kind: {"start"}, trip: Trips]

ASSUME JobAssumption == Jobs \subseteq AllJobs

Idle == [at |-> "idle", job |-> Nothing, row |-> Nothing, delta |-> 0,
         next |-> Nothing, todo |-> {}, seen |-> <<>>]

-----------------------------------------------------------------------------
Kind(p) == tx[p].job.kind
G(p) == tx[p].job.guest
T(p) == IF Kind(p) = "start" THEN tx[p].job.trip ELSE TripOf[G(p)]

Trip(t) == <<"trip", t>>
Guest(g) == <<"guest", g>>
Folio(g) == <<"folio", g>>
Stk(i) == <<"stock", i>>

\* Mutant of MutationRows: the manifest row is read without locking it.
TripRowOnly(p) == IF revoked[G(p)] THEN {} ELSE {Trip(T(p))}

\* FOR UPDATE OF t, g: the join finds no row to lock for a revoked guest.
MutationRows(p) == IF revoked[G(p)] THEN {} ELSE {Trip(T(p)), Guest(G(p))}

\* The rows the pending statement of p must lock before it returns.  A SELECT of a row
\* nobody has committed waits for nobody, nor does an INSERT of a row that is there.
Wants(p) ==
  CASE tx[p].at = "trip" /\ Kind(p) = "start" -> {Trip(T(p))}
    [] tx[p].at = "trip" /\ Kind(p) # "start" -> MutationRows(p)
    [] tx[p].at = "keys" -> {Trip(T(p)), Guest(G(p))}
    [] tx[p].at = "closeTrip" -> {Trip(T(p))}
    [] tx[p].at = "folio" -> IF folio[G(p)] = "none" THEN {} ELSE {Folio(G(p))}
    [] tx[p].at = "insert" -> IF folio[G(p)] = "none" THEN {Folio(G(p))} ELSE {}
    [] tx[p].at = "folios" ->
         IF folio[tx[p].next] = "none" THEN {Folio(tx[p].next)} ELSE {}
    [] tx[p].at = "stock" -> IF tx[p].next \in stockRows THEN {Stk(tx[p].next)} ELSE {}
    [] tx[p].at = "insertStock" -> IF tx[p].next \in stockRows THEN {} ELSE {Stk(tx[p].next)}
    [] OTHER -> {}

\* The processes p waits for.
Waits(p) == Blockers(p, Wants(p))

Deadlocked(p) == InWaitCycle(p, [q \in Procs |-> Waits(q)])

-----------------------------------------------------------------------------
At(p, at) == tx[p].at = at
Goto(p, at) == tx' = [tx EXCEPT ![p].at = at]
Take(p) == owner' = Granted(p, Wants(p))

Finish(p) ==
  /\ tx' = [tx EXCEPT ![p] = Idle]
  /\ owner' = Released(p)

\* Mutant of Fail: an early return forgets the deferred rollback and keeps its locks.
FailKeepingLocks(p) == tx' = [tx EXCEPT ![p] = Idle] /\ UNCHANGED <<ledger, owner, stockRows>>

\* Rolled back: the locks go, and nothing of what p wrote is ever seen.
Fail(p) == Finish(p) /\ UNCHANGED <<ledger, stockRows>>

\* A statement that locks nothing, or takes the locks it wants.
Read(p) == UNCHANGED <<ledger, owner, stockRows>>
Lock(p) == Take(p) /\ UNCHANGED <<ledger, stockRows>>

NeedsId(job) == job.kind = "tip" \/ (job.kind = "add" /\ FreshRequest(job.guest, job.request))

\* The bound on lines: a request that may insert one starts while an id is left for it.
IdLeft(job) ==
  NeedsId(job) =>
    Cardinality({q \in Procs : ~At(q, "idle") /\ NeedsId(tx[q].job)})
      < Cardinality(LineIds \ DOMAIN lines)

\* Staff name a line they see on the guest's folio, with what its type can change to.
Begin(p, job) ==
  /\ At(p, "idle")
  /\ job.kind \in LineJobs => job.line \in DOMAIN lines /\ lines[job.line].guest = job.guest
  /\ job.kind = "update" => lines[job.line].type = "catalog_item"
  /\ job.kind = "retip" => lines[job.line].type = "crew_tip"
  /\ IdLeft(job)
  /\ tx' = [tx EXCEPT ![p] = [Idle EXCEPT !.job = job,
              !.at = CASE job.kind = "close" -> "folio"
                       [] job.kind = "open" -> "check"
                       [] OTHER -> "trip"]]
  /\ Read(p)

-----------------------------------------------------------------------------
(***************************************************************************)
(* folioForActiveMutationTx: the trip and the guest, then the folio, which  *)
(* adding a line opens when the guest has none.                             *)
(***************************************************************************)
LockTripAndGuest(p) ==
  /\ At(p, "trip")
  /\ Kind(p) \in Mutations
  /\ IF revoked[G(p)] \/ trip[T(p)] # "active"
       THEN Fail(p)
       ELSE Lock(p) /\ Goto(p, "folio")

\* Mutant of FindFolio: the folio is read without locking it.
SeeFolio(p) ==
  /\ At(p, "folio")
  /\ Read(p)
  /\ folio[G(p)] = "open"
  /\ Goto(p, IF Kind(p) = "close" THEN "manifest" ELSE "read")

FindFolio(p) ==
  /\ At(p, "folio")
  /\ CASE folio[G(p)] = "closed" -> Fail(p)
       [] folio[G(p)] = "open" ->
            Lock(p) /\ Goto(p, IF Kind(p) = "close" THEN "manifest" ELSE "read")
       [] folio[G(p)] = "none" ->
            IF Kind(p) \in {"add", "tip"} THEN Read(p) /\ Goto(p, "insert") ELSE Fail(p)

\* A row someone else committed meanwhile is a unique violation: in a transaction it
\* dooms every later statement, on its own it is ErrFolioExists.
InsertFolio(p) ==
  /\ At(p, "insert")
  /\ IF folio[G(p)] # "none"
       THEN Fail(p)
       ELSE Lock(p) /\ Goto(p, IF Kind(p) = "open" THEN "keys" ELSE "read")

(***************************************************************************)
(* OpenGuestFolio: the handler and tripGuestForFolio look on the pool, then *)
(* one INSERT takes its unique key before its foreign keys.                 *)
(***************************************************************************)
CheckOpen(p) ==
  /\ At(p, "check")
  /\ IF revoked[G(p)] \/ ~Operational(T(p))
       THEN Fail(p)
       ELSE Read(p) /\ Goto(p, "insert")

CommitOpen(p) ==
  /\ At(p, "keys")
  /\ folio' = [folio EXCEPT ![G(p)] = "open"]
  /\ Finish(p)
  /\ UNCHANGED <<manifestVars, settingVars, bill, lineVars, stockRows>>

-----------------------------------------------------------------------------
(***************************************************************************)
(* What a line mutation reads before it writes                             *)
(***************************************************************************)
\* The statement after the reads: the stock row if there are units to move.
GotoStock(p, row, delta) ==
  tx' = [tx EXCEPT ![p].row = row, ![p].delta = delta,
                   ![p].next = IF delta = 0 THEN Nothing ELSE row.item,
                   ![p].at = IF delta = 0 THEN "commit" ELSE "stock"]

\* A request id already used commits at once, keeping a folio opened on the way.
ReadItem(p) ==
  LET job == tx[p].job
      item == catalog[job.item]
  IN
  /\ At(p, "read")
  /\ Kind(p) = "add"
  /\ IF ~FreshRequest(job.guest, job.request)
       THEN Read(p) /\ Goto(p, "commit")
     ELSE IF item.status # "active"
       THEN Fail(p)
     ELSE /\ Read(p)
          /\ tx' = [tx EXCEPT ![p].at = "price",
               ![p].row = [guest |-> job.guest, type |-> "catalog_item", item |-> job.item,
                           qty |-> job.qty, unit |-> 0, total |-> 0,
                           counted |-> item.counted, posted |-> item.counted,
                           voided |-> FALSE, request |-> job.request]]

\* The price is read after the item, so it may come from a later edit of it.
ReadPrice(p) ==
  LET row == tx[p].row
      price == catalog[row.item].price
  IN
  /\ At(p, "price")
  /\ GotoStock(p, [row EXCEPT !.unit = price, !.total = price * row.qty],
                  IF row.counted THEN -row.qty ELSE 0)
  /\ Read(p)

ReadTip(p) ==
  /\ At(p, "read")
  /\ Kind(p) = "tip"
  /\ GotoStock(p, [guest |-> G(p), type |-> "crew_tip", item |-> NoItem, qty |-> 1,
                   unit |-> tx[p].job.amount, total |-> tx[p].job.amount,
                   counted |-> FALSE, posted |-> FALSE, voided |-> FALSE,
                   request |-> NoRequest], 0)
  /\ Read(p)

\* The row a line job leaves, and the units it gives back (or takes).
Edited(line, job) ==
  CASE job.kind = "update" -> [line EXCEPT !.qty = job.qty, !.total = line.unit * job.qty]
    [] job.kind = "retip" -> [line EXCEPT !.unit = job.amount, !.total = job.amount]
    [] job.kind = "void" -> [line EXCEPT !.voided = TRUE]

\* The quantity a line job leaves.
Left(line, job) ==
  CASE job.kind = "update" -> job.qty
    [] job.kind = "retip" -> line.qty
    [] job.kind = "void" -> 0

\* Mutant of Returned: whether the line's stock was ever posted is not asked.
ReturnedUnasked(line, job) == IF line.counted THEN line.qty - Left(line, job) ELSE 0

Returned(line, job) ==
  IF line.counted /\ line.posted THEN line.qty - Left(line, job) ELSE 0

ReadLine(p) ==
  LET job == tx[p].job
      line == lines[job.line]
  IN
  /\ At(p, "read")
  /\ Kind(p) \in LineJobs
  /\ IF line.voided
       THEN Fail(p)
       ELSE GotoStock(p, Edited(line, job), Returned(line, job)) /\ Read(p)

-----------------------------------------------------------------------------
(***************************************************************************)
(* CloseGuestFolio has its folio locked first; who is on the manifest is    *)
(* read when the statement starts, before it waits for the trip.            *)
(***************************************************************************)
ReadManifest(p) ==
  /\ At(p, "manifest")
  /\ Kind(p) = "close"
  /\ IF revoked[G(p)] THEN Fail(p) ELSE Read(p) /\ Goto(p, "closeTrip")

LockTripToClose(p) ==
  /\ At(p, "closeTrip")
  /\ Lock(p) /\ Goto(p, "bill")

\* The next of a set of items (or guests) to look for, in the order rows come back.
PickNext(p, S, at) ==
  IF S = {}
    THEN Goto(p, "commit")
    ELSE \E x \in S : tx' = [tx EXCEPT ![p].at = at, ![p].next = x, ![p].todo = S \ {x}]

ReadBill(p) ==
  LET method == tx[p].job.method
      subtotal == SumFunction(Charges(G(p)))
      fee == IF method = "card" THEN CardFee(subtotal, feeRate) ELSE 0
  IN
  /\ At(p, "bill")
  /\ IF LiveLines(G(p)) = {}
       THEN Fail(p)
       ELSE /\ tx' = [tx EXCEPT ![p].at = "late",
                 ![p].row = [subtotal |-> subtotal, fee |-> fee, total |-> subtotal + fee,
                             rate |-> feeRate, method |-> method]]
            /\ Read(p)

\* The lines never posted to stock, whose items must be locked one by one.
ReadLate(p) ==
  /\ At(p, "late")
  /\ PickNext(p, {lines[l].item : l \in Unposted(G(p))}, "stock")
  /\ Read(p)

-----------------------------------------------------------------------------
(***************************************************************************)
(* postFolioStockMovementTx: the count is read under its row's lock.  A row *)
(* that is not there is inserted; losing that race is a unique violation.   *)
(***************************************************************************)
WithCount(seen, i, n) == [j \in DOMAIN seen \cup {i} |-> IF j = i THEN n ELSE seen[j]]

\* Mutant of SeeStock: the count is read, its row is not locked.
SeeUnlocked(p, n) ==
  /\ tx' = [tx EXCEPT ![p].seen = WithCount(@, tx[p].next, n), ![p].at = "stocked"]
  /\ Read(p)

SeeStock(p, n) ==
  /\ tx' = [tx EXCEPT ![p].seen = WithCount(@, tx[p].next, n), ![p].at = "stocked"]
  /\ Lock(p)

FindStock(p) ==
  /\ At(p, "stock")
  /\ IF tx[p].next \in stockRows
       THEN SeeStock(p, stock[tx[p].next])
       ELSE Read(p) /\ Goto(p, "insertStock")

InsertStock(p) ==
  /\ At(p, "insertStock")
  /\ IF tx[p].next \in stockRows THEN Fail(p) ELSE SeeStock(p, 0)

MoreStock(p) ==
  /\ At(p, "stocked")
  /\ PickNext(p, tx[p].todo, "stock")
  /\ Read(p)

-----------------------------------------------------------------------------
(***************************************************************************)
(* Commit: what the transaction wrote becomes visible and its locks go.     *)
(***************************************************************************)
\* The counts seen under lock, each changed by what change[i] says.
WriteStock(p, change) ==
  /\ stock' = [i \in Items |->
                 IF i \in DOMAIN tx[p].seen THEN tx[p].seen[i] + change[i] ELSE stock[i]]
  /\ stockRows' = stockRows \cup DOMAIN tx[p].seen

\* A tip overwrites the folio's unvoided tip; other adds take a fresh id.
TargetLine(p, l) ==
  CASE Kind(p) = "add" -> l \notin DOMAIN lines
    [] Kind(p) = "tip" ->
         IF TipLines(G(p)) = {} THEN l \notin DOMAIN lines ELSE l \in TipLines(G(p))
    [] OTHER -> l = tx[p].job.line

CommitLine(p, l) ==
  /\ At(p, "commit")
  /\ Kind(p) \in Mutations
  /\ tx[p].row # Nothing
  /\ TargetLine(p, l)
  /\ folio' = [folio EXCEPT ![G(p)] = "open"]
  /\ InsertLine(l, tx[p].row)
  /\ moved' = [moved EXCEPT ![l] = @ + tx[p].delta]
  /\ WriteStock(p, [i \in Items |-> tx[p].delta])
  /\ Finish(p)
  /\ UNCHANGED <<manifestVars, settingVars, bill>>

CommitDuplicate(p) ==
  /\ At(p, "commit")
  /\ Kind(p) = "add"
  /\ tx[p].row = Nothing
  /\ folio' = [folio EXCEPT ![G(p)] = "open"]
  /\ Finish(p)
  /\ UNCHANGED <<manifestVars, settingVars, bill, lineVars, stockRows>>

CommitClose(p) ==
  LET late == Unposted(G(p))
  IN
  /\ At(p, "commit")
  /\ Kind(p) = "close"
  /\ folio' = [folio EXCEPT ![G(p)] = "closed"]
  /\ bill' = [bill EXCEPT ![G(p)] = tx[p].row]
  /\ lines' = [l \in DOMAIN lines |->
                 IF l \in late THEN MarkPosted(lines[l]) ELSE lines[l]]
  /\ moved' = [l \in LineIds |-> IF l \in late THEN moved[l] - lines[l].qty ELSE moved[l]]
  /\ WriteStock(p, [i \in Items |-> -UnitsOf(i, late)])
  /\ Finish(p)
  /\ UNCHANGED <<manifestVars, settingVars>>

-----------------------------------------------------------------------------
(***************************************************************************)
(* StartTrip opens a folio for everyone on the manifest it reads, waiting   *)
(* for a folio that is just being inserted and skipping one that exists.    *)
(***************************************************************************)
LockTripToStart(p) ==
  /\ At(p, "trip")
  /\ Kind(p) = "start"
  /\ IF trip[T(p)] # "planned" THEN Fail(p) ELSE Lock(p) /\ Goto(p, "manifest")

ReadGuests(p) ==
  /\ At(p, "manifest")
  /\ Kind(p) = "start"
  /\ PickNext(p, {g \in Guests : TripOf[g] = T(p) /\ ~revoked[g]}, "folios")
  /\ Read(p)

InsertFolios(p) ==
  /\ At(p, "folios")
  /\ PickNext(p, tx[p].todo, "folios")
  /\ IF folio[tx[p].next] = "none" THEN Lock(p) ELSE Read(p)

CommitStart(p) ==
  /\ At(p, "commit")
  /\ Kind(p) = "start"
  /\ trip' = [trip EXCEPT ![T(p)] = "active"]
  /\ folio' = [g \in Guests |-> IF owner[Folio(g)] = p THEN "open" ELSE folio[g]]
  /\ Finish(p)
  /\ UNCHANGED <<revoked, settingVars, bill, lineVars, stockRows>>

-----------------------------------------------------------------------------
(***************************************************************************)
(* Operations of one row, taken when nobody holds it                       *)
(***************************************************************************)
CompleteOrCancel(t) ==
  /\ Free(Trip(t))
  /\ CompleteTrip(t) \/ CancelTrip(t)
  /\ UNCHANGED <<tx, owner, stockRows>>

\* The handler's look at the trip may be stale by the time the row is written.
SetRevoked(g, r) ==
  /\ Free(Guest(g))
  /\ revoked' = [revoked EXCEPT ![g] = r]
  /\ UNCHANGED <<trip, settingVars, folio, bill, lineVars, tx, owner, stockRows>>

\* A manual count or adjustment; the item was tracked when the handler looked.
Recount(i, n) ==
  /\ Free(Stk(i))
  /\ stock' = [stock EXCEPT ![i] = n]
  /\ stockRows' = stockRows \cup {i}
  /\ UNCHANGED <<manifestVars, settingVars, folio, bill, lines, moved, tx, owner>>

Edit ==
  /\ \/ \E i \in Items, row \in CatalogRows : UpdateCatalogItem(i, row)
     \/ \E rate \in FeeRates : UpdatePaymentSettings(rate)
  /\ UNCHANGED <<tx, owner, stockRows>>

-----------------------------------------------------------------------------
\* The next statement of p, once nobody holds a row it must lock.
Step(p) ==
  /\ Waits(p) = {}
  /\ \/ LockTripAndGuest(p) \/ FindFolio(p) \/ InsertFolio(p)
     \/ CheckOpen(p) \/ CommitOpen(p)
     \/ ReadItem(p) \/ ReadPrice(p) \/ ReadTip(p) \/ ReadLine(p)
     \/ ReadManifest(p) \/ LockTripToClose(p) \/ ReadBill(p) \/ ReadLate(p)
     \/ FindStock(p) \/ InsertStock(p) \/ MoreStock(p)
     \/ \E l \in LineIds : CommitLine(p, l)
     \/ CommitDuplicate(p) \/ CommitClose(p)
     \/ LockTripToStart(p) \/ ReadGuests(p) \/ InsertFolios(p) \/ CommitStart(p)

\* The client disconnects, the request times out or the server dies: PostgreSQL rolls back.
Disconnect(p) == ~At(p, "idle") /\ Fail(p)

\* deadlock_timeout passes and PostgreSQL picks a victim in the cycle.
BreakDeadlock(p) == Deadlocked(p) /\ Fail(p)

TxInit ==
  /\ Init
  /\ tx = [p \in Procs |-> Idle]
  /\ owner = [r \in Rows |-> NoProc]
  /\ stockRows \in SUBSET Items
  /\ \A i \in Items \ stockRows : stock[i] = 0

TxNext ==
  \/ \E p \in Procs :
       \/ \E job \in Jobs : Begin(p, job)
       \/ Step(p)
       \/ Disconnect(p)
       \/ BreakDeadlock(p)
  \/ \E t \in Trips : CompleteOrCancel(t)
  \/ \E g \in Guests, r \in BOOLEAN : SetRevoked(g, r)
  \/ \E i \in Items, n \in 0..MaxStock : Recount(i, n)
  \/ Edit

TxSpec == TxInit /\ [][TxNext]_txVars

(***************************************************************************)
(* Statements return, lock queues are served, and the deadlock detector     *)
(* runs: nothing else makes a transaction go on.                            *)
(***************************************************************************)
TxFairness ==
  \A p \in Procs : SF_txVars(Step(p)) /\ WF_txVars(BreakDeadlock(p))

LiveSpec == TxSpec /\ TxFairness

-----------------------------------------------------------------------------
(***************************************************************************)
(* Properties                                                              *)
(***************************************************************************)
\* What each process may be doing; only a request in flight holds locks (the deferred
\* rollbacks of guest_folios.go), and a row that is not there counts nothing.
TxTypeOK ==
  /\ \A p \in Procs :
       /\ tx[p].job \in Jobs \cup {Nothing}
       /\ tx[p].delta \in Int
       /\ tx[p].todo \subseteq Guests \cup Items
       /\ DOMAIN tx[p].seen \subseteq Items
       /\ At(p, "idle") => tx[p] = Idle /\ Held(p) = {}
  /\ owner \in [Rows -> Procs \cup {NoProc}]
  /\ stockRows \subseteq Items
  /\ \A i \in Items \ stockRows : stock[i] = 0

\* Every request that reaches the database is answered, even when transactions that
\* take their locks in different orders wait for each other.
EveryRequestEnds == \A p \in Procs : ~At(p, "idle") ~> At(p, "idle")

\* The order SPRINT-019.md:153 lays down for add, update, delete and close.
Rank(r) == CASE r[1] = "trip" -> 1 [] r[1] = "guest" -> 2
             [] r[1] = "folio" -> 3 [] r[1] = "stock" -> 4

\* Whoever is made to wait for a row holds only rows that come before it.
WaitsFollowLockOrder ==
  \A p \in Procs : Waits(p) # {} =>
    \A r \in Held(p), w \in Wants(p) : r = w \/ Rank(r) < Rank(w)

=============================================================================
