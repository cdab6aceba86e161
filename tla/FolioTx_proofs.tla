---------------------------- MODULE FolioTx_proofs ----------------------------
(***************************************************************************)
(* The promises of the ledger hold of its transactions as PostgreSQL runs   *)
(* them, for any number of requests, guests, items and lines.  A request    *)
(* carries what it has read from one statement to the next; the invariant   *)
(* says that the rows it holds keep what it carries true until it commits.  *)
(***************************************************************************)
EXTENDS FolioTx, FolioLedger_proofs

TxFields == {"at", "job", "row", "delta", "next", "todo", "seen"}
Posting == {"stock", "insertStock", "stocked", "commit"}

RowsOf(rows, g) == {l \in DOMAIN rows : rows[l].guest = g}
ChargesIn(rows, g) == [l \in {m \in RowsOf(rows, g) : ~rows[m].voided} |-> rows[l].total]

\* What a line has moved once it is written.
Moves(row) == IF ~row.voided /\ row.posted THEN -row.qty ELSE 0

\* The kinds of request that reach each statement.
RightKind(r) ==
  /\ r.at = "folio" => r.job.kind \in Mutations \cup {"close"}
  /\ r.at = "check" => r.job.kind = "open"
  /\ r.at = "insert" => r.job.kind \in {"add", "tip", "open"}
  /\ r.at = "keys" => r.job.kind = "open"
  /\ r.at = "price" => r.job.kind = "add"
  /\ r.at \in {"closeTrip", "bill", "late"} => r.job.kind = "close"
  /\ r.at \in {"stock", "insertStock", "stocked"} => r.job.kind \in Mutations \cup {"close"}
  /\ r.at = "folios" => r.job.kind = "start"

\* A line mutation keeps its voyage under way and its guest on the manifest; a settlement
\* keeps the voyage from the moment it reads the bill.
HoldsVoyage(p, r, owners, trips, gone) ==
  /\ r.at \in {"folio", "insert", "read", "price"} \cup Posting /\ r.job.kind \in Mutations =>
       /\ owners[<<"trip", TripOf[r.job.guest]>>] = p /\ owners[<<"guest", r.job.guest>>] = p
       /\ trips[TripOf[r.job.guest]] = "active" /\ ~gone[r.job.guest]
  /\ r.at \in {"bill", "late"} \cup Posting /\ r.job.kind = "close" =>
       owners[<<"trip", TripOf[r.job.guest]>>] = p

\* Whoever is going to write a folio holds it, and it is not settled.
HoldsFolio(p, r, owners, folios) ==
  /\ \/ r.at \in {"read", "price"} \cup Posting /\ r.job.kind \in Mutations
     \/ r.at = "keys"
     \/ r.at \in {"manifest", "closeTrip", "bill", "late"} \cup Posting /\ r.job.kind = "close"
     => owners[<<"folio", r.job.guest>>] = p /\ folios[r.job.guest] # "closed"
  /\ r.at # "idle" /\ r.job.kind = "start" =>
       \A g \in Guests : owners[<<"folio", g>>] = p => folios[g] # "closed"

\* The line of a charge, under a request id no line of the guest has.
NewCharge(r, rows) ==
  /\ r.row \in Line
  /\ r.row.guest = r.job.guest /\ r.row.type = "catalog_item" /\ r.row.item \in Items
  /\ ~r.row.voided /\ r.row.posted = r.row.counted
  /\ r.row.request # NoRequest =>
       \A m \in RowsOf(rows, r.job.guest) : rows[m].request # r.row.request

NewTip(r) ==
  /\ r.row \in Line
  /\ r.row.guest = r.job.guest /\ r.row.type = "crew_tip" /\ r.row.request = NoRequest
  /\ ~r.row.voided /\ ~r.row.posted /\ ~r.row.counted
  /\ r.delta = 0

\* The bill of the lines the folio shows.
BillOf(row, rows, g) ==
  /\ row.subtotal = SumFunction(ChargesIn(rows, g))
  /\ row.fee = IF row.method = "card" THEN CardFee(row.subtotal, row.rate) ELSE 0
  /\ row.total = row.subtotal + row.fee

Carries(r, rows) ==
  /\ r.at # "idle" /\ r.job.kind = "add" =>
       /\ r.at \in {"trip", "folio", "insert", "read"} => r.row = Nothing
       /\ r.at = "price" => NewCharge(r, rows)
       /\ r.at \in Posting => r.row = Nothing \/ (NewCharge(r, rows) /\ r.delta = Moves(r.row))
  /\ r.at \in Posting /\ r.job.kind = "tip" => NewTip(r)
  /\ r.at # "idle" /\ r.job.kind \in LineJobs => r.job.line \in RowsOf(rows, r.job.guest)
  /\ r.at \in Posting /\ r.job.kind \in LineJobs =>
       /\ ~rows[r.job.line].voided
       /\ r.row = Edited(rows[r.job.line], r.job)
       /\ r.delta = Returned(rows[r.job.line], r.job)
  /\ r.at \in {"late"} \cup Posting /\ r.job.kind = "close" => BillOf(r.row, rows, r.job.guest)

TxGood(p, r, owners, trips, gone, folios, rows) ==
  /\ DOMAIN r = TxFields
  /\ r.at # "idle" => r.job \in Jobs
  /\ r.at = "idle" => \A row \in Rows : owners[row] # p
  /\ RightKind(r)
  /\ HoldsVoyage(p, r, owners, trips, gone)
  /\ HoldsFolio(p, r, owners, folios)
  /\ Carries(r, rows)

TipRows ==
  \A l \in DOMAIN lines : lines[l].type = "crew_tip" => ~lines[l].counted /\ lines[l].request = NoRequest

LedgerInv ==
  /\ TypeOK /\ PostedIsCounted /\ TipRows
  /\ LineStockBalances /\ OneLinePerRequest /\ OneTipPerFolio /\ ClosedFolioBalances

FolioTxInv ==
  /\ LedgerInv
  /\ DOMAIN owner = Rows
  /\ DOMAIN tx = Procs
  /\ \A p \in Procs : TxGood(p, tx[p], owner, trip, revoked, folio, lines)

SameLines(g) ==
  /\ RowsOf(lines', g) = RowsOf(lines, g)
  /\ \A l \in RowsOf(lines, g) : lines'[l] = lines[l]

\* A step leaves q what it holds.
Spares(q) ==
  /\ \A row \in Rows : owner[row] = q <=> owner'[row] = q
  /\ \A g \in Guests : owner[<<"folio", g>>] = q => folio'[g] = folio[g]
  /\ \A g \in Guests : owner[<<"guest", g>>] = q => revoked'[g] = revoked[g]
  /\ \A t \in Trips : owner[<<"trip", t>>] = q =>
       /\ trip[t] = "active" => trip'[t] = "active"
       /\ \A g \in Guests : TripOf[g] = t => SameLines(g)
  /\ \A g \in Guests : RowsOf(lines, g) \subseteq RowsOf(lines', g)

-----------------------------------------------------------------------------
\* What each kind of request carries.
LEMMA JobsAre ==
  \A job \in Jobs :
    /\ job.kind \in Mutations \cup {"close", "open"} =>
         job.guest \in Guests /\ TripOf[job.guest] \in Trips
    /\ job.kind = "start" => job.trip \in Trips
    /\ job.kind = "add" =>
         job.item \in Items /\ job.qty \in Nat \ {0} /\ job.request \in Requests \cup {NoRequest}
    /\ job.kind \in {"tip", "retip"} => job.amount \in Nat
    /\ job.kind = "update" => job.qty \in Nat \ {0}
    /\ job.kind \in LineJobs => job.line \in LineIds
    /\ job.kind \in Mutations \cup {"close", "open", "start"}
  BY JobAssumption, DataAssumption DEF AllJobs, Mutations, LineJobs

\* Guests, folios and trips can be locked.
LEMMA RowsAre ==
  /\ \A g \in Guests : {<<"guest", g>>, <<"folio", g>>} \subseteq Rows
  /\ \A t \in Trips : <<"trip", t>> \in Rows
  BY DEF Rows

\* A process at rest.
LEMMA IdleIs == DOMAIN Idle = TxFields /\ Idle.at = "idle"
  BY DEF Idle, TxFields

\* A process at rest, owning nothing, is bound to nothing.
LEMMA IdleGood ==
  ASSUME NEW p, NEW owners, NEW trips, NEW gone, NEW folios, NEW rows,
         \A row \in Rows : owners[row] # p
  PROVE  TxGood(p, Idle, owners, trips, gone, folios, rows)
  BY IdleIs DEF TxGood, RightKind, HoldsVoyage, HoldsFolio, Carries, Posting

\* What a request under way is known to be and to hold.
LEMMA Known ==
  ASSUME FolioTxInv, NEW p \in Procs, tx[p].at # "idle"
  PROVE  /\ TxGood(p, tx[p], owner, trip, revoked, folio, lines)
         /\ tx[p].job \in Jobs
         /\ tx[p].job.kind \in Mutations \cup {"close", "open", "start"}
         /\ tx[p].job.kind \in Mutations \cup {"close", "open"} =>
              tx[p].job.guest \in Guests /\ TripOf[tx[p].job.guest] \in Trips
         /\ tx[p].job.kind = "start" => tx[p].job.trip \in Trips
<1>1. TxGood(p, tx[p], owner, trip, revoked, folio, lines)
  BY DEF FolioTxInv
<1>2. PICK job \in Jobs : job = tx[p].job
  BY <1>1 DEF TxGood
<1> QED BY <1>1, <1>2, JobsAre
-----------------------------------------------------------------------------
(***************************************************************************)
(* Whoever keeps what it holds keeps what it carries.                      *)
(***************************************************************************)
LEMMA SameCharges ==
  ASSUME NEW g, SameLines(g)
  PROVE  ChargesIn(lines', g) = ChargesIn(lines, g)
<1>1. {m \in RowsOf(lines', g) : ~lines'[m].voided} = {m \in RowsOf(lines, g) : ~lines[m].voided}
  BY DEF SameLines
<1>2. \A l \in RowsOf(lines, g) : lines'[l] = lines[l]
  BY DEF SameLines
<1> QED BY <1>1, <1>2 DEF ChargesIn

\* What a process carries of a line stays true while others spare it.
LEMMA SparedCarries ==
  ASSUME NEW q \in Procs, NEW r, TxGood(q, r, owner, trip, revoked, folio, lines), Spares(q),
         r.at # "idle", r.job.kind \in Mutations \cup {"close"},
         NEW g \in Guests, g = r.job.guest, TripOf[g] \in Trips
  PROVE  Carries(r, lines')
<1>1. r.at \in {"price"} \cup Posting \/ (r.at = "late" /\ r.job.kind = "close") => SameLines(g)
  <2>1. CASE r.job.kind \in Mutations
    BY <2>1, RowsAre DEF TxGood, HoldsVoyage, Spares, Posting, Mutations, LineJobs
  <2>2. CASE r.job.kind = "close"
    <3>1. r.at # "price"
      BY <2>2 DEF TxGood, RightKind
    <3> QED BY <2>2, <3>1, RowsAre DEF TxGood, HoldsVoyage, Spares
  <2> QED BY <2>1, <2>2
<1>2. CASE r.job.kind = "add"
  <2>1. r.at \in {"price"} \cup Posting =>
          /\ RowsOf(lines', g) = RowsOf(lines, g)
          /\ \A m \in RowsOf(lines, g) : lines'[m] = lines[m]
    BY <1>1 DEF SameLines
  <2>2. r.at \in {"price"} \cup Posting /\ NewCharge(r, lines) => NewCharge(r, lines')
    BY <2>1 DEF NewCharge
  <2> QED BY <1>2, <2>2 DEF TxGood, Carries, LineJobs
<1>3. CASE r.job.kind = "tip"
  BY <1>3 DEF TxGood, Carries, LineJobs
<1>4. CASE r.job.kind \in LineJobs
  <2>1. r.job.line \in RowsOf(lines, g) /\ r.job.line \in RowsOf(lines', g)
    BY <1>4 DEF TxGood, Carries, Spares
  <2>2. r.at \in Posting => lines'[r.job.line] = lines[r.job.line]
    BY <1>1, <2>1 DEF SameLines
  <2> QED BY <1>4, <2>1, <2>2 DEF TxGood, Carries, LineJobs
<1>5. CASE r.job.kind = "close"
  <2>1. r.at \in {"late"} \cup Posting => ChargesIn(lines', g) = ChargesIn(lines, g)
    BY <1>1, <1>5, SameCharges
  <2> QED BY <1>5, <2>1 DEF TxGood, Carries, BillOf, LineJobs
<1> QED BY <1>2, <1>3, <1>4, <1>5 DEF Mutations

\* A process others spare stays as good as it was.
LEMMA SparedStaysGood ==
  ASSUME NEW q \in Procs, NEW r, TxGood(q, r, owner, trip, revoked, folio, lines), Spares(q)
  PROVE  TxGood(q, r, owner', trip', revoked', folio', lines')
<1>1. CASE r.at = "idle"
  BY <1>1 DEF TxGood, RightKind, HoldsVoyage, HoldsFolio, Carries, Posting, Spares
<1>2. CASE r.at # "idle"
  <2>0. PICK job \in Jobs : job = r.job
    BY <1>2 DEF TxGood
  <2>1. /\ r.job.kind \in Mutations \cup {"close", "open"} =>
             r.job.guest \in Guests /\ TripOf[r.job.guest] \in Trips
        /\ r.job.kind \in Mutations \cup {"close", "open", "start"}
    BY <2>0, JobsAre
  <2>2. HoldsVoyage(q, r, owner', trip', revoked')
    BY <2>1, RowsAre DEF TxGood, HoldsVoyage, Spares
  <2>3. HoldsFolio(q, r, owner', folio')
    <3>1. r.at = "keys" => r.job.kind = "open"
      BY DEF TxGood, RightKind
    <3> QED BY <2>1, <3>1, RowsAre DEF TxGood, HoldsFolio, Spares
  <2>4. Carries(r, lines')
    <3>1. CASE r.job.kind \in Mutations \cup {"close"}
      BY <1>2, <2>1, <3>1, SparedCarries
    <3>2. CASE r.job.kind \in {"open", "start"}
      BY <3>2 DEF Carries, LineJobs
    <3> QED BY <2>1, <3>1, <3>2
  <2> QED BY <1>2, <2>2, <2>3, <2>4 DEF TxGood
<1> QED BY <1>1, <1>2

\* A step that is good for its process, spares the others and keeps the ledger keeps it all.
LEMMA StepKeeps ==
  ASSUME FolioTxInv, NEW p \in Procs, NEW r, tx' = [tx EXCEPT ![p] = r],
         TxGood(p, r, owner', trip', revoked', folio', lines'),
         \A q \in Procs \ {p} : Spares(q), DOMAIN owner' = Rows, LedgerInv'
  PROVE  FolioTxInv'
<1>1. ASSUME NEW q \in Procs, q # p
      PROVE  TxGood(q, tx'[q], owner', trip', revoked', folio', lines')
  <2>1. tx'[q] = tx[q] /\ TxGood(q, tx[q], owner, trip, revoked, folio, lines)
    BY <1>1 DEF FolioTxInv
  <2>2. TxGood(q, tx[q], owner', trip', revoked', folio', lines')
    BY <1>1, <2>1, SparedStaysGood
  <2> QED BY <2>1, <2>2
<1>2. tx'[p] = r
  BY DEF FolioTxInv
<1> QED BY <1>1, <1>2 DEF FolioTxInv

\* Rows taken when they are free, or given up.
Takes(p) ==
  \/ owner' = owner
  \/ owner' = Released(p)
  \/ Waits(p) = {} /\ owner' = Granted(p, Wants(p))

\* Taking free locks takes none from another.
LEMMA TakesSpares ==
  ASSUME FolioTxInv, NEW p \in Procs, Takes(p)
  PROVE  /\ DOMAIN owner' = Rows
         /\ \A q \in Procs \ {p}, row \in Rows : owner[row] = q <=> owner'[row] = q
  BY ProcAssumption DEF Takes, FolioTxInv, Released, Granted, Waits, Blockers

\* A process that releases owns nothing.
LEMMA ReleasedAll ==
  ASSUME FolioTxInv, NEW p \in Procs, owner' = Released(p)
  PROVE  \A row \in Rows : owner'[row] # p
  BY ProcAssumption DEF Released, FolioTxInv

\* The lines, the movements and the bills stay; folios may open and voyages start.
LEMMA LinesAsWere ==
  ASSUME LedgerInv, UNCHANGED <<bill, lines, moved>>, TypeOK',
         \A g \in Guests : folio'[g] = "closed" => folio[g] = "closed"
  PROVE  LedgerInv'
<1>1. PostedIsCounted' /\ TipRows' /\ LineStockBalances' /\ OneLinePerRequest' /\ OneTipPerFolio'
  BY DEF LedgerInv, PostedIsCounted, TipRows, LineStockBalances, OneLinePerRequest, OneTipPerFolio, Live
<1>2. \A g \in Guests : Charges(g)' = Charges(g) /\ Unposted(g)' = Unposted(g)
  BY DEF Charges, Unposted, LiveLines, Live
<1>3. ClosedFolioBalances'
  BY <1>2 DEF LedgerInv, ClosedFolioBalances
<1> QED BY <1>1, <1>3 DEF LedgerInv

\* Nothing of the ledger changes, and so nothing said of it.
LEMMA LedgerAsWas ==
  ASSUME LedgerInv, UNCHANGED ledger
  PROVE  LedgerInv' /\ \A g : SameLines(g)
<1>1. TypeOK' /\ UNCHANGED <<folio, bill, lines, moved>>
  BY DEF LedgerInv, TypeOK, ledger, vars
<1> QED BY <1>1, LinesAsWere DEF SameLines

\* A statement that publishes nothing need only be good for its process.
LEMMA QuietStep ==
  ASSUME FolioTxInv, NEW p \in Procs, NEW r, tx' = [tx EXCEPT ![p] = r],
         UNCHANGED ledger, Takes(p), TxGood(p, r, owner', trip, revoked, folio, lines)
  PROVE  FolioTxInv'
<1>1. UNCHANGED <<trip, revoked, folio, lines>>
  BY DEF ledger, vars
<1>2. LedgerInv' /\ \A g : SameLines(g)
  BY LedgerAsWas DEF FolioTxInv
<1>3. \A q \in Procs \ {p} : Spares(q)
  BY <1>1, <1>2, TakesSpares DEF Spares
<1>4. TxGood(p, r, owner', trip', revoked', folio', lines')
  BY <1>1
<1> QED BY <1>2, <1>3, <1>4, TakesSpares, StepKeeps

\* A request that fails rolls back.
LEMMA FailKeeps == ASSUME FolioTxInv, NEW p \in Procs, Fail(p) PROVE FolioTxInv'
<1>1. PICK r : r = Idle
  OBVIOUS
<1>2. tx' = [tx EXCEPT ![p] = r] /\ UNCHANGED ledger /\ owner' = Released(p)
  BY <1>1 DEF Fail, Finish
<1>3. TxGood(p, r, owner', trip, revoked, folio, lines)
  BY <1>1, <1>2, ReleasedAll, IdleGood
<1> QED BY <1>2, <1>3, QuietStep DEF Takes

\* Going on to the next statement.
LEMMA GoesOn ==
  ASSUME FolioTxInv, NEW p \in Procs, NEW at, Goto(p, at), UNCHANGED ledger, Takes(p),
         tx[p].at # "idle", at # "idle",
         \A r : r.at = at /\ r.job = tx[p].job /\ r.row = tx[p].row /\ r.delta = tx[p].delta =>
           /\ RightKind(r) /\ HoldsVoyage(p, r, owner', trip, revoked)
           /\ HoldsFolio(p, r, owner', folio) /\ Carries(r, lines)
  PROVE  FolioTxInv'
<1>1. PICK r : r = [tx[p] EXCEPT !.at = at]
  OBVIOUS
<1>2. TxGood(p, tx[p], owner, trip, revoked, folio, lines)
  BY DEF FolioTxInv
<1>3. /\ DOMAIN r = TxFields /\ r.at = at /\ r.job = tx[p].job /\ r.job \in Jobs
      /\ r.row = tx[p].row /\ r.delta = tx[p].delta
  BY <1>1, <1>2 DEF TxGood, TxFields
<1>4. tx' = [tx EXCEPT ![p] = r]
  BY <1>1 DEF Goto
<1>5. TxGood(p, r, owner', trip, revoked, folio, lines)
  BY <1>3 DEF TxGood
<1> QED BY <1>4, <1>5, QuietStep

\* A statement that locks rows has them, what it had, and no other.
LEMMA LockTakes ==
  ASSUME FolioTxInv, NEW p \in Procs, Waits(p) = {}, Lock(p)
  PROVE  /\ UNCHANGED ledger /\ Takes(p)
         /\ \A row \in Rows : owner'[row] = p <=> (row \in Wants(p) \/ owner[row] = p)
  BY DEF Lock, Take, Takes, Granted, FolioTxInv
-----------------------------------------------------------------------------
(***************************************************************************)
(* One lemma per statement: line mutations.                                *)
(***************************************************************************)
LEMMA LockTripAndGuestKeeps ==
  ASSUME FolioTxInv, NEW p \in Procs, Waits(p) = {}, LockTripAndGuest(p) PROVE FolioTxInv'
<1>1. tx[p].at = "trip" /\ tx[p].job.kind \in Mutations
  BY DEF LockTripAndGuest, At, Kind
<1>2. PICK g \in Guests : g = tx[p].job.guest /\ TripOf[g] \in Trips
  BY <1>1, Known
<1>3. CASE Fail(p)
  BY <1>3, FailKeeps
<1>4. CASE ~Fail(p)
  <2>1. Lock(p) /\ Goto(p, "folio") /\ ~revoked[g] /\ trip[TripOf[g]] = "active"
    BY <1>1, <1>2, <1>4 DEF LockTripAndGuest, G, T, Kind, Mutations, LineJobs
  <2>2. <<"trip", TripOf[g]>> \in Wants(p) /\ <<"guest", g>> \in Wants(p)
    BY <1>1, <1>2, <2>1 DEF Wants, MutationRows, Trip, Guest, G, T, Kind, Mutations, LineJobs
  <2>3. owner'[<<"trip", TripOf[g]>>] = p /\ owner'[<<"guest", g>>] = p
    BY <1>2, <2>1, <2>2, LockTakes, RowsAre
  <2>4. TxGood(p, tx[p], owner, trip, revoked, folio, lines)
    BY <1>1, Known
  <2>5. ASSUME NEW r, r.at = "folio", r.job = tx[p].job, r.row = tx[p].row, r.delta = tx[p].delta
        PROVE  /\ RightKind(r) /\ HoldsVoyage(p, r, owner', trip, revoked)
               /\ HoldsFolio(p, r, owner', folio) /\ Carries(r, lines)
    BY <1>1, <1>2, <2>1, <2>3, <2>4, <2>5
       DEF TxGood, RightKind, HoldsVoyage, HoldsFolio, Carries, Posting, Mutations, LineJobs
  <2> QED BY <1>1, <2>1, <2>5, LockTakes, GoesOn
<1> QED BY <1>3, <1>4

\* What a request holds of its voyage it still holds after a step that gives nothing up.
LEMMA StillHoldsVoyage ==
  ASSUME FolioTxInv, NEW p \in Procs, NEW r, tx[p].at # "idle", r.job = tx[p].job,
         \/ r.at \in {"folio", "insert", "read", "price"} \cup Posting
              /\ tx[p].at \in {"folio", "insert", "read", "price"} \cup Posting
              /\ tx[p].job.kind \in Mutations
         \/ r.at \in {"bill", "late"} \cup Posting /\ tx[p].at \in {"bill", "late"} \cup Posting
              /\ tx[p].job.kind = "close",
         \A row \in Rows : owner[row] = p => owner'[row] = p
  PROVE  HoldsVoyage(p, r, owner', trip, revoked)
<1>1. PICK g \in Guests : g = tx[p].job.guest /\ TripOf[g] \in Trips
  BY Known
<1>2. HoldsVoyage(p, tx[p], owner, trip, revoked)
  BY Known DEF TxGood
<1> QED BY <1>1, <1>2, RowsAre DEF HoldsVoyage, Mutations, LineJobs, Posting

\* The folio is looked for under its lock.
LEMMA FindFolioKeeps ==
  ASSUME FolioTxInv, NEW p \in Procs, Waits(p) = {}, FindFolio(p) PROVE FolioTxInv'
<1>1. tx[p].at = "folio" /\ tx[p].job.kind \in Mutations \cup {"close"}
      /\ TxGood(p, tx[p], owner, trip, revoked, folio, lines)
  <2>1. tx[p].at = "folio"
    BY DEF FindFolio, At
  <2> QED BY <2>1, Known DEF TxGood, RightKind
<1>2. PICK g \in Guests : g = tx[p].job.guest /\ g = G(p) /\ TripOf[g] \in Trips
  BY <1>1, Known DEF G
<1>3. folio[g] \in {"none", "open", "closed"}
  BY <1>2 DEF FolioTxInv, LedgerInv, TypeOK, FolioStatus
<1>4. CASE Fail(p)
  BY <1>4, FailKeeps
<1>5. CASE folio[g] = "open"
  <2>1. PICK at : /\ Lock(p) /\ Goto(p, at)
                  /\ tx[p].job.kind = "close" => at = "manifest"
                  /\ tx[p].job.kind # "close" => at = "read"
    BY <1>2, <1>5 DEF FindFolio, Kind
  <2>2. <<"folio", g>> \in Wants(p)
    BY <1>1, <1>2, <1>5 DEF Wants, Folio
  <2>3. /\ owner'[<<"folio", g>>] = p
        /\ \A row \in Rows : owner[row] = p => owner'[row] = p
    BY <1>2, <2>1, <2>2, LockTakes, RowsAre
  <2>4. ASSUME NEW r, r.at = at, r.job = tx[p].job, r.row = tx[p].row, r.delta = tx[p].delta
        PROVE  /\ RightKind(r) /\ HoldsVoyage(p, r, owner', trip, revoked)
               /\ HoldsFolio(p, r, owner', folio) /\ Carries(r, lines)
    <3>1. RightKind(r) /\ HoldsFolio(p, r, owner', folio) /\ Carries(r, lines)
      BY <1>1, <1>2, <1>5, <2>1, <2>3, <2>4
         DEF TxGood, RightKind, HoldsFolio, Carries, Posting, Mutations, LineJobs
    <3>2. HoldsVoyage(p, r, owner', trip, revoked)
      <4>1. CASE tx[p].job.kind = "close"
        BY <2>1, <2>4, <4>1 DEF HoldsVoyage, Mutations, LineJobs, Posting
      <4>2. CASE tx[p].job.kind \in Mutations
        BY <1>1, <2>1, <2>3, <2>4, <4>2, StillHoldsVoyage DEF Mutations, LineJobs
      <4> QED BY <1>1, <4>1, <4>2
    <3> QED BY <3>1, <3>2
  <2> QED BY <1>1, <2>1, <2>4, LockTakes, GoesOn
<1>6. CASE folio[g] = "none" /\ ~Fail(p)
  <2>1. Read(p) /\ Goto(p, "insert") /\ tx[p].job.kind \in {"add", "tip"}
    BY <1>2, <1>6 DEF FindFolio, Kind
  <2>2. UNCHANGED ledger /\ Takes(p) /\ owner' = owner
    BY <2>1 DEF Read, Takes
  <2>3. ASSUME NEW r, r.at = "insert", r.job = tx[p].job, r.row = tx[p].row, r.delta = tx[p].delta
        PROVE  /\ RightKind(r) /\ HoldsVoyage(p, r, owner', trip, revoked)
               /\ HoldsFolio(p, r, owner', folio) /\ Carries(r, lines)
    <3>1. RightKind(r) /\ HoldsFolio(p, r, owner', folio) /\ Carries(r, lines)
      BY <1>1, <2>1, <2>3 DEF TxGood, RightKind, HoldsFolio, Carries, Posting, Mutations, LineJobs
    <3>2. HoldsVoyage(p, r, owner', trip, revoked)
      BY <1>1, <2>1, <2>2, <2>3, StillHoldsVoyage DEF Mutations
    <3> QED BY <3>1, <3>2
  <2> QED BY <1>1, <2>1, <2>2, <2>3, GoesOn
<1>7. folio[g] = "closed" => Fail(p)
  BY <1>2 DEF FindFolio
<1> QED BY <1>3, <1>4, <1>5, <1>6, <1>7

\* A folio inserted is locked by its key.
LEMMA InsertFolioKeeps ==
  ASSUME FolioTxInv, NEW p \in Procs, Waits(p) = {}, InsertFolio(p) PROVE FolioTxInv'
<1>1. tx[p].at = "insert" /\ tx[p].job.kind \in {"add", "tip", "open"}
      /\ TxGood(p, tx[p], owner, trip, revoked, folio, lines)
  <2>1. tx[p].at = "insert"
    BY DEF InsertFolio, At
  <2> QED BY <2>1, Known DEF TxGood, RightKind
<1>2. PICK g \in Guests : g = tx[p].job.guest /\ g = G(p) /\ TripOf[g] \in Trips
  BY <1>1, Known DEF G, Mutations
<1>3. CASE Fail(p)
  BY <1>3, FailKeeps
<1>4. CASE ~Fail(p)
  <2>1. PICK at : /\ Lock(p) /\ Goto(p, at) /\ folio[g] = "none"
                  /\ tx[p].job.kind = "open" => at = "keys"
                  /\ tx[p].job.kind # "open" => at = "read"
    BY <1>2, <1>4 DEF InsertFolio, Kind
  <2>2. <<"folio", g>> \in Wants(p)
    BY <1>1, <1>2, <2>1 DEF Wants, Folio
  <2>3. /\ owner'[<<"folio", g>>] = p
        /\ \A row \in Rows : owner[row] = p => owner'[row] = p
    BY <1>2, <2>1, <2>2, LockTakes, RowsAre
  <2>4. ASSUME NEW r, r.at = at, r.job = tx[p].job, r.row = tx[p].row, r.delta = tx[p].delta
        PROVE  /\ RightKind(r) /\ HoldsVoyage(p, r, owner', trip, revoked)
               /\ HoldsFolio(p, r, owner', folio) /\ Carries(r, lines)
    <3>1. RightKind(r) /\ HoldsFolio(p, r, owner', folio) /\ Carries(r, lines)
      BY <1>1, <1>2, <2>1, <2>3, <2>4
         DEF TxGood, RightKind, HoldsFolio, Carries, Posting, Mutations, LineJobs
    <3>2. HoldsVoyage(p, r, owner', trip, revoked)
      <4>1. CASE tx[p].job.kind = "open"
        BY <2>1, <2>4, <4>1 DEF HoldsVoyage, Mutations, LineJobs, Posting
      <4>2. CASE tx[p].job.kind \in {"add", "tip"}
        BY <1>1, <2>1, <2>3, <2>4, <4>2, StillHoldsVoyage DEF Mutations
      <4> QED BY <1>1, <4>1, <4>2
    <3> QED BY <3>1, <3>2
  <2> QED BY <1>1, <2>1, <2>4, LockTakes, GoesOn
<1> QED BY <1>3, <1>4

\* Only an open folio is gone on with.
LEMMA CheckOpenKeeps ==
  ASSUME FolioTxInv, NEW p \in Procs, CheckOpen(p) PROVE FolioTxInv'
<1>1. tx[p].at = "check" /\ tx[p].job.kind = "open"
  <2>1. tx[p].at = "check"
    BY DEF CheckOpen, At
  <2> QED BY <2>1, Known DEF TxGood, RightKind
<1>2. CASE Fail(p)
  BY <1>2, FailKeeps
<1>3. CASE ~Fail(p)
  <2>1. Goto(p, "insert") /\ UNCHANGED ledger /\ Takes(p)
    BY <1>3 DEF CheckOpen, Read, Takes
  <2>2. ASSUME NEW r, r.at = "insert", r.job = tx[p].job
        PROVE  /\ RightKind(r) /\ HoldsVoyage(p, r, owner', trip, revoked)
               /\ HoldsFolio(p, r, owner', folio) /\ Carries(r, lines)
    BY <1>1, <2>2 DEF RightKind, HoldsVoyage, HoldsFolio, Carries, Posting, Mutations, LineJobs
  <2> QED BY <1>1, <2>1, <2>2, GoesOn
<1> QED BY <1>2, <1>3
-----------------------------------------------------------------------------
(***************************************************************************)
(* What a mutation reads, and carries from then on.                        *)
(***************************************************************************)
LEMMA ReadsOn ==
  ASSUME FolioTxInv, NEW p \in Procs, NEW r, Read(p), tx' = [tx EXCEPT ![p] = r],
         DOMAIN r = TxFields, r.job = tx[p].job, r.at # "idle", tx[p].at # "idle",
         RightKind(r), HoldsVoyage(p, r, owner, trip, revoked),
         HoldsFolio(p, r, owner, folio), Carries(r, lines)
  PROVE  FolioTxInv'
<1>1. UNCHANGED ledger /\ owner' = owner
  BY DEF Read
<1>2. r.job \in Jobs
  BY Known
<1>3. TxGood(p, r, owner', trip, revoked, folio, lines)
  BY <1>1, <1>2 DEF TxGood
<1> QED BY <1>1, <1>3, QuietStep DEF Takes

\* A mutation that has its folio holds its voyage and its folio to the end.
LEMMA MutationHolds ==
  ASSUME FolioTxInv, NEW p \in Procs, NEW r, tx[p].at \in {"read", "price"} \cup Posting,
         tx[p].job.kind \in Mutations, r.job = tx[p].job,
         r.at \in {"read", "price"} \cup Posting
  PROVE  HoldsVoyage(p, r, owner, trip, revoked) /\ HoldsFolio(p, r, owner, folio)
<1>1. tx[p].at # "idle"
  BY DEF Posting
<1>2. HoldsVoyage(p, tx[p], owner, trip, revoked) /\ HoldsFolio(p, tx[p], owner, folio)
  BY <1>1, Known DEF TxGood
<1> QED BY <1>2 DEF HoldsVoyage, HoldsFolio, Mutations, LineJobs, Posting

\* From reading to posting, with what was read.
LEMMA GoesPosting ==
  ASSUME FolioTxInv, NEW p \in Procs, NEW row, NEW delta, GotoStock(p, row, delta), Read(p),
         tx[p].at \in {"read", "price"}, tx[p].job.kind \in Mutations,
         \A r : r.at \in Posting /\ r.job = tx[p].job /\ r.row = row /\ r.delta = delta =>
           Carries(r, lines)
  PROVE  FolioTxInv'
<1>1. PICK r, next, at : /\ r = [tx[p] EXCEPT !.row = row, !.delta = delta, !.next = next, !.at = at]
                         /\ tx' = [tx EXCEPT ![p] = r] /\ at \in {"commit", "stock"}
  BY DEF GotoStock
<1>2. DOMAIN tx[p] = TxFields
  BY Known DEF TxGood
<1>3. /\ DOMAIN r = TxFields /\ r.job = tx[p].job /\ r.row = row /\ r.delta = delta
      /\ r.at \in Posting /\ r.at \in {"commit", "stock"}
  BY <1>1, <1>2 DEF TxFields, Posting
<1>4. HoldsVoyage(p, r, owner, trip, revoked) /\ HoldsFolio(p, r, owner, folio)
  BY <1>3, MutationHolds
<1>5. RightKind(r) /\ Carries(r, lines)
  BY <1>3 DEF RightKind
<1> QED BY <1>1, <1>3, <1>4, <1>5, ReadsOn

\* The item is read.
LEMMA ReadItemKeeps ==
  ASSUME FolioTxInv, NEW p \in Procs, ReadItem(p) PROVE FolioTxInv'
<1>1. /\ tx[p].at = "read" /\ tx[p].job.kind = "add" /\ tx[p].job.kind \in Mutations
      /\ TxGood(p, tx[p], owner, trip, revoked, folio, lines)
  <2>1. tx[p].at = "read" /\ tx[p].job.kind = "add"
    BY DEF ReadItem, At, Kind
  <2> QED BY <2>1, Known DEF Mutations
<1>2. CASE Fail(p)
  BY <1>2, FailKeeps
<1>3. CASE Read(p) /\ Goto(p, "commit")
  <2>1. PICK r : r = [tx[p] EXCEPT !.at = "commit"]
    OBVIOUS
  <2>2. /\ DOMAIN r = TxFields /\ r.job = tx[p].job /\ r.row = tx[p].row /\ r.at = "commit"
        /\ r.at \in Posting /\ tx' = [tx EXCEPT ![p] = r]
    BY <1>1, <1>3, <2>1 DEF TxGood, TxFields, Goto, Posting
  <2>3. RightKind(r) /\ Carries(r, lines)
    BY <1>1, <2>2 DEF TxGood, Carries, RightKind, LineJobs
  <2> QED BY <1>1, <1>3, <2>2, <2>3, MutationHolds, ReadsOn
<1>4. CASE ~Fail(p) /\ FreshRequest(tx[p].job.guest, tx[p].job.request)
  <2>1. PICK job \in Jobs : job = tx[p].job /\ job.kind = "add"
    BY <1>1, Known
  <2>2. /\ job.guest \in Guests /\ job.item \in Items /\ job.qty \in Nat \ {0}
        /\ job.request \in Requests \cup {NoRequest}
    BY <2>1, JobsAre DEF Mutations
  <2>3. PICK item : item = catalog[job.item] /\ item.counted \in BOOLEAN
    BY <2>2, DataAssumption DEF FolioTxInv, LedgerInv, TypeOK
  <2>4. PICK row : row = [guest |-> job.guest, type |-> "catalog_item", item |-> job.item,
                          qty |-> job.qty, unit |-> 0, total |-> 0,
                          counted |-> item.counted, posted |-> item.counted,
                          voided |-> FALSE, request |-> job.request]
    OBVIOUS
  <2>5. PICK r : r = [tx[p] EXCEPT !.at = "price", !.row = row]
    OBVIOUS
  <2>6. Read(p) /\ tx' = [tx EXCEPT ![p] = r]
    BY <1>4, <2>1, <2>3, <2>4, <2>5 DEF ReadItem
  <2>7. /\ DOMAIN r = TxFields /\ r.job = tx[p].job /\ r.job = job /\ r.row = row /\ r.at = "price"
    BY <1>1, <2>1, <2>5 DEF TxGood, TxFields
  <2>8. row \in Line
    BY <2>2, <2>3, <2>4 DEF Line
  <2>9. NewCharge(r, lines)
    BY <1>4, <2>1, <2>2, <2>4, <2>7, <2>8 DEF NewCharge, FreshRequest, RowsOf
  <2>10. RightKind(r) /\ Carries(r, lines)
    BY <2>1, <2>7, <2>9 DEF Carries, RightKind, LineJobs, Posting
  <2> QED BY <1>1, <2>6, <2>7, <2>10, MutationHolds, ReadsOn
<1> QED BY <1>2, <1>3, <1>4 DEF ReadItem

\* The price is read, after the item.
LEMMA ReadPriceKeeps ==
  ASSUME FolioTxInv, NEW p \in Procs, ReadPrice(p) PROVE FolioTxInv'
<1>1. /\ tx[p].at = "price" /\ tx[p].job.kind = "add" /\ tx[p].job.kind \in Mutations
      /\ TxGood(p, tx[p], owner, trip, revoked, folio, lines)
  <2>1. tx[p].at = "price"
    BY DEF ReadPrice, At
  <2> QED BY <2>1, Known DEF TxGood, RightKind, Mutations
<1>2. NewCharge(tx[p], lines)
  BY <1>1 DEF TxGood, Carries
<1>3. PICK old \in Line : old = tx[p].row
  BY <1>2 DEF NewCharge
<1>4. old.item \in Items /\ catalog[old.item].price \in Nat
  BY <1>2, <1>3, DataAssumption DEF NewCharge, FolioTxInv, LedgerInv, TypeOK
<1>5. PICK price \in Nat : price = catalog[old.item].price
  BY <1>4
<1>6. PICK row : row = [old EXCEPT !.unit = price, !.total = price * old.qty]
  OBVIOUS
<1>7. PICK delta : delta = IF old.counted THEN -old.qty ELSE 0
  OBVIOUS
<1>8. GotoStock(p, row, delta) /\ Read(p)
  BY <1>3, <1>5, <1>6, <1>7 DEF ReadPrice
<1>9. price * old.qty \in Nat
  BY <1>3, <1>5, ProductNat DEF Line
<1>10. /\ row \in Line /\ row.guest = old.guest /\ row.type = old.type /\ row.item = old.item
       /\ row.voided = old.voided /\ row.posted = old.posted /\ row.counted = old.counted
       /\ row.request = old.request /\ row.qty = old.qty
  BY <1>3, <1>5, <1>6, <1>9 DEF Line
<1>11. delta = Moves(row)
  BY <1>2, <1>3, <1>7, <1>10 DEF Moves, NewCharge
<1>12. ASSUME NEW r, r.at \in Posting, r.job = tx[p].job, r.row = row, r.delta = delta
       PROVE  Carries(r, lines)
  <2>1. NewCharge(r, lines)
    BY <1>2, <1>3, <1>10, <1>12 DEF NewCharge
  <2> QED BY <1>1, <1>11, <1>12, <2>1 DEF Carries, LineJobs, Posting
<1> QED BY <1>1, <1>8, <1>12, GoesPosting

\* The tip there is, if any, is read under the lock of the folio.
LEMMA ReadTipKeeps ==
  ASSUME FolioTxInv, NEW p \in Procs, ReadTip(p) PROVE FolioTxInv'
<1>1. tx[p].at = "read" /\ tx[p].job.kind = "tip" /\ tx[p].job.kind \in Mutations
  BY DEF ReadTip, At, Kind, Mutations
<1>2. PICK job \in Jobs : job = tx[p].job /\ job.guest \in Guests /\ job.amount \in Nat
  BY <1>1, Known, JobsAre
<1>3. PICK row : row = [guest |-> job.guest, type |-> "crew_tip", item |-> NoItem, qty |-> 1,
                        unit |-> job.amount, total |-> job.amount,
                        counted |-> FALSE, posted |-> FALSE, voided |-> FALSE,
                        request |-> NoRequest]
  OBVIOUS
<1>4. GotoStock(p, row, 0) /\ Read(p)
  BY <1>2, <1>3 DEF ReadTip, G
<1>5. row \in Line
  BY <1>2, <1>3 DEF Line
<1>6. ASSUME NEW r, r.at \in Posting, r.job = tx[p].job, r.row = row, r.delta = 0
      PROVE  Carries(r, lines)
  BY <1>1, <1>2, <1>3, <1>5, <1>6 DEF Carries, NewTip, LineJobs, Posting
<1> QED BY <1>1, <1>4, <1>6, GoesPosting

\* The line to change is read under the lock of the folio.
LEMMA ReadLineKeeps ==
  ASSUME FolioTxInv, NEW p \in Procs, ReadLine(p) PROVE FolioTxInv'
<1>1. /\ tx[p].at = "read" /\ tx[p].job.kind \in LineJobs /\ tx[p].job.kind \in Mutations
      /\ TxGood(p, tx[p], owner, trip, revoked, folio, lines)
  <2>1. tx[p].at = "read" /\ tx[p].job.kind \in LineJobs
    BY DEF ReadLine, At, Kind
  <2> QED BY <2>1, Known DEF Mutations
<1>2. CASE Fail(p)
  BY <1>2, FailKeeps
<1>3. CASE ~Fail(p)
  <2>1. PICK row, delta : /\ row = Edited(lines[tx[p].job.line], tx[p].job)
                          /\ delta = Returned(lines[tx[p].job.line], tx[p].job)
    OBVIOUS
  <2>2. GotoStock(p, row, delta) /\ Read(p) /\ ~lines[tx[p].job.line].voided
    BY <1>3, <2>1 DEF ReadLine
  <2>3. ASSUME NEW r, r.at \in Posting, r.job = tx[p].job, r.row = row, r.delta = delta
        PROVE  Carries(r, lines)
    BY <1>1, <2>1, <2>2, <2>3 DEF TxGood, Carries, LineJobs, Posting
  <2> QED BY <1>1, <2>2, <2>3, GoesPosting
<1> QED BY <1>2, <1>3
-----------------------------------------------------------------------------
(***************************************************************************)
(* Settlement up to its bill.                                              *)
(***************************************************************************)
LEMMA ChargesAre == \A g \in Guests : Charges(g) = ChargesIn(lines, g)
<1> SUFFICES ASSUME NEW g \in Guests PROVE Charges(g) = ChargesIn(lines, g)
  OBVIOUS
<1>1. LiveLines(g) = {m \in RowsOf(lines, g) : ~lines[m].voided}
  BY DEF LiveLines, Live, RowsOf
<1> QED BY <1>1 DEF Charges, ChargesIn

\* A settlement reads the manifest.
LEMMA ReadManifestKeeps ==
  ASSUME FolioTxInv, NEW p \in Procs, ReadManifest(p) PROVE FolioTxInv'
<1>1. tx[p].at = "manifest" /\ tx[p].job.kind = "close"
      /\ TxGood(p, tx[p], owner, trip, revoked, folio, lines)
  <2>1. tx[p].at = "manifest" /\ tx[p].job.kind = "close"
    BY DEF ReadManifest, At, Kind
  <2> QED BY <2>1, Known
<1>2. CASE Fail(p)
  BY <1>2, FailKeeps
<1>3. CASE ~Fail(p)
  <2>1. Goto(p, "closeTrip") /\ UNCHANGED ledger /\ Takes(p) /\ owner' = owner
    BY <1>3 DEF ReadManifest, Read, Takes
  <2>2. ASSUME NEW r, r.at = "closeTrip", r.job = tx[p].job
        PROVE  /\ RightKind(r) /\ HoldsVoyage(p, r, owner', trip, revoked)
               /\ HoldsFolio(p, r, owner', folio) /\ Carries(r, lines)
    BY <1>1, <2>1, <2>2
       DEF TxGood, RightKind, HoldsVoyage, HoldsFolio, Carries, Posting, Mutations, LineJobs
  <2> QED BY <1>1, <2>1, <2>2, GoesOn
<1> QED BY <1>2, <1>3

\* A settlement locks the trip after the folio.
LEMMA LockTripToCloseKeeps ==
  ASSUME FolioTxInv, NEW p \in Procs, Waits(p) = {}, LockTripToClose(p) PROVE FolioTxInv'
<1>1. tx[p].at = "closeTrip" /\ tx[p].job.kind = "close"
      /\ TxGood(p, tx[p], owner, trip, revoked, folio, lines)
  <2>1. tx[p].at = "closeTrip"
    BY DEF LockTripToClose, At
  <2> QED BY <2>1, Known DEF TxGood, RightKind
<1>2. PICK g \in Guests : g = tx[p].job.guest /\ TripOf[g] \in Trips
  BY <1>1, Known
<1>3. Lock(p) /\ Goto(p, "bill")
  BY DEF LockTripToClose
<1>4. <<"trip", TripOf[g]>> \in Wants(p)
  BY <1>1, <1>2 DEF Wants, Trip, T, G, Kind
<1>5. /\ owner'[<<"trip", TripOf[g]>>] = p
      /\ owner[<<"folio", g>>] = p => owner'[<<"folio", g>>] = p
  BY <1>2, <1>3, <1>4, LockTakes, RowsAre
<1>6. ASSUME NEW r, r.at = "bill", r.job = tx[p].job
      PROVE  /\ RightKind(r) /\ HoldsVoyage(p, r, owner', trip, revoked)
             /\ HoldsFolio(p, r, owner', folio) /\ Carries(r, lines)
  BY <1>1, <1>2, <1>5, <1>6
     DEF TxGood, RightKind, HoldsVoyage, HoldsFolio, Carries, Posting, Mutations, LineJobs
<1> QED BY <1>1, <1>3, <1>6, LockTakes, GoesOn

\* The bill is computed from lines nobody else can write.
LEMMA ReadBillKeeps ==
  ASSUME FolioTxInv, NEW p \in Procs, ReadBill(p) PROVE FolioTxInv'
<1>1. tx[p].at = "bill" /\ tx[p].job.kind = "close"
      /\ TxGood(p, tx[p], owner, trip, revoked, folio, lines)
  <2>1. tx[p].at = "bill"
    BY DEF ReadBill, At
  <2> QED BY <2>1, Known DEF TxGood, RightKind
<1>2. PICK g \in Guests : g = tx[p].job.guest /\ g = G(p)
  BY <1>1, Known DEF G
<1>3. CASE Fail(p)
  BY <1>3, FailKeeps
<1>4. CASE ~Fail(p)
  <2>1. PICK method, subtotal, fee :
          /\ method = tx[p].job.method /\ subtotal = SumFunction(Charges(g))
          /\ fee = IF method = "card" THEN CardFee(subtotal, feeRate) ELSE 0
    OBVIOUS
  <2>2. PICK row : row = [subtotal |-> subtotal, fee |-> fee, total |-> subtotal + fee,
                          rate |-> feeRate, method |-> method]
    OBVIOUS
  <2>3. PICK r : r = [tx[p] EXCEPT !.at = "late", !.row = row]
    OBVIOUS
  <2>4. Read(p) /\ tx' = [tx EXCEPT ![p] = r]
    BY <1>2, <1>4, <2>1, <2>2, <2>3 DEF ReadBill
  <2>5. DOMAIN r = TxFields /\ r.job = tx[p].job /\ r.row = row /\ r.at = "late"
    BY <1>1, <2>3 DEF TxGood, TxFields
  <2>6. BillOf(row, lines, g)
    BY <2>1, <2>2, ChargesAre DEF BillOf
  <2>7. RightKind(r) /\ HoldsVoyage(p, r, owner, trip, revoked) /\ HoldsFolio(p, r, owner, folio)
        /\ Carries(r, lines)
    BY <1>1, <1>2, <2>5, <2>6
       DEF TxGood, RightKind, HoldsVoyage, HoldsFolio, Carries, Posting, Mutations, LineJobs
  <2> QED BY <1>1, <2>4, <2>5, <2>7, ReadsOn
<1> QED BY <1>3, <1>4

-----------------------------------------------------------------------------
(***************************************************************************)
(* Counts, one stock row after another.                                    *)
(***************************************************************************)
LEMMA PostsOn ==
  ASSUME FolioTxInv, NEW p \in Procs, NEW r, tx' = [tx EXCEPT ![p] = r], UNCHANGED ledger, Takes(p),
         \A row \in Rows : owner[row] = p => owner'[row] = p,
         tx[p].at \in {"late", "stock", "insertStock", "stocked"}, r.at \in Posting,
         DOMAIN r = TxFields, r.job = tx[p].job, r.row = tx[p].row, r.delta = tx[p].delta
  PROVE  FolioTxInv'
<1>1. TxGood(p, tx[p], owner, trip, revoked, folio, lines) /\ tx[p].job \in Jobs
      /\ tx[p].job.kind \in Mutations \cup {"close"}
  BY Known DEF TxGood, RightKind
<1>2. PICK g \in Guests : g = tx[p].job.guest
  BY <1>1, Known
<1>3. tx[p].at = "late" => tx[p].job.kind = "close"
  BY <1>1 DEF TxGood, RightKind
<1>4. HoldsVoyage(p, r, owner', trip, revoked)
  BY <1>1, <1>3, StillHoldsVoyage DEF Posting
<1>5. HoldsFolio(p, r, owner', folio)
  BY <1>1, <1>2, <1>3, RowsAre DEF TxGood, HoldsFolio, Posting, Mutations, LineJobs
<1>6. Carries(r, lines)
  BY <1>1, <1>3 DEF TxGood, Carries, NewCharge, NewTip, Posting, Mutations, LineJobs
<1>7. RightKind(r)
  BY <1>1 DEF RightKind, Posting
<1>8. TxGood(p, r, owner', trip, revoked, folio, lines)
  BY <1>1, <1>4, <1>5, <1>6, <1>7 DEF TxGood, Posting
<1> QED BY <1>8, QuietStep

\* The next stock row of a settlement, or its commit.
LEMMA PickIs ==
  ASSUME NEW p \in Procs, NEW S, NEW at, PickNext(p, S, at), DOMAIN tx[p] = TxFields
  PROVE  \E r : /\ tx' = [tx EXCEPT ![p] = r] /\ r.at \in {at, "commit"} /\ DOMAIN r = TxFields
                /\ r.job = tx[p].job /\ r.row = tx[p].row /\ r.delta = tx[p].delta
<1>1. CASE S = {}
  <2>1. PICK r : r = [tx[p] EXCEPT !.at = "commit"]
    OBVIOUS
  <2>2. tx' = [tx EXCEPT ![p] = r]
    BY <1>1, <2>1 DEF PickNext, Goto
  <2>3. /\ r.at = "commit" /\ DOMAIN r = TxFields
        /\ r.job = tx[p].job /\ r.row = tx[p].row /\ r.delta = tx[p].delta
    BY <2>1 DEF TxFields
  <2> QED BY <2>2, <2>3
<1>2. CASE S # {}
  <2>1. PICK x \in S : tx' = [tx EXCEPT ![p].at = at, ![p].next = x, ![p].todo = S \ {x}]
    BY <1>2 DEF PickNext
  <2>2. PICK todo : todo = S \ {x}
    OBVIOUS
  <2>3. PICK r : r = [tx[p] EXCEPT !.at = at, !.next = x, !.todo = todo]
    OBVIOUS
  <2>4. tx' = [tx EXCEPT ![p] = r]
    BY <2>1, <2>2, <2>3
  <2>5. /\ r.at = at /\ DOMAIN r = TxFields
        /\ r.job = tx[p].job /\ r.row = tx[p].row /\ r.delta = tx[p].delta
    BY <2>3 DEF TxFields
  <2> QED BY <2>4, <2>5
<1> QED BY <1>1, <1>2

\* A settlement goes to its next stock row.
LEMMA PickStockKeeps ==
  ASSUME FolioTxInv, NEW p \in Procs, ReadLate(p) \/ MoreStock(p) PROVE FolioTxInv'
<1>1. tx[p].at \in {"late", "stocked"} /\ Read(p) /\ \E S : PickNext(p, S, "stock")
  BY DEF ReadLate, MoreStock, At
<1>2. DOMAIN tx[p] = TxFields
  BY <1>1, Known DEF TxGood
<1>3. PICK r : /\ tx' = [tx EXCEPT ![p] = r] /\ r.at \in {"stock", "commit"} /\ DOMAIN r = TxFields
               /\ r.job = tx[p].job /\ r.row = tx[p].row /\ r.delta = tx[p].delta
  BY <1>1, <1>2, PickIs
<1>4. r.at \in Posting /\ UNCHANGED ledger /\ owner' = owner /\ Takes(p)
  BY <1>1, <1>3 DEF Posting, Read, Takes
<1> QED BY <1>1, <1>3, <1>4, PostsOn

\* The stock row is locked, or inserted.
LEMMA FindStockKeeps ==
  ASSUME FolioTxInv, NEW p \in Procs, Waits(p) = {}, FindStock(p) \/ InsertStock(p) PROVE FolioTxInv'
<1>1. tx[p].at \in {"stock", "insertStock"}
  BY DEF FindStock, InsertStock, At
<1>2. DOMAIN tx[p] = TxFields
  BY <1>1, Known DEF TxGood
<1>3. CASE Fail(p)
  BY <1>3, FailKeeps
<1>4. CASE Read(p) /\ Goto(p, "insertStock")
  <2>1. PICK r : r = [tx[p] EXCEPT !.at = "insertStock"]
    OBVIOUS
  <2>2. /\ tx' = [tx EXCEPT ![p] = r] /\ r.at \in Posting /\ DOMAIN r = TxFields
        /\ r.job = tx[p].job /\ r.row = tx[p].row /\ r.delta = tx[p].delta
    BY <1>2, <1>4, <2>1 DEF Goto, TxFields, Posting
  <2>3. UNCHANGED ledger /\ owner' = owner /\ Takes(p)
    BY <1>4 DEF Read, Takes
  <2> QED BY <1>1, <2>2, <2>3, PostsOn
<1>5. ASSUME NEW n, SeeStock(p, n) PROVE FolioTxInv'
  <2>1. PICK r, seen : /\ r = [tx[p] EXCEPT !.seen = seen, !.at = "stocked"]
                       /\ seen = WithCount(tx[p].seen, tx[p].next, n)
    OBVIOUS
  <2>2. Lock(p) /\ tx' = [tx EXCEPT ![p] = r]
    BY <1>5, <2>1 DEF SeeStock
  <2>3. /\ r.at \in Posting /\ DOMAIN r = TxFields
        /\ r.job = tx[p].job /\ r.row = tx[p].row /\ r.delta = tx[p].delta
    BY <1>2, <2>1 DEF TxFields, Posting
  <2> QED BY <1>1, <2>2, <2>3, LockTakes, PostsOn
<1> QED BY <1>3, <1>4, <1>5 DEF FindStock, InsertStock
-----------------------------------------------------------------------------
(***************************************************************************)
(* Starting a voyage: whatever folio it inserts it found missing.          *)
(***************************************************************************)
LEMMA LockTripToStartKeeps ==
  ASSUME FolioTxInv, NEW p \in Procs, Waits(p) = {}, LockTripToStart(p) PROVE FolioTxInv'
<1>1. tx[p].at = "trip" /\ tx[p].job.kind = "start"
      /\ TxGood(p, tx[p], owner, trip, revoked, folio, lines)
  <2>1. tx[p].at = "trip" /\ tx[p].job.kind = "start"
    BY DEF LockTripToStart, At, Kind
  <2> QED BY <2>1, Known
<1>2. CASE Fail(p)
  BY <1>2, FailKeeps
<1>3. CASE ~Fail(p)
  <2>1. Lock(p) /\ Goto(p, "manifest")
    BY <1>3 DEF LockTripToStart
  <2>2. Wants(p) = {<<"trip", T(p)>>}
    BY <1>1 DEF Wants, Trip, Kind
  <2>3. \A g \in Guests : owner'[<<"folio", g>>] = p => owner[<<"folio", g>>] = p
    BY <2>1, <2>2, LockTakes, RowsAre
  <2>4. ASSUME NEW r, r.at = "manifest", r.job = tx[p].job
        PROVE  /\ RightKind(r) /\ HoldsVoyage(p, r, owner', trip, revoked)
               /\ HoldsFolio(p, r, owner', folio) /\ Carries(r, lines)
    BY <1>1, <2>3, <2>4
       DEF TxGood, RightKind, HoldsVoyage, HoldsFolio, Carries, Posting, Mutations, LineJobs
  <2> QED BY <1>1, <2>1, <2>4, LockTakes, GoesOn
<1> QED BY <1>2, <1>3

\* Going on to the next guest, or to the commit.
LEMMA StartsOn ==
  ASSUME FolioTxInv, NEW p \in Procs, NEW S, PickNext(p, S, "folios"),
         tx[p].at # "idle", tx[p].job.kind = "start", UNCHANGED ledger, Takes(p),
         \A g \in Guests : owner'[<<"folio", g>>] = p =>
           owner[<<"folio", g>>] = p \/ folio[g] = "none"
  PROVE  FolioTxInv'
<1>1. TxGood(p, tx[p], owner, trip, revoked, folio, lines) /\ tx[p].job \in Jobs
  BY Known DEF TxGood
<1>2. PICK r : /\ tx' = [tx EXCEPT ![p] = r] /\ r.at \in {"folios", "commit"} /\ DOMAIN r = TxFields
               /\ r.job = tx[p].job /\ r.row = tx[p].row /\ r.delta = tx[p].delta
  <2>1. DOMAIN tx[p] = TxFields
    BY <1>1 DEF TxGood
  <2> QED BY <2>1, PickIs
<1>3. RightKind(r) /\ HoldsVoyage(p, r, owner', trip, revoked) /\ Carries(r, lines)
  BY <1>2 DEF RightKind, HoldsVoyage, Carries, Posting, Mutations, LineJobs
<1>4. HoldsFolio(p, r, owner', folio)
  BY <1>1, <1>2 DEF TxGood, HoldsFolio, Posting, Mutations, LineJobs
<1>5. TxGood(p, r, owner', trip, revoked, folio, lines)
  BY <1>1, <1>2, <1>3, <1>4 DEF TxGood
<1> QED BY <1>2, <1>5, QuietStep

\* A start reads the guests of its trip.
LEMMA ReadGuestsKeeps ==
  ASSUME FolioTxInv, NEW p \in Procs, ReadGuests(p) PROVE FolioTxInv'
<1>1. /\ tx[p].at # "idle" /\ tx[p].job.kind = "start"
      /\ \E S : PickNext(p, S, "folios")
      /\ UNCHANGED ledger /\ owner' = owner /\ Takes(p)
  BY DEF ReadGuests, At, Kind, Read, Takes
<1> QED BY <1>1, StartsOn

\* A start inserts their folios.
LEMMA InsertFoliosKeeps ==
  ASSUME FolioTxInv, NEW p \in Procs, Waits(p) = {}, InsertFolios(p) PROVE FolioTxInv'
<1>1. tx[p].at = "folios" /\ tx[p].job.kind = "start"
  <2>1. tx[p].at = "folios"
    BY DEF InsertFolios, At
  <2> QED BY <2>1, Known DEF TxGood, RightKind
<1>2. \E S : PickNext(p, S, "folios")
  BY DEF InsertFolios
<1>3. CASE Read(p)
  <2>1. UNCHANGED ledger /\ owner' = owner /\ Takes(p)
    BY <1>3 DEF Read, Takes
  <2> QED BY <1>1, <1>2, <2>1, StartsOn
<1>4. CASE folio[tx[p].next] = "none" /\ Lock(p)
  <2>1. Wants(p) = {<<"folio", tx[p].next>>}
    BY <1>1, <1>4 DEF Wants, Folio
  <2>2. \A g \in Guests : owner'[<<"folio", g>>] = p => owner[<<"folio", g>>] = p \/ folio[g] = "none"
    BY <1>4, <2>1, LockTakes, RowsAre
  <2> QED BY <1>1, <1>2, <1>4, <2>2, LockTakes, StartsOn
<1> QED BY <1>3, <1>4 DEF InsertFolios
-----------------------------------------------------------------------------
(***************************************************************************)
(* What a commit does to the ledger.                                       *)
(***************************************************************************)
LEMMA OthersUntouched ==
  ASSUME NEW g, WritesOnly(g), NEW h, h # g
  PROVE  /\ SameLines(h) /\ LiveLines(h)' = LiveLines(h)
         /\ Charges(h)' = Charges(h) /\ Unposted(h)' = Unposted(h)
<1>1. /\ \A l \in DOMAIN lines : lines[l].guest = h =>
           l \in DOMAIN lines' /\ lines'[l] = lines[l]
      /\ \A l \in DOMAIN lines' : lines'[l].guest = h =>
           l \in DOMAIN lines /\ lines'[l] = lines[l]
  BY DEF WritesOnly
<1>2. SameLines(h)
  BY <1>1 DEF SameLines, RowsOf
<1>3. LiveLines(h)' = LiveLines(h)
  BY <1>1 DEF LiveLines, Live
<1>4. \A l \in LiveLines(h) : lines'[l] = lines[l]
  BY <1>1 DEF LiveLines
<1>5. Charges(h)' = Charges(h)
  BY <1>3, <1>4 DEF Charges
<1>6. Unposted(h)' = Unposted(h)
  BY <1>3, <1>4 DEF Unposted
<1> QED BY <1>2, <1>3, <1>5, <1>6

\* A line is inserted, or one that stands is changed, together with the stock it takes.
LEMMA LineWritten ==
  ASSUME LedgerInv, NEW g \in Guests, NEW l \in LineIds, NEW row \in Line, NEW delta \in Int,
         folio' = [folio EXCEPT ![g] = "open"], InsertLine(l, row),
         moved' = [moved EXCEPT ![l] = @ + delta], DOMAIN stock' = Items,
         UNCHANGED <<trip, revoked, catalog, feeRate, bill>>,
         row.guest = g, row.posted => row.counted,
         row.type = "crew_tip" => ~row.counted /\ row.request = NoRequest,
         l \in DOMAIN lines =>
           /\ lines[l].guest = g /\ lines[l].type = row.type /\ lines[l].request = row.request
           /\ ~lines[l].voided /\ Moves(row) = Moves(lines[l]) + delta,
         l \notin DOMAIN lines =>
           /\ Moves(row) = delta
           /\ row.request # NoRequest => \A m \in RowsOf(lines, g) : lines[m].request # row.request
           /\ row.type = "crew_tip" => TipLines(g) = {}
  PROVE  LedgerInv' /\ WritesOnly(g)
<1>1. /\ DOMAIN lines' = DOMAIN lines \cup {l} /\ lines'[l] = row
      /\ \A m \in DOMAIN lines \ {l} : lines'[m] = lines[m]
      /\ lines' = [m \in DOMAIN lines \cup {l} |-> IF m = l THEN row ELSE lines[m]]
  BY DEF InsertLine
<1>2. /\ lines \in [DOMAIN lines -> Line] /\ DOMAIN lines \subseteq LineIds
      /\ moved \in [LineIds -> Int] /\ folio \in [Guests -> FolioStatus]
  BY DEF LedgerInv, TypeOK
<1>3. /\ moved' \in [LineIds -> Int] /\ moved'[l] = moved[l] + delta
      /\ \A m \in LineIds \ {l} : moved'[m] = moved[m]
  BY <1>2
<1>4. TypeOK'
  <2>1. lines' \in [DOMAIN lines' -> Line] /\ DOMAIN lines' \subseteq LineIds
    BY <1>1, <1>2
  <2>2. folio' \in [Guests -> FolioStatus]
    BY <1>2 DEF FolioStatus
  <2> QED BY <1>3, <2>1, <2>2 DEF LedgerInv, TypeOK
<1>5. PostedIsCounted' /\ TipRows'
  BY <1>1 DEF LedgerInv, PostedIsCounted, TipRows
<1>6. LineStockBalances'
  <2>1. \A m \in LineIds : moved[m] = IF m \in DOMAIN lines THEN Moves(lines[m]) ELSE 0
    BY DEF LedgerInv, LineStockBalances, Live, Moves
  <2>2. moved'[l] = Moves(lines'[l])
    <3>1. Moves(row) \in Int
      BY DEF Moves, Line
    <3> QED BY <1>1, <1>3, <2>1, <3>1
  <2>3. \A m \in LineIds : moved'[m] = IF m \in DOMAIN lines' THEN Moves(lines'[m]) ELSE 0
    BY <1>1, <1>3, <2>1, <2>2
  <2> QED BY <2>3 DEF LineStockBalances, Live, Moves
<1>7. OneLinePerRequest'
  BY <1>1 DEF LedgerInv, OneLinePerRequest, RowsOf
<1>8. OneTipPerFolio'
  <2>1. row.type = "crew_tip" /\ ~row.voided =>
          \A m \in DOMAIN lines \ {l} :
            ~(lines[m].guest = g /\ lines[m].type = "crew_tip" /\ ~lines[m].voided)
    BY DEF LedgerInv, OneTipPerFolio, TipLines, LiveLines, Live
  <2> QED BY <1>1, <2>1 DEF LedgerInv, OneTipPerFolio, Live
<1>9. WritesOnly(g)
  BY <1>1, <1>2, <1>3 DEF WritesOnly
<1>10. ClosedFolioBalances'
  <2> SUFFICES ASSUME NEW h \in Guests, folio'[h] = "closed" PROVE Balanced(h)'
    BY DEF ClosedFolioBalances, Balanced
  <2>1. h # g /\ folio[h] = "closed"
    BY <1>2
  <2>2. Balanced(h)
    BY <2>1 DEF LedgerInv, ClosedFolioBalances, Balanced
  <2>3. Charges(h)' = Charges(h) /\ Unposted(h)' = Unposted(h)
    BY <1>9, <2>1, OthersUntouched
  <2> QED BY <2>2, <2>3 DEF Balanced
<1> QED BY <1>4, <1>5, <1>6, <1>7, <1>8, <1>9, <1>10 DEF LedgerInv

\* A folio is settled with the bill of its lines, and what was unposted is posted.
LEMMA FolioSettled ==
  ASSUME LedgerInv, NEW g \in Guests, NEW row, BillOf(row, lines, g),
         folio' = [folio EXCEPT ![g] = "closed"], bill' = [bill EXCEPT ![g] = row],
         lines' = [l \in DOMAIN lines |->
                     IF l \in Unposted(g) THEN MarkPosted(lines[l]) ELSE lines[l]],
         moved' = [l \in LineIds |->
                     IF l \in Unposted(g) THEN moved[l] - lines[l].qty ELSE moved[l]],
         DOMAIN stock' = Items, UNCHANGED <<trip, revoked, catalog, feeRate>>
  PROVE  LedgerInv' /\ WritesOnly(g) /\ ChargesWrite(g)
<1>1. /\ lines \in [DOMAIN lines -> Line] /\ DOMAIN lines \subseteq LineIds
      /\ moved \in [LineIds -> Int] /\ folio \in [Guests -> FolioStatus] /\ DOMAIN bill = Guests
  BY DEF LedgerInv, TypeOK
<1>2. /\ DOMAIN lines' = DOMAIN lines
      /\ \A l \in DOMAIN lines :
           lines'[l] = IF l \in Unposted(g) THEN MarkPosted(lines[l]) ELSE lines[l]
      /\ \A l \in LineIds :
           moved'[l] = IF l \in Unposted(g) THEN moved[l] - lines[l].qty ELSE moved[l]
  OBVIOUS
<1>3. \A l \in Unposted(g) :
        /\ l \in DOMAIN lines /\ lines[l].guest = g /\ ~lines[l].voided
        /\ lines[l].counted /\ ~lines[l].posted /\ lines[l].qty \in Int
  BY <1>1 DEF Unposted, LiveLines, Live, Line
<1>4. \A l \in DOMAIN lines :
        /\ lines'[l] \in Line
        /\ lines'[l].guest = lines[l].guest /\ lines'[l].type = lines[l].type
        /\ lines'[l].qty = lines[l].qty /\ lines'[l].total = lines[l].total
        /\ lines'[l].counted = lines[l].counted /\ lines'[l].voided = lines[l].voided
        /\ lines'[l].request = lines[l].request
        /\ lines'[l].posted = (lines[l].posted \/ l \in Unposted(g))
  BY <1>1, <1>2, MarkPostedRow DEF Line
<1>5. TypeOK'
  <2>1. lines' \in [DOMAIN lines' -> Line]
    BY <1>2, <1>4
  <2>2. moved' \in [LineIds -> Int]
    BY <1>1, <1>3
  <2>3. folio' \in [Guests -> FolioStatus] /\ DOMAIN bill' = Guests
    BY <1>1 DEF FolioStatus
  <2> QED BY <1>2, <2>1, <2>2, <2>3 DEF LedgerInv, TypeOK
<1>6. PostedIsCounted' /\ TipRows'
  BY <1>2, <1>3, <1>4 DEF LedgerInv, PostedIsCounted, TipRows
<1>7. OneLinePerRequest' /\ OneTipPerFolio'
  BY <1>2, <1>4 DEF LedgerInv, OneLinePerRequest, OneTipPerFolio, Live
<1>8. LineStockBalances'
  <2> SUFFICES ASSUME NEW l \in LineIds
               PROVE  moved'[l] = IF l \in DOMAIN lines' /\ ~lines'[l].voided /\ lines'[l].posted
                                    THEN -lines'[l].qty ELSE 0
    BY DEF LineStockBalances, Live
  <2>1. CASE l \in Unposted(g)
    <3>1. moved[l] = 0 /\ moved'[l] = moved[l] - lines[l].qty
      BY <1>2, <1>3, <2>1 DEF LedgerInv, LineStockBalances
    <3>2. /\ l \in DOMAIN lines' /\ ~lines'[l].voided /\ lines'[l].posted
          /\ lines'[l].qty = lines[l].qty
      BY <1>2, <1>3, <1>4, <2>1
    <3>3. moved'[l] = -lines[l].qty
      BY <1>3, <2>1, <3>1
    <3> QED BY <3>2, <3>3
  <2>2. CASE l \notin Unposted(g)
    BY <1>2, <1>4, <2>2 DEF LedgerInv, LineStockBalances, Live
  <2> QED BY <2>1, <2>2
<1>9. WritesOnly(g) /\ ChargesWrite(g)
  BY <1>1, <1>2, <1>3, <1>4 DEF WritesOnly, ChargesWrite
<1>10. ClosedFolioBalances'
  <2> SUFFICES ASSUME NEW h \in Guests, folio'[h] = "closed" PROVE Balanced(h)'
    BY DEF ClosedFolioBalances, Balanced
  <2>1. CASE h # g
    <3>1. Balanced(h) /\ bill'[h] = bill[h]
      BY <1>1, <2>1 DEF LedgerInv, ClosedFolioBalances, Balanced
    <3>2. Charges(h)' = Charges(h) /\ Unposted(h)' = Unposted(h)
      BY <1>9, <2>1, OthersUntouched
    <3> QED BY <3>1, <3>2 DEF Balanced
  <2>2. CASE h = g
    <3>1. LiveLines(g)' = LiveLines(g)
      BY <1>2, <1>4 DEF LiveLines, Live
    <3>2. Charges(g)' = Charges(g)
      <4>1. \A l \in LiveLines(g) : lines'[l].total = lines[l].total
        BY <1>4 DEF LiveLines
      <4> QED BY <3>1, <4>1 DEF Charges
    <3>3. Unposted(g)' = {}
      <4>1. \A l \in LiveLines(g) : lines'[l].counted => lines'[l].posted
        BY <1>4 DEF Unposted, LiveLines
      <4> QED BY <3>1, <4>1 DEF Unposted
    <3>4. bill'[g] = row /\ row.subtotal = SumFunction(Charges(g))
      BY <1>1, ChargesAre DEF BillOf
    <3> QED BY <2>2, <3>2, <3>3, <3>4 DEF Balanced, BillOf
  <2> QED BY <2>1, <2>2
<1> QED BY <1>5, <1>6, <1>7, <1>8, <1>9, <1>10 DEF LedgerInv
-----------------------------------------------------------------------------
(***************************************************************************)
(* Commits.                                                                *)
(***************************************************************************)
\* One unsettled folio's lines, movements, status and bill, or none but statuses.
FolioTouched ==
  \E h \in Guests :
    /\ folio[h] # "closed" /\ WritesOnly(h) /\ ChargesWrite(h)
    /\ \A g \in Guests \ {h} : folio'[g] = folio[g] /\ bill'[g] = bill[g]

LinesLeft ==
  /\ Quiet /\ bill' = bill
  /\ \A g \in Guests : folio[g] = "closed" => folio'[g] = "closed"

Orderly == LinesLeft \/ FolioTouched

\* A step that leaves the ledger alone is an orderly one.
LEMMA QuietIsOrderly == UNCHANGED ledger => Orderly
  BY DEF Orderly, LinesLeft, Quiet, ledger, vars

\* A commit that writes one guest, whose folio and trip it holds, spares the others.
LEMMA CommitKeeps ==
  ASSUME FolioTxInv, NEW p \in Procs, Finish(p), LedgerInv', NEW g \in Guests, WritesOnly(g),
         TripOf[g] \in Trips, owner[<<"trip", TripOf[g]>>] = p, owner[<<"folio", g>>] = p,
         UNCHANGED <<trip, revoked>>, \A h \in Guests \ {g} : folio'[h] = folio[h]
  PROVE  FolioTxInv'
<1>1. PICK r : r = Idle
  OBVIOUS
<1>2. tx' = [tx EXCEPT ![p] = r] /\ owner' = Released(p) /\ Takes(p)
  BY <1>1 DEF Finish, Takes
<1>3. TxGood(p, r, owner', trip', revoked', folio', lines')
  BY <1>1, <1>2, ReleasedAll, IdleGood
<1>4. ASSUME NEW q \in Procs \ {p} PROVE Spares(q)
  <2>1. \A row \in Rows : owner[row] = q <=> owner'[row] = q
    BY <1>2, <1>4, TakesSpares
  <2>2. \A t \in Trips, h \in Guests : owner[<<"trip", t>>] = q /\ TripOf[h] = t => SameLines(h)
    BY <1>4, OthersUntouched
  <2>3. \A h \in Guests : RowsOf(lines, h) \subseteq RowsOf(lines', h)
    BY DEF WritesOnly, RowsOf
  <2> QED BY <1>4, <2>1, <2>2, <2>3 DEF Spares
<1> QED BY <1>2, <1>3, <1>4, TakesSpares, StepKeeps

\* A commit that opens folios it holds keeps everything else.
LEMMA OpensKeep ==
  ASSUME FolioTxInv, NEW p \in Procs, Finish(p), UNCHANGED <<revoked, bill, lines, moved>>, TypeOK',
         \A g \in Guests : \/ folio'[g] = folio[g]
                           \/ /\ owner[<<"folio", g>>] = p
                              /\ folio[g] # "closed" /\ folio'[g] = "open",
         \A t \in Trips : trip[t] = "active" => trip'[t] = "active"
  PROVE  FolioTxInv' /\ Orderly
<1>1. PICK r : r = Idle
  OBVIOUS
<1>2. tx' = [tx EXCEPT ![p] = r] /\ owner' = Released(p) /\ Takes(p)
  BY <1>1 DEF Finish, Takes
<1>3. TxGood(p, r, owner', trip', revoked', folio', lines')
  BY <1>1, <1>2, ReleasedAll, IdleGood
<1>4. LedgerInv'
  BY LinesAsWere DEF FolioTxInv
<1>5. ASSUME NEW q \in Procs \ {p} PROVE Spares(q)
  BY <1>2, <1>5, TakesSpares DEF Spares, SameLines
<1>6. FolioTxInv'
  BY <1>2, <1>3, <1>4, <1>5, TakesSpares, StepKeeps
<1>7. Orderly
  BY DEF Orderly, LinesLeft, Quiet
<1> QED BY <1>6, <1>7

\* What an edit leaves in a line, and the units that follow it.
LEMMA EditedRow ==
  ASSUME NEW line \in Line, ~line.voided, line.posted => line.counted,
         NEW job \in Jobs, job.kind \in LineJobs, NEW row, row = Edited(line, job),
         NEW delta, delta = Returned(line, job)
  PROVE  /\ row \in Line /\ delta \in Int
         /\ row.guest = line.guest /\ row.type = line.type /\ row.request = line.request
         /\ row.counted = line.counted /\ row.posted = line.posted /\ row.item = line.item
         /\ Moves(row) = Moves(line) + delta
<1>1. /\ line.qty \in Nat \ {0} /\ line.unit \in Nat
      /\ line.posted \in BOOLEAN /\ line.counted \in BOOLEAN
  BY DEF Line
<1>2. CASE job.kind = "update"
  <2>1. PICK qty \in Nat \ {0} : qty = job.qty
    BY <1>2, JobsAre
  <2>2. PICK total \in Nat : total = line.unit * qty
    BY <1>1, <2>1, ProductNat
  <2>3. row = [line EXCEPT !.qty = qty, !.total = total]
    BY <1>2, <2>1, <2>2 DEF Edited
  <2>4. /\ row \in Line /\ row.guest = line.guest /\ row.type = line.type /\ row.request = line.request
        /\ row.counted = line.counted /\ row.posted = line.posted /\ row.item = line.item
        /\ row.qty = qty /\ ~row.voided
    BY <2>3 DEF Line
  <2>5. delta = IF line.posted THEN line.qty - qty ELSE 0
    BY <1>1, <1>2, <2>1 DEF Returned, Left
  <2>6. Moves(row) = Moves(line) + delta /\ delta \in Int
    BY <1>1, <2>4, <2>5 DEF Moves
  <2> QED BY <2>4, <2>6
<1>3. CASE job.kind = "retip"
  <2>1. PICK amount \in Nat : amount = job.amount
    BY <1>3, JobsAre
  <2>2. row = [line EXCEPT !.unit = amount, !.total = amount]
    BY <1>3, <2>1 DEF Edited
  <2>3. /\ row \in Line /\ row.guest = line.guest /\ row.type = line.type /\ row.request = line.request
        /\ row.counted = line.counted /\ row.posted = line.posted /\ row.item = line.item
        /\ row.qty = line.qty /\ ~row.voided
    BY <2>2 DEF Line
  <2>4. delta = 0
    BY <1>1, <1>3 DEF Returned, Left
  <2>5. Moves(row) = Moves(line) + delta
    BY <1>1, <2>3, <2>4 DEF Moves
  <2> QED BY <2>3, <2>4, <2>5
<1>4. CASE job.kind = "void"
  <2>1. row = [line EXCEPT !.voided = TRUE]
    BY <1>4 DEF Edited
  <2>2. /\ row \in Line /\ row.guest = line.guest /\ row.type = line.type /\ row.request = line.request
        /\ row.counted = line.counted /\ row.posted = line.posted /\ row.item = line.item
        /\ row.qty = line.qty /\ row.voided
    BY <2>1 DEF Line
  <2>3. delta = IF line.posted THEN line.qty ELSE 0
    BY <1>1, <1>4 DEF Returned, Left
  <2>4. Moves(row) = Moves(line) + delta /\ delta \in Int
    BY <1>1, <2>2, <2>3 DEF Moves
  <2> QED BY <2>2, <2>4
<1> QED BY <1>2, <1>3, <1>4 DEF LineJobs

\* The row a committing mutation writes: an edit of a line that stands, or a new line.
RowWritten(g, l, row, delta) ==
  /\ row \in Line /\ delta \in Int /\ row.guest = g /\ (row.posted => row.counted)
  /\ row.type = "crew_tip" => ~row.counted /\ row.request = NoRequest
  /\ l \in DOMAIN lines =>
       /\ lines[l].guest = g /\ lines[l].type = row.type /\ lines[l].request = row.request
       /\ ~lines[l].voided /\ Moves(row) = Moves(lines[l]) + delta
       /\ row.type = "catalog_item" => row.item = lines[l].item
  /\ l \notin DOMAIN lines =>
       /\ Moves(row) = delta
       /\ row.request # NoRequest => \A m \in RowsOf(lines, g) : lines[m].request # row.request
       /\ row.type = "crew_tip" => TipLines(g) = {}
       /\ row.type = "catalog_item" => row.item \in Items

\* It goes to the folio of the request's guest, which the request holds, on a voyage
\* that is under way.
LineCommits(p, l, g, row, delta) ==
  /\ g \in Guests /\ TripOf[g] \in Trips
  /\ owner[<<"trip", TripOf[g]>>] = p /\ owner[<<"folio", g>>] = p
  /\ trip[TripOf[g]] = "active" /\ ~revoked[g] /\ folio[g] # "closed"
  /\ folio' = [folio EXCEPT ![g] = "open"] /\ InsertLine(l, row)
  /\ moved' = [moved EXCEPT ![l] = @ + delta] /\ DOMAIN stock' = Items
  /\ UNCHANGED <<trip, revoked, catalog, feeRate, bill>> /\ Finish(p)
  /\ RowWritten(g, l, row, delta)
  /\ LedgerInv' /\ WritesOnly(g)

\* So does every line that is committed.
LEMMA LineCommitted ==
  ASSUME FolioTxInv, NEW p \in Procs, NEW l \in LineIds, CommitLine(p, l),
         NEW g, g = G(p), NEW row, row = tx[p].row, NEW delta, delta = tx[p].delta
  PROVE  LineCommits(p, l, g, row, delta)
<1>1. tx[p].at = "commit" /\ tx[p].job.kind \in Mutations /\ tx[p].row # Nothing
  BY DEF CommitLine, At, Kind
<1>0. PICK r : r = tx[p]
  OBVIOUS
<1>2. PICK job \in Jobs :
        /\ r = tx[p] /\ job = r.job /\ job.guest \in Guests /\ TripOf[job.guest] \in Trips
        /\ TxGood(p, r, owner, trip, revoked, folio, lines)
  BY <1>0, <1>1, Known
<1>3. g = job.guest /\ g \in Guests
  BY <1>2 DEF G
<1>4. /\ owner[<<"trip", TripOf[g]>>] = p /\ owner[<<"guest", g>>] = p /\ owner[<<"folio", g>>] = p
      /\ trip[TripOf[g]] = "active" /\ ~revoked[g] /\ folio[g] # "closed"
  BY <1>1, <1>2, <1>3 DEF TxGood, HoldsVoyage, HoldsFolio, Posting
<1>5. row = r.row /\ delta = r.delta
  BY <1>2
<1>6. /\ folio' = [folio EXCEPT ![g] = "open"] /\ InsertLine(l, row)
      /\ moved' = [moved EXCEPT ![l] = @ + delta] /\ DOMAIN stock' = Items
      /\ UNCHANGED <<trip, revoked, catalog, feeRate, bill>> /\ Finish(p)
  <2>1. row = tx[p].row /\ delta = tx[p].delta
    BY <1>2, <1>5
  <2>2. folio' = [folio EXCEPT ![g] = "open"] /\ InsertLine(l, row) /\ Finish(p)
    BY <1>3, <2>1 DEF CommitLine
  <2>3. moved' = [moved EXCEPT ![l] = @ + delta]
    BY <2>1 DEF CommitLine
  <2>4. DOMAIN stock' = Items /\ UNCHANGED <<trip, revoked, catalog, feeRate, bill>>
    BY DEF CommitLine, WriteStock, manifestVars, settingVars
  <2> QED BY <2>2, <2>3, <2>4
<1>7. LedgerInv /\ \A m \in DOMAIN lines : lines[m] \in Line /\ (lines[m].posted => lines[m].counted)
  BY DEF FolioTxInv, LedgerInv, TypeOK, PostedIsCounted
<1>8. RowWritten(g, l, row, delta)
  <2> USE DEF RowWritten
  <2>1. CASE job.kind = "add"
    <3>1. NewCharge(r, lines) /\ delta = Moves(row)
      BY <1>1, <1>2, <1>5, <2>1 DEF TxGood, Carries, Posting
    <3>2. l \notin DOMAIN lines
      BY <1>2, <2>1 DEF CommitLine, TargetLine, Kind
    <3>3. Moves(row) \in Int
      BY <1>5, <3>1 DEF NewCharge, Moves, Line
    <3> QED BY <1>2, <1>3, <1>5, <3>1, <3>2, <3>3 DEF NewCharge
  <2>2. CASE job.kind = "tip"
    <3>1. NewTip(r)
      BY <1>1, <1>2, <2>2 DEF TxGood, Carries, Posting
    <3>2. IF TipLines(g) = {} THEN l \notin DOMAIN lines ELSE l \in TipLines(g)
      BY <1>2, <1>3, <2>2 DEF CommitLine, TargetLine, Kind
    <3>3. Moves(row) = 0
      BY <1>5, <3>1 DEF NewTip, Moves
    <3>4. ASSUME l \in TipLines(g)
          PROVE  /\ l \in DOMAIN lines /\ lines[l].guest = g /\ lines[l].type = "crew_tip"
                 /\ ~lines[l].voided /\ lines[l].request = NoRequest /\ Moves(lines[l]) = 0
      <4>1. /\ l \in DOMAIN lines /\ lines[l].guest = g /\ lines[l].type = "crew_tip"
            /\ ~lines[l].voided
        BY <3>4 DEF TipLines, LiveLines, Live
      <4>2. lines[l].request = NoRequest /\ ~lines[l].posted
        BY <1>7, <4>1 DEF LedgerInv, TipRows
      <4> QED BY <4>1, <4>2 DEF Moves
    <3>5. /\ row \in Line /\ row.guest = g /\ row.type = "crew_tip" /\ row.request = NoRequest
          /\ ~row.posted /\ ~row.counted /\ delta = 0
      BY <1>2, <1>3, <1>5, <3>1 DEF NewTip
    <3>6. CASE l \in TipLines(g)
      BY <3>3, <3>4, <3>5, <3>6
    <3>7. CASE l \notin DOMAIN lines /\ TipLines(g) = {}
      BY <3>3, <3>5, <3>7
    <3> QED BY <3>2, <3>6, <3>7
  <2>3. CASE job.kind \in LineJobs
    <3>1. /\ job.line \in RowsOf(lines, g) /\ ~lines[job.line].voided
          /\ row = Edited(lines[job.line], job) /\ delta = Returned(lines[job.line], job)
      BY <1>1, <1>2, <1>3, <1>5, <2>3 DEF TxGood, Carries, Posting
    <3>2. l = job.line
      BY <1>2, <2>3 DEF CommitLine, TargetLine, Kind, LineJobs
    <3>3. PICK line \in Line : /\ line = lines[l] /\ l \in DOMAIN lines /\ line.guest = g
                               /\ ~line.voided /\ (line.posted => line.counted)
      BY <1>7, <3>1, <3>2 DEF RowsOf
    <3>4. line.type = "crew_tip" => ~line.counted /\ line.request = NoRequest
      BY <1>7, <3>3 DEF LedgerInv, TipRows
    <3>5. /\ row \in Line /\ delta \in Int
          /\ row.guest = line.guest /\ row.type = line.type /\ row.request = line.request
          /\ row.counted = line.counted /\ row.posted = line.posted /\ row.item = line.item
          /\ Moves(row) = Moves(line) + delta
      BY <2>3, <3>1, <3>2, <3>3, EditedRow
    <3>6. row.posted => row.counted
      BY <3>3, <3>5
    <3>7. row.type = "crew_tip" => ~row.counted /\ row.request = NoRequest
      BY <3>4, <3>5
    <3>8. /\ lines[l].guest = g /\ lines[l].type = row.type /\ lines[l].request = row.request
          /\ ~lines[l].voided /\ Moves(row) = Moves(lines[l]) + delta /\ row.item = lines[l].item
      BY <3>3, <3>5
    <3> QED BY <3>3, <3>5, <3>6, <3>7, <3>8
  <2> QED BY <1>1, <1>2, <2>1, <2>2, <2>3 DEF Mutations
<1>9. LedgerInv' /\ WritesOnly(g)
  BY <1>3, <1>6, <1>7, <1>8, LineWritten DEF RowWritten
<1> QED BY <1>2, <1>3, <1>4, <1>6, <1>8, <1>9 DEF LineCommits

\* Committing a line keeps what everyone carries true.
LEMMA CommitLineKeeps ==
  ASSUME FolioTxInv, NEW p \in Procs, NEW l \in LineIds, CommitLine(p, l)
  PROVE  FolioTxInv' /\ Orderly
<1>1. PICK g, row, delta : g = G(p) /\ row = tx[p].row /\ delta = tx[p].delta
  OBVIOUS
<1>2. /\ g \in Guests /\ TripOf[g] \in Trips
      /\ owner[<<"trip", TripOf[g]>>] = p /\ owner[<<"folio", g>>] = p
      /\ trip[TripOf[g]] = "active" /\ ~revoked[g] /\ folio[g] # "closed"
      /\ folio' = [folio EXCEPT ![g] = "open"] /\ UNCHANGED <<trip, revoked, bill>>
      /\ Finish(p) /\ LedgerInv' /\ WritesOnly(g)
  <2>1. LineCommits(p, l, g, row, delta)
    BY <1>1, LineCommitted
  <2> QED BY <2>1 DEF LineCommits
<1>3. \A h \in Guests \ {g} : folio'[h] = folio[h] /\ bill'[h] = bill[h]
  BY <1>2 DEF FolioTxInv, LedgerInv, TypeOK
<1>4. Orderly
  BY <1>2, <1>3 DEF Orderly, FolioTouched, ChargesWrite
<1> QED BY <1>2, <1>3, <1>4, CommitKeeps

\* Committing a settlement keeps what everyone carries true.
LEMMA CommitCloseKeeps ==
  ASSUME FolioTxInv, NEW p \in Procs, CommitClose(p)
  PROVE  /\ FolioTxInv' /\ Orderly
         /\ G(p) \in Guests /\ WritesOnly(G(p)) /\ folio[G(p)] # "closed"
         /\ owner[<<"folio", G(p)>>] = p
<1>1. tx[p].at = "commit" /\ tx[p].job.kind = "close"
      /\ TxGood(p, tx[p], owner, trip, revoked, folio, lines)
  <2>1. tx[p].at = "commit" /\ tx[p].job.kind = "close"
    BY DEF CommitClose, At, Kind
  <2> QED BY <2>1, Known
<1>2. PICK g \in Guests : g = tx[p].job.guest /\ g = G(p) /\ TripOf[g] \in Trips
  BY <1>1, Known DEF G
<1>3. /\ owner[<<"trip", TripOf[g]>>] = p /\ owner[<<"folio", g>>] = p /\ folio[g] # "closed"
      /\ BillOf(tx[p].row, lines, g)
  BY <1>1, <1>2 DEF TxGood, HoldsVoyage, HoldsFolio, Carries, Posting
<1>4. PICK row : row = tx[p].row
  OBVIOUS
<1>5. /\ folio' = [folio EXCEPT ![g] = "closed"] /\ bill' = [bill EXCEPT ![g] = row]
      /\ lines' = [l \in DOMAIN lines |->
                     IF l \in Unposted(g) THEN MarkPosted(lines[l]) ELSE lines[l]]
      /\ moved' = [l \in LineIds |->
                     IF l \in Unposted(g) THEN moved[l] - lines[l].qty ELSE moved[l]]
      /\ DOMAIN stock' = Items /\ UNCHANGED <<trip, revoked, catalog, feeRate>> /\ Finish(p)
  BY <1>2, <1>4 DEF CommitClose, WriteStock, manifestVars, settingVars
<1>6. LedgerInv' /\ WritesOnly(g) /\ ChargesWrite(g)
  BY <1>3, <1>4, <1>5, FolioSettled DEF FolioTxInv
<1>7. \A h \in Guests \ {g} : folio'[h] = folio[h] /\ bill'[h] = bill[h]
  BY <1>5 DEF FolioTxInv, LedgerInv, TypeOK
<1>8. Orderly
  BY <1>3, <1>6, <1>7 DEF Orderly, FolioTouched
<1> QED BY <1>2, <1>3, <1>5, <1>6, <1>7, <1>8, CommitKeeps

\* A resent request commits nothing new; an opening opens its folio.
LEMMA CommitDuplicateKeeps ==
  ASSUME FolioTxInv, NEW p \in Procs, CommitDuplicate(p) \/ CommitOpen(p)
  PROVE  FolioTxInv' /\ Orderly
<1>1. /\ (tx[p].at = "commit" /\ tx[p].job.kind = "add") \/ tx[p].at = "keys"
      /\ folio' = [folio EXCEPT ![G(p)] = "open"] /\ Finish(p)
      /\ UNCHANGED <<trip, revoked, catalog, feeRate, bill, lines, moved, stock>>
  BY DEF CommitDuplicate, CommitOpen, At, Kind, manifestVars, settingVars, lineVars
<1>2. TxGood(p, tx[p], owner, trip, revoked, folio, lines) /\ tx[p].job.kind \in Mutations \cup {"open"}
  BY <1>1, Known DEF TxGood, RightKind, Mutations
<1>3. PICK g \in Guests : g = tx[p].job.guest /\ g = G(p)
  BY <1>1, <1>2, Known DEF G
<1>4. owner[<<"folio", g>>] = p /\ folio[g] # "closed"
  BY <1>1, <1>2, <1>3 DEF TxGood, HoldsFolio, Posting, Mutations
<1>5. folio \in [Guests -> FolioStatus]
  BY DEF FolioTxInv, LedgerInv, TypeOK
<1>6. TypeOK'
  <2>1. folio' \in [Guests -> FolioStatus]
    BY <1>1, <1>3, <1>5 DEF FolioStatus
  <2> QED BY <1>1, <2>1 DEF FolioTxInv, LedgerInv, TypeOK
<1>7. \A h \in Guests : folio'[h] = IF h = g THEN "open" ELSE folio[h]
  BY <1>1, <1>3, <1>5
<1> QED BY <1>1, <1>4, <1>6, <1>7, OpensKeep

\* A trip starts with the folios of its guests open.
LEMMA CommitStartKeeps ==
  ASSUME FolioTxInv, NEW p \in Procs, CommitStart(p)
  PROVE  FolioTxInv' /\ Orderly
<1>1. tx[p].at = "commit" /\ tx[p].job.kind = "start"
      /\ TxGood(p, tx[p], owner, trip, revoked, folio, lines)
  <2>1. tx[p].at = "commit" /\ tx[p].job.kind = "start"
    BY DEF CommitStart, At, Kind
  <2> QED BY <2>1, Known
<1>2. /\ trip' = [trip EXCEPT ![T(p)] = "active"] /\ Finish(p)
      /\ folio' = [g \in Guests |-> IF owner[<<"folio", g>>] = p THEN "open" ELSE folio[g]]
      /\ UNCHANGED <<revoked, catalog, feeRate, bill, lines, moved, stock>>
  BY DEF CommitStart, Folio, settingVars, lineVars
<1>3. folio \in [Guests -> FolioStatus] /\ trip \in [Trips -> TripStatus]
  BY DEF FolioTxInv, LedgerInv, TypeOK
<1>4. TypeOK'
  <2>1. folio' \in [Guests -> FolioStatus] /\ trip' \in [Trips -> TripStatus]
    BY <1>2, <1>3 DEF FolioStatus, TripStatus
  <2> QED BY <1>2, <2>1 DEF FolioTxInv, LedgerInv, TypeOK
<1>5. \A g \in Guests : \/ folio'[g] = folio[g]
                        \/ /\ owner[<<"folio", g>>] = p
                           /\ folio[g] # "closed" /\ folio'[g] = "open"
  BY <1>1, <1>2 DEF TxGood, HoldsFolio
<1>6. \A t \in Trips : trip[t] = "active" => trip'[t] = "active"
  BY <1>2, <1>3
<1> QED BY <1>2, <1>4, <1>5, <1>6, OpensKeep
-----------------------------------------------------------------------------
(***************************************************************************)
(* The steps of one statement and one row, and a request's first step.     *)
(***************************************************************************)
LEMMA BeginKeeps ==
  ASSUME FolioTxInv, NEW p \in Procs, NEW job \in Jobs, Begin(p, job)
  PROVE  FolioTxInv'
<1>1. /\ tx[p].at = "idle" /\ \A row \in Rows : owner[row] # p
      /\ TxGood(p, tx[p], owner, trip, revoked, folio, lines)
  BY DEF Begin, At, FolioTxInv, TxGood
<1>2. job.kind \in Mutations \cup {"close", "open", "start"}
  BY JobsAre
<1>3. PICK at : /\ at = CASE job.kind = "close" -> "folio"
                          [] job.kind = "open" -> "check"
                          [] OTHER -> "trip"
  OBVIOUS
<1>4. /\ job.kind = "close" => at = "folio"
      /\ job.kind = "open" => at = "check"
      /\ job.kind \in Mutations \cup {"start"} => at = "trip"
  BY <1>3 DEF Mutations, LineJobs
<1>5. PICK r : r = [Idle EXCEPT !.job = job, !.at = at]
  OBVIOUS
<1>6. DOMAIN r = TxFields /\ r.job = job /\ r.at = at /\ r.row = Nothing
  BY <1>5 DEF Idle, TxFields
<1>7. tx' = [tx EXCEPT ![p] = r] /\ Read(p)
  BY <1>3, <1>5 DEF Begin
<1>8. job.kind \in LineJobs => job.line \in RowsOf(lines, job.guest)
  BY DEF Begin, RowsOf
<1>9. RightKind(r) /\ HoldsVoyage(p, r, owner, trip, revoked)
  BY <1>2, <1>4, <1>6 DEF RightKind, HoldsVoyage, Posting, Mutations, LineJobs
<1>10. HoldsFolio(p, r, owner, folio)
  BY <1>1, <1>2, <1>4, <1>6, RowsAre DEF HoldsFolio, Posting, Mutations, LineJobs
<1>11. Carries(r, lines)
  BY <1>2, <1>4, <1>6, <1>8 DEF Carries, Posting, Mutations, LineJobs
<1>12. TxGood(p, r, owner, trip, revoked, folio, lines)
  BY <1>1, <1>2, <1>4, <1>6, <1>9, <1>10, <1>11 DEF TxGood
<1>13. UNCHANGED ledger /\ owner' = owner /\ Takes(p)
  BY <1>7 DEF Read, Takes
<1> QED BY <1>7, <1>12, <1>13, QuietStep

Aside ==
  \/ \E t \in Trips : CompleteOrCancel(t)
  \/ \E g \in Guests, r \in BOOLEAN : SetRevoked(g, r)
  \/ \E i \in Items, n \in 0..MaxStock : Recount(i, n)
  \/ Edit

\* What the neighbours change keeps the ledger and the requests under way.
LEMMA AsideKeeps == ASSUME FolioTxInv, Aside PROVE FolioTxInv' /\ Orderly
<1>1. /\ UNCHANGED <<folio, bill, lines, moved, tx, owner>>
      /\ trip \in [Trips -> TripStatus] /\ revoked \in [Guests -> BOOLEAN]
  BY DEF Aside, CompleteOrCancel, CompleteTrip, CancelTrip, SetRevoked, Recount, Edit,
         UpdateCatalogItem, UpdatePaymentSettings, manifestVars, settingVars, lineVars,
         FolioTxInv, LedgerInv, TypeOK
<1>2. TypeOK'
  BY DEF Aside, CompleteOrCancel, CompleteTrip, CancelTrip, SetRevoked, Recount, Edit,
         UpdateCatalogItem, UpdatePaymentSettings, manifestVars, settingVars, lineVars,
         FolioTxInv, LedgerInv, TypeOK, TripStatus
<1>3. /\ \A t \in Trips : owner[<<"trip", t>>] \in Procs => trip'[t] = trip[t]
      /\ \A g \in Guests : owner[<<"guest", g>>] \in Procs => revoked'[g] = revoked[g]
  <2>1. ASSUME NEW t \in Trips, CompleteOrCancel(t) PROVE <1>3!1 /\ <1>3!2
    BY <1>1, <2>1, ProcAssumption
       DEF CompleteOrCancel, CompleteTrip, CancelTrip, Free, Trip
  <2>2. ASSUME NEW h \in Guests, NEW r \in BOOLEAN, SetRevoked(h, r) PROVE <1>3!1 /\ <1>3!2
    BY <1>1, <2>2, ProcAssumption DEF SetRevoked, Free, Guest
  <2>3. CASE \E i \in Items, n \in 0..MaxStock : Recount(i, n)
    BY <2>3 DEF Recount, manifestVars
  <2>4. CASE Edit
    BY <2>4 DEF Edit, UpdateCatalogItem, UpdatePaymentSettings, manifestVars
  <2> QED BY <2>1, <2>2, <2>3, <2>4 DEF Aside
<1>4. ASSUME NEW q \in Procs PROVE Spares(q)
  BY <1>1, <1>3 DEF Spares, SameLines
<1>5. LedgerInv'
  BY <1>1, <1>2, LinesAsWere DEF FolioTxInv
<1>6. ASSUME NEW q \in Procs PROVE TxGood(q, tx'[q], owner', trip', revoked', folio', lines')
  <2>1. TxGood(q, tx[q], owner, trip, revoked, folio, lines) /\ tx'[q] = tx[q]
    BY <1>1 DEF FolioTxInv
  <2>2. TxGood(q, tx[q], owner', trip', revoked', folio', lines')
    BY <1>4, <2>1, SparedStaysGood
  <2> QED BY <2>1, <2>2
<1>7. FolioTxInv'
  BY <1>1, <1>5, <1>6 DEF FolioTxInv
<1> QED BY <1>1, <1>7 DEF Orderly, LinesLeft, Quiet

-----------------------------------------------------------------------------
(***************************************************************************)
(* Every step.                                                             *)
(***************************************************************************)
\* The statements that commit nothing.
Underway(p) ==
  \/ LockTripAndGuest(p) \/ FindFolio(p) \/ InsertFolio(p) \/ CheckOpen(p)
  \/ ReadItem(p) \/ ReadPrice(p) \/ ReadTip(p) \/ ReadLine(p)
  \/ ReadManifest(p) \/ LockTripToClose(p) \/ ReadBill(p) \/ ReadLate(p)
  \/ FindStock(p) \/ InsertStock(p) \/ MoreStock(p)
  \/ LockTripToStart(p) \/ ReadGuests(p) \/ InsertFolios(p)

\* Every statement before the commit keeps the invariant.
LEMMA UnderwayKeeps ==
  ASSUME FolioTxInv, NEW p \in Procs, Waits(p) = {}, Underway(p)
  PROVE  FolioTxInv'
BY LockTripAndGuestKeeps, FindFolioKeeps, InsertFolioKeeps, CheckOpenKeeps, ReadItemKeeps,
   ReadPriceKeeps, ReadTipKeeps, ReadLineKeeps, ReadManifestKeeps, LockTripToCloseKeeps,
   ReadBillKeeps, PickStockKeeps, FindStockKeeps, LockTripToStartKeeps, ReadGuestsKeeps,
   InsertFoliosKeeps DEF Underway

\* No statement before the commit publishes anything.
LEMMA UnderwayQuiet ==
  ASSUME FolioTxInv, NEW p \in Procs, Underway(p) PROVE UNCHANGED ledger
<1>1. CASE Fail(p) \/ Read(p) \/ Lock(p)
  BY <1>1 DEF Fail, Read, Lock
<1>2. CASE LockTripAndGuest(p) \/ InsertFolio(p) \/ CheckOpen(p)
  BY <1>1, <1>2 DEF LockTripAndGuest, InsertFolio, CheckOpen
<1>7. CASE FindFolio(p)
  <2>1. tx[p].at = "folio"
    BY <1>7 DEF FindFolio, At
  <2>2. G(p) \in Guests
    BY <2>1, Known DEF G, TxGood, RightKind
  <2>3. folio[G(p)] \in {"none", "open", "closed"}
    BY <2>2 DEF FolioTxInv, LedgerInv, TypeOK, FolioStatus
  <2> QED BY <1>1, <1>7, <2>3 DEF FindFolio
<1>3. CASE ReadItem(p) \/ ReadPrice(p) \/ ReadTip(p) \/ ReadLine(p)
  <2>1. CASE ReadItem(p)
    BY <1>1, <2>1 DEF ReadItem
  <2>2. CASE ReadLine(p)
    BY <1>1, <2>2 DEF ReadLine
  <2>3. CASE ReadPrice(p) \/ ReadTip(p)
    BY <1>1, <2>3 DEF ReadPrice, ReadTip
  <2> QED BY <1>3, <2>1, <2>2, <2>3
<1>4. CASE ReadManifest(p) \/ LockTripToClose(p) \/ ReadBill(p) \/ ReadLate(p)
  BY <1>1, <1>4 DEF ReadManifest, LockTripToClose, ReadBill, ReadLate
<1>5. CASE FindStock(p) \/ InsertStock(p) \/ MoreStock(p)
  BY <1>1, <1>5 DEF FindStock, InsertStock, SeeStock, MoreStock
<1>6. CASE LockTripToStart(p) \/ ReadGuests(p) \/ InsertFolios(p)
  BY <1>1, <1>6 DEF LockTripToStart, ReadGuests, InsertFolios
<1> QED BY <1>2, <1>3, <1>4, <1>5, <1>6, <1>7 DEF Underway

\* A step of a process is a statement under way, or a commit.
LEMMA StepIs ==
  ASSUME NEW p \in Procs, Step(p)
  PROVE  /\ Waits(p) = {}
         /\ \/ Underway(p)
            \/ \E l \in LineIds : CommitLine(p, l)
            \/ CommitDuplicate(p) \/ CommitOpen(p) \/ CommitClose(p) \/ CommitStart(p)
  BY DEF Step, Underway

\* Every step keeps the invariant, and changes the ledger in order only.
LEMMA StaysOrderly == FolioTxInv /\ [TxNext]_txVars => FolioTxInv' /\ Orderly
<1> SUFFICES ASSUME FolioTxInv, [TxNext]_txVars PROVE FolioTxInv' /\ Orderly
  OBVIOUS
<1>1. ASSUME NEW p \in Procs, NEW job \in Jobs, Begin(p, job) PROVE FolioTxInv' /\ Orderly
  BY <1>1, BeginKeeps, QuietIsOrderly DEF Begin, Read
<1>2. ASSUME NEW p \in Procs, Step(p) PROVE FolioTxInv' /\ Orderly
  <2>1. CASE Waits(p) = {} /\ Underway(p)
    BY <2>1, UnderwayKeeps, UnderwayQuiet, QuietIsOrderly
  <2> QED BY <1>2, <2>1, StepIs, CommitLineKeeps, CommitDuplicateKeeps, CommitCloseKeeps,
             CommitStartKeeps
<1>3. ASSUME NEW p \in Procs, Disconnect(p) \/ BreakDeadlock(p) PROVE FolioTxInv' /\ Orderly
  <2>1. Fail(p) /\ UNCHANGED ledger
    BY <1>3 DEF Disconnect, BreakDeadlock, Fail
  <2> QED BY <2>1, FailKeeps, QuietIsOrderly
<1>4. CASE Aside
  BY <1>4, AsideKeeps
<1>5. CASE UNCHANGED txVars
  <2>1. UNCHANGED <<ledger, tx, owner>>
    BY <1>5 DEF txVars
  <2>2. LedgerInv' /\ Orderly
    BY <2>1, LedgerAsWas, QuietIsOrderly DEF FolioTxInv
  <2>3. UNCHANGED <<trip, revoked, folio, lines>>
    BY <2>1 DEF ledger, vars
  <2> QED BY <2>1, <2>2, <2>3 DEF FolioTxInv
<1> QED BY <1>1, <1>2, <1>3, <1>4, <1>5 DEF TxNext, Aside

\* The invariant holds to begin with.
LEMMA StartsGood == TxInit => FolioTxInv
<1> SUFFICES ASSUME TxInit PROVE FolioTxInv
  OBVIOUS
<1>1. TypeOK /\ PostedIsCounted /\ LineStockBalances
  BY InitBalance DEF TxInit, BalanceInv
<1>2. \A l \in DOMAIN lines : lines[l].type = "catalog_item" /\ lines[l].request = NoRequest
  <2>1. \A l \in DOMAIN lines : lines[l] \in LegacyLines
    BY DEF TxInit, Init
  <2> QED BY <2>1 DEF LegacyLines
<1>3. TipRows /\ OneLinePerRequest /\ OneTipPerFolio
  BY <1>2 DEF TipRows, OneLinePerRequest, OneTipPerFolio
<1>4. ClosedFolioBalances
  BY DEF TxInit, Init, ClosedFolioBalances
<1>5. DOMAIN owner = Rows /\ \A p \in Procs, row \in Rows : owner[row] # p
  BY ProcAssumption DEF TxInit
<1>6. DOMAIN tx = Procs /\ \A p \in Procs : tx[p] = Idle
  BY DEF TxInit
<1>7. \A p \in Procs : TxGood(p, Idle, owner, trip, revoked, folio, lines)
  BY <1>5, IdleGood
<1> QED BY <1>1, <1>3, <1>4, <1>5, <1>6, <1>7 DEF FolioTxInv, LedgerInv

\* In every reachable state, what each request carries is true of the rows it holds.
THEOREM FolioTxInvariant == TxSpec => []FolioTxInv
<1>1. FolioTxInv /\ [TxNext]_txVars => FolioTxInv'
  BY StaysOrderly
<1> QED BY StartsGood, <1>1, PTL DEF TxSpec

\* The movements of a line add up to what is charged for it, however edits, voids and
\* settlements of several devices interleave, fail and are retried.
THEOREM TransactionsBalance == TxSpec => []LineStockBalances
<1>1. FolioTxInv => LineStockBalances
  BY DEF FolioTxInv, LedgerInv
<1> QED BY FolioTxInvariant, <1>1, PTL

\* A charge sent again while the first is still in flight, or after it was lost, is one
\* line: the look at the guest's lines happens under locks their writers hold.
THEOREM TransactionsChargeOnce == TxSpec => []OneLinePerRequest
<1>1. FolioTxInv => OneLinePerRequest
  BY DEF FolioTxInv, LedgerInv
<1> QED BY FolioTxInvariant, <1>1, PTL

\* Two devices adding a tip at once leave one tip.
THEOREM TransactionsTipOnce == TxSpec => []OneTipPerFolio
<1>1. FolioTxInv => OneTipPerFolio
  BY DEF FolioTxInv, LedgerInv
<1> QED BY FolioTxInvariant, <1>1, PTL

\* The bill computed several statements before the commit is still the bill of the lines
\* when it is written, and of the settled folio ever after.
THEOREM TransactionsSettle == TxSpec => []ClosedFolioBalances
<1>1. FolioTxInv => ClosedFolioBalances
  BY DEF FolioTxInv, LedgerInv
<1> QED BY FolioTxInvariant, <1>1, PTL

\* A settled folio never changes again, not even by a request that read it while open.
THEOREM TransactionsFreeze == TxSpec => ClosedFolioFrozen
<1>1. FolioTxInv /\ [TxNext]_txVars =>
        [\A g \in Guests : folio[g] = "closed" =>
           /\ folio'[g] = "closed"
           /\ bill'[g] = bill[g]
           /\ \A l \in DOMAIN lines' : lines'[l].guest = g =>
                /\ l \in DOMAIN lines
                /\ lines'[l] = lines[l]
                /\ moved'[l] = moved[l]]_vars
  <2> SUFFICES ASSUME Orderly, NEW g \in Guests, folio[g] = "closed"
               PROVE  /\ folio'[g] = "closed" /\ bill'[g] = bill[g]
                      /\ \A l \in DOMAIN lines' : lines'[l].guest = g =>
                           l \in DOMAIN lines /\ lines'[l] = lines[l] /\ moved'[l] = moved[l]
    BY StaysOrderly
  <2>1. CASE LinesLeft
    BY <2>1 DEF LinesLeft, Quiet
  <2>2. CASE FolioTouched
    BY <2>2 DEF FolioTouched, WritesOnly
  <2> QED BY <2>1, <2>2 DEF Orderly
<1> QED BY <1>1, FolioTxInvariant, PTL DEF TxSpec, ClosedFolioFrozen

\* Charges move only while the voyage is under way and the guest on its manifest, at the
\* moment of the commit, though both were looked at several statements before.
THEOREM TransactionsUnderWay == TxSpec => ChargesMoveOnlyUnderWay
<1>1. FolioTxInv /\ [TxNext]_txVars =>
        [\A g \in Guests :
           (trip[TripOf[g]] # "active" \/ revoked[g]) => Charges(g)' = Charges(g)]_vars
  <2> SUFFICES ASSUME Orderly, NEW g \in Guests, trip[TripOf[g]] # "active" \/ revoked[g]
               PROVE  Charges(g)' = Charges(g)
    BY StaysOrderly
  <2>1. CASE LinesLeft
    BY <2>1 DEF LinesLeft, Quiet, Charges, LiveLines, Live
  <2>2. ASSUME NEW h \in Guests, h # g, WritesOnly(h) PROVE Charges(g)' = Charges(g)
    BY <2>2, OthersUntouched
  <2>3. ASSUME ChargesWrite(g) PROVE Charges(g)' = Charges(g)
    <3>1. /\ DOMAIN lines' = DOMAIN lines
          /\ \A l \in DOMAIN lines :
               /\ lines'[l].guest = lines[l].guest /\ lines'[l].voided = lines[l].voided
               /\ lines'[l].total = lines[l].total
      BY <2>3 DEF ChargesWrite
    <3>2. LiveLines(g)' = LiveLines(g)
      BY <3>1 DEF LiveLines, Live
    <3>3. \A l \in LiveLines(g) : lines'[l].total = lines[l].total
      BY <3>1 DEF LiveLines
    <3> QED BY <3>2, <3>3 DEF Charges
  <2> QED BY <2>1, <2>2, <2>3 DEF Orderly, FolioTouched
<1> QED BY <1>1, FolioTxInvariant, PTL DEF TxSpec, ChargesMoveOnlyUnderWay

-----------------------------------------------------------------------------
(***************************************************************************)
(* Counts.  A request writes counts it read several statements before, each *)
(* under its row's lock; the invariant says that the counts it carries are  *)
(* still the rows', and that by its commit it has read exactly those its    *)
(* lines will move.                                                        *)
(***************************************************************************)
\* The items a folio still owes the boat's stock.
LateItems(rows, g) ==
  {rows[l].item : l \in {m \in RowsOf(rows, g) :
                           ~rows[m].voided /\ rows[m].counted /\ ~rows[m].posted}}

\* The items whose counts a request that is posting must read.
ItemsToMove(r, rows) ==
  IF r.job.kind = "close" THEN LateItems(rows, r.job.guest)
  ELSE IF r.delta = 0 THEN {} ELSE {r.row.item}

SeenUnderLock(p, r, owners, counts) ==
  \A i \in DOMAIN r.seen :
    i \in Items /\ owners[<<"stock", i>>] = p /\ r.seen[i] = counts[i]

\* What has been read, what is being read and what is left to read make up the whole.
ReadsWhatItMoves(r, rows) ==
  /\ r.at \notin Posting => DOMAIN r.seen = {} /\ r.delta = 0
  /\ r.job.kind = "start" => DOMAIN r.seen = {}
  /\ r.job.kind # "start" /\ r.at \notin Posting => r.todo = {}
  /\ r.job.kind # "start" /\ r.at \in Posting =>
       /\ ItemsToMove(r, rows) \subseteq Items
       /\ r.todo \subseteq Items
       /\ r.at \in {"stock", "insertStock"} =>
            DOMAIN r.seen \cup {r.next} \cup r.todo = ItemsToMove(r, rows)
       /\ r.at = "stocked" => DOMAIN r.seen \cup r.todo = ItemsToMove(r, rows)
       /\ r.at = "commit" => DOMAIN r.seen = ItemsToMove(r, rows)

CountGood(p, r, owners, counts, rows) ==
  /\ r.at = "idle" => r = Idle
  /\ r.delta \in Int /\ r.todo \subseteq Guests \cup Items
  /\ r.at # "idle" => SeenUnderLock(p, r, owners, counts) /\ ReadsWhatItMoves(r, rows)

\* A line with an item is a line of the catalog's.
ItemRows == \A l \in DOMAIN lines : lines[l].type = "catalog_item" => lines[l].item \in Items

CountInv ==
  /\ CountsAreNumbers /\ ItemRows
  /\ owner \in [Rows -> Procs \cup {NoProc}]
  /\ stockRows \subseteq Items
  /\ \A i \in Items \ stockRows : stock[i] = 0
  /\ \A p \in Procs : CountGood(p, tx[p], owner, stock, lines)

\* The lines settlement posts are those whose items it reads.
LEMMA LateItemsAre ==
  ASSUME NEW g
  PROVE  LateItems(lines, g) = {lines[l].item : l \in Unposted(g)}
<1>1. {m \in RowsOf(lines, g) : ~lines[m].voided /\ lines[m].counted /\ ~lines[m].posted}
        = Unposted(g)
  BY DEF RowsOf, Unposted, LiveLines, Live
<1> QED BY <1>1 DEF LateItems

\* They are items: tips are never counted.
LEMMA LateItemsAreItems ==
  ASSUME FolioTxInv, ItemRows, NEW g
  PROVE  LateItems(lines, g) \subseteq Items
<1>1. ASSUME NEW l \in DOMAIN lines, lines[l].counted PROVE lines[l].item \in Items
  <2>1. lines[l] \in Line /\ lines[l].type # "crew_tip"
    BY <1>1 DEF FolioTxInv, LedgerInv, TypeOK, TipRows
  <2> QED BY <2>1 DEF ItemRows, Line
<1> QED BY <1>1 DEF LateItems, RowsOf

\* Every item has a row to lock, there or not.
LEMMA StockRowsAre == \A i \in Items : <<"stock", i>> \in Rows
  BY DEF Rows

\* A request that is over carries no count.
LEMMA IdleCounts ==
  ASSUME NEW p, NEW owners, NEW counts, NEW rows
  PROVE  CountGood(p, Idle, owners, counts, rows)
<1>1. Idle.at = "idle" /\ Idle.delta = 0 /\ Idle.todo = {}
  BY DEF Idle
<1> QED BY <1>1 DEF CountGood

\* Locks are taken from nobody and given up to nobody.
LEMMA TakesType ==
  ASSUME NEW p \in Procs, Takes(p), owner \in [Rows -> Procs \cup {NoProc}]
  PROVE  owner' \in [Rows -> Procs \cup {NoProc}]
  BY DEF Takes, Granted, Released

\* A step that leaves the ledger and the stock rows alone, and the request that took it
\* good, leaves every count good.
LEMMA CountsStay ==
  ASSUME FolioTxInv, CountInv, NEW p \in Procs, NEW r, tx' = [tx EXCEPT ![p] = r],
         UNCHANGED <<ledger, stockRows>>, Takes(p), CountGood(p, r, owner', stock, lines)
  PROVE  CountInv'
<1>1. UNCHANGED <<stock, lines, stockRows>> /\ owner' \in [Rows -> Procs \cup {NoProc}]
  BY TakesType DEF ledger, vars, CountInv
<1>2. ASSUME NEW q \in Procs PROVE CountGood(q, tx'[q], owner', stock', lines')
  <2>1. CASE q = p
    BY <1>1, <2>1 DEF FolioTxInv
  <2>2. CASE q # p
    <3>1. tx'[q] = tx[q] /\ CountGood(q, tx[q], owner, stock, lines)
      BY <2>2 DEF CountInv
    <3>2. \A i \in Items : owner[<<"stock", i>>] = q => owner'[<<"stock", i>>] = q
      BY <2>2, TakesSpares, StockRowsAre
    <3> QED BY <1>1, <3>1, <3>2 DEF CountGood, SeenUnderLock
  <2> QED BY <2>1, <2>2
<1> QED BY <1>1, <1>2 DEF CountInv, CountsAreNumbers, ItemRows

\* A request that is rolled back leaves the counts of the others good.
LEMMA FailCounts ==
  ASSUME FolioTxInv, CountInv, NEW p \in Procs, Fail(p)
  PROVE  CountInv'
<1>1. PICK r : r = Idle
  OBVIOUS
<1>2. /\ tx' = [tx EXCEPT ![p] = r] /\ UNCHANGED <<ledger, stockRows>> /\ Takes(p)
  BY <1>1 DEF Fail, Finish, Takes
<1> QED BY <1>1, <1>2, IdleCounts, CountsStay

\* A statement before any stock is looked at.
LEMMA BeforePosting ==
  ASSUME FolioTxInv, CountInv, NEW p \in Procs, NEW r, tx' = [tx EXCEPT ![p] = r],
         tx[p].at \notin Posting \cup {"idle"}, r.at \notin Posting \cup {"idle"},
         r.job = tx[p].job, r.delta = tx[p].delta, r.todo = tx[p].todo, r.seen = tx[p].seen,
         Read(p) \/ (Waits(p) = {} /\ Lock(p))
  PROVE  CountInv'
<1>1. UNCHANGED <<ledger, stockRows>> /\ Takes(p)
  BY DEF Read, Lock, Take, Takes
<1>2. CountGood(p, tx[p], owner, stock, lines)
  BY DEF CountInv
<1>3. DOMAIN tx[p].seen = {}
  BY <1>2 DEF CountGood, ReadsWhatItMoves
<1>4. CountGood(p, r, owner', stock, lines)
  BY <1>2, <1>3 DEF CountGood, SeenUnderLock, ReadsWhatItMoves, Posting
<1> QED BY <1>1, <1>4, CountsStay

\* Going on to a statement before any stock is looked at.
LEMMA GotoCounts ==
  ASSUME FolioTxInv, CountInv, NEW p \in Procs, NEW at, Goto(p, at),
         tx[p].at \notin Posting \cup {"idle"}, at \notin Posting \cup {"idle"},
         Read(p) \/ (Waits(p) = {} /\ Lock(p))
  PROVE  CountInv'
<1>1. PICK r : r = [tx[p] EXCEPT !.at = at]
  OBVIOUS
<1>2. DOMAIN tx[p] = TxFields
  BY DEF FolioTxInv, TxGood
<1>3. /\ tx' = [tx EXCEPT ![p] = r] /\ r.at = at
      /\ r.job = tx[p].job /\ r.delta = tx[p].delta /\ r.todo = tx[p].todo /\ r.seen = tx[p].seen
  BY <1>1, <1>2 DEF Goto, TxFields
<1> QED BY <1>3, BeforePosting

\* The statements that go on to another without looking at stock.
LEMMA PlainCounts ==
  ASSUME FolioTxInv, CountInv, NEW p \in Procs, Waits(p) = {},
         \/ LockTripAndGuest(p) \/ FindFolio(p) \/ InsertFolio(p) \/ CheckOpen(p)
         \/ ReadManifest(p) \/ LockTripToClose(p) \/ LockTripToStart(p)
  PROVE  CountInv'
<1>1. tx[p].at \in {"trip", "folio", "insert", "check", "manifest", "closeTrip"}
  BY DEF LockTripAndGuest, FindFolio, InsertFolio, CheckOpen, ReadManifest, LockTripToClose,
         LockTripToStart, At
<1>2. tx[p].at \notin Posting \cup {"idle"}
  BY <1>1 DEF Posting
<1>3. PICK Later : Later = {"folio", "manifest", "read", "insert", "keys", "closeTrip", "bill"}
  OBVIOUS
<1>4. CASE Fail(p)
  BY <1>4, FailCounts
<1>5. CASE \E at \in Later : Goto(p, at) /\ (Read(p) \/ Lock(p))
  <2>1. PICK at \in Later : Goto(p, at) /\ (Read(p) \/ Lock(p))
    BY <1>5
  <2>2. at \notin Posting \cup {"idle"}
    BY <1>3 DEF Posting
  <2> QED BY <1>2, <2>1, <2>2, GotoCounts
<1>6. CASE LockTripAndGuest(p) \/ InsertFolio(p) \/ CheckOpen(p)
  BY <1>3, <1>4, <1>5, <1>6 DEF LockTripAndGuest, InsertFolio, CheckOpen
<1>7. CASE ReadManifest(p) \/ LockTripToClose(p) \/ LockTripToStart(p)
  BY <1>3, <1>4, <1>5, <1>7 DEF ReadManifest, LockTripToClose, LockTripToStart
<1>8. CASE FindFolio(p)
  <2>1. tx[p].at = "folio"
    BY <1>8 DEF FindFolio, At
  <2>2. G(p) \in Guests
    BY <2>1, Known DEF G, TxGood, RightKind
  <2>3. folio[G(p)] \in {"none", "open", "closed"}
    BY <2>2 DEF FolioTxInv, LedgerInv, TypeOK, FolioStatus
  <2> QED BY <1>3, <1>4, <1>5, <1>8, <2>3 DEF FindFolio
<1> QED BY <1>6, <1>7, <1>8

\* The bill is read before any stock is looked at.
LEMMA ReadBillCounts ==
  ASSUME FolioTxInv, CountInv, NEW p \in Procs, ReadBill(p)
  PROVE  CountInv'
<1>1. tx[p].at = "bill" /\ DOMAIN tx[p] = TxFields
  BY DEF ReadBill, At, FolioTxInv, TxGood
<1>2. CASE Fail(p)
  BY <1>2, FailCounts
<1>3. CASE ~Fail(p)
  <2>1. PICK row : Read(p) /\ tx' = [tx EXCEPT ![p].at = "late", ![p].row = row]
    BY <1>3 DEF ReadBill
  <2>2. PICK r : r = [tx[p] EXCEPT !.at = "late", !.row = row]
    OBVIOUS
  <2>3. /\ tx' = [tx EXCEPT ![p] = r] /\ r.at = "late"
        /\ r.job = tx[p].job /\ r.delta = tx[p].delta /\ r.todo = tx[p].todo
        /\ r.seen = tx[p].seen
    BY <1>1, <2>1, <2>2 DEF TxFields
  <2> QED BY <1>1, <2>1, <2>3, BeforePosting DEF Posting
<1> QED BY <1>2, <1>3

\* A request whose id is already used has nothing to move.
LEMMA ReadItemCounts ==
  ASSUME FolioTxInv, CountInv, NEW p \in Procs, ReadItem(p)
  PROVE  CountInv'
<1>1. /\ tx[p].at = "read" /\ tx[p].job.kind = "add" /\ DOMAIN tx[p] = TxFields
      /\ CountGood(p, tx[p], owner, stock, lines)
  BY DEF ReadItem, At, Kind, FolioTxInv, TxGood, CountInv
<1>2. CASE Fail(p)
  BY <1>2, FailCounts
<1>3. CASE Read(p) /\ Goto(p, "commit")
  <2>1. PICK r : r = [tx[p] EXCEPT !.at = "commit"]
    OBVIOUS
  <2>2. /\ tx' = [tx EXCEPT ![p] = r] /\ r.at = "commit"
        /\ r.job = tx[p].job /\ r.delta = tx[p].delta /\ r.todo = tx[p].todo
        /\ r.seen = tx[p].seen
    BY <1>1, <1>3, <2>1 DEF Goto, TxFields
  <2>3. UNCHANGED <<ledger, stockRows>> /\ Takes(p) /\ owner' = owner
    BY <1>3 DEF Read, Takes
  <2>4. DOMAIN r.seen = {} /\ r.delta = 0 /\ r.todo = {}
    BY <1>1, <2>2 DEF CountGood, ReadsWhatItMoves, Posting
  <2>5. ReadsWhatItMoves(r, lines) /\ SeenUnderLock(p, r, owner, stock)
    BY <1>1, <2>2, <2>4 DEF ReadsWhatItMoves, SeenUnderLock, ItemsToMove, Posting
  <2>6. CountGood(p, r, owner', stock, lines)
    BY <2>2, <2>3, <2>4, <2>5 DEF CountGood
  <2> QED BY <2>2, <2>3, <2>6, CountsStay
<1>4. ASSUME NEW row, Read(p), tx' = [tx EXCEPT ![p].at = "price", ![p].row = row]
      PROVE  CountInv'
  <2>1. PICK r : r = [tx[p] EXCEPT !.at = "price", !.row = row]
    OBVIOUS
  <2>2. /\ tx' = [tx EXCEPT ![p] = r] /\ r.at = "price"
        /\ r.job = tx[p].job /\ r.delta = tx[p].delta /\ r.todo = tx[p].todo
        /\ r.seen = tx[p].seen
    BY <1>1, <1>4, <2>1 DEF TxFields
  <2> QED BY <1>1, <1>4, <2>2, BeforePosting DEF Posting
<1> QED BY <1>2, <1>3, <1>4 DEF ReadItem

\* Moving on to the one stock row a line mutation needs, or straight to the commit.
LEMMA GotoStockCounts ==
  ASSUME FolioTxInv, CountInv, NEW p \in Procs, NEW row, NEW delta \in Int,
         GotoStock(p, row, delta), Read(p),
         tx[p].at \in {"read", "price"}, tx[p].job.kind \in Mutations,
         delta # 0 => row.item \in Items
  PROVE  CountInv'
<1>1. DOMAIN tx[p] = TxFields /\ CountGood(p, tx[p], owner, stock, lines)
  BY DEF FolioTxInv, TxGood, CountInv
<1>2. PICK r, next, at :
        /\ r = [tx[p] EXCEPT !.row = row, !.delta = delta, !.next = next, !.at = at]
        /\ next = (IF delta = 0 THEN Nothing ELSE row.item)
        /\ at = (IF delta = 0 THEN "commit" ELSE "stock")
  OBVIOUS
<1>3. /\ tx' = [tx EXCEPT ![p] = r] /\ r.at = at /\ r.next = next /\ r.row = row
      /\ r.job = tx[p].job /\ r.delta = delta /\ r.todo = tx[p].todo
      /\ r.seen = tx[p].seen
  BY <1>1, <1>2 DEF GotoStock, TxFields
<1>4. UNCHANGED <<ledger, stockRows>> /\ Takes(p) /\ owner' = owner
  BY DEF Read, Takes
<1>5. DOMAIN r.seen = {} /\ r.todo = {} /\ tx[p].job.kind \notin {"start", "close"}
  BY <1>1, <1>3 DEF CountGood, ReadsWhatItMoves, Posting, Mutations, LineJobs
<1>6. r.at \in Posting /\ r.at # "stocked" /\ r.at # "insertStock" /\ r.at # "idle"
  BY <1>2, <1>3 DEF Posting
<1>7. ItemsToMove(r, lines) = IF delta = 0 THEN {} ELSE {row.item}
  BY <1>3, <1>5 DEF ItemsToMove
<1>8. ReadsWhatItMoves(r, lines) /\ SeenUnderLock(p, r, owner, stock)
  <2>1. SeenUnderLock(p, r, owner, stock)
    BY <1>5 DEF SeenUnderLock
  <2>2. CASE delta = 0
    <3>1. r.at = "commit" /\ ItemsToMove(r, lines) = {}
      BY <1>2, <1>3, <1>7, <2>2
    <3> QED BY <1>3, <1>5, <1>6, <2>1, <3>1 DEF ReadsWhatItMoves
  <2>3. CASE delta # 0
    <3>1. /\ r.at = "stock" /\ ItemsToMove(r, lines) = {row.item} /\ r.next = row.item
          /\ row.item \in Items
      BY <1>2, <1>3, <1>7, <2>3
    <3>2. DOMAIN r.seen \cup {r.next} \cup r.todo = {row.item}
      BY <1>5, <3>1
    <3> QED BY <1>3, <1>5, <1>6, <2>1, <3>1, <3>2 DEF ReadsWhatItMoves
  <2> QED BY <2>2, <2>3
<1>9. CountGood(p, r, owner', stock, lines)
  BY <1>3, <1>4, <1>5, <1>6, <1>8 DEF CountGood
<1> QED BY <1>3, <1>4, <1>9, CountsStay

\* What a charge, a tip or an edit has to move is an item's units.
LEMMA MutationCounts ==
  ASSUME FolioTxInv, CountInv, NEW p \in Procs, ReadPrice(p) \/ ReadTip(p) \/ ReadLine(p)
  PROVE  CountInv'
<1>1. TxGood(p, tx[p], owner, trip, revoked, folio, lines)
  BY DEF FolioTxInv
<1>2. CASE ReadPrice(p)
  <2>1. tx[p].at = "price" /\ tx[p].job.kind = "add"
    BY <1>1, <1>2 DEF ReadPrice, At, TxGood, RightKind
  <2>2. NewCharge(tx[p], lines)
    BY <1>1, <2>1 DEF TxGood, Carries
  <2>3. PICK old \in Line : old = tx[p].row /\ old.item \in Items
    BY <2>2 DEF NewCharge
  <2>4. PICK row, price : /\ price = catalog[old.item].price
                          /\ row = [old EXCEPT !.unit = price, !.total = price * old.qty]
    OBVIOUS
  <2>5. PICK delta : delta = IF old.counted THEN -old.qty ELSE 0
    OBVIOUS
  <2>6. GotoStock(p, row, delta) /\ Read(p)
    BY <1>2, <2>3, <2>4, <2>5 DEF ReadPrice
  <2>7. delta \in Int /\ row.item = old.item
    BY <2>3, <2>4, <2>5 DEF Line
  <2> QED BY <2>1, <2>3, <2>6, <2>7, GotoStockCounts DEF Mutations
<1>3. CASE ReadTip(p)
  <2>1. tx[p].at = "read" /\ tx[p].job.kind \in Mutations
    BY <1>3 DEF ReadTip, At, Kind, Mutations
  <2>2. \E row : GotoStock(p, row, 0) /\ Read(p)
    BY <1>3 DEF ReadTip
  <2> QED BY <2>1, <2>2, GotoStockCounts
<1>4. CASE ReadLine(p)
  <2>1. /\ tx[p].at = "read" /\ tx[p].job.kind \in LineJobs /\ tx[p].job.kind \in Mutations
    BY <1>4 DEF ReadLine, At, Kind, Mutations
  <2>2. CASE Fail(p)
    BY <2>2, FailCounts
  <2>3. CASE ~Fail(p)
    <3>1. PICK line, row, delta : /\ line = lines[tx[p].job.line]
                                  /\ row = Edited(line, tx[p].job)
                                  /\ delta = Returned(line, tx[p].job)
      OBVIOUS
    <3>2. GotoStock(p, row, delta) /\ Read(p) /\ ~line.voided
      BY <1>4, <2>3, <3>1 DEF ReadLine
    <3>3. tx[p].job \in Jobs /\ tx[p].job.line \in DOMAIN lines
      BY <1>1, <2>1 DEF TxGood, Carries, RowsOf
    <3>4. /\ line \in Line /\ (line.posted => line.counted)
          /\ line.type = "crew_tip" => ~line.counted
          /\ line.type = "catalog_item" => line.item \in Items
      BY <3>1, <3>3 DEF FolioTxInv, LedgerInv, TypeOK, PostedIsCounted, TipRows, CountInv,
                        ItemRows
    <3>5. row.item = line.item /\ delta \in Int
      BY <2>1, <3>1, <3>2, <3>3, <3>4, EditedRow
    <3>6. delta # 0 => line.counted
      BY <3>1 DEF Returned
    <3>7. delta # 0 => row.item \in Items
      BY <3>4, <3>5, <3>6 DEF Line
    <3> QED BY <2>1, <3>2, <3>5, <3>7, GotoStockCounts
  <2> QED BY <2>2, <2>3
<1> QED BY <1>2, <1>3, <1>4

\* The next of the items still to be looked at, or the commit when none is left.
LEMMA NextCount ==
  ASSUME FolioTxInv, CountInv, NEW p \in Procs, NEW S, PickNext(p, S, "stock"), Read(p),
         tx[p].at \in {"late", "stocked"},
         tx[p].job.kind \in Mutations \cup {"close"},
         DOMAIN tx[p].seen \cup S = ItemsToMove(tx[p], lines),
         ItemsToMove(tx[p], lines) \subseteq Items
  PROVE  CountInv'
<1>1. DOMAIN tx[p] = TxFields /\ CountGood(p, tx[p], owner, stock, lines)
  BY DEF FolioTxInv, TxGood, CountInv
<1>2. UNCHANGED <<ledger, stockRows>> /\ Takes(p) /\ owner' = owner
  BY DEF Read, Takes
<1>3. tx[p].job.kind # "start" /\ tx[p].todo \subseteq Items
  BY <1>1 DEF CountGood, ReadsWhatItMoves, Posting, Mutations, LineJobs
<1>4. \E r : /\ tx' = [tx EXCEPT ![p] = r] /\ r.at \in {"stock", "commit"}
             /\ r.job = tx[p].job /\ r.row = tx[p].row /\ r.delta = tx[p].delta
             /\ r.seen = tx[p].seen /\ r.todo \subseteq Items
             /\ r.at = "commit" => S = {}
             /\ r.at = "stock" => {r.next} \cup r.todo = S
  <2>1. CASE S = {}
    <3>1. PICK r : r = [tx[p] EXCEPT !.at = "commit"]
      OBVIOUS
    <3>2. tx' = [tx EXCEPT ![p] = r]
      BY <2>1, <3>1 DEF PickNext, Goto
    <3>3. /\ r.at = "commit" /\ r.job = tx[p].job /\ r.row = tx[p].row
          /\ r.delta = tx[p].delta /\ r.seen = tx[p].seen /\ r.todo = tx[p].todo
      BY <1>1, <3>1 DEF TxFields
    <3> QED BY <1>3, <2>1, <3>2, <3>3
  <2>2. CASE S # {}
    <3>1. PICK x, todo : /\ x \in S /\ todo = S \ {x}
             /\ tx' = [tx EXCEPT ![p].at = "stock", ![p].next = x, ![p].todo = todo]
      BY <2>2 DEF PickNext
    <3>2. PICK r : r = [tx[p] EXCEPT !.at = "stock", !.next = x, !.todo = todo]
      OBVIOUS
    <3>3. tx' = [tx EXCEPT ![p] = r]
      BY <3>1, <3>2
    <3>4. /\ r.at = "stock" /\ r.job = tx[p].job /\ r.row = tx[p].row /\ r.next = x
          /\ r.delta = tx[p].delta /\ r.seen = tx[p].seen /\ r.todo = todo
      BY <1>1, <3>2 DEF TxFields
    <3>5. {r.next} \cup r.todo = S /\ r.todo \subseteq Items
      BY <3>1, <3>4
    <3> QED BY <3>3, <3>4, <3>5
  <2> QED BY <2>1, <2>2
<1>5. PICK r : /\ tx' = [tx EXCEPT ![p] = r] /\ r.at \in {"stock", "commit"}
               /\ r.job = tx[p].job /\ r.row = tx[p].row /\ r.delta = tx[p].delta
               /\ r.seen = tx[p].seen /\ r.todo \subseteq Items
               /\ r.at = "commit" => S = {}
               /\ r.at = "stock" => {r.next} \cup r.todo = S
  BY <1>4
<1>6. ItemsToMove(r, lines) = ItemsToMove(tx[p], lines)
  BY <1>5 DEF ItemsToMove
<1>7. SeenUnderLock(p, r, owner, stock)
  BY <1>1, <1>5 DEF CountGood, SeenUnderLock
<1>8. ReadsWhatItMoves(r, lines)
  BY <1>3, <1>5, <1>6 DEF ReadsWhatItMoves, Posting
<1>9. CountGood(p, r, owner', stock, lines)
  BY <1>1, <1>2, <1>5, <1>7, <1>8 DEF CountGood
<1> QED BY <1>2, <1>5, <1>9, CountsStay

\* The items of the unposted lines are listed, then taken one by one.
LEMMA PickStockCounts ==
  ASSUME FolioTxInv, CountInv, NEW p \in Procs, ReadLate(p) \/ MoreStock(p)
  PROVE  CountInv'
<1>1. /\ TxGood(p, tx[p], owner, trip, revoked, folio, lines)
      /\ CountGood(p, tx[p], owner, stock, lines)
  BY DEF FolioTxInv, CountInv
<1>2. CASE ReadLate(p)
  <2>1. tx[p].at = "late" /\ tx[p].job.kind = "close" /\ Read(p)
    BY <1>1, <1>2 DEF ReadLate, At, TxGood, RightKind
  <2>2. PICK g : g = tx[p].job.guest /\ g = G(p)
    BY DEF G
  <2>3. PickNext(p, LateItems(lines, g), "stock")
    BY <1>2, <2>2, LateItemsAre DEF ReadLate
  <2>4. LateItems(lines, g) = ItemsToMove(tx[p], lines) /\ LateItems(lines, g) \subseteq Items
    BY <2>1, <2>2, LateItemsAreItems DEF ItemsToMove, CountInv
  <2>5. DOMAIN tx[p].seen = {}
    BY <1>1, <2>1 DEF CountGood, ReadsWhatItMoves, Posting
  <2> QED BY <2>1, <2>3, <2>4, <2>5, NextCount
<1>3. CASE MoreStock(p)
  <2>1. /\ tx[p].at = "stocked" /\ tx[p].job.kind \in Mutations \cup {"close"} /\ Read(p)
        /\ PickNext(p, tx[p].todo, "stock")
    BY <1>1, <1>3 DEF MoreStock, At, TxGood, RightKind
  <2>2. /\ DOMAIN tx[p].seen \cup tx[p].todo = ItemsToMove(tx[p], lines)
        /\ ItemsToMove(tx[p], lines) \subseteq Items
    BY <1>1, <2>1 DEF CountGood, ReadsWhatItMoves, Posting, Mutations, LineJobs
  <2> QED BY <2>1, <2>2, NextCount
<1> QED BY <1>2, <1>3

\* A count is read once its row is locked, and a row that is not there counts nothing.
LEMMA SeeStockCounts ==
  ASSUME FolioTxInv, CountInv, NEW p \in Procs, Waits(p) = {}, NEW n, SeeStock(p, n),
         tx[p].at \in {"stock", "insertStock"}, <<"stock", tx[p].next>> \in Wants(p),
         n = stock[tx[p].next]
  PROVE  CountInv'
<1>1. /\ DOMAIN tx[p] = TxFields /\ CountGood(p, tx[p], owner, stock, lines)
      /\ TxGood(p, tx[p], owner, trip, revoked, folio, lines)
  BY DEF FolioTxInv, TxGood, CountInv
<1>2. tx[p].job.kind # "start" /\ tx[p].at \in Posting
  BY <1>1 DEF TxGood, RightKind, Posting, Mutations, LineJobs
<1>3. PICK i, seen : i = tx[p].next /\ seen = WithCount(tx[p].seen, i, n)
  OBVIOUS
<1>4. PICK r : r = [tx[p] EXCEPT !.seen = seen, !.at = "stocked"]
  OBVIOUS
<1>5. /\ tx' = [tx EXCEPT ![p] = r] /\ r.at = "stocked" /\ r.job = tx[p].job
      /\ r.row = tx[p].row /\ r.delta = tx[p].delta /\ r.todo = tx[p].todo /\ r.seen = seen
  BY <1>1, <1>3, <1>4 DEF SeeStock, TxFields
<1>6. /\ DOMAIN tx[p].seen \cup {i} \cup tx[p].todo = ItemsToMove(tx[p], lines)
      /\ ItemsToMove(tx[p], lines) \subseteq Items /\ tx[p].todo \subseteq Items
  BY <1>1, <1>2, <1>3 DEF CountGood, ReadsWhatItMoves, Posting
<1>7. /\ DOMAIN seen = DOMAIN tx[p].seen \cup {i}
      /\ \A j \in DOMAIN seen : seen[j] = IF j = i THEN n ELSE tx[p].seen[j]
  BY <1>3 DEF WithCount
<1>8. /\ UNCHANGED <<ledger, stockRows>> /\ Takes(p)
      /\ \A row \in Rows : owner'[row] = p <=> (row \in Wants(p) \/ owner[row] = p)
  BY LockTakes DEF SeeStock, Lock, Takes
<1>9. SeenUnderLock(p, r, owner', stock)
  <2> SUFFICES ASSUME NEW j \in DOMAIN seen
               PROVE  j \in Items /\ owner'[<<"stock", j>>] = p /\ seen[j] = stock[j]
    BY <1>5 DEF SeenUnderLock
  <2>1. j \in Items
    BY <1>6, <1>7
  <2>2. CASE j = i
    BY <1>3, <1>7, <1>8, <2>1, <2>2, StockRowsAre
  <2>3. CASE j # i
    <3>1. tx[p].seen[j] = stock[j] /\ owner[<<"stock", j>>] = p
      BY <1>1, <1>2, <1>7, <2>3 DEF CountGood, SeenUnderLock, Posting
    <3> QED BY <1>7, <1>8, <2>1, <2>3, <3>1, StockRowsAre
  <2> QED BY <2>2, <2>3
<1>10. ItemsToMove(r, lines) = ItemsToMove(tx[p], lines)
  BY <1>5 DEF ItemsToMove
<1>11. ReadsWhatItMoves(r, lines)
  BY <1>2, <1>5, <1>6, <1>7, <1>10 DEF ReadsWhatItMoves, Posting
<1>12. CountGood(p, r, owner', stock, lines)
  BY <1>1, <1>5, <1>9, <1>11 DEF CountGood
<1> QED BY <1>5, <1>8, <1>12, CountsStay

\* Looking for an item's row, reading it or inserting it keeps the counts good.
LEMMA FindStockCounts ==
  ASSUME FolioTxInv, CountInv, NEW p \in Procs, Waits(p) = {}, FindStock(p) \/ InsertStock(p)
  PROVE  CountInv'
<1>1. /\ DOMAIN tx[p] = TxFields /\ CountGood(p, tx[p], owner, stock, lines)
      /\ TxGood(p, tx[p], owner, trip, revoked, folio, lines)
      /\ tx[p].at \in {"stock", "insertStock"}
  BY DEF FolioTxInv, TxGood, CountInv, FindStock, InsertStock, At
<1>2. tx[p].job.kind # "start" /\ tx[p].at \in Posting
  BY <1>1 DEF TxGood, RightKind, Posting, Mutations, LineJobs
<1>3. tx[p].next \in Items
  BY <1>1, <1>2 DEF CountGood, ReadsWhatItMoves
<1>4. CASE Fail(p)
  BY <1>4, FailCounts
<1>5. CASE tx[p].at = "stock" /\ Read(p) /\ Goto(p, "insertStock")
  <2>1. PICK r : r = [tx[p] EXCEPT !.at = "insertStock"]
    OBVIOUS
  <2>2. /\ tx' = [tx EXCEPT ![p] = r] /\ r.at = "insertStock" /\ r.job = tx[p].job
        /\ r.row = tx[p].row /\ r.delta = tx[p].delta /\ r.todo = tx[p].todo
        /\ r.seen = tx[p].seen /\ r.next = tx[p].next
    BY <1>1, <1>5, <2>1 DEF Goto, TxFields
  <2>3. UNCHANGED <<ledger, stockRows>> /\ Takes(p) /\ owner' = owner
    BY <1>5 DEF Read, Takes
  <2>4. ItemsToMove(r, lines) = ItemsToMove(tx[p], lines)
    BY <2>2 DEF ItemsToMove
  <2>5. CountGood(p, r, owner', stock, lines)
    BY <1>1, <1>2, <1>5, <2>2, <2>3, <2>4
       DEF CountGood, SeenUnderLock, ReadsWhatItMoves, Posting
  <2> QED BY <2>2, <2>3, <2>5, CountsStay
<1>6. CASE tx[p].at = "stock" /\ tx[p].next \in stockRows
  <2>1. SeeStock(p, stock[tx[p].next])
    BY <1>6 DEF FindStock, InsertStock, At
  <2>2. <<"stock", tx[p].next>> \in Wants(p)
    BY <1>6 DEF Wants, Stk
  <2> QED BY <1>1, <2>1, <2>2, SeeStockCounts
<1>7. CASE tx[p].at = "insertStock" /\ tx[p].next \notin stockRows
  <2>1. SeeStock(p, 0) /\ stock[tx[p].next] = 0
    BY <1>3, <1>7 DEF FindStock, InsertStock, At, CountInv
  <2>2. <<"stock", tx[p].next>> \in Wants(p)
    BY <1>7 DEF Wants, Stk
  <2> QED BY <1>1, <2>1, <2>2, SeeStockCounts
<1>8. \/ tx[p].at = "stock" /\ tx[p].next \notin stockRows /\ FindStock(p)
      \/ tx[p].at = "insertStock" /\ tx[p].next \in stockRows /\ InsertStock(p)
      => Fail(p) \/ (tx[p].at = "stock" /\ Read(p) /\ Goto(p, "insertStock"))
  BY DEF FindStock, InsertStock, At
<1> QED BY <1>1, <1>4, <1>5, <1>6, <1>7, <1>8 DEF FindStock, InsertStock, At

\* Starting a voyage looks at no stock.
LEMMA StartCounts ==
  ASSUME FolioTxInv, CountInv, NEW p \in Procs, Waits(p) = {}, ReadGuests(p) \/ InsertFolios(p)
  PROVE  CountInv'
<1>1. /\ DOMAIN tx[p] = TxFields /\ CountGood(p, tx[p], owner, stock, lines)
      /\ TxGood(p, tx[p], owner, trip, revoked, folio, lines)
      /\ tx[p].at \in {"manifest", "folios"}
  BY DEF FolioTxInv, TxGood, CountInv, ReadGuests, InsertFolios, At
<1>2. tx[p].job.kind = "start" /\ DOMAIN tx[p].seen = {} /\ tx[p].delta = 0
  BY <1>1 DEF TxGood, RightKind, ReadGuests, At, Kind, InsertFolios, CountGood,
              ReadsWhatItMoves, Posting
<1>3. UNCHANGED <<ledger, stockRows>> /\ Takes(p)
  BY DEF ReadGuests, InsertFolios, Read, Lock, Take, Takes
<1>4. PICK S \in SUBSET (Guests \cup Items) : PickNext(p, S, "folios")
  BY <1>1 DEF ReadGuests, InsertFolios, CountGood
<1>5. \E r : /\ tx' = [tx EXCEPT ![p] = r] /\ r.at \in {"folios", "commit"}
             /\ r.job = tx[p].job /\ r.delta = tx[p].delta /\ r.seen = tx[p].seen
             /\ r.todo \subseteq Guests \cup Items
  <2>1. CASE S = {}
    <3>1. PICK r : r = [tx[p] EXCEPT !.at = "commit"]
      OBVIOUS
    <3>2. tx' = [tx EXCEPT ![p] = r]
      BY <1>4, <2>1, <3>1 DEF PickNext, Goto
    <3>3. /\ r.at = "commit" /\ r.job = tx[p].job /\ r.todo = tx[p].todo
          /\ r.delta = tx[p].delta /\ r.seen = tx[p].seen
      BY <1>1, <3>1 DEF TxFields
    <3> QED BY <1>1, <3>2, <3>3 DEF CountGood
  <2>2. CASE S # {}
    <3>1. PICK x, todo : /\ x \in S /\ todo = S \ {x}
             /\ tx' = [tx EXCEPT ![p].at = "folios", ![p].next = x, ![p].todo = todo]
      BY <1>4, <2>2 DEF PickNext
    <3>2. PICK r : r = [tx[p] EXCEPT !.at = "folios", !.next = x, !.todo = todo]
      OBVIOUS
    <3>3. tx' = [tx EXCEPT ![p] = r]
      BY <3>1, <3>2
    <3>4. /\ r.at = "folios" /\ r.job = tx[p].job /\ r.todo = todo
          /\ r.delta = tx[p].delta /\ r.seen = tx[p].seen
      BY <1>1, <3>2 DEF TxFields
    <3> QED BY <3>1, <3>3, <3>4
  <2> QED BY <2>1, <2>2
<1>6. PICK r : /\ tx' = [tx EXCEPT ![p] = r] /\ r.at \in {"folios", "commit"}
               /\ r.job = tx[p].job /\ r.delta = tx[p].delta /\ r.seen = tx[p].seen
               /\ r.todo \subseteq Guests \cup Items
  BY <1>5
<1>7. SeenUnderLock(p, r, owner', stock) /\ ReadsWhatItMoves(r, lines)
  BY <1>2, <1>6 DEF SeenUnderLock, ReadsWhatItMoves
<1>8. CountGood(p, r, owner', stock, lines)
  BY <1>2, <1>6, <1>7 DEF CountGood
<1> QED BY <1>3, <1>6, <1>8, CountsStay

\* No statement before the commit spoils a count.
LEMMA UnderwayCounts ==
  ASSUME FolioTxInv, CountInv, NEW p \in Procs, Waits(p) = {}, Underway(p)
  PROVE  CountInv'
  BY PlainCounts, ReadItemCounts, MutationCounts, ReadBillCounts, PickStockCounts,
     FindStockCounts, StartCounts DEF Underway

\* A request starts with no count read.
LEMMA BeginCounts ==
  ASSUME FolioTxInv, CountInv, NEW p \in Procs, NEW job \in Jobs, Begin(p, job)
  PROVE  CountInv'
<1>1. PICK at : /\ at = CASE job.kind = "close" -> "folio"
                          [] job.kind = "open" -> "check"
                          [] OTHER -> "trip"
  OBVIOUS
<1>2. at \in {"folio", "check", "trip"}
  BY <1>1
<1>3. PICK r : r = [Idle EXCEPT !.job = job, !.at = at]
  OBVIOUS
<1>4. /\ r.at = at /\ r.delta = 0 /\ r.todo = {} /\ r.seen = <<>>
  BY <1>3 DEF Idle
<1>5. DOMAIN r.seen = {}
  BY <1>4
<1>6. tx' = [tx EXCEPT ![p] = r] /\ UNCHANGED <<ledger, stockRows>> /\ Takes(p)
  BY <1>1, <1>3 DEF Begin, Read, Takes
<1>7. CountGood(p, r, owner', stock, lines)
  BY <1>2, <1>4, <1>5 DEF CountGood, SeenUnderLock, ReadsWhatItMoves, Posting
<1> QED BY <1>6, <1>7, CountsStay

\* A commit that moves stock writes the counts it holds, which nobody else has seen.
LEMMA CommitCounts ==
  ASSUME FolioTxInv, CountInv, NEW p \in Procs, tx[p].at = "commit", Finish(p),
         NEW g \in Guests, owner[<<"folio", g>>] = p, WritesOnly(g), ItemRows',
         NEW change, WriteStock(p, change), \A i \in Items : change[i] \in Int
  PROVE  /\ CountInv'
         /\ \A i \in Items : stock'[i] = IF i \in DOMAIN tx[p].seen
                                           THEN stock[i] + change[i] ELSE stock[i]
<1>1. PICK r : r = Idle
  OBVIOUS
<1>2. tx' = [tx EXCEPT ![p] = r] /\ owner' = Released(p) /\ Takes(p)
  BY <1>1 DEF Finish, Takes
<1>3. /\ CountGood(p, tx[p], owner, stock, lines)
      /\ SeenUnderLock(p, tx[p], owner, stock)
  BY DEF CountInv, CountGood
<1>4. /\ stock' = [i \in Items |-> IF i \in DOMAIN tx[p].seen
                                     THEN tx[p].seen[i] + change[i] ELSE stock[i]]
      /\ stockRows' = stockRows \cup DOMAIN tx[p].seen
  BY DEF WriteStock
<1>5. \A i \in Items : /\ stock'[i] = IF i \in DOMAIN tx[p].seen
                                        THEN stock[i] + change[i] ELSE stock[i]
                       /\ stock[i] \in Int
  BY <1>3, <1>4 DEF SeenUnderLock, CountInv, CountsAreNumbers
<1>6. /\ CountsAreNumbers'
      /\ stockRows' \subseteq Items
      /\ \A i \in Items \ stockRows' : stock'[i] = 0
  <2>1. \A i \in Items : stock'[i] \in Int
    BY <1>5
  <2>2. stock' = [i \in Items |-> stock'[i]]
    BY <1>4
  <2>3. DOMAIN tx[p].seen \subseteq Items
    BY <1>3 DEF SeenUnderLock
  <2> QED BY <1>4, <1>5, <2>1, <2>2, <2>3 DEF CountsAreNumbers, CountInv
<1>7. owner' \in [Rows -> Procs \cup {NoProc}]
  BY <1>2, TakesType DEF CountInv
<1>8. ASSUME NEW q \in Procs PROVE CountGood(q, tx'[q], owner', stock', lines')
  <2>1. CASE q = p
    <3>1. tx'[q] = Idle
      BY <1>1, <1>2, <2>1 DEF FolioTxInv
    <3> QED BY <3>1, IdleCounts
  <2>2. CASE q # p
    <3>1. /\ tx'[q] = tx[q] /\ CountGood(q, tx[q], owner, stock, lines)
          /\ TxGood(q, tx[q], owner, trip, revoked, folio, lines)
      BY <1>2, <2>2 DEF CountInv, FolioTxInv
    <3>2. \A i \in Items : owner[<<"stock", i>>] = q =>
            owner'[<<"stock", i>>] = q /\ stock'[i] = stock[i]
      BY <1>2, <1>3, <1>5, <2>2, TakesSpares, StockRowsAre DEF SeenUnderLock
    <3>3. tx[q].at # "idle" => SeenUnderLock(q, tx[q], owner', stock')
      BY <3>1, <3>2 DEF CountGood, SeenUnderLock
    <3>4. ASSUME tx[q].at \in Posting, tx[q].job.kind # "start"
          PROVE  ItemsToMove(tx[q], lines') = ItemsToMove(tx[q], lines)
      <4>1. CASE tx[q].job.kind = "close"
        <5>1. PICK h : h = tx[q].job.guest
          OBVIOUS
        <5>2. owner[<<"folio", h>>] = q
          BY <3>1, <3>4, <4>1, <5>1 DEF TxGood, HoldsFolio
        <5>3. h # g
          BY <2>2, <5>2
        <5>4. SameLines(h)
          BY <5>3, OthersUntouched
        <5>5. LateItems(lines', h) = LateItems(lines, h)
          BY <5>4 DEF SameLines, LateItems
        <5> QED BY <4>1, <5>1, <5>5 DEF ItemsToMove
      <4>2. CASE tx[q].job.kind # "close"
        BY <4>2 DEF ItemsToMove
      <4> QED BY <4>1, <4>2
    <3>5. tx[q].at # "idle" => ReadsWhatItMoves(tx[q], lines')
      BY <3>1, <3>4 DEF CountGood, ReadsWhatItMoves
    <3> QED BY <3>1, <3>3, <3>5 DEF CountGood
  <2> QED BY <2>1, <2>2
<1>9. CountInv'
  BY <1>6, <1>7, <1>8 DEF CountInv
<1> QED BY <1>5, <1>9

\* A commit of folios and voyages alone.
LEMMA CommitQuietCounts ==
  ASSUME FolioTxInv, CountInv, NEW p \in Procs, Finish(p),
         UNCHANGED <<lines, stock, stockRows>>
  PROVE  CountInv'
<1>1. PICK r : r = Idle
  OBVIOUS
<1>2. tx' = [tx EXCEPT ![p] = r] /\ owner' = Released(p) /\ Takes(p)
  BY <1>1 DEF Finish, Takes
<1>3. owner' \in [Rows -> Procs \cup {NoProc}]
  BY <1>2, TakesType DEF CountInv
<1>4. ASSUME NEW q \in Procs PROVE CountGood(q, tx'[q], owner', stock', lines')
  <2>1. CASE q = p
    <3>1. tx'[q] = Idle
      BY <1>1, <1>2, <2>1 DEF FolioTxInv
    <3> QED BY <3>1, IdleCounts
  <2>2. CASE q # p
    <3>1. tx'[q] = tx[q] /\ CountGood(q, tx[q], owner, stock, lines)
      BY <1>2, <2>2 DEF CountInv
    <3>2. \A i \in Items : owner[<<"stock", i>>] = q => owner'[<<"stock", i>>] = q
      BY <1>2, <2>2, TakesSpares, StockRowsAre
    <3> QED BY <3>1, <3>2 DEF CountGood, SeenUnderLock
  <2> QED BY <2>1, <2>2
<1> QED BY <1>3, <1>4 DEF CountInv, CountsAreNumbers, ItemRows

\* A count by hand is taken when nobody holds the row.
LEMMA AsideCounts ==
  ASSUME FolioTxInv, CountInv, Aside
  PROVE  CountInv'
<1>1. UNCHANGED <<lines, tx, owner>>
  BY DEF Aside, CompleteOrCancel, CompleteTrip, CancelTrip, SetRevoked, Recount, Edit,
         UpdateCatalogItem, UpdatePaymentSettings, lineVars
<1>2. CASE UNCHANGED <<stock, stockRows>>
  BY <1>1, <1>2 DEF CountInv, CountsAreNumbers, ItemRows
<1>3. ASSUME NEW i \in Items, NEW n \in 0..MaxStock, Recount(i, n)
      PROVE  CountInv'
  <2>1. /\ owner[<<"stock", i>>] \notin Procs
        /\ stock' = [stock EXCEPT ![i] = n] /\ n \in Int
        /\ stockRows' = stockRows \cup {i}
    BY <1>3, ProcAssumption, DataAssumption DEF Recount, Free, Stk
  <2>2. /\ CountsAreNumbers' /\ \A j \in Items \ {i} : stock'[j] = stock[j]
    BY <2>1 DEF CountInv, CountsAreNumbers
  <2>3. ASSUME NEW q \in Procs PROVE CountGood(q, tx[q], owner, stock', lines)
    <3>1. CountGood(q, tx[q], owner, stock, lines)
      BY DEF CountInv
    <3>2. \A j \in Items : owner[<<"stock", j>>] = q => stock'[j] = stock[j]
      BY <2>1, <2>2
    <3> QED BY <3>1, <3>2 DEF CountGood, SeenUnderLock
  <2> QED BY <1>1, <2>1, <2>2, <2>3 DEF CountInv, ItemRows
<1> QED
  BY <1>2, <1>3
     DEF Aside, CompleteOrCancel, CompleteTrip, CancelTrip, SetRevoked, Edit,
         UpdateCatalogItem, UpdatePaymentSettings, lineVars

-----------------------------------------------------------------------------
(***************************************************************************)
(* The transactions implement the stock promise.                           *)
(***************************************************************************)
\* Writing a line moves off the boat the units it puts on its folio, and no other.
LEMMA LineCommitMoves ==
  ASSUME FolioTxInv, CountInv, NEW p \in Procs, NEW l \in LineIds, CommitLine(p, l)
  PROVE  CountInv' /\ Stock!Next
<1>1. PICK g, row, delta : g = G(p) /\ row = tx[p].row /\ delta = tx[p].delta
  OBVIOUS
<1>2. /\ g \in Guests /\ owner[<<"folio", g>>] = p /\ folio[g] # "closed"
      /\ folio' = [folio EXCEPT ![g] = "open"] /\ InsertLine(l, row) /\ Finish(p)
      /\ RowWritten(g, l, row, delta) /\ LedgerInv' /\ WritesOnly(g)
  <2>1. LineCommits(p, l, g, row, delta)
    BY <1>1, LineCommitted
  <2> QED BY <2>1 DEF LineCommits
<1>3. /\ tx[p].at = "commit" /\ tx[p].job.kind \in Mutations
      /\ WriteStock(p, [i \in Items |-> delta])
  BY <1>1 DEF CommitLine, At, Kind
<1>4. TypeOK /\ PostedIsCounted /\ TypeOK' /\ CountsAreNumbers
  BY <1>2 DEF FolioTxInv, LedgerInv, CountInv
<1>5. /\ DOMAIN lines' = DOMAIN lines \cup {l} /\ lines'[l] = row
      /\ \A m \in DOMAIN lines \ {l} : lines'[m] = lines[m]
  BY <1>2 DEF InsertLine
<1>6. row.type = "catalog_item" => row.item \in Items
  BY <1>2 DEF RowWritten, CountInv, ItemRows
<1>7. ItemRows'
  BY <1>5, <1>6 DEF CountInv, ItemRows
<1>8. delta \in Int
  BY <1>2 DEF RowWritten
<1>9. /\ CountInv'
      /\ \A i \in Items : stock'[i] = IF i \in DOMAIN tx[p].seen
                                        THEN stock[i] + delta ELSE stock[i]
  BY <1>2, <1>3, <1>7, <1>8, CommitCounts
<1>10. DOMAIN tx[p].seen = IF delta = 0 THEN {} ELSE {row.item}
  <2>1. CountGood(p, tx[p], owner, stock, lines)
    BY DEF CountInv
  <2>2. tx[p].job.kind \notin {"start", "close"}
    BY <1>3 DEF Mutations, LineJobs
  <2> QED BY <1>1, <1>3, <2>1, <2>2 DEF CountGood, ReadsWhatItMoves, ItemsToMove, Posting
<1>11. \A i \in Items : stock'[i] = stock[i] + OnFolio(g, i)[l] - OnFolio(g, i)'[l]
  <2> SUFFICES ASSUME NEW i \in Items
               PROVE  stock'[i] = stock[i] + OnFolio(g, i)[l] - OnFolio(g, i)'[l]
    OBVIOUS
  <2>1. stock[i] \in Int /\ stock'[i] = IF i = row.item THEN stock[i] + delta ELSE stock[i]
    BY <1>4, <1>8, <1>9, <1>10 DEF CountsAreNumbers
  <2>2. OnFolio(g, i)'[l] = IF i = row.item THEN -Moves(row) ELSE 0
    <3>1. l \in Posted(g)' <=> (row.posted /\ ~row.voided)
      BY <1>2, <1>5 DEF Posted, LiveLines, Live, RowWritten
    <3>2. row.qty \in Nat
      BY <1>2 DEF RowWritten, Line
    <3> QED BY <1>5, <3>1, <3>2 DEF OnFolio, Moves
  <2>3. Moves(row) \in Int
    BY <1>2 DEF RowWritten, Moves, Line
  <2>4. CASE l \notin DOMAIN lines
    <3>1. OnFolio(g, i)[l] = 0
      BY <2>4 DEF OnFolio, Posted, LiveLines
    <3>2. Moves(row) = delta
      BY <1>2, <2>4 DEF RowWritten
    <3> QED BY <1>8, <2>1, <2>2, <3>1, <3>2
  <2>5. CASE l \in DOMAIN lines
    <3>1. /\ lines[l] \in Line /\ lines[l].guest = g /\ ~lines[l].voided
          /\ lines[l].type = row.type /\ Moves(row) = Moves(lines[l]) + delta
          /\ row.type = "catalog_item" => row.item = lines[l].item
      BY <1>2, <1>4, <2>5 DEF RowWritten, TypeOK
    <3>2. /\ l \in Posted(g) <=> lines[l].posted
          /\ lines[l].qty \in Nat
      BY <2>5, <3>1 DEF Posted, LiveLines, Live, Line
    <3>3. Moves(lines[l]) = IF lines[l].posted THEN -lines[l].qty ELSE 0
      BY <3>1 DEF Moves
    <3>4. CASE row.type = "catalog_item"
      <4>1. OnFolio(g, i)[l] = IF i = row.item THEN -Moves(lines[l]) ELSE 0
        BY <3>1, <3>2, <3>3, <3>4 DEF OnFolio
      <4>2. Moves(lines[l]) \in Int
        BY <3>2, <3>3
      <4> QED BY <1>8, <2>1, <2>2, <2>3, <3>1, <4>1, <4>2
    <3>5. CASE row.type # "catalog_item"
      <4>1. row.type = "crew_tip"
        BY <1>2, <3>5 DEF RowWritten, Line
      <4>2. ~lines[l].posted /\ ~row.posted
        BY <1>2, <1>4, <2>5, <3>1, <4>1
           DEF RowWritten, PostedIsCounted, FolioTxInv, LedgerInv, TipRows
      <4>3. OnFolio(g, i)[l] = 0 /\ Moves(lines[l]) = 0 /\ Moves(row) = 0
        BY <3>2, <3>3, <4>2 DEF OnFolio, Moves
      <4> QED BY <1>8, <2>1, <2>2, <3>1, <4>3
    <3> QED BY <3>4, <3>5
  <2> QED BY <2>4, <2>5
<1>12. Stock!MoveUnits(g)
  <2>1. \A m \in LineIds \ {l} : /\ m \in DOMAIN lines' <=> m \in DOMAIN lines
                                 /\ m \in DOMAIN lines => lines'[m] = lines[m]
    BY <1>5
  <2>2. /\ l \in DOMAIN lines => lines[l].guest = g
        /\ l \in DOMAIN lines' => lines'[l].guest = g
    BY <1>2, <1>5 DEF RowWritten
  <2> QED BY <1>2, <1>4, <1>11, <2>1, <2>2, RowMovesUnits
<1>13. UNCHANGED SealedFolios
  BY <1>2, <1>4 DEF SealedFolios, TypeOK
<1> QED BY <1>2, <1>9, <1>12, <1>13 DEF Stock!Next, Stock!Charge, SealedFolios

\* Settling moves off the boat the units of the lines never posted, and no other.
LEMMA CloseCommitMoves ==
  ASSUME FolioTxInv, CountInv, NEW p \in Procs, CommitClose(p)
  PROVE  CountInv' /\ Stock!Next
<1>1. PICK g \in Guests :
        /\ g = G(p) /\ g = tx[p].job.guest /\ WritesOnly(g) /\ folio[g] # "closed"
        /\ owner[<<"folio", g>>] = p
  BY CommitCloseKeeps DEF G
<1>2. /\ tx[p].at = "commit" /\ tx[p].job.kind = "close" /\ Finish(p)
      /\ folio' = [folio EXCEPT ![g] = "closed"]
      /\ lines' = [l \in DOMAIN lines |->
                     IF l \in Unposted(g) THEN MarkPosted(lines[l]) ELSE lines[l]]
      /\ WriteStock(p, [i \in Items |-> -UnitsOf(i, Unposted(g))])
  BY <1>1 DEF CommitClose, At, Kind
<1>3. FolioTxInv'
  BY CommitCloseKeeps
<1>4. TypeOK /\ TypeOK' /\ CountsAreNumbers
  BY <1>3 DEF FolioTxInv, LedgerInv, CountInv
<1>5. /\ DOMAIN lines' = DOMAIN lines
      /\ \A l \in DOMAIN lines :
           lines'[l] = IF l \in Unposted(g) THEN MarkPosted(lines[l]) ELSE lines[l]
  BY <1>2
<1>6. ItemRows'
  BY <1>4, <1>5, MarkPostedRow DEF CountInv, ItemRows, TypeOK
<1>7. \A i \in Items : UnitsOf(i, Unposted(g)) \in Nat
  <2> SUFFICES ASSUME NEW i \in Items PROVE UnitsOf(i, Unposted(g)) \in Nat
    OBVIOUS
  <2>1. Unposted(g) \in SUBSET DOMAIN lines
    BY DEF Unposted, LiveLines
  <2>2. \A l \in LineIds : StillOwed(g, i)[l]
          = IF l \in Unposted(g) /\ lines[l].item = i THEN lines[l].qty ELSE 0
    BY DEF StillOwed
  <2> HIDE DEF StillOwed, Unposted
  <2> QED BY <1>4, <2>1, <2>2, UnitsOverTable
<1>8. /\ CountInv'
      /\ \A i \in Items : stock'[i] = IF i \in DOMAIN tx[p].seen
                            THEN stock[i] + (-UnitsOf(i, Unposted(g))) ELSE stock[i]
  BY <1>1, <1>2, <1>6, <1>7, CommitCounts
<1>9. DOMAIN tx[p].seen = {lines[l].item : l \in Unposted(g)}
  <2>1. CountGood(p, tx[p], owner, stock, lines)
    BY DEF CountInv
  <2> QED BY <1>1, <1>2, <2>1, LateItemsAre DEF CountGood, ReadsWhatItMoves, ItemsToMove, Posting
<1>10. \A i \in Items : stock'[i] = stock[i] - UnitsOf(i, Unposted(g))
  <2> SUFFICES ASSUME NEW i \in Items PROVE stock'[i] = stock[i] - UnitsOf(i, Unposted(g))
    OBVIOUS
  <2>0. stock[i] \in Int
    BY <1>4 DEF CountsAreNumbers
  <2>1. CASE i \in DOMAIN tx[p].seen
    BY <1>7, <1>8, <2>0, <2>1
  <2>2. CASE i \notin DOMAIN tx[p].seen
    <3>1. \A l \in LineIds : StillOwed(g, i)[l] = 0
      BY <1>9, <2>2 DEF StillOwed
    <3>2. IsFiniteSet(LineIds)
      BY DataAssumption
    <3>3. Total(StillOwed(g, i), LineIds) = 0
      <4> HIDE DEF StillOwed
      <4> QED BY <3>1, <3>2, TotalZero
    <3>4. UnitsOf(i, Unposted(g)) = Total(StillOwed(g, i), LineIds)
      <4>1. Unposted(g) \in SUBSET DOMAIN lines
        BY DEF Unposted, LiveLines
      <4>2. \A l \in LineIds : StillOwed(g, i)[l]
              = IF l \in Unposted(g) /\ lines[l].item = i THEN lines[l].qty ELSE 0
        BY DEF StillOwed
      <4> HIDE DEF StillOwed, Unposted
      <4> QED BY <1>4, <4>1, <4>2, UnitsOverTable
    <3> QED BY <1>8, <2>0, <2>2, <3>3, <3>4
  <2> QED BY <2>1, <2>2
<1>11. Stock!MoveUnits(g)
  BY <1>1, <1>4, <1>5, <1>10, CloseMovesUnits
<1>12. SealedFolios' = [SealedFolios EXCEPT ![g] = TRUE]
  BY <1>2, <1>4 DEF SealedFolios, TypeOK
<1> QED BY <1>1, <1>8, <1>11, <1>12 DEF Stock!Next, Stock!Seal, SealedFolios

\* Any other step charges nobody; it may correct one count.
LEMMA QuietTxStep ==
  ASSUME FolioTxInv, UNCHANGED <<lines, moved>>,
         \A h \in Guests : folio'[h] = "closed" <=> folio[h] = "closed",
         UNCHANGED stock
  PROVE  UNCHANGED Stock!vars
<1>1. UNCHANGED <<ChargedUnits, SealedFolios>>
  BY QuietUnits DEF Quiet
<1> QED BY <1>1 DEF Stock!vars, ChargedUnits, SealedFolios


\* A commit that writes no line opens folios that were not settled.
LEMMA QuietCommitMoves ==
  ASSUME FolioTxInv, CountInv, NEW p \in Procs,
         CommitDuplicate(p) \/ CommitOpen(p) \/ CommitStart(p)
  PROVE  CountInv' /\ UNCHANGED Stock!vars
<1>1. Finish(p) /\ UNCHANGED <<lines, moved, stock, stockRows>>
  BY DEF CommitDuplicate, CommitOpen, CommitStart, lineVars
<1>2. folio \in [Guests -> FolioStatus]
  BY DEF FolioTxInv, LedgerInv, TypeOK
<1>3. ASSUME CommitDuplicate(p) \/ CommitOpen(p), NEW h \in Guests
      PROVE  folio'[h] = "closed" <=> folio[h] = "closed"
  <2>1. /\ (tx[p].at = "commit" /\ tx[p].job.kind = "add") \/ tx[p].at = "keys"
        /\ folio' = [folio EXCEPT ![G(p)] = "open"]
    BY <1>3 DEF CommitDuplicate, CommitOpen, At, Kind
  <2>2. /\ TxGood(p, tx[p], owner, trip, revoked, folio, lines)
        /\ tx[p].job.kind \in Mutations \cup {"open"}
    BY <2>1, Known DEF TxGood, RightKind, Mutations
  <2>3. PICK g \in Guests : g = tx[p].job.guest /\ g = G(p)
    BY <2>1, <2>2, Known DEF G
  <2>4. folio[g] # "closed"
    BY <2>1, <2>2, <2>3 DEF TxGood, HoldsFolio, Posting, Mutations
  <2> QED BY <1>2, <2>1, <2>3, <2>4
<1>4. ASSUME CommitStart(p), NEW h \in Guests
      PROVE  folio'[h] = "closed" <=> folio[h] = "closed"
  <2>1. tx[p].at = "commit" /\ tx[p].job.kind = "start"
    BY <1>4 DEF CommitStart, At, Kind
  <2>2. TxGood(p, tx[p], owner, trip, revoked, folio, lines)
    BY <2>1, Known
  <2>3. folio'[h] = IF owner[<<"folio", h>>] = p THEN "open" ELSE folio[h]
    BY <1>4 DEF CommitStart, Folio
  <2> QED BY <2>1, <2>2, <2>3 DEF TxGood, HoldsFolio
<1> QED BY <1>1, <1>3, <1>4, CommitQuietCounts, QuietTxStep

\* Counting an item by hand is a step of the promise; the other operations of one row
\* charge nobody.
LEMMA AsideMoves ==
  ASSUME FolioTxInv, CountInv, Aside
  PROVE  [Stock!Next]_Stock!vars
<1>1. UNCHANGED <<folio, lines, moved>>
  BY DEF Aside, CompleteOrCancel, CompleteTrip, CancelTrip, SetRevoked, Recount, Edit,
         UpdateCatalogItem, UpdatePaymentSettings, settingVars, lineVars
<1>2. CASE UNCHANGED stock
  BY <1>1, <1>2, QuietTxStep
<1>3. ASSUME NEW i \in Items, NEW n \in 0..MaxStock, Recount(i, n)
      PROVE  Stock!Recount(i)
  <2>1. UNCHANGED <<ChargedUnits, SealedFolios>>
    BY <1>1, QuietUnits DEF Quiet
  <2>2. \A j \in Items \ {i} : stock'[j] = stock[j]
    BY <1>3 DEF Recount, CountInv, CountsAreNumbers
  <2> QED BY <2>1, <2>2 DEF Stock!Recount, ChargedUnits, SealedFolios
<1> QED
  BY <1>2, <1>3
     DEF Aside, CompleteOrCancel, CompleteTrip, CancelTrip, SetRevoked, Edit, Stock!Next,
         UpdateCatalogItem, UpdatePaymentSettings, settingVars, lineVars

\* Every statement keeps the counts good and is a step of the promise or none of its own.
LEMMA TxStockStep ==
  FolioTxInv /\ CountInv /\ [TxNext]_txVars => CountInv' /\ [Stock!Next]_Stock!vars
<1> SUFFICES ASSUME FolioTxInv, CountInv, [TxNext]_txVars
             PROVE  CountInv' /\ [Stock!Next]_Stock!vars
  OBVIOUS
<1>1. ASSUME UNCHANGED ledger PROVE [Stock!Next]_Stock!vars
  BY <1>1, QuietTxStep DEF ledger, vars
<1>2. ASSUME NEW p \in Procs, NEW job \in Jobs, Begin(p, job)
      PROVE  CountInv' /\ [Stock!Next]_Stock!vars
  BY <1>1, <1>2, BeginCounts DEF Begin, Read
<1>3. ASSUME NEW p \in Procs, Step(p) PROVE CountInv' /\ [Stock!Next]_Stock!vars
  <2>1. CASE Waits(p) = {} /\ Underway(p)
    BY <1>1, <2>1, UnderwayCounts, UnderwayQuiet
  <2>2. CASE CommitDuplicate(p) \/ CommitOpen(p) \/ CommitStart(p)
    BY <2>2, QuietCommitMoves
  <2>3. CASE (\E l \in LineIds : CommitLine(p, l)) \/ CommitClose(p)
    BY <2>3, LineCommitMoves, CloseCommitMoves
  <2> QED BY <1>3, <2>1, <2>2, <2>3, StepIs
<1>4. ASSUME NEW p \in Procs, Disconnect(p) \/ BreakDeadlock(p)
      PROVE  CountInv' /\ [Stock!Next]_Stock!vars
  <2>1. Fail(p) /\ UNCHANGED ledger
    BY <1>4 DEF Disconnect, BreakDeadlock, Fail
  <2> QED BY <1>1, <2>1, FailCounts
<1>5. CASE Aside
  BY <1>5, AsideCounts, AsideMoves
<1>6. CASE UNCHANGED txVars
  <2>1. UNCHANGED <<ledger, tx, owner, stockRows, lines, stock>>
    BY <1>6 DEF txVars, ledger, vars
  <2> QED BY <1>1, <2>1 DEF CountInv, CountsAreNumbers, ItemRows
<1> QED BY <1>2, <1>3, <1>4, <1>5, <1>6 DEF TxNext, Aside

\* Nothing has been read yet, and the rows of earlier voyages are the catalog's.
LEMMA CountsStart == TxInit => CountInv /\ Stock!Init
<1> SUFFICES ASSUME TxInit PROVE CountInv /\ Stock!Init
  OBVIOUS
<1>1. Stock!Init /\ CountsAreNumbers
  BY InitStock DEF TxInit
<1>2. ItemRows
  <2>1. \A l \in DOMAIN lines : lines[l] \in LegacyLines
    BY DEF TxInit, Init
  <2> QED BY <2>1 DEF LegacyLines, ItemRows
<1>3. \A p \in Procs : tx[p] = Idle /\ CountGood(p, tx[p], owner, stock, lines)
  BY IdleCounts DEF TxInit
<1> QED BY <1>1, <1>2, <1>3 DEF CountInv, TxInit

\* Between its first look at a count and its commit, what a request has read of the boat's
\* stock is what the rows hold, and it has read all that its lines move.
THEOREM TransactionsReadCounts == TxSpec => []CountInv
<1> QED BY CountsStart, TxStockStep, FolioTxInvariant, PTL DEF TxSpec

\* However requests interleave, fail, wait for each other and are rolled back, every unit
\* that leaves the boat through a folio is charged to its guest in the same commit, and a
\* settled folio's charges never move.
THEOREM TransactionsKeepStockPromise == TxSpec => ImplementsStockLedger
<1>1. FolioTxInv /\ CountInv /\ [TxNext]_txVars => [Stock!Next]_Stock!vars
  BY TxStockStep
<1>2. TxInit => Stock!Init
  BY CountsStart
<1> QED BY <1>1, <1>2, FolioTxInvariant, TransactionsReadCounts, PTL
     DEF TxSpec, ImplementsStockLedger, Stock!Spec

\* Requests carry what their statements expect, and one that is answered holds no lock.
THEOREM TxTypeCorrect == TxSpec => []TxTypeOK
<1>1. FolioTxInv /\ CountInv => TxTypeOK
  <2> SUFFICES ASSUME FolioTxInv, CountInv PROVE TxTypeOK
    OBVIOUS
  <2>1. ASSUME NEW p \in Procs
        PROVE  /\ tx[p].job \in Jobs \cup {Nothing}
               /\ tx[p].delta \in Int
               /\ tx[p].todo \subseteq Guests \cup Items
               /\ DOMAIN tx[p].seen \subseteq Items
               /\ At(p, "idle") => tx[p] = Idle /\ Held(p) = {}
    <3>1. /\ TxGood(p, tx[p], owner, trip, revoked, folio, lines)
          /\ CountGood(p, tx[p], owner, stock, lines)
          /\ DOMAIN owner = Rows
      BY DEF FolioTxInv, CountInv
    <3>2. CASE tx[p].at = "idle"
      <4>1. tx[p] = Idle /\ tx[p].job = Nothing /\ DOMAIN tx[p].seen = {}
        BY <3>1, <3>2 DEF CountGood, Idle
      <4>2. Held(p) = {}
        BY <3>1, <3>2 DEF TxGood, Held
      <4> QED BY <3>1, <4>1, <4>2 DEF CountGood
    <3>3. CASE tx[p].at # "idle"
      BY <3>1, <3>3 DEF CountGood, TxGood, SeenUnderLock, At
    <3> QED BY <3>2, <3>3
  <2> QED BY <2>1 DEF TxTypeOK, CountInv
<1> QED BY <1>1, FolioTxInvariant, TransactionsReadCounts, PTL

=============================================================================
