# Verification of the liveaboard backend

TLA+ modules, TLC configurations and TLAPS proofs for the Go backend of this repository
(`src/cmd/server`, `src/internal`): a PostgreSQL-backed HTTP server with which an operator
of dive boats runs voyages — boats and their cabins, trips and their manifests, guest
registration, a consumption ledger on board and its settlement; staff sign in with accounts
of their own, and voyages are imported from a listing site or a spreadsheet.

1. [The system](#1-the-system)
2. [The modules](#2-the-modules)
3. [What the runs check](#3-what-the-runs-check)
4. [Bounds](#4-bounds) and [fairness](#5-fairness)
5. [What is proved](#6-what-is-proved)
6. [Where the code and its documents disagree](#7-where-the-code-and-its-documents-disagree)
7. [What is not modelled](#8-what-is-not-modelled) and [the plan](#9-the-plan)

## 1. The system

Every request is one goroutine.  A handler in `internal/httpapi` looks at the database
through the connection pool (each look is a transaction of its own), then calls an operation
of `internal/store`, which is a single statement or a transaction at READ COMMITTED.  No
state is shared in memory except the HTTP rate limiter; all interaction is through rows.
The one exception to "every request": an import of liveaboard.com is a goroutine of its own
that outlives the request and writes what it does into a job row the client polls.
So what can go wrong is what happens *between* statements: of two requests, of the looks and
the write of one request, or of one transaction and its client's disappearance.  The router
gives every request 15 s (`middleware.Timeout`, `httpapi.go:74`); when they are up, or the
client goes, the request's context is cancelled and its transaction rolled back.

| Component | State | Operations | Interacts with | Hard behaviour | Correct when |
|---|---|---|---|---|---|
| Consumption ledger (`guest_folios.go`) | `guest_folios`, `guest_folio_lines` and their `stock_movements` | open, add, update, delete a line, tip, close | inventory, catalog, fees, trip status, manifest | several devices on one folio; resent requests; settlement against edits; lock orders; lines that predate live stock posting | stock and charges move together; a request charges once; a settled folio balances and is frozen |
| Boat inventory (`inventory.go`) | `boat_inventory_items`, `stock_movements` | set, adjust; movements of lines | ledger | a row read and overwritten by two transactions, or inserted by both | no movement is lost |
| Catalog, prices (`catalog*.go`) | items, overrides | create, edit, archive, reprice | ledger | edited between the ledger's two reads | a line's amounts and movements agree with themselves |
| Payment settings (`payment_settings.go`) | card fee, methods, currencies | edit | settlement | edited while a folio is settled | a bill keeps the rate it was made with |
| Trip lifecycle (`trip_lifecycle.go`) | `trips.status` | start, complete, cancel | readiness, ledger | readiness read outside the transaction and on a second pool connection | ready when started; every start answered |
| Manifest and invitations (`trip_guests.go`) | `trip_guests`, `guest_trip_invitations` | invite, resend, revoke, accept | cabins, accounts | accepting against revoking, in opposite lock orders | one open invitation, ended once; accounts linked by invitations only |
| Cabins and berths (`cabins.go`) | cabins, berths, assignments | lay out, assign, move, unassign, deactivate | manifest, readiness | guests swapped; guest revoked or berth closed under an assignment; two statements without a transaction | one guest per berth; revoked guests and closed berths hold nothing |
| Guest registration (`guest_registrations.go`) | the registration row, the time the manifest shows | save a draft, submit | manifest, readiness | two devices: check, read the body, write | submitted means validated, and stays so |
| Trips and imports (`trips.go`, `internal/imports`, `import_handlers.go`) | trips, previews, jobs, one goroutine per job | import from a site, upload and commit a spreadsheet, replace future trips | lifecycle, shutdown and start of the server | an import replaces trips being started; a job cut off by a crash or by the deadline of a shutdown; a bookkeeping statement fails | a success means the trips are in place; a job ends; the file is the schedule |
| Staff accounts (`internal/auth`) | users, sessions, links (verification, reset, change, invitation) | sign up, sign in, invite, reset, change password or e-mail | routes | flows of several statements without a transaction, crossing each other or stopping half-way | a link works once; a verified address was proven; a new password signs others out |
| Sign-in cooldown (`auth/throttle.go`) | one row per address | check, record a failure, clear | accounts | the count is read, then written | the lock is the one the schedule gives |
| Guest accounts and portal | accounts, documents | sign in, accept, register, upload | manifest, routes | gates looked at before the write | a guest reaches their own rows only |
| Routes and reports (`internal/httpapi`) | — | 86 handlers: gates, reads, writes, audit events, mails | everything | the gates and the write are separate looks; directors, trips and guests change in between; two routes have no gate on closed trips | nothing of another organization or another's trip is touched; a closed trip keeps its record; nothing is reported that did not happen |
| Booking quotes, deposits, leads | quotes, deposits, leads | (no handler calls the quote operations yet) | trips | — | guarded single statements |
| Exchange rates (`fx.go`, `fxauto`) | rates | refresh, set, convert | settlement | — | one half-up rounding of exact rationals |
| Rate limiter, crew, equipment, day plans, briefings, scraper, rendering of mails and documents, configuration | — | — | — | — | no route or caller, parsing, or I/O |

`PROJECT.json` lists every component with its files and status, and under `hazards` each
place where this code is exposed to something a test would hardly reach, with the properties
that would catch it.

## 2. The modules

    StockLedger            what the ledger promises about stock (abstract)
      ^ implemented by
    FolioLedger            the ledger, one transaction per step        FolioLedger_proofs
      ^ EXTENDS
    FolioTx  --- RowLocks      the same transactions, statement by statement   FolioTx_proofs
    Manifest --- RowLocks  \   invitations, acceptance, berths, by statement   Manifest_proofs
    GuestRegistration      /   one guest's registration, look by look   GuestRegistration_proofs
       MCGuests explores both
    Voyages  --- RowLocks  \   start, complete, cancel, import, on a pool      Voyages_proofs
    ImportJobs             /   jobs, goroutines, commits, server's life
       MCOffice explores both                                             Office_proofs
    Statements <- Handlers <- Requests  \   what each route asks of the database Requests_proofs
    Accounts                             |  staff accounts, links, sessions    \ Accounts_proofs
    Throttle                            /   the cooldown of sign-ins           /
       MCRequests explores the three

**StockLedger** has three variables: units charged to each guest, whether the guest's folio
is sealed, units on hand.  A step moves units between the boat and one unsealed guest, seals
a guest, or recounts an item.  Nothing else about trips, prices, lines, locks or requests is
said: it is the promise a purser relies on.

**FolioLedger** models `guest_folios.go` with the rows it reads: `trip` (`trips.status`),
`revoked` (`trip_guests.revoked_at`), `catalog` (status, stock mode and effective price),
`feeRate`, `folio`, `bill` (the money columns written at settlement), `lines` (a function
whose domain is the rows inserted, voided ones included), `moved` (for each line the sum of
its movements) and `stock`.  One action per operation, named for it: `AddCatalogLine`,
`AddCrewTip`, `UpdateQuantity`, `UpdateTip`, `DeleteLine`, `CloseGuestFolio`,
`OpenGuestFolio`, and those of the neighbours that change what the ledger reads
(`StartTrip`, `CompleteTrip`, `CancelTrip`, `RevokeTripGuestInvite`,
`ResendTripGuestInvite`, `AdjustStock`, `SetBoatInventoryItem`, `UpdateCatalogItem`,
`UpdatePaymentSettings`).  It starts at the deployment of live stock posting (migration
0018): open folios may hold lines whose stock was left for settlement to take.  Money is in
cents; the card fee is computed as the code does, by integer division.

**RowLocks** is PostgreSQL's part: who owns each row, whom a statement waits for, and what a
cycle of waits is.  It is external: modelled from what the store's statements rely on.  The
key of a row being inserted is locked like the row, which is how a unique index makes a
second inserter wait.

**FolioTx** EXTENDS FolioLedger and runs each transaction as a process: `tx[p].at` is the
next statement, `tx[p].row`, `delta` and `seen` are what Go variables hold, `owner` the row
locks, `stockRows` which inventory rows exist.  A statement is enabled when no row it must
lock (`Wants`) is owned by another; nothing a transaction writes is visible until its commit
action, which publishes it and frees the locks.  Between any two statements the client may
vanish, the request time out or the server die (`Disconnect`), and a process in a cycle of
waits may be the victim (`BreakDeadlock`); both roll back.  The order of statements is the
code's: a line mutation locks trip and guest, then the folio, then reads the item, the
price, then the stock row; settlement locks the folio, reads the manifest, locks the trip,
computes the bill, then locks stock rows one by one.  A unique violation fails the
transaction (also where the code means to tolerate it, `guest_folios.go:766`: PostgreSQL
has aborted the transaction by then).

**Manifest** models one trip's guests, invitations and berths the same way, from
`trip_guests.go` and `cabins.go`.  `seat[g]` is the guest's active assignment row; it is one
row under two unique keys, so assigning locks the guest's key and the berth's.  The
revocation mark is *read* by `assignTripGuestBerthTx` without a lock (`CheckGuest`), and an
UPDATE that waits takes only rows its snapshot had (`SeeSeat`, `SeenRows`): an assignment
inserted meanwhile is not ended by a revocation.  Accepting an invitation locks the
invitation, then the guest; inviting, resending and revoking the guest first.
`DeactivateBoatCabin` is two statements with nothing around them, hence two steps with a
possible `Disconnect` in between.

**GuestRegistration** models the two handlers of `guest_registration_handlers.go` look by
look: access, trip status, the check for an earlier submission (draft) or validation, clock
and the original time (submission), then the write, which is one step because the upsert's
row lock already orders the writes of two requests.

**Voyages** is the trips of one organization under the transactions of `trip_lifecycle.go`
and `trips.go`.  A process first takes one of `PoolSize` connections and keeps it.
`StartTrip` and `CompleteTrip` lock the trip and then look at its readiness *through the
pool*, so they need a second connection (`ReadReadiness`); the manifest may change between
that look and the commit (`ChangeManifest`), which the field `stale` observes.  An import
goes boat by boat in whatever order Go ranges over a map, upserting the trips its file names
and then hiding the future ones it does not; `alone` observes that no other import overlaps
it.  A trip keeps its status through an import.  Whoever waits — for a connection, or for a
row — may be cut off by the 15 s limit (`GiveUp`), a cycle of row locks by the detector.

**ImportJobs** is the job rows, the goroutine of each, the requests that commit a
spreadsheet, and the server's life: `Drain`, `WaitDeadline` (jobs still running are marked
failed, and their goroutines run on), `Exit`, `Crash` at any moment, `StartServer` with its
sweep of what the last process left.  Any bookkeeping statement may fail (`Fault`).
Replacing the trips, the subject of Voyages, is one step here; `replaced` remembers which
jobs did it.

**Statements, Handlers, Requests.**  `Statements` lists the statements of the store by what
their WHERE clause ties to the request: the organization, the trip, the boat, the guest, a
status, a mark.  `Handlers` writes each of the 86 routes as the sequence of its gates, reads,
writes, audit events and mails, those only an administrator or only a director goes through
marked as such (`For`; a request of another role passes over them, `PassOver`).  `Requests` gives these sequences a meaning over rows known by the place they
hang (organization, boat, trip, guest) and follows one request through them, while between
any two statements other requests assign or remove directors, move trips on, and revoke or
invite guests.  What a row contains is not there: the subject is whose rows are touched, when,
and what is said about it.

**Accounts** is `internal/auth` over users, sessions and the four tables of links.  A flow
(signing up, verifying, resetting, changing the address, accepting an invitation) is the list
of statements it has left in `client[c].steps`, run one by one with other flows in between;
any flow may stop between two of them.  What the properties need to remember is in three
ghost variables no action reads: `proven` (which addresses someone who reads them vouched
for), `uses` (how often a link took effect), `torn` (whose flow stopped half-way).

**Throttle** is the cooldown: a failed sign-in reads the count, works out the lock for one
more and then writes both.  The ghost `crossed` marks addresses whose failures met another
failure or a success between the two.

Each `MC…` module declares model values and small sets for its component; each `.cfg` gives
the constants their values and names a specification and the properties of one run.
Definitions commented "Mutant of X" are plausible bugs of X: replacing X by them makes the
property named in `PROJECT.json` fail, which shows the property can fail.

## 3. What the runs check

| Run | Question | Properties |
|---|---|---|
| `MCFolioLedger` | do whole transactions, in any order, keep the books? | `ClosedFolioBalances`: a settled bill is that of its lines, nothing left unposted. `OneTipPerFolio`. `ImplementsStockLedger`. |
| `MCFolioTx` | do the ledger's promises survive two requests interleaved statement by statement? | `LineStockBalances`: the movements of a line add up to what is charged. `OneLinePerRequest`: a resent charge never makes a second line, even after a void. `ClosedFolioBalances`. `ClosedFolioFrozen`: nothing of a settled folio changes. `ChargesMoveOnlyUnderWay`: charges change only for a guest on the manifest of an active voyage. `ImplementsStockLedger`. |
| `MCFolioLive` | is every request answered, and does a raced tip leave one? | `EveryRequestEnds`, `OneTipPerFolio` |
| `MCFolioOrder` | does settlement follow the documented lock order? | `WaitsFollowLockOrder` — violated, see 7 |
| `MCGuests` | do invitations, revocations, acceptances and placements keep the manifest? | `OneGuestPerBerth`; `OpenInvitations`: at most one, none when revoked; `JoinsByInvitation`: an account is linked only by the request that ends an open invitation, of a guest on the manifest; `InvitationsEndOnce`. Does "submitted" mean complete, shown, and since when? `SubmittedIsComplete`, `SubmittedIsShown`, `ShownTimeStays`. |
| `MCManifestLive` | is every request answered when accepting meets revoking and guests are swapped? | `EveryRequestEnds` |
| `MCManifestRevoke` | does revoking free the berth? | `RevokedHoldsNoBerth` — violated, see 7 |
| `MCManifestCabin` | is an active berth in an active cabin? | `ActiveBerthInActiveCabin` — violated, see 7 |
| `MCGuestDraft` | does a submission stay one? | `SubmissionStays` — violated, see 7 |
| `MCRequests` | who can touch what, through any route, while the rest of the office works? do accounts, links and the cooldown keep their promises? | `RowsStayHome`: no row of another organization. `AssignmentsStayHome`: directors are on trips of their own organization. `ActorsKeepToTheirOwn`: a director touches only trips and boats of theirs, a guest only their own place. `ClosedTripsKeepTheirRecord`: by no route is the record of a trip written (who sails and directs, registrations, documents, charges, berths given, tabs opened, its status) when it was over as the request began; freeing a berth and settling a tab are left to the next run. `ToldOnlyWhatHappened`: an audit event or mail reports what this request did. `PasswordChangeSignsOut`, `VerifiedAddressesAreProven`, `LinksWorkOnce`. `LocksFollowSchedule`. |
| `MCClosedTrip` | is a closed trip read-only, freeing a berth and settling a tab included? | `ClosedTripsAreReadOnly` — violated, see 7 |
| `MCOffice` | do voyages, their audit log and their imports agree, and does everything end? | `TransitionsRecorded`: each start, completion, cancellation is recorded once. `StartsReady`: a trip starts only ready, unless its manifest changed after the look. `ImportIsAuthoritative`: an import that overlaps no other leaves exactly its file's trips listed. `EveryTripRequestEnds`. `SucceededMeansReplaced`: a job that says it succeeded did replace the trips. `JobsEnd`: a job in flight ends, and one a failed statement left in flight ends with the next start of the server. |

Some properties make an exception for what the code does not achieve; they show that nothing
*else* goes wrong, and do not cover the exception itself.  `StartsReady` excepts a manifest
that changed after the look (`stale`), `ImportIsAuthoritative` imports that overlap (`alone`),
`PasswordChangeSignsOut` sign-ins under way (`late`) and, like `LinksWorkOnce`, flows cut off
half-way (`torn`), `LocksFollowSchedule` failures that cross (`crossed`), and
`ActorsKeepToTheirOwn` and `ClosedTripsKeepTheirRecord` what changes after the request began.
`PROJECT.json` lists each of these as a hazard no property covers, and section 7 says where a
document promises more.

Each component also has one type invariant.  In the concurrent modules it says that only a
request in flight holds locks, which the deferred rollbacks must see to.

**Refinement.** `ImplementsStockLedger` maps FolioLedger's state to StockLedger's: units
charged are the quantities of a guest's standing, posted lines; sealed is closed; on hand is
the inventory count.  FolioTx inherits the mapping, so the interleaved transactions are
checked against the abstract promise directly: a lost update of a count, or a line without
its movement, is a step StockLedger does not have.

Three runs explore several modules that share no variable, one at a time: the variable `part`
is chosen at the start and says which of them moves, so that the states add up instead of
multiplying.  `FolioTx` with `RowLocks` and `FolioLedger`, `Manifest` and `Voyages` with
`RowLocks`, and `Requests` with all handlers are real compositions.

Deadlock is checked in every run: TLC finds no state in which nobody can move.  (`MCRequests`
lets the accounts rest once their bound on flows is used up, and only then.)

## 4. Bounds

* **Two processes.** A lock cycle, a lost update and a stale read all take two
  transactions; and the runs pair every kind of request with every other of its
  component.  What three transactions could add is a cycle of three; the detector treats it
  like a cycle of two, and `RowLocks` states it for any set of processes.
* **Line ids** (`LineIds`) bound how many lines are ever inserted, **invitation ids**
  (`InviteIds`) how many invitations; a request that may insert one starts only while an id
  is left (`IdLeft`), so a bound never blocks a transaction half-way.  Two lines are enough
  to hold a duplicate, a second tip, or a void and its resend; two invitations to hold one
  and its replacement.
* **Amounts**: quantities 1 and 3 differ in both directions of an edit; prices of 150 and
  350 cents with a 3 % fee make the fee round; tracked, untracked and archived rows cover the
  branches on an item; stock starts at 0 or 1 so that it goes negative, as the code allows.
* **Guests and berths**: two guests sharing an item in `MCFolioLedger` (stock of both on
  one row); two guests and two berths in two cabins in `MCGuests` (a swap).
* **Routes** (`MCRequests`): two organizations, the first with two trips of one boat and two
  guests, one of whom sails with the other organization too; an administrator, a director
  and a guest call every route with every target, of either organization.  `Changing` says
  which trip and which guest change under a request: the pairs a gate can be wrong about.
  One request is followed, because what the others do to it is what `Others…` do.
* **Accounts**: two account rows, two addresses, two browsers, two links, one replaced
  password, and `MaxFlows` = 5: enough for a link to be issued, superseded and used by two
  flows at once, and for an invitation accepted half-way to be accepted again.
* **Cooldown**: the schedule is moved down (`LockAt` = 2 for 5 failures, `Longest` = 3 for the
  three durations of the code) and the count stops at 6, past the last step of the schedule;
  three sign-ins at once, so that two failures cross and a success meets them.
* **Voyages**: two requests on two connections, the least with which two starts exhaust the
  pool; two trips on two boats named in both orders; one trip whose manifest changes.
* **Closed trips** (`MCClosedTrip`): the constants of `MCRequests`, so that the same states are
  explored.
* **Jobs**: two jobs, one preview, two requests committing it at once, one failed statement
  (`MaxFaults`); crashes and restarts are not bounded.  A job or commit begins only while a
  row is left for each commit on its way (`RowLeft`).
* **Clock** (`MaxTime` = 3): two first submissions and a later one.
* **Symmetry** is used in safety runs only, over processes, ids and (in `MCGuests`)
  guests, whose jobs are the same; never with liveness.

## 5. Fairness

`SF(Step(p))` for each process: a statement whose locks are free returns, and when it is
waiting, the queue for its rows is served — PostgreSQL grants row locks in the order they
were asked for, so a statement enabled again and again is eventually taken.
`WF(BreakDeadlock(p))`: a transaction in a cycle of waits stays in it until
`deadlock_timeout` runs the detector, which ends one.  Nothing is assumed of clients: no
request need ever start, disconnects are never required, and in these two modules the 15 s
limit is not used, so `EveryRequestEnds` says that requests end by themselves.  There is no fairness on
`Manifest`'s single-statement unassignment or on recounts, which may interfere for ever.

`MCOffice` assumes `WF(Served(p))`: a process whose statement can return, or whose time is up
while it waits (`GiveUp`), or which the detector picks, is served.  Here the 15 s limit *is*
used, because nothing else ends the wait of starts that hold every connection while each
asks for one more: without it `EveryTripRequestEnds` fails.  `WF(WorkerStep(j))` and
`WF(CommitStep(u))`: a goroutine that is running goes on; `WF(StartServer)`: a server that is
down is started again by what supervises it.  Crashes, signals, faults, expiries and clients
have no fairness.  `MCRequests` has no liveness property and assumes nothing.

## 6. What is proved

For every value of the constants, from the named assumptions of the modules
(`DataAssumption`, `LayoutAssumption`, `JobAssumption`, `ProcAssumption`,
`PayloadAssumption`, `TimeAssumption`, `VoyageAssumption`, `ImportAssumption`,
`AccountsAssumption`, `ThrottleAssumption`, `RequestAssumption`), which TLC evaluates in the
runs.  So: for any number of requests at once, guests, lines, berths, trips, boats, jobs,
accounts and links.  Four of the assumptions are more than types: there are finitely many line ids
(`DataAssumption`: a table is finite, and sums over it are only then defined); an account row
is not a link (`AccountsAssumption`: two tables); and a file lists its trips by boat, under
its own provider (`FileOf` in `VoyageAssumption`: the conflict target of the upsert is boat,
provider and source key); and the rows of requests hang in a tree, with directors on trips of
their own organization to begin with (`RequestAssumption`: the foreign keys, and a database that
is in order when the first request comes).

**FolioLedger_proofs**:

* `TypeCorrect`: `Spec => []TypeOK`.  The only arithmetic needed is that a price times a
  quantity is a natural number.
* `LinesBalance`: `LineStockBalances` alone is not inductive — a void or an edit gives back
  what the line's `posted` mark says was taken, so one must also know that only counted
  lines are ever posted and that a row that is not there has moved nothing.
  `BalanceInv == TypeOK /\ PostedIsCounted /\ LineStockBalances` is, and the proof has one
  step per operation that writes lines.
* `OneLineForARequest` and `OneTip`: each property is inductive with `TypeOK`, once
  `RowsKeepIdentity` is known: every step keeps the guest, type and request of each row and
  adds none, except a new catalog line or a first tip, which the two proofs treat apart.
* `ClosedIsFrozen`: from `FolioWrites` — every step writes the rows of at most one folio,
  which was not closed — and the action property follows for all others.
* `ClosedBalances`: a settled folio's charges are the same *function* on both sides of any
  step (`FrozenCharges`), so their sum is, without knowing what a sum is.
* `ChargesMoveUnderWay`: by cases on the step.
* `StockPromiseKept`: `Spec => ImplementsStockLedger`, the refinement of the abstract stock
  ledger.  The units charged to a guest are a sum over a set of lines, so one must know what
  a sum does when one summand changes, for a fold defined by recursion over finite sets.  An
  induction principle cannot be instantiated here; instead a counterexample of least
  cardinality is taken (`SmallestSubset`) and shown to have a smaller one.  From `TotalUnfold`,
  `TotalPoint` and `TotalPart`, each operation moves `moved`, the charge and
  the count by the same number: `BalanceInv` says a posted line moved exactly its quantity,
  hence what a void gives back is what the guest no longer owes.

**GuestRegistration_proofs** (`TypeCorrect`, `SubmissionsAreComplete`,
`SubmissionsAreShown`, `ShownTimeNeverDrifts`): the write is unconditional, so what the row
holds depends on what the request carries to it.  `RegInv` adds to the three invariants that
a submission past validation carries a complete payload and past the clock a time, and a
draft none.  `QuietStep` reduces every step that writes nothing to what its request carries.

**FolioTx_proofs** carries six of these over to interleaved statements
(`TransactionsBalance`, `TransactionsChargeOnce`, `TransactionsTipOnce`,
`TransactionsSettle`, `TransactionsFreeze`, `TransactionsUnderWay`).  The serial argument
does not apply: what a transaction writes at its commit it decided statements before.
`FolioTxInv` adds to the ledger's invariants, for each process, that what it carries is
still true (`TxGood`): the kind of request fits the statement (`RightKind`), the trip and the
guest it looked at are locked by it and still as they were (`HoldsVoyage`), the folio it is
going to write is locked by it and not closed (`HoldsFolio`), and the row, the bill and the
stock delta in its variables are those of the lines as they are now (`Carries`).  That others
cannot spoil this is one fact about each step: it leaves alone what another process has
locked (`Spares`).  There is one lemma per statement; `LineWritten` and `FolioSettled` say what
a row written or a folio settled does to the ledger, given what its writer holds.

That the interleaved transactions still implement the stock ledger
(`TransactionsKeepStockPromise`) needs one more invariant, `CountInv`: from the moment a
transaction has read a count to its commit it holds that row and the count is still the one
it read; what it has read, is reading and has yet to read together are the items its lines
move, each once.  A lost update is then impossible: the absolute value written is the count
plus the delta.  `TxTypeCorrect` proves the run's type invariant from the two.

**Manifest_proofs** (`OneBerthOneGuest`, `OneInvitationOpen`, `AccountsJoinByInvitation`,
`InvitationsEnd`) has the same shape: `ManifestInv` says that a transaction holds the guest,
the invitations and the berth it is about to write, and found them so.  The unique keys of an
insertion are locks like the others, which is where two inserters are told apart.
`ManifestTypes` proves the type invariant by itself, from the fact that every way a request
ends frees its rows.

**Voyages_proofs** (`TransitionsAreRecorded`, `StartsAreReady`): a process that is going to
write a status holds the trip, and the trip still has the status it was found with
(`TxGood`), so that the audit counts add up whatever imports do.  That a start is ready
follows from `LookedReady`: past the look, ready unless the manifest changed since.
`ImportsAreAuthoritative` is about a transaction of many statements and what default lists
show after its commit.  `SweepInv` says of an import that no other overlaps: what is shown of
the boats it has begun is in its file or about to be hidden (`Covers`), and nothing its file
names is about to be hidden (`Spares`).  Starts, completions and cancellations change the
status of a trip that is there into another, so the lists stay as the import read them; two
imports at once are not alone (`AloneInv`), and nothing is claimed of them.  `VoyagesTyped`
proves the types and that no more transactions are open than the pool has connections.

**Office_proofs** (`SucceededReplaced`, `SuccessStays`): a job's row has one writer besides the
sweeps (`OneOwner`), and whoever is about to write a success has replaced the trips
(`AboutToSucceed`); no sweep touches a row that succeeded.  `OfficeRunsBoth` shows that the
specification the run explores behaves as both parts, whichever moves, so every theorem about
either holds of it; `OfficeTyped` is its type invariant.

**Accounts_proofs** (`VerifiedAreProven`): `AccountsInv` says of each link that it was mailed
to the address it is about (`LinkGood`), and of each flow under way that what it is about to
write was vouched for (`FlowGood`) — with the delicate case that an account's address may
change between the look-up of a verification link and the statement that marks it
verified: it only changes to an address another link has just vouched for (`Grows`).
`PasswordsSignOut` and `LinksOnce` need what flows have still ahead of them.  `RowsInv` says
that the statements a flow has left are always one of a dozen sequences (`FlowRows`), and which of
its columns are filled by then.  `SignOutInv`: a session opened with a replaced password is
one that began before the replacement and was minted after it (`late`), belongs to an account
whose flow was cut off (`torn`), or a flow is about to end it (`Clears`) — and the one
session a change of password spares is its own, which carries the new password (`KeepsOwn`).
`LinksInv`: a link other than an invitation is used up before it takes effect, by one flow at
a time; an invitation takes effect first and is used up after, so it took effect at most as
often as acceptances are pending on it (`Joins`), and once more when it is used up, unless an
acceptance was cut off.  `AccountsTyped` is the type
invariant.

The same module proves the cooldown (`LocksFollow`, `ThrottleTyped`): on an address nothing
crossed on, the one failure under way has read the count as it still is (`OneReader`).

**Requests_proofs** (`RequestsStayHome`, `DirectorsStayHome`, `CallersKeepToTheirOwn`,
`ClosedTripsAreKept`, `ReportsAreTrue`) is about 86 given sequences of statements, for any
number of organizations, boats, trips, guests and accounts, in two halves.

The first half knows no state.  A statement that found a row, or wrote one, leaves *facts*
behind (`Earns`): a trip found by `organization_id` and `trip_id` is the caller's
(`trip_home`), one found among the caller's assignments is theirs (`trip_own`), one found
not over was open when the request began (`trip_open`); a guest found under a trip is of that
trip (`guest_in_trip`); a table written was written.  A statement is `Safe` when its
columns, with the facts before it, bind the rows it touches: to the organization
(`HomeBound`), to the director (`OwnBound`), to the guest (`GuestBound`), to open trips
where it writes their record (`OpenBound`, `OfRecord`); when what it sets keeps assignments at home (`SoundEffect`); and when what it
tells is known to have been written, or sent to the client (`Told`).  `Does(role, needs,
steps, gives)` says that a sequence is safe once `needs` is known, and leaves `gives` known.
`Then`, `Weaken`, `ForSome` and `AdminsOnly` put sequences together, so that each function
of the store and each gate has one lemma (`StaffGates`: "after `authorizeManifestAccess`, the
trip is the director's"), each route is the sum of its gates and its statements, and
`RoutesSafe` says that all of them are safe from their first statement.  A new route needs one
line; one that writes ahead of its gate, or by an id no statement has tied to the
organization, has no proof.

The second half ties facts to the state.  `Fact(f, done)` says what a fact means of the request
in flight, and `RequestInv` that everything its statements have left known is true of it.
That is inductive because facts are about what does not change while a request is answered
(the organization of a row, the trip of a guest) or only grows (`own`, what was the caller's
when the request began or since; `done`), or was noted at the beginning (`openThen`): another
request that removes the director or ends the trip between a gate and the write it guards
takes no fact back (`OthersKeep`).  That is also exactly what the gates of this code are worth,
and why `ActorsKeepToTheirOwn` says "when the request began or since" and
`ClosedTripsKeepTheirRecord` "over before the request began".  `ClosedTripsAreKept` exempts no
route: `OfRecord` tells kinds of change apart, and the two it leaves out, freeing a berth and
settling a tab, are those the code makes on closed trips too (`MCClosedTrip`, see 7).  `Earned` proves each fact from the rows its statement found, `TouchedAtHome`,
`TouchedOwn`, `TouchedGuest` and `TouchedOpen` what a safe statement touches, and
`RequestsInductive` the induction.  The assumptions are that places form a tree
(organization, boat, trip, guest) and that directors assigned at the beginning are on trips of
their own organization (`RequestAssumption`).  TLC finds `RequestInv` true of every state of
`MCRequests` as well.

`AccessRunsThree` shows that the specification the run explores behaves as `Requests`,
`Accounts` and `Throttle`, whichever moves; `AccessTyped` is its type invariant.

**Only model-checked**: liveness (`EveryRequestEnds`, `EveryTripRequestEnds`, `JobsEnd`),
which is out of the prover's reach under fairness, and what the runs that expect a violation
show.  Every invariant and every action property of a passing run is a theorem.

## 7. Where the code and its documents disagree

* **Lock order of settlement** (`MCFolioOrder`).  `docs/sprints/SPRINT-019.md:153-160` gives
  one lock order for add, update, delete and close, trip first; `CloseGuestFolio` locks the
  folio first (`guest_folios.go:556`).  A charge and a settlement of one guest can wait for
  each other; PostgreSQL ends one of them and `EveryRequestEnds` still holds, but a purser
  sees an internal error.
* **A revoked guest can keep a berth** (`MCManifestRevoke`).  `SPRINT-016.md:38` says
  revoking clears the assignment; one committed between the assignment's look at
  `revoked_at` and its commit does not see it.  The berth is then refused to everyone else
  by the unique index.
* **Active berths in an inactive cabin** (`MCManifestCabin`).  The comment at
  `cabins.go:734` takes the parent to imply it; `DeactivateBoatCabin` is two statements, and
  a request cut off after the first leaves berths that are counted but cannot be assigned.
* **A draft overwrites a submission** (`MCGuestDraft`).  The comment at
  `guest_registration_handlers.go:104` says a draft is rejected once submitted; the check
  and the write are separate, so a draft checked before a submission and written after it
  replaces it.  The manifest goes on showing the guest as submitted
  (`registration_submitted_at` is never cleared) while the trip can no longer start.

* **A closed trip is not read-only** (`MCClosedTrip`).  `SPRINT-018.md:54-56`: "Completed and
  cancelled trips are read-only for guest, document, cabin, registration, folio, and
  director-assignment mutations unless a handler explicitly documents a historical read/resend
  exception"; 251: "Block cabin assignment changes"; 255: "Block folio open/line
  mutation/close".  `handleCloseGuestFolio` (`guest_folio_handlers.go:262`) has no
  `ensureTripMutable`, and `CloseGuestFolio` locks the trip without looking at its status: the
  run ends with a tab settled after the trip.  `handleUnassignGuestCabin`
  (`cabin_handlers.go:211-236`) has none either, though `cabin_handlers.go:168` says mutating
  handlers have it: with a gate on the first, the property fails at the second.

Met while modelling, and not the subject of a run:

* Confirming an address: `auth/email_change.go:92-94` says the request row is consumed when
  the address was taken meanwhile, "so the user can start fresh"; the address stays in
  `email_change_requests` under a plain UNIQUE constraint and can never be asked for again
  (`NotRequestedYet`).  `httpapi.go:129-131` says the route also works signed out; it stands
  under the staff session middleware.
* A trip may end, a director be taken off or a guest revoked between a handler's gate
  (`guest_manifest_handlers.go:259`, `cruise_director_assign.go:67` and `116`) and its write,
  which does not look again, so a trip that closes under a request is still changed.  Charges
  do look again (`ChargesMoveOnlyUnderWay`).
* `SPRINT-018.md:122-128` lists as start blockers "active guest lacks berth assignment" and
  "active guest has not submitted registration".  `StartTrip` looks for them outside its
  transaction (`trip_lifecycle.go:150`): a berth freed after the look blocks nothing (`stale`).
* `trips.go:237-238`: "the file is the authoritative schedule for THAT boat's future
  spreadsheet trips".  The sweep of one import (328) does not see what an overlapping one has
  not committed, and both files' trips stay listed (`alone`).
* `liveaboard_runner.go:74-75`: "the SPA polls … until the status is terminal".  When
  `MarkImportJobRunning` fails the goroutine returns (140); the deferred update of lines 79-80
  does not exist, and the job waits for the next start of the server (`JobsEnd`).
* `password.go:92-94`: "rotates the password, invalidates ALL existing sessions for the user",
  and 134-136.  Hash and sessions are two statements; a request cut off in between leaves the
  sessions (`torn`).
* `store/invitations.go:139`: "AcceptInvitation marks an invitation accepted in the same
  transaction that creates the new user".  They are two statements (`auth/invitations.go:190`);
  an acceptance cut off in between leaves the invitation open (`torn`).
* `store/email_verifications.go:53-55`: "only the latest link works".  Deleting the older
  links and inserting the new one are two statements; two requests that both delete first
  leave two links that work.
* `throttle.go:53-54`: "RecordFailure bumps the failure count and recomputes locked_until per
  the schedule".  Failures of one address that cross are all counted, but can shorten or drop
  its lock (`crossed`).
* `ResetPassword` opens a session for an account whose address was never verified.
* Two starts on a pool of two wait for each other until the 15 s limit ends one.
* A preview with a vessel the organization does not have can never be committed: the boat
  `createManualBoat` makes has no URL, which `UpsertBoat` refuses.
* `handleUnassignGuestCabin` records that a berth was freed when the guest had none.
* `DeactivateUser` has no caller outside its test.

## 8. What is not modelled

* In the ledger: the folio e-mail and its status; the currency a bill is converted to;
  categories and the precedence of price overrides (the effective price is one number);
  handlers' looks at the trip before single-row operations, which may be stale by the time
  the row is written (FolioTx lets those operations happen at any time instead).
* `FOR UPDATE OF t, g` takes both rows at once; a statement that locks several rows takes
  them together.  Foreign-key locks (`FOR KEY SHARE`) are modelled where they meet a
  `FOR UPDATE` of the ledger (`CommitOpen`), not between invitations (which reference the
  trip) and the ledger: guest-then-trip against trip-then-guest is one more pair of orders,
  which the detector breaks like the others.
* In the manifest: `ReplaceBoatCabinLayout`, edits of labels, marks of whether an e-mail
  was sent, expiry of invitations, and the account created before accepting.  An assignment
  ended and made again alike while a statement waits counts as the same row.
* In the routes: what rows contain, and hence validation of bodies, paging and the numbers a
  report computes; conditions on layouts, berths and listings are left open (either outcome).
* In accounts: hashing, password rules and the expiry of sessions; a link expires at any
  time.  In the cooldown: durations are steps of the schedule.
* In imports: what is scraped or parsed; the columns of a trip beyond its status and whether
  it is listed; the deletion of expired previews at start.
* Operations nothing calls yet: portal requests, certifications, booking quotes, deposits and
  leads, crew, equipment, day plans, briefings, public listings, `DeactivateUser`,
  `ComputeTripReadiness`, the rate limiter.
* `ConvertUSDCentsToMinor`: one half-up rounding of arbitrary-precision rationals, in which no
  interleaving, bound or overflow is at stake.  Rendering, transport, files, configuration, scraping.

## 9. The plan

1. `MoneyMath`: the card fee against a reference rounding over bounded inputs, and lemmas on it
   for all inputs.
2. Foreign-key locks between invitations and the ledger, once a run over both modules fits.
