------------------------------- MODULE Voyages -------------------------------
(***************************************************************************)
(* The trips of one organization as requests start, complete, cancel and    *)
(* import them (internal/store/trip_lifecycle.go and trips.go).  Each       *)
(* process is one transaction, run at READ COMMITTED one statement at a     *)
(* time on a connection of the pool; what it writes is seen when it commits.*)
(* Starting and completing read the trip's readiness on the pool, inside    *)
(* their transaction: on a second connection.                              *)
(***************************************************************************)
EXTENDS Naturals, FiniteSets, Sequences, RowLocks

CONSTANTS
  Trips, Boats, BoatOf, SourceOf,  \* trips by source key; each is of one boat and provider
  Future,                          \* those whose start date is today or later
  Unsettled,                       \* those whose manifest changes meanwhile
  PoolSize,                        \* the connections of the pool
  TripJobs,                        \* the requests clients and the import runner send
  NoTripJob

Members(s) == {s[i] : i \in DOMAIN s}

\* A file lists trips by boat, and a trip is known by its boat, provider and source key.
FileOf(job) ==
  /\ DOMAIN job.file \subseteq Boats
  /\ \A b \in DOMAIN job.file :
       /\ job.file[b] \in Seq(Trips)
       /\ \A t \in Members(job.file[b]) : BoatOf[t] = b /\ SourceOf[t] = job.source

ASSUME VoyageAssumption ==
  /\ Future \subseteq Trips /\ Unsettled \subseteq Trips
  /\ BoatOf \in [Trips -> Boats]
  /\ PoolSize \in Nat \ {0}
  /\ NoTripJob \notin TripJobs
  /\ \A job \in TripJobs : /\ job.kind \in {"start", "complete", "cancel", "import"}
                           /\ job.kind # "import" => job.trip \in Trips
                           /\ job.kind = "import" => FileOf(job)

VARIABLES
  status,    \* trips.status, "absent" for a trip never imported
  removed,   \* trips.removed_from_source_at is set
  audit,     \* how many trip.started, trip.completed and trip.cancelled events of each trip
  ready,     \* every guest on the manifest has a berth and a submitted registration
  warned,    \* a guest has no documents or an open folio, or there is no guest
  tx         \* what each process is doing

tripVars == <<status, removed, audit>>
manifestVars == <<ready, warned>>
voyageVars == <<status, removed, audit, ready, warned, tx, owner>>

Statuses == {"absent", "planned", "active", "completed", "cancelled"}
Events == {"started", "completed", "cancelled"}

IdleTx == [at |-> "idle", job |-> NoTripJob, left |-> {}, todo |-> <<>>,
           saw |-> {}, gone |-> {}, alone |-> TRUE, stale |-> FALSE]

-----------------------------------------------------------------------------
At(p, at) == tx[p].at = at
TripKind(p) == tx[p].job.kind
T(p) == tx[p].job.trip
File(p) == tx[p].job.file

\* The trips an import names.
Touched(p) == UNION {Members(File(p)[b]) : b \in DOMAIN File(p)}

\* Those of a boat that default lists show, of the import's provider.
ListedOf(b, source) ==
  {t \in Trips : BoatOf[t] = b /\ SourceOf[t] = source /\ t \in Future
                 /\ status[t] # "absent" /\ ~removed[t]}

\* Mutant of Stale: the file's own trips are not exempt.
StaleAll(p, b) == ListedOf(b, tx[p].job.source)

\* Future trips of the boat and provider that the file does not name any more.
Stale(p, b) == ListedOf(b, tx[p].job.source) \ Members(File(p)[b])

Holding == {p \in Procs : ~At(p, "idle") /\ ~At(p, "connect")}

ConnectionFree == Cardinality(Holding) < PoolSize

\* The rows the pending statement of p must lock before it returns.
WantedTrips(p) ==
  CASE At(p, "lock") -> IF status[T(p)] = "absent" THEN {} ELSE {T(p)}
    [] At(p, "cancel") -> IF status[T(p)] = "planned" THEN {T(p)} ELSE {}
    [] At(p, "upsert") -> IF tx[p].todo = <<>> THEN {} ELSE {Head(tx[p].todo)}
    [] At(p, "sweep") -> tx[p].saw
    [] OTHER -> {}

WaitsFor(p) == Blockers(p, WantedTrips(p))

LockCycle(p) == InWaitCycle(p, [q \in Procs |-> WaitsFor(q)])

\* Waiting for a connection, or for a row whose owner may itself wait for a connection.
Stuck(p) ==
  \/ (At(p, "connect") \/ At(p, "look")) /\ ~ConnectionFree
  \/ WaitsFor(p) # {}

Proceed(p, t) == tx' = [tx EXCEPT ![p] = t] /\ UNCHANGED <<tripVars, manifestVars>>
Take(p, t) == Proceed(p, t) /\ owner' = Granted(p, WantedTrips(p))

\* Mutant of End: the transaction is dropped and not rolled back.
EndHolding(p) == tx' = [tx EXCEPT ![p] = IdleTx] /\ UNCHANGED owner

End(p) == tx' = [tx EXCEPT ![p] = IdleTx] /\ owner' = Released(p)

Abort(p) == End(p) /\ UNCHANGED <<tripVars, manifestVars>>

-----------------------------------------------------------------------------
\* A request arrives.  alone: no other import overlaps this one (an observation only).
BeginTrip(p, job) ==
  LET others == {q \in Procs \ {p} : ~At(q, "idle") /\ TripKind(q) = "import"}
  IN
  /\ At(p, "idle")
  /\ tx' = [q \in Procs |->
              IF q = p
                THEN [IdleTx EXCEPT !.at = "connect", !.job = job, !.alone = others = {}]
                ELSE [tx[q] EXCEPT !.alone = @ /\ ~(q \in others /\ job.kind = "import")]]
  /\ UNCHANGED <<tripVars, manifestVars, owner>>

\* Pool.Begin: the transaction takes a connection and keeps it until it ends.
Connect(p) ==
  /\ At(p, "connect")
  /\ ConnectionFree
  /\ Proceed(p, [tx[p] EXCEPT
       !.at = CASE TripKind(p) \in {"start", "complete"} -> "lock"
                [] TripKind(p) = "cancel" -> "cancel"
                [] TripKind(p) = "import" -> "boat",
       !.left = IF TripKind(p) = "import" THEN DOMAIN File(p) ELSE {}])
  /\ UNCHANGED owner

-----------------------------------------------------------------------------
(***************************************************************************)
(* StartTrip and CompleteTrip: lock the trip, look at its readiness on the  *)
(* pool, write the status, open folios and record the event, commit.        *)
(***************************************************************************)
\* Mutant of StatusBefore: a completed trip may be completed again.
StatusBeforeAny(p) == status[T(p)]

StatusBefore(p) == IF TripKind(p) = "start" THEN "planned" ELSE "active"

LockTrip(p) ==
  /\ At(p, "lock")
  /\ IF status[T(p)] = StatusBefore(p) THEN Take(p, [tx[p] EXCEPT !.at = "look"]) ELSE Abort(p)

\* An administrator overrides, and owes a reason; so does whoever goes on despite warnings.
Acknowledged(p) == (tx[p].job.override \/ warned[T(p)]) => tx[p].job.reason

\* Mutant of Admits: blockers are reported and not enforced.
AdmitsUnready(p) == Acknowledged(p)

Admits(p) == (TripKind(p) = "start" => ready[T(p)]) /\ Acknowledged(p)

\* TripReadiness looks at the trip and its manifest through the pool.
ReadReadiness(p) ==
  /\ At(p, "look")
  /\ ConnectionFree
  /\ IF Admits(p)
       THEN Proceed(p, [tx[p] EXCEPT !.at = "commit"]) /\ UNCHANGED owner
       ELSE Abort(p)

\* Mutant of Commit: the event is not part of the transaction and is lost.
CommitUnrecorded(p, after, event) ==
  /\ status' = [status EXCEPT ![T(p)] = after]
  /\ End(p)
  /\ UNCHANGED <<removed, audit, manifestVars>>

Commit(p, after, event) ==
  /\ status' = [status EXCEPT ![T(p)] = after]
  /\ audit' = [audit EXCEPT ![T(p)][event] = @ + 1]
  /\ End(p)
  /\ UNCHANGED <<removed, manifestVars>>

CommitStart(p) == At(p, "commit") /\ TripKind(p) = "start" /\ Commit(p, "active", "started")
CommitComplete(p) == At(p, "commit") /\ TripKind(p) = "complete" /\ Commit(p, "completed", "completed")
CommitCancel(p) == At(p, "commit") /\ TripKind(p) = "cancel" /\ Commit(p, "cancelled", "cancelled")

\* CancelTrip: one guarded UPDATE, which waits for the row and looks at it again.
CancelPlanned(p) ==
  /\ At(p, "cancel")
  /\ IF status[T(p)] = "planned" /\ tx[p].job.reason
       THEN Take(p, [tx[p] EXCEPT !.at = "commit"])
       ELSE Abort(p)

-----------------------------------------------------------------------------
(***************************************************************************)
(* ReplaceSpreadsheetTrips, boat by boat in the order Go ranges over a map, *)
(* and ReplaceFutureScrapedTrips, which is the same for one boat: upsert    *)
(* the file's trips, then hide the future ones of that boat and provider    *)
(* that the file does not name.                                            *)
(***************************************************************************)
PickBoat(p, b) ==
  /\ At(p, "boat")
  /\ b \in tx[p].left
  /\ Proceed(p, [tx[p] EXCEPT !.at = "upsert", !.left = @ \ {b}, !.todo = File(p)[b],
                              !.saw = {b}])
  /\ UNCHANGED owner

\* The boat being replaced is kept in saw until its stale trips are.
UpsertTrip(p) ==
  /\ At(p, "upsert")
  /\ IF tx[p].todo # <<>>
       THEN Take(p, [tx[p] EXCEPT !.todo = Tail(@)])
       ELSE \E b \in tx[p].saw :
              Take(p, [tx[p] EXCEPT !.at = "sweep", !.saw = Stale(p, b)])

SweepStale(p) ==
  /\ At(p, "sweep")
  /\ Take(p, [tx[p] EXCEPT !.at = "boat", !.gone = @ \cup tx[p].saw, !.saw = {}])

\* Mutant of CommitImport: an import makes the trips it names planned again.
CommitImportAnew(p) ==
  /\ At(p, "boat") /\ tx[p].left = {} /\ TripKind(p) = "import"
  /\ status' = [t \in Trips |-> IF t \in Touched(p) THEN "planned" ELSE status[t]]
  /\ removed' = [t \in Trips |-> t \in tx[p].gone \/ (removed[t] /\ t \notin Touched(p))]
  /\ End(p)
  /\ UNCHANGED <<audit, manifestVars>>

CommitImport(p) ==
  /\ At(p, "boat") /\ tx[p].left = {} /\ TripKind(p) = "import"
  /\ status' = [t \in Trips |->
                  IF t \in Touched(p) /\ status[t] = "absent" THEN "planned" ELSE status[t]]
  /\ removed' = [t \in Trips |-> t \in tx[p].gone \/ (removed[t] /\ t \notin Touched(p))]
  /\ End(p)
  /\ UNCHANGED <<audit, manifestVars>>

-----------------------------------------------------------------------------
\* Berths, registrations, documents and folios change; stale observes who has looked.
ChangeManifest(t) ==
  /\ ready' \in {ready, [ready EXCEPT ![t] = ~@]}
  /\ warned' \in {warned, [warned EXCEPT ![t] = ~@]}
  /\ tx' = [p \in Procs |->
              [tx[p] EXCEPT !.stale = @ \/ (At(p, "commit") /\ T(p) = t)]]
  /\ UNCHANGED <<tripVars, owner>>

TripStep(p) ==
  /\ WaitsFor(p) = {}
  /\ \/ Connect(p) \/ LockTrip(p) \/ ReadReadiness(p) \/ CancelPlanned(p)
     \/ CommitStart(p) \/ CommitComplete(p) \/ CommitCancel(p)
     \/ \E b \in Boats : PickBoat(p, b)
     \/ UpsertTrip(p) \/ SweepStale(p) \/ CommitImport(p)

\* The client goes, or the statement fails: the deferred rollback.
Leave(p) == ~At(p, "idle") /\ Abort(p)

\* Mutant of GiveUp: the wait for a connection does not watch the request's context.
GiveUpOnRows(p) == WaitsFor(p) # {} /\ Abort(p)

\* middleware.Timeout: after 15 s the context ends, and with it every wait.
GiveUp(p) == Stuck(p) /\ Abort(p)

BreakCycle(p) == LockCycle(p) /\ Abort(p)

VoyageInit ==
  /\ status = [t \in Trips |-> "absent"]
  /\ removed = [t \in Trips |-> FALSE]
  /\ audit = [t \in Trips |-> [e \in Events |-> 0]]
  /\ ready = [t \in Trips |-> t \notin Unsettled]
  /\ warned = [t \in Trips |-> FALSE]
  /\ tx = [p \in Procs |-> IdleTx]
  /\ owner = [t \in Trips |-> NoProc]

VoyageNext ==
  \/ \E p \in Procs :
       \/ \E job \in TripJobs : BeginTrip(p, job)
       \/ TripStep(p)
       \/ Leave(p)
       \/ GiveUp(p)
       \/ BreakCycle(p)
  \/ \E t \in Unsettled : ChangeManifest(t)

VoyageSpec == VoyageInit /\ [][VoyageNext]_voyageVars

-----------------------------------------------------------------------------
(***************************************************************************)
(* Properties                                                              *)
(***************************************************************************)
\* Rows and transactions are of their types, the pool is never overdrawn and only a
\* transaction in flight holds rows (the deferred rollbacks).
VoyageTypeOK ==
  /\ status \in [Trips -> Statuses]
  /\ removed \in [Trips -> BOOLEAN]
  /\ audit \in [Trips -> [Events -> Nat]]
  /\ ready \in [Trips -> BOOLEAN]
  /\ warned \in [Trips -> BOOLEAN]
  /\ owner \in [Trips -> Procs \cup {NoProc}]
  /\ Cardinality(Holding) <= PoolSize
  /\ \A p \in Procs : /\ tx[p].job \in TripJobs \cup {NoTripJob}
                      /\ At(p, "idle") => Held(p) = {}

\* What happened to a trip is recorded once, and only what happened: two requests that
\* start, complete or cancel a trip at once, or one that fails on the way, leave the audit
\* log agreeing with the status (RecordAuditEventTx in the transitions' transactions).
TransitionsRecorded ==
  \A t \in Trips :
    /\ audit[t]["started"] = (IF status[t] \in {"active", "completed"} THEN 1 ELSE 0)
    /\ audit[t]["completed"] = (IF status[t] = "completed" THEN 1 ELSE 0)
    /\ audit[t]["cancelled"] = (IF status[t] = "cancelled" THEN 1 ELSE 0)

\* A trip is started only when its guests have berths and registrations, unless the
\* manifest changed between the look and the commit (StartTrip, TripReadiness).
StartsReady ==
  [][\A p \in Procs : CommitStart(p) /\ ~tx[p].stale => ready[T(p)]]_voyageVars

\* An import no other import overlaps leaves exactly its own trips listed, of each boat it
\* names, whatever is started or cancelled meanwhile (ReplaceSpreadsheetTrips,
\* ReplaceFutureScrapedTrips: "the file is the authoritative schedule").
ImportIsAuthoritative ==
  [][\A p \in Procs : CommitImport(p) /\ tx[p].alone =>
       \A b \in DOMAIN File(p), source \in {tx[p].job.source} :
         (ListedOf(b, source))' = Members(File(p)[b]) \cap Future]_voyageVars

\* Every request is answered: imports lock trips in whatever order their files name them,
\* and starts hold one connection while they ask for another.
EveryTripRequestEnds == \A p \in Procs : ~At(p, "idle") ~> At(p, "idle")

=============================================================================
