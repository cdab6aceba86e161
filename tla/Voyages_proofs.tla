---------------------------- MODULE Voyages_proofs ----------------------------
(***************************************************************************)
(* What happened to a trip is in its audit log once, a start was ready, an  *)
(* import leaves what its file says and the pool is never overdrawn, for    *)
(* any number of trips, boats, requests and connections.                   *)
(***************************************************************************)
EXTENDS Voyages, FiniteSetTheorems, TLAPS

Fields == {"at", "job", "left", "todo", "saw", "gone", "alone", "stale"}

Before(kind) == IF kind = "complete" THEN "active" ELSE "planned"

\* A transaction past its lock holds its trip's row, and the trip is as it was found.
TxGood(p, r, owners, statuses) ==
  /\ DOMAIN r = Fields
  /\ r.at # "idle" => r.job \in TripJobs
  /\ r.at \in {"lock", "look"} => r.job.kind \in {"start", "complete"}
  /\ r.at = "cancel" => r.job.kind = "cancel"
  /\ r.at \in {"boat", "upsert", "sweep"} => r.job.kind = "import"
  /\ r.at \in {"look", "commit"} =>
       /\ r.job.kind # "import"
       /\ owners[r.job.trip] = p /\ statuses[r.job.trip] = Before(r.job.kind)

Shape ==
  /\ status \in [Trips -> Statuses]
  /\ audit \in [Trips -> [Events -> Nat]]
  /\ DOMAIN owner = Trips
  /\ DOMAIN tx = Procs

VoyageInv ==
  /\ Shape
  /\ \A p \in Procs : TxGood(p, tx[p], owner, status)
  /\ TransitionsRecorded

\* What p does leaves the rows of others theirs, and the trips they found as they are.
LeavesOthers(p) ==
  \A q \in Procs \ {p}, t \in Trips : owner[t] = q =>
    owner'[t] = q /\ (status[t] \in {"planned", "active"} => status'[t] = status[t])

\* What each kind of request names.
LEMMA JobsAre ==
  \A job \in TripJobs : /\ job.kind \in {"start", "complete", "cancel", "import"}
                        /\ job.kind # "import" => job.trip \in Trips
  BY VoyageAssumption

\* A process under way has a job.
LEMMA GoodJobs ==
  ASSUME NEW p, NEW r, NEW owners, NEW statuses, TxGood(p, r, owners, statuses), r.at # "idle"
  PROVE  /\ r.job \in TripJobs /\ r.job.kind \in {"start", "complete", "cancel", "import"}
         /\ r.job.kind # "import" => r.job.trip \in Trips
<1>1. PICK job \in TripJobs : job = r.job
  BY DEF TxGood
<1>2. /\ job.kind \in {"start", "complete", "cancel", "import"}
      /\ job.kind # "import" => job.trip \in Trips
  BY JobsAre
<1> QED BY <1>1, <1>2

\* A process at rest.
LEMMA IdleIs == /\ DOMAIN IdleTx = Fields /\ IdleTx.at = "idle"
  BY DEF IdleTx, Fields

\* A process at rest is bound to nothing.
LEMMA IdleGood == ASSUME NEW p \in Procs PROVE TxGood(p, IdleTx, owner', status')
  BY IdleIs DEF TxGood

\* The invariant holds to begin with.
LEMMA InitVoyageInv == VoyageInit => VoyageInv
<1> SUFFICES ASSUME VoyageInit PROVE VoyageInv
  OBVIOUS
<1>1. Shape
  BY DEF VoyageInit, Shape, Statuses
<1>2. \A p \in Procs : TxGood(p, tx[p], owner, status)
  BY IdleIs DEF VoyageInit, TxGood
<1>3. TransitionsRecorded
  BY DEF VoyageInit, TransitionsRecorded, Events
<1> QED BY <1>1, <1>2, <1>3 DEF VoyageInv

-----------------------------------------------------------------------------
\* The others' transactions stay good over a step of p.
LEMMA StepKeeps ==
  ASSUME VoyageInv, NEW p \in Procs, NEW r, tx' = [tx EXCEPT ![p] = r],
         TxGood(p, r, owner', status'), LeavesOthers(p), Shape', TransitionsRecorded'
  PROVE  VoyageInv'
<1>1. ASSUME NEW q \in Procs, q # p PROVE TxGood(q, tx'[q], owner', status')
  <2>1. tx'[q] = tx[q] /\ TxGood(q, tx[q], owner, status)
    BY <1>1 DEF VoyageInv, Shape
  <2>2. tx[q].at \in {"look", "commit"} => tx[q].job.trip \in Trips
    <3>1. tx[q].at \in {"look", "commit"} => tx[q].at # "idle" /\ tx[q].job.kind # "import"
      BY <2>1 DEF TxGood
    <3> QED BY <2>1, <3>1, GoodJobs
  <2> QED BY <1>1, <2>1, <2>2 DEF TxGood, LeavesOthers, Before
<1>2. tx'[p] = r
  BY DEF VoyageInv, Shape
<1> QED BY <1>1, <1>2 DEF VoyageInv

\* A step that writes no trip's status.
LEMMA QuietStep ==
  ASSUME VoyageInv, NEW p \in Procs, NEW r, tx' = [tx EXCEPT ![p] = r], UNCHANGED <<status, audit>>,
         TxGood(p, r, owner', status),
         owner' = owner \/ owner' = Released(p) \/ (WaitsFor(p) = {} /\ owner' = Granted(p, WantedTrips(p)))
  PROVE  VoyageInv'
<1>1. /\ DOMAIN owner' = Trips
      /\ \A q \in Procs \ {p}, t \in Trips : owner[t] = q => owner'[t] = q
  BY ProcAssumption DEF VoyageInv, Shape, Released, Granted, WaitsFor, Blockers
<1>2. LeavesOthers(p) /\ Shape' /\ TransitionsRecorded'
  BY <1>1 DEF VoyageInv, Shape, LeavesOthers, TransitionsRecorded
<1>3. TxGood(p, r, owner', status')
  OBVIOUS
<1> QED BY <1>2, <1>3, StepKeeps

\* A transaction that ends early writes nothing.
LEMMA AbortKeeps == ASSUME VoyageInv, NEW p \in Procs, Abort(p) PROVE VoyageInv'
<1>1. PICK r : r = IdleTx
  OBVIOUS
<1>2. tx' = [tx EXCEPT ![p] = r] /\ UNCHANGED <<status, audit>> /\ owner' = Released(p)
  BY <1>1 DEF Abort, End, tripVars
<1>3. TxGood(p, r, owner', status)
  BY <1>1, IdleIs DEF TxGood
<1> QED BY <1>2, <1>3, QuietStep

\* The trip is locked, and has the status it is found with.
LEMMA LockKeeps == ASSUME VoyageInv, NEW p \in Procs, WaitsFor(p) = {}, LockTrip(p) PROVE VoyageInv'
<1>1. CASE status[T(p)] = StatusBefore(p)
  <2>1. PICK r : r = [tx[p] EXCEPT !.at = "look"]
    OBVIOUS
  <2>2. /\ tx' = [tx EXCEPT ![p] = r] /\ UNCHANGED <<status, audit>> /\ owner' = Granted(p, WantedTrips(p))
        /\ tx[p].at = "lock"
    BY <1>1, <2>1 DEF LockTrip, Take, Proceed, tripVars, At
  <2>3. TxGood(p, tx[p], owner, status) /\ tx[p].job \in TripJobs /\ tx[p].job.kind \in {"start", "complete"}
        /\ tx[p].job.trip \in Trips
    BY <2>2, JobsAre DEF VoyageInv, TxGood
  <2>4. DOMAIN r = Fields /\ r.at = "look" /\ r.job = tx[p].job
    BY <2>1, <2>3 DEF TxGood, Fields
  <2>5. status[tx[p].job.trip] = Before(tx[p].job.kind)
    BY <1>1, <2>3 DEF StatusBefore, Before, TripKind, T
  <2>6. WantedTrips(p) = {tx[p].job.trip}
    BY <2>2, <2>5 DEF WantedTrips, At, T, Before
  <2>7. owner'[tx[p].job.trip] = p
    BY <2>2, <2>3, <2>6 DEF Granted, VoyageInv, Shape
  <2>8. TxGood(p, r, owner', status)
    BY <2>3, <2>4, <2>5, <2>7 DEF TxGood
  <2> QED BY <2>2, <2>8, QuietStep
<1>2. CASE status[T(p)] # StatusBefore(p)
  BY <1>2, AbortKeeps DEF LockTrip
<1> QED BY <1>1, <1>2

\* A cancellation takes a planned trip only.
LEMMA CancelKeeps == ASSUME VoyageInv, NEW p \in Procs, WaitsFor(p) = {}, CancelPlanned(p) PROVE VoyageInv'
<1>1. CASE status[T(p)] = "planned" /\ tx[p].job.reason
  <2>1. PICK r : r = [tx[p] EXCEPT !.at = "commit"]
    OBVIOUS
  <2>2. /\ tx' = [tx EXCEPT ![p] = r] /\ UNCHANGED <<status, audit>> /\ owner' = Granted(p, WantedTrips(p))
        /\ tx[p].at = "cancel"
    BY <1>1, <2>1 DEF CancelPlanned, Take, Proceed, tripVars, At
  <2>3. TxGood(p, tx[p], owner, status) /\ tx[p].job \in TripJobs /\ tx[p].job.kind = "cancel"
        /\ tx[p].job.trip \in Trips
    BY <2>2, JobsAre DEF VoyageInv, TxGood
  <2>4. DOMAIN r = Fields /\ r.at = "commit" /\ r.job = tx[p].job
    BY <2>1, <2>3 DEF TxGood, Fields
  <2>5. status[tx[p].job.trip] = Before(tx[p].job.kind)
    BY <1>1, <2>3 DEF Before, T
  <2>6. WantedTrips(p) = {tx[p].job.trip}
    BY <1>1, <2>2 DEF WantedTrips, At, T
  <2>7. owner'[tx[p].job.trip] = p
    BY <2>2, <2>3, <2>6 DEF Granted, VoyageInv, Shape
  <2>8. TxGood(p, r, owner', status)
    BY <2>3, <2>4, <2>5, <2>7 DEF TxGood
  <2> QED BY <2>2, <2>8, QuietStep
<1>2. CASE ~(status[T(p)] = "planned" /\ tx[p].job.reason)
  BY <1>2, AbortKeeps DEF CancelPlanned
<1> QED BY <1>1, <1>2

\* Readiness is read beside the lock.
LEMMA LookKeeps == ASSUME VoyageInv, NEW p \in Procs, ReadReadiness(p) PROVE VoyageInv'
<1>1. CASE Admits(p)
  <2>1. PICK r : r = [tx[p] EXCEPT !.at = "commit"]
    OBVIOUS
  <2>2. tx' = [tx EXCEPT ![p] = r] /\ UNCHANGED <<status, audit>> /\ owner' = owner /\ tx[p].at = "look"
    BY <1>1, <2>1 DEF ReadReadiness, Proceed, tripVars, At
  <2>3. TxGood(p, tx[p], owner, status)
    BY DEF VoyageInv
  <2>4. DOMAIN r = Fields /\ r.at = "commit" /\ r.job = tx[p].job
    BY <2>1, <2>3 DEF TxGood, Fields
  <2>5. TxGood(p, r, owner', status)
    BY <2>2, <2>3, <2>4 DEF TxGood
  <2> QED BY <2>2, <2>5, QuietStep
<1>2. CASE ~Admits(p)
  BY <1>2, AbortKeeps DEF ReadReadiness
<1> QED BY <1>1, <1>2

\* A connection is taken, and no row.
LEMMA ConnectKeeps == ASSUME VoyageInv, NEW p \in Procs, Connect(p) PROVE VoyageInv'
<1>1. PICK at, left :
        /\ tx' = [tx EXCEPT ![p] = [tx[p] EXCEPT !.at = at, !.left = left]]
        /\ tx[p].job.kind \in {"start", "complete"} => at = "lock"
        /\ tx[p].job.kind = "cancel" => at = "cancel"
        /\ tx[p].job.kind = "import" => at = "boat"
  BY DEF Connect, Proceed, TripKind
<1>2. /\ TxGood(p, tx[p], owner, status) /\ tx[p].job \in TripJobs
      /\ tx[p].job.kind \in {"start", "complete", "cancel", "import"}
  <2>1. TxGood(p, tx[p], owner, status) /\ tx[p].at # "idle"
    BY DEF VoyageInv, Connect, At
  <2> QED BY <2>1, GoodJobs
<1>3. PICK r : r = [tx[p] EXCEPT !.at = at, !.left = left]
  OBVIOUS
<1>4. DOMAIN r = Fields /\ r.at = at /\ r.job = tx[p].job
  BY <1>2, <1>3 DEF TxGood, Fields
<1>5. TxGood(p, r, owner', status)
  BY <1>1, <1>2, <1>4 DEF TxGood
<1>6. tx' = [tx EXCEPT ![p] = r] /\ UNCHANGED <<status, audit>> /\ owner' = owner
  BY <1>1, <1>3 DEF Connect, Proceed, tripVars
<1> QED BY <1>5, <1>6, QuietStep

-----------------------------------------------------------------------------
\* A transition counts its event in the trip's log as it changes the status.
LEMMA CommitKeeps ==
  ASSUME VoyageInv, NEW p \in Procs, CommitStart(p) \/ CommitComplete(p) \/ CommitCancel(p)
  PROVE  VoyageInv'
<1>1. TxGood(p, tx[p], owner, status) /\ tx[p].at = "commit"
  BY DEF VoyageInv, CommitStart, CommitComplete, CommitCancel, At
<1>2. PICK t \in Trips : t = tx[p].job.trip /\ owner[t] = p /\ status[t] = Before(tx[p].job.kind)
  <2>1. tx[p].job.trip \in Trips
    BY <1>1, GoodJobs DEF TxGood
  <2> QED BY <1>1, <2>1 DEF TxGood
<1>3. PICK after, event :
        /\ status' = [status EXCEPT ![t] = after]
        /\ audit' = [audit EXCEPT ![t][event] = @ + 1]
        /\ \/ status[t] = "planned" /\ after = "active" /\ event = "started"
           \/ status[t] = "active" /\ after = "completed" /\ event = "completed"
           \/ status[t] = "planned" /\ after = "cancelled" /\ event = "cancelled"
  BY <1>2 DEF CommitStart, CommitComplete, CommitCancel, Commit, T, TripKind, Before
<1>4. PICK r : r = IdleTx
  OBVIOUS
<1>5. tx' = [tx EXCEPT ![p] = r] /\ owner' = Released(p)
  BY <1>4 DEF CommitStart, CommitComplete, CommitCancel, Commit, End
<1>6. TxGood(p, r, owner', status')
  BY <1>4, IdleGood
<1>7. LeavesOthers(p)
  BY <1>2, <1>3, <1>5, ProcAssumption DEF LeavesOthers, Released, VoyageInv, Shape
<1>8. after \in Statuses /\ event \in Events
  BY <1>3 DEF Statuses, Events
<1>9. PICK log : log = [audit[t] EXCEPT ![event] = @ + 1]
  OBVIOUS
<1>10. /\ log \in [Events -> Nat] /\ audit' = [audit EXCEPT ![t] = log]
       /\ \A e \in Events : log[e] = IF e = event THEN audit[t][e] + 1 ELSE audit[t][e]
  BY <1>3, <1>8, <1>9 DEF VoyageInv, Shape
<1>11. Shape'
  BY <1>3, <1>5, <1>8, <1>10 DEF VoyageInv, Shape, Released
<1>12. TransitionsRecorded'
  <2>1. \A u \in Trips \ {t} : audit'[u] = audit[u] /\ status'[u] = status[u]
    BY <1>3, <1>10 DEF VoyageInv, Shape
  <2>2. audit'[t] = log /\ status'[t] = after
    BY <1>3, <1>10 DEF VoyageInv, Shape
  <2>3. /\ audit[t]["started"] = (IF status[t] \in {"active", "completed"} THEN 1 ELSE 0)
        /\ audit[t]["completed"] = (IF status[t] = "completed" THEN 1 ELSE 0)
        /\ audit[t]["cancelled"] = (IF status[t] = "cancelled" THEN 1 ELSE 0)
    BY DEF VoyageInv, TransitionsRecorded
  <2>4. /\ log["started"] = (IF after \in {"active", "completed"} THEN 1 ELSE 0)
        /\ log["completed"] = (IF after = "completed" THEN 1 ELSE 0)
        /\ log["cancelled"] = (IF after = "cancelled" THEN 1 ELSE 0)
    BY <1>3, <1>10, <2>3 DEF Events
  <2>5. ASSUME NEW u \in Trips
        PROVE  /\ audit'[u]["started"] = (IF status'[u] \in {"active", "completed"} THEN 1 ELSE 0)
               /\ audit'[u]["completed"] = (IF status'[u] = "completed" THEN 1 ELSE 0)
               /\ audit'[u]["cancelled"] = (IF status'[u] = "cancelled" THEN 1 ELSE 0)
    BY <2>1, <2>2, <2>4 DEF VoyageInv, TransitionsRecorded
  <2> QED BY <2>5 DEF TransitionsRecorded
<1> QED BY <1>5, <1>6, <1>7, <1>11, <1>12, StepKeeps

-----------------------------------------------------------------------------
(***************************************************************************)
(* Imports write the status of trips that are not there yet only.          *)
(***************************************************************************)
LEMMA ImportKeeps ==
  ASSUME VoyageInv, NEW p \in Procs, WaitsFor(p) = {},
         (\E b \in Boats : PickBoat(p, b)) \/ UpsertTrip(p) \/ SweepStale(p)
  PROVE  VoyageInv'
<1>0. TxGood(p, tx[p], owner, status) /\ UNCHANGED <<status, audit>>
  BY DEF VoyageInv, PickBoat, UpsertTrip, SweepStale, Take, Proceed, tripVars
<1>1. CASE \E b \in Boats : PickBoat(p, b)
  <2>1. PICK b \in Boats : PickBoat(p, b)
    BY <1>1
  <2>2. PICK left, todo, saw, r :
          /\ left = tx[p].left \ {b} /\ todo = File(p)[b] /\ saw = {b}
          /\ r = [tx[p] EXCEPT !.at = "upsert", !.left = left, !.todo = todo, !.saw = saw]
    OBVIOUS
  <2>3. /\ tx' = [tx EXCEPT ![p] = r] /\ owner' = owner /\ tx[p].at = "boat"
    BY <2>1, <2>2 DEF PickBoat, Proceed, At
  <2>4. DOMAIN r = Fields /\ r.at = "upsert" /\ r.job = tx[p].job
    BY <1>0, <2>2 DEF TxGood, Fields
  <2>5. TxGood(p, r, owner', status)
    BY <1>0, <2>3, <2>4 DEF TxGood
  <2> QED BY <1>0, <2>3, <2>5, QuietStep
<1>2. CASE UpsertTrip(p)
  <2>1. tx[p].at = "upsert" /\ owner' = Granted(p, WantedTrips(p))
    BY <1>2 DEF UpsertTrip, Take, At
  <2>2. PICK r : /\ tx' = [tx EXCEPT ![p] = r]
                 /\ \/ r = [tx[p] EXCEPT !.todo = Tail(@)]
                    \/ \E b \in tx[p].saw : r = [tx[p] EXCEPT !.at = "sweep", !.saw = Stale(p, b)]
    BY <1>2 DEF UpsertTrip, Take, Proceed
  <2>3. DOMAIN r = Fields /\ r.at \in {"upsert", "sweep"} /\ r.job = tx[p].job
    BY <1>0, <2>1, <2>2 DEF TxGood, Fields
  <2>4. TxGood(p, r, owner', status)
    BY <1>0, <2>1, <2>3 DEF TxGood
  <2> QED BY <1>0, <2>1, <2>2, <2>4, QuietStep
<1>3. CASE SweepStale(p)
  <2>1. tx[p].at = "sweep" /\ owner' = Granted(p, WantedTrips(p))
    BY <1>3 DEF SweepStale, Take, At
  <2>2. PICK r : /\ tx' = [tx EXCEPT ![p] = r]
                 /\ r = [tx[p] EXCEPT !.at = "boat", !.gone = @ \cup tx[p].saw, !.saw = {}]
    BY <1>3 DEF SweepStale, Take, Proceed
  <2>3. DOMAIN r = Fields /\ r.at = "boat" /\ r.job = tx[p].job
    BY <1>0, <2>2 DEF TxGood, Fields
  <2>4. TxGood(p, r, owner', status)
    BY <1>0, <2>1, <2>3 DEF TxGood
  <2> QED BY <1>0, <2>1, <2>2, <2>4, QuietStep
<1> QED BY <1>1, <1>2, <1>3

\* An import commits no status.
LEMMA CommitImportKeeps == ASSUME VoyageInv, NEW p \in Procs, CommitImport(p) PROVE VoyageInv'
<1>1. PICK r : r = IdleTx
  OBVIOUS
<1>2. /\ tx' = [tx EXCEPT ![p] = r] /\ owner' = Released(p) /\ audit' = audit
      /\ status' \in [Trips -> Statuses]
      /\ \A t \in Trips : status'[t] = status[t] \/ (status[t] = "absent" /\ status'[t] = "planned")
  BY <1>1 DEF CommitImport, End, VoyageInv, Shape, Statuses
<1>3. TxGood(p, r, owner', status')
  BY <1>1, IdleGood
<1>4. LeavesOthers(p)
  BY <1>2, ProcAssumption DEF LeavesOthers, Released, VoyageInv, Shape
<1>5. Shape'
  BY <1>2 DEF VoyageInv, Shape, Released
<1>6. TransitionsRecorded'
  BY <1>2 DEF VoyageInv, TransitionsRecorded
<1> QED BY <1>2, <1>3, <1>4, <1>5, <1>6, StepKeeps

-----------------------------------------------------------------------------
\* Observations of who overlaps whom, and requests that arrive.
LEMMA BeginKeeps == ASSUME VoyageInv, NEW p \in Procs, NEW job \in TripJobs, BeginTrip(p, job) PROVE VoyageInv'
<1>1. UNCHANGED <<status, audit, owner>>
  BY DEF BeginTrip, tripVars
<1>3. ASSUME NEW q \in Procs PROVE TxGood(q, tx'[q], owner, status)
  <2>1. CASE q = p
    <3>0. PICK lone : tx'[q] = [IdleTx EXCEPT !.at = "connect", !.job = job, !.alone = lone]
      BY <2>1, Zenon DEF BeginTrip
    <3>1. PICK r : r = [IdleTx EXCEPT !.at = "connect", !.job = job, !.alone = lone]
      OBVIOUS
    <3>2. DOMAIN r = Fields /\ r.at = "connect" /\ r.job = job
      BY <3>1, IdleIs DEF Fields
    <3>3. TxGood(q, r, owner, status)
      BY <3>2 DEF TxGood
    <3>4. tx'[q] = r
      BY <3>0, <3>1
    <3> QED BY <3>3, <3>4
  <2>2. CASE q # p
    <3>0. PICK lone : tx'[q] = [tx[q] EXCEPT !.alone = lone]
      BY <2>2, Zenon DEF BeginTrip
    <3>1. PICK r : r = [tx[q] EXCEPT !.alone = lone]
      OBVIOUS
    <3>2. TxGood(q, tx[q], owner, status)
      BY DEF VoyageInv
    <3>3. DOMAIN r = Fields /\ r.at = tx[q].at /\ r.job = tx[q].job
      BY <3>1, <3>2 DEF TxGood, Fields
    <3>4. TxGood(q, r, owner, status)
      BY <3>2, <3>3 DEF TxGood
    <3>5. tx'[q] = r
      BY <3>0, <3>1
    <3> QED BY <3>4, <3>5
  <2> QED BY <2>1, <2>2
<1>4. DOMAIN tx' = Procs
  BY DEF BeginTrip
<1> QED BY <1>1, <1>3, <1>4 DEF VoyageInv, Shape, TransitionsRecorded

\* A manifest changes, and no status.
LEMMA ManifestKeeps == ASSUME VoyageInv, NEW t \in Unsettled, ChangeManifest(t) PROVE VoyageInv'
<1>1. UNCHANGED <<status, audit, owner>>
  BY DEF ChangeManifest, tripVars
<1>3. ASSUME NEW q \in Procs PROVE TxGood(q, tx'[q], owner, status)
  <2>0. PICK late : tx'[q] = [tx[q] EXCEPT !.stale = late]
    BY Zenon DEF ChangeManifest
  <2>1. PICK r : r = [tx[q] EXCEPT !.stale = late]
    OBVIOUS
  <2>2. TxGood(q, tx[q], owner, status)
    BY DEF VoyageInv
  <2>3. DOMAIN r = Fields /\ r.at = tx[q].at /\ r.job = tx[q].job
    BY <2>1, <2>2 DEF TxGood, Fields
  <2>4. TxGood(q, r, owner, status)
    BY <2>2, <2>3 DEF TxGood
  <2>5. tx'[q] = r
    BY <2>0, <2>1
  <2> QED BY <2>4, <2>5
<1>4. DOMAIN tx' = Procs
  BY DEF ChangeManifest
<1> QED BY <1>1, <1>3, <1>4 DEF VoyageInv, Shape, TransitionsRecorded

\* Every step keeps the invariant.
LEMMA NextVoyageInv == VoyageInv /\ [VoyageNext]_voyageVars => VoyageInv'
<1> SUFFICES ASSUME VoyageInv, [VoyageNext]_voyageVars PROVE VoyageInv'
  OBVIOUS
<1>1. CASE UNCHANGED voyageVars
  BY <1>1 DEF voyageVars, VoyageInv, Shape, TransitionsRecorded
<1>2. ASSUME NEW p \in Procs, TripStep(p) PROVE VoyageInv'
  BY <1>2, ConnectKeeps, LockKeeps, LookKeeps, CancelKeeps, CommitKeeps, ImportKeeps, CommitImportKeeps
  DEF TripStep
<1>3. ASSUME NEW p \in Procs, Leave(p) \/ GiveUp(p) \/ BreakCycle(p) PROVE VoyageInv'
  BY <1>3, AbortKeeps DEF Leave, GiveUp, BreakCycle
<1> QED BY <1>1, <1>2, <1>3, BeginKeeps, ManifestKeeps DEF VoyageNext

\* Whoever is going to write a status holds the trip, which still has the status it was
\* found with; the audit counts agree with it (trip_lifecycle.go).
THEOREM VoyageInvariant == VoyageSpec => []VoyageInv
  BY InitVoyageInv, NextVoyageInv, PTL DEF VoyageSpec

\* The audit log tells of every start, completion and cancellation once, and of no other, for
\* any trips and requests at once (StartTrip, CompleteTrip, CancelTrip).
THEOREM TransitionsAreRecorded == VoyageSpec => []TransitionsRecorded
<1>1. VoyageInv => TransitionsRecorded
  BY DEF VoyageInv
<1> QED BY <1>1, VoyageInvariant, PTL

-----------------------------------------------------------------------------
(***************************************************************************)
(* What a start saw of its trip's readiness is still so when it commits,    *)
(* unless the manifest changed meanwhile.                                  *)
(***************************************************************************)
LookedReady ==
  /\ DOMAIN ready = Trips
  /\ \A p \in Procs :
       tx[p].at = "commit" /\ tx[p].job.kind = "start" /\ ~tx[p].stale => ready[tx[p].job.trip]

\* A step of p that leaves the manifest alone.
LEMMA LooksStay ==
  ASSUME VoyageInv, LookedReady, NEW p \in Procs, NEW r, tx' = [tx EXCEPT ![p] = r], ready' = ready,
         r.at = "commit" /\ r.job.kind = "start" => ready[r.job.trip]
  PROVE  LookedReady'
<1>1. \A q \in Procs : tx'[q] = IF q = p THEN r ELSE tx[q]
  BY DEF VoyageInv, Shape
<1> QED BY <1>1 DEF LookedReady

\* A look that ends early claims nothing.
LEMMA AbortLooks == ASSUME VoyageInv, LookedReady, NEW p \in Procs, Abort(p) PROVE LookedReady'
<1>1. PICK r : r = IdleTx
  OBVIOUS
<1>2. tx' = [tx EXCEPT ![p] = r] /\ ready' = ready
  BY <1>1 DEF Abort, End, manifestVars
<1> QED BY <1>1, <1>2, IdleIs, LooksStay

\* A look was a true one when it was taken.
LEMMA TripStepLooks == ASSUME VoyageInv, LookedReady, NEW p \in Procs, TripStep(p) PROVE LookedReady'
<1>0. TxGood(p, tx[p], owner, status)
  BY DEF VoyageInv
<1>1. CASE Connect(p)
  <2>1. PICK at, left :
          /\ tx' = [tx EXCEPT ![p] = [tx[p] EXCEPT !.at = at, !.left = left]]
          /\ tx[p].job.kind \in {"start", "complete"} => at = "lock"
          /\ tx[p].job.kind = "cancel" => at = "cancel"
          /\ tx[p].job.kind = "import" => at = "boat"
    BY <1>1 DEF Connect, Proceed, TripKind
  <2>2. tx[p].job.kind \in {"start", "complete", "cancel", "import"}
    <3>1. tx[p].at # "idle"
      BY <1>1 DEF Connect, At
    <3> QED BY <1>0, <3>1, GoodJobs
  <2>3. PICK r : r = [tx[p] EXCEPT !.at = at, !.left = left]
    OBVIOUS
  <2>4. r.at # "commit"
    BY <1>0, <2>1, <2>2, <2>3 DEF TxGood, Fields
  <2>5. tx' = [tx EXCEPT ![p] = r] /\ ready' = ready
    BY <1>1, <2>1, <2>3 DEF Connect, Proceed, manifestVars
  <2> QED BY <2>4, <2>5, LooksStay
<1>2. CASE LockTrip(p)
  <2>1. CASE status[T(p)] = StatusBefore(p)
    <3>1. PICK r : r = [tx[p] EXCEPT !.at = "look"]
      OBVIOUS
    <3>2. r.at = "look" /\ tx' = [tx EXCEPT ![p] = r] /\ ready' = ready
      BY <1>0, <1>2, <2>1, <3>1 DEF TxGood, Fields, LockTrip, Take, Proceed, manifestVars
    <3> QED BY <3>2, LooksStay
  <2>2. CASE status[T(p)] # StatusBefore(p)
    BY <1>2, <2>2, AbortLooks DEF LockTrip
  <2> QED BY <2>1, <2>2
<1>3. CASE ReadReadiness(p)
  <2>1. CASE Admits(p)
    <3>1. PICK r : r = [tx[p] EXCEPT !.at = "commit"]
      OBVIOUS
    <3>2. r.job = tx[p].job /\ tx' = [tx EXCEPT ![p] = r] /\ ready' = ready
      BY <1>0, <1>3, <2>1, <3>1 DEF TxGood, Fields, ReadReadiness, Proceed, manifestVars
    <3>3. tx[p].job.kind = "start" => ready[tx[p].job.trip]
      BY <2>1 DEF Admits, TripKind, T
    <3> QED BY <3>2, <3>3, LooksStay
  <2>2. CASE ~Admits(p)
    BY <1>3, <2>2, AbortLooks DEF ReadReadiness
  <2> QED BY <2>1, <2>2
<1>4. CASE CancelPlanned(p)
  <2>1. CASE status[T(p)] = "planned" /\ tx[p].job.reason
    <3>1. PICK r : r = [tx[p] EXCEPT !.at = "commit"]
      OBVIOUS
    <3>2. r.job.kind = "cancel" /\ tx' = [tx EXCEPT ![p] = r] /\ ready' = ready
      BY <1>0, <1>4, <2>1, <3>1 DEF TxGood, Fields, CancelPlanned, At, Take, Proceed, manifestVars
    <3> QED BY <3>2, LooksStay
  <2>2. CASE ~(status[T(p)] = "planned" /\ tx[p].job.reason)
    BY <1>4, <2>2, AbortLooks DEF CancelPlanned
  <2> QED BY <2>1, <2>2
<1>5. CASE CommitStart(p) \/ CommitComplete(p) \/ CommitCancel(p) \/ CommitImport(p)
  <2>1. PICK r : r = IdleTx
    OBVIOUS
  <2>2. tx' = [tx EXCEPT ![p] = r] /\ ready' = ready
    BY <1>5, <2>1 DEF CommitStart, CommitComplete, CommitCancel, CommitImport, Commit, End, manifestVars
  <2> QED BY <2>1, <2>2, IdleIs, LooksStay
<1>6. CASE (\E b \in Boats : PickBoat(p, b)) \/ UpsertTrip(p) \/ SweepStale(p)
  <2>1. CASE \E b \in Boats : PickBoat(p, b)
    <3>1. PICK b \in Boats : PickBoat(p, b)
      BY <2>1
    <3>2. PICK left, todo, saw, r :
            /\ left = tx[p].left \ {b} /\ todo = File(p)[b] /\ saw = {b}
            /\ r = [tx[p] EXCEPT !.at = "upsert", !.left = left, !.todo = todo, !.saw = saw]
      OBVIOUS
    <3>3. tx' = [tx EXCEPT ![p] = r] /\ ready' = ready
      BY <3>1, <3>2 DEF PickBoat, Proceed, manifestVars
    <3>4. r.at # "commit"
      BY <1>0, <3>2 DEF TxGood, Fields
    <3> QED BY <3>3, <3>4, LooksStay
  <2>2. CASE UpsertTrip(p)
    <3>1. tx[p].at = "upsert" /\ ready' = ready
      BY <2>2 DEF UpsertTrip, Take, Proceed, manifestVars, At
    <3>2. PICK r : /\ tx' = [tx EXCEPT ![p] = r]
                   /\ \/ r = [tx[p] EXCEPT !.todo = Tail(@)]
                      \/ \E b \in tx[p].saw : r = [tx[p] EXCEPT !.at = "sweep", !.saw = Stale(p, b)]
      BY <2>2 DEF UpsertTrip, Take, Proceed
    <3>3. r.at # "commit"
      BY <1>0, <3>1, <3>2 DEF TxGood, Fields
    <3> QED BY <3>1, <3>2, <3>3, LooksStay
  <2>3. CASE SweepStale(p)
    <3>1. PICK r : /\ tx' = [tx EXCEPT ![p] = r]
                   /\ r = [tx[p] EXCEPT !.at = "boat", !.gone = @ \cup tx[p].saw, !.saw = {}]
      BY <2>3 DEF SweepStale, Take, Proceed
    <3>2. ready' = ready
      BY <2>3 DEF SweepStale, Take, Proceed, manifestVars
    <3>3. r.at # "commit"
      BY <1>0, <3>1 DEF TxGood, Fields
    <3> QED BY <3>1, <3>2, <3>3, LooksStay
  <2> QED BY <1>6, <2>1, <2>2, <2>3
<1> QED BY <1>1, <1>2, <1>3, <1>4, <1>5, <1>6 DEF TripStep

\* Every step keeps what looks have seen.
LEMMA NextLookedReady == VoyageInv /\ LookedReady /\ [VoyageNext]_voyageVars => LookedReady'
<1> SUFFICES ASSUME VoyageInv, LookedReady, [VoyageNext]_voyageVars PROVE LookedReady'
  OBVIOUS
<1>1. CASE UNCHANGED voyageVars
  BY <1>1 DEF voyageVars, manifestVars, LookedReady
<1>2. ASSUME NEW p \in Procs, NEW job \in TripJobs, BeginTrip(p, job) PROVE LookedReady'
  <2> SUFFICES ASSUME NEW q \in Procs, tx'[q].at = "commit", tx'[q].job.kind = "start", ~tx'[q].stale
               PROVE  ready'[tx'[q].job.trip]
    BY <1>2 DEF BeginTrip, manifestVars, LookedReady
  <2>1. CASE q = p
    <3>1. PICK lone : tx'[q] = [IdleTx EXCEPT !.at = "connect", !.job = job, !.alone = lone]
      BY <1>2, <2>1, Zenon DEF BeginTrip
    <3>2. tx'[q].at = "connect"
      BY <3>1, IdleIs DEF Fields
    <3> QED BY <3>2
  <2>2. CASE q # p
    <3>1. PICK lone : tx'[q] = [tx[q] EXCEPT !.alone = lone]
      BY <1>2, <2>2, Zenon DEF BeginTrip
    <3>2. tx'[q].at = tx[q].at /\ tx'[q].job = tx[q].job /\ tx'[q].stale = tx[q].stale
      BY <3>1 DEF VoyageInv, TxGood, Fields
    <3> QED BY <1>2, <3>2 DEF BeginTrip, manifestVars, LookedReady
  <2> QED BY <2>1, <2>2
<1>3. ASSUME NEW t \in Unsettled, ChangeManifest(t) PROVE LookedReady'
  <2> SUFFICES ASSUME NEW q \in Procs, tx'[q].at = "commit", tx'[q].job.kind = "start", ~tx'[q].stale
               PROVE  ready'[tx'[q].job.trip]
    BY <1>3 DEF ChangeManifest, LookedReady
  <2>1. PICK late : /\ tx'[q] = [tx[q] EXCEPT !.stale = late]
                    /\ late = (tx[q].stale \/ (tx[q].at = "commit" /\ tx[q].job.trip = t))
    BY <1>3, Zenon DEF ChangeManifest, At, T
  <2>2. tx'[q].at = tx[q].at /\ tx'[q].job = tx[q].job /\ tx'[q].stale = late
    BY <2>1 DEF VoyageInv, TxGood, Fields
  <2>3. ready[tx[q].job.trip] /\ tx[q].job.trip # t
    BY <2>1, <2>2 DEF LookedReady
  <2>4. ready' = ready \/ ready' = [ready EXCEPT ![t] = ~@]
    BY <1>3 DEF ChangeManifest
  <2>5. tx[q].job.trip \in DOMAIN ready
    <3>1. TxGood(q, tx[q], owner, status) /\ tx[q].at # "idle" /\ tx[q].job.kind # "import"
      BY <2>2 DEF VoyageInv
    <3> QED BY <3>1, GoodJobs DEF LookedReady
  <2> QED BY <2>2, <2>3, <2>4, <2>5
<1>4. ASSUME NEW p \in Procs, Leave(p) \/ GiveUp(p) \/ BreakCycle(p) PROVE LookedReady'
  BY <1>4, AbortLooks DEF Leave, GiveUp, BreakCycle
<1> QED BY <1>1, <1>2, <1>3, <1>4, TripStepLooks DEF VoyageNext

\* A trip is started only when its guests have berths and registrations, unless the manifest
\* changed between TripReadiness's look and the commit, whatever other requests do.
THEOREM StartsAreReady == VoyageSpec => StartsReady
<1>1. VoyageInit => LookedReady
  BY IdleIs DEF VoyageInit, LookedReady
<1>2. LookedReady /\ [VoyageNext]_voyageVars =>
        [\A p \in Procs : CommitStart(p) /\ ~tx[p].stale => ready[T(p)]]_voyageVars
  BY DEF LookedReady, CommitStart, At, TripKind, T
<1> QED BY <1>1, <1>2, VoyageInvariant, NextLookedReady, PTL DEF VoyageSpec, StartsReady

-----------------------------------------------------------------------------
(***************************************************************************)
(* An import nobody overlaps finds what default lists show as it left them: *)
(* starts, completions and cancellations neither list nor hide a trip.      *)
(***************************************************************************)
\* The trips default lists show.
Shown == {t \in Trips : t \in Future /\ status[t] # "absent" /\ ~removed[t]}

\* What is listed of these boats and this provider is in the file, or about to be hidden.
Covers(r, boats, gone, shown) ==
  \A t \in shown : BoatOf[t] \in boats /\ SourceOf[t] = r.job.source =>
                     t \in Members(r.job.file[BoatOf[t]]) \cup gone

\* No trip the file names is about to be hidden.
Spares(r, gone) == \A b \in DOMAIN r.job.file : gone \cap Members(r.job.file[b]) = {}

\* The boats begun.
Begun(r) == DOMAIN r.job.file \ r.left

Sweeps(r, shown) ==
  /\ r.at = "connect" => r.gone = {}
  /\ r.at \in {"boat", "upsert", "sweep"} => r.left \subseteq DOMAIN r.job.file /\ Spares(r, r.gone)
  /\ r.at = "boat" /\ r.alone => Covers(r, Begun(r), r.gone, shown)
  /\ r.at = "upsert" => \E b \in Begun(r) :
       /\ r.saw = {b}
       /\ r.alone => Covers(r, Begun(r) \ {b}, r.gone, shown)
  /\ r.at = "sweep" => /\ Spares(r, r.saw)
                       /\ r.alone => Covers(r, Begun(r), r.gone \cup r.saw, shown)

\* An import that overlaps another is not alone.
Importing(r) == r.at # "idle" /\ r.job.kind = "import"
AloneInv == \A p, q \in Procs : p # q /\ Importing(tx[p]) /\ Importing(tx[q]) => ~tx[p].alone

SweepInv == AloneInv /\ \A p \in Procs : Sweeps(tx[p], Shown)

\* The steps of a transaction that go on.
GoesOn(r, s) == /\ r.at # "idle" /\ s.at # "idle" /\ s.job = r.job /\ s.alone = r.alone

\* An import that is alone stays so until another begins.
LEMMA AloneStays ==
  ASSUME VoyageInv, AloneInv, NEW p \in Procs, NEW r, tx' = [tx EXCEPT ![p] = r],
         r = IdleTx \/ GoesOn(tx[p], r)
  PROVE  AloneInv'
<1>1. \A q \in Procs : tx'[q] = IF q = p THEN r ELSE tx[q]
  BY DEF VoyageInv, Shape
<1>2. Importing(r) => Importing(tx[p]) /\ r.alone = tx[p].alone
  BY IdleIs DEF Importing, GoesOn
<1>3. ASSUME NEW q \in Procs, NEW u \in Procs, q # u, Importing(tx'[q]), Importing(tx'[u])
      PROVE  ~tx'[q].alone
  <2>1. Importing(tx[q]) /\ Importing(tx[u]) /\ tx'[q].alone = tx[q].alone
    BY <1>1, <1>2, <1>3
  <2>2. ~tx[q].alone
    BY <1>3, <2>1 DEF AloneInv
  <2> QED BY <2>1, <2>2
<1> QED BY <1>3 DEF AloneInv

\* A process at rest shows and hides nothing.
LEMMA IdleSweeps == \A shown : Sweeps(IdleTx, shown)
  BY IdleIs DEF Sweeps

\* A step of p that lists and hides nothing.
LEMMA SweepsStay ==
  ASSUME VoyageInv, SweepInv, NEW p \in Procs, NEW r, tx' = [tx EXCEPT ![p] = r],
         r = IdleTx \/ GoesOn(tx[p], r), Sweeps(r, Shown), Shown' = Shown
  PROVE  SweepInv'
<1>1. AloneInv'
  BY AloneStays DEF SweepInv
<1>2. \A q \in Procs : tx'[q] = IF q = p THEN r ELSE tx[q]
  BY DEF VoyageInv, Shape
<1>3. ASSUME NEW q \in Procs PROVE Sweeps(tx'[q], Shown')
  <2>1. CASE q = p
    <3>1. tx'[q] = r
      BY <1>2, <2>1
    <3> QED BY <3>1
  <2>2. CASE q # p
    <3>1. tx'[q] = tx[q] /\ Sweeps(tx[q], Shown)
      BY <1>2, <2>2 DEF SweepInv
    <3> QED BY <3>1
  <2> QED BY <2>1, <2>2
<1> QED BY <1>1, <1>3 DEF SweepInv

\* The lists are those of the rows.
LEMMA SameShown == ASSUME UNCHANGED <<status, removed>> PROVE Shown' = Shown
  BY DEF Shown

\* An import that ends early leaves the lists alone.
LEMMA AbortSweeps == ASSUME VoyageInv, SweepInv, NEW p \in Procs, Abort(p) PROVE SweepInv'
<1>1. PICK r : r = IdleTx
  OBVIOUS
<1>2. tx' = [tx EXCEPT ![p] = r] /\ UNCHANGED <<status, removed>>
  BY <1>1 DEF Abort, End, tripVars
<1>3. Sweeps(r, Shown)
  BY <1>1, IdleSweeps
<1> QED BY <1>1, <1>2, <1>3, SameShown, SweepsStay

-----------------------------------------------------------------------------
\* Steps of requests that start, complete and cancel.
LEMMA OtherSweeps ==
  ASSUME VoyageInv, SweepInv, NEW p \in Procs, LockTrip(p) \/ ReadReadiness(p) \/ CancelPlanned(p)
  PROVE  SweepInv'
<1>0. TxGood(p, tx[p], owner, status) /\ tx[p].at # "idle"
  BY DEF VoyageInv, LockTrip, ReadReadiness, CancelPlanned, At
<1>1. CASE Abort(p)
  BY <1>1, AbortSweeps
<1>2. CASE ~Abort(p)
  <2>1. PICK at : /\ tx' = [tx EXCEPT ![p] = [tx[p] EXCEPT !.at = at]]
                  /\ at \in {"look", "commit"} /\ UNCHANGED <<status, removed>>
    BY <1>2 DEF LockTrip, ReadReadiness, CancelPlanned, Take, Proceed, tripVars
  <2>2. PICK r : r = [tx[p] EXCEPT !.at = at]
    OBVIOUS
  <2>3. r.at = at /\ r.job = tx[p].job /\ r.alone = tx[p].alone
    BY <1>0, <2>2 DEF TxGood, Fields
  <2>4. GoesOn(tx[p], r) /\ Sweeps(r, Shown)
    BY <1>0, <2>1, <2>3 DEF GoesOn, Sweeps
  <2> QED BY <2>1, <2>2, <2>4, SameShown, SweepsStay
<1> QED BY <1>1, <1>2

\* An import that connects has begun no boat.
LEMMA ConnectSweeps == ASSUME VoyageInv, SweepInv, NEW p \in Procs, Connect(p) PROVE SweepInv'
<1>0. TxGood(p, tx[p], owner, status) /\ tx[p].at = "connect" /\ Sweeps(tx[p], Shown)
  BY DEF VoyageInv, SweepInv, Connect, At
<1>1. /\ tx[p].job.kind \in {"start", "complete", "cancel", "import"}
  BY <1>0, GoodJobs
<1>2. PICK at, left :
        /\ tx' = [tx EXCEPT ![p] = [tx[p] EXCEPT !.at = at, !.left = left]]
        /\ at \in {"lock", "cancel", "boat"}
        /\ at = "boat" => left = DOMAIN tx[p].job.file
        /\ UNCHANGED <<status, removed>>
  <2>1. CASE tx[p].job.kind = "import"
    BY <2>1 DEF Connect, Proceed, TripKind, File, tripVars
  <2>2. CASE tx[p].job.kind # "import"
    BY <1>1, <2>2 DEF Connect, Proceed, TripKind, tripVars
  <2> QED BY <2>1, <2>2
<1>3. PICK r : r = [tx[p] EXCEPT !.at = at, !.left = left]
  OBVIOUS
<1>4. /\ r.at = at /\ r.left = left /\ r.job = tx[p].job /\ r.alone = tx[p].alone /\ r.gone = {}
  BY <1>0, <1>3 DEF TxGood, Fields, Sweeps
<1>5. at = "boat" => Begun(r) = {}
  BY <1>2, <1>4 DEF Begun
<1>6. GoesOn(tx[p], r) /\ Sweeps(r, Shown)
  BY <1>0, <1>2, <1>4, <1>5 DEF GoesOn, Sweeps, Spares, Covers
<1> QED BY <1>2, <1>3, <1>6, SameShown, SweepsStay

\* What an import's job says of its file.
LEMMA ImportJobsAre ==
  ASSUME VoyageInv, NEW p \in Procs, tx[p].at \in {"boat", "upsert", "sweep"}
  PROVE  /\ TxGood(p, tx[p], owner, status) /\ tx[p].job.kind = "import"
         /\ DOMAIN tx[p].job.file \subseteq Boats
         /\ \A b \in DOMAIN tx[p].job.file : \A t \in Members(tx[p].job.file[b]) :
              t \in Trips /\ BoatOf[t] = b /\ SourceOf[t] = tx[p].job.source
<1>1. TxGood(p, tx[p], owner, status)
  BY DEF VoyageInv
<1>2. tx[p].job \in TripJobs /\ tx[p].job.kind = "import"
  BY <1>1 DEF TxGood
<1>3. PICK job : job = tx[p].job
  OBVIOUS
<1>4. FileOf(job)
  BY <1>2, <1>3, VoyageAssumption
<1>5. \A b \in DOMAIN job.file : \A t \in Members(job.file[b]) :
        t \in Trips /\ BoatOf[t] = b /\ SourceOf[t] = job.source
  BY <1>4 DEF FileOf, Members
<1> QED BY <1>1, <1>2, <1>3, <1>4, <1>5 DEF FileOf

\* A boat is begun with what its list shows.
LEMMA PickSweeps == ASSUME VoyageInv, SweepInv, NEW p \in Procs, NEW b \in Boats, PickBoat(p, b) PROVE SweepInv'
<1>0. /\ TxGood(p, tx[p], owner, status) /\ tx[p].at = "boat" /\ Sweeps(tx[p], Shown)
      /\ b \in tx[p].left
  BY DEF VoyageInv, SweepInv, PickBoat, At
<1>1. PICK left, todo, saw, r :
        /\ left = tx[p].left \ {b} /\ todo = File(p)[b] /\ saw = {b}
        /\ r = [tx[p] EXCEPT !.at = "upsert", !.left = left, !.todo = todo, !.saw = saw]
  OBVIOUS
<1>2. tx' = [tx EXCEPT ![p] = r] /\ UNCHANGED <<status, removed>>
  BY <1>1 DEF PickBoat, Proceed, tripVars
<1>3. /\ r.at = "upsert" /\ r.left = left /\ r.saw = saw
      /\ r.job = tx[p].job /\ r.alone = tx[p].alone /\ r.gone = tx[p].gone
  BY <1>0, <1>1 DEF TxGood, Fields
<1>4. b \in Begun(r) /\ Begun(r) \ {b} = Begun(tx[p])
  BY <1>0, <1>1, <1>3 DEF Begun, Sweeps
<1>5. r.left \subseteq DOMAIN r.job.file /\ Spares(r, r.gone)
  BY <1>0, <1>1, <1>3 DEF Sweeps, Spares
<1>6. r.alone => Covers(r, Begun(r) \ {b}, r.gone, Shown)
  BY <1>0, <1>3, <1>4 DEF Sweeps, Covers
<1>7. GoesOn(tx[p], r) /\ Sweeps(r, Shown)
  BY <1>0, <1>1, <1>3, <1>4, <1>5, <1>6 DEF GoesOn, Sweeps
<1> QED BY <1>2, <1>7, SameShown, SweepsStay

\* The last upsert looks up what its boat's list shows beyond the file.
LEMMA UpsertSweeps == ASSUME VoyageInv, SweepInv, NEW p \in Procs, UpsertTrip(p) PROVE SweepInv'
<1>0. /\ tx[p].at = "upsert" /\ Sweeps(tx[p], Shown)
  BY DEF SweepInv, UpsertTrip, At
<1>1. /\ TxGood(p, tx[p], owner, status)
      /\ \A b \in DOMAIN tx[p].job.file : \A t \in Members(tx[p].job.file[b]) :
           t \in Trips /\ BoatOf[t] = b /\ SourceOf[t] = tx[p].job.source
  BY <1>0, ImportJobsAre
<1>2. UNCHANGED <<status, removed>>
  BY DEF UpsertTrip, Take, Proceed, tripVars
<1>3. CASE tx[p].todo # <<>>
  <2>1. PICK r : r = [tx[p] EXCEPT !.todo = Tail(@)]
    OBVIOUS
  <2>2. tx' = [tx EXCEPT ![p] = r]
    BY <1>3, <2>1 DEF UpsertTrip, Take, Proceed
  <2>3. /\ r.at = "upsert" /\ r.left = tx[p].left /\ r.saw = tx[p].saw
        /\ r.job = tx[p].job /\ r.alone = tx[p].alone /\ r.gone = tx[p].gone
    BY <1>0, <1>1, <2>1 DEF TxGood, Fields
  <2>4. GoesOn(tx[p], r) /\ Sweeps(r, Shown)
    BY <1>0, <2>3 DEF GoesOn, Sweeps, Begun, Spares, Covers
  <2> QED BY <1>2, <2>2, <2>4, SameShown, SweepsStay
<1>4. CASE tx[p].todo = <<>>
  <2>1. PICK b \in tx[p].saw : Take(p, [tx[p] EXCEPT !.at = "sweep", !.saw = Stale(p, b)])
    BY <1>4 DEF UpsertTrip
  <2>2. PICK saw, r : saw = Stale(p, b) /\ r = [tx[p] EXCEPT !.at = "sweep", !.saw = saw]
    OBVIOUS
  <2>3. tx' = [tx EXCEPT ![p] = r]
    BY <2>1, <2>2 DEF Take, Proceed
  <2>4. /\ r.at = "sweep" /\ r.left = tx[p].left /\ r.saw = saw
        /\ r.job = tx[p].job /\ r.alone = tx[p].alone /\ r.gone = tx[p].gone
    BY <1>0, <1>1, <2>2 DEF TxGood, Fields
  <2>5. /\ b \in Begun(tx[p]) /\ Begun(r) = Begun(tx[p])
        /\ tx[p].alone => Covers(tx[p], Begun(tx[p]) \ {b}, tx[p].gone, Shown)
    BY <1>0, <2>1, <2>4 DEF Sweeps, Begun
  <2>6. r.left \subseteq DOMAIN r.job.file /\ Spares(r, r.gone)
    BY <1>0, <2>4 DEF Sweeps, Spares
  <2>7. saw = {t \in Shown : BoatOf[t] = b /\ SourceOf[t] = tx[p].job.source} \ Members(tx[p].job.file[b])
    BY <2>2 DEF Stale, ListedOf, Shown, File
  <2>8. Spares(r, r.saw)
    BY <1>1, <2>4, <2>7 DEF Spares
  <2>9. r.alone => Covers(r, Begun(r), r.gone \cup r.saw, Shown)
    BY <2>4, <2>5, <2>7 DEF Covers
  <2>10. GoesOn(tx[p], r) /\ Sweeps(r, Shown)
    BY <1>0, <2>4, <2>6, <2>8, <2>9 DEF GoesOn, Sweeps
  <2> QED BY <1>2, <2>3, <2>10, SameShown, SweepsStay
<1> QED BY <1>3, <1>4

\* What the file does not name is hidden.
LEMMA HideSweeps == ASSUME VoyageInv, SweepInv, NEW p \in Procs, SweepStale(p) PROVE SweepInv'
<1>0. /\ tx[p].at = "sweep" /\ Sweeps(tx[p], Shown) /\ TxGood(p, tx[p], owner, status)
  BY DEF VoyageInv, SweepInv, SweepStale, At
<1>1. UNCHANGED <<status, removed>>
  BY DEF SweepStale, Take, Proceed, tripVars
<1>2. PICK gone, r : /\ gone = tx[p].gone \cup tx[p].saw
                     /\ r = [tx[p] EXCEPT !.at = "boat", !.gone = gone, !.saw = {}]
  OBVIOUS
<1>3. tx' = [tx EXCEPT ![p] = r]
  BY <1>2 DEF SweepStale, Take, Proceed
<1>4. /\ r.at = "boat" /\ r.left = tx[p].left /\ r.gone = tx[p].gone \cup tx[p].saw
      /\ r.job = tx[p].job /\ r.alone = tx[p].alone
  BY <1>0, <1>2 DEF TxGood, Fields
<1>5. r.left \subseteq DOMAIN r.job.file /\ Spares(r, r.gone)
  BY <1>0, <1>4 DEF Sweeps, Spares
<1>6. r.alone => Covers(r, Begun(r), r.gone, Shown)
  BY <1>0, <1>4 DEF Sweeps, Begun, Covers
<1>7. GoesOn(tx[p], r) /\ Sweeps(r, Shown)
  BY <1>0, <1>4, <1>5, <1>6 DEF GoesOn, Sweeps
<1> QED BY <1>1, <1>3, <1>7, SameShown, SweepsStay

-----------------------------------------------------------------------------
\* A transition finds its trip listed or hidden, and leaves it so.
LEMMA CommitSweeps ==
  ASSUME VoyageInv, SweepInv, NEW p \in Procs, CommitStart(p) \/ CommitComplete(p) \/ CommitCancel(p)
  PROVE  SweepInv'
<1>1. TxGood(p, tx[p], owner, status) /\ tx[p].at = "commit"
  BY DEF VoyageInv, CommitStart, CommitComplete, CommitCancel, At
<1>2. PICK t : t = tx[p].job.trip /\ status[t] \in {"planned", "active"}
  BY <1>1 DEF TxGood, Before
<1>3. PICK after \in {"active", "completed", "cancelled"} :
        status' = [status EXCEPT ![t] = after] /\ removed' = removed
  BY <1>2 DEF CommitStart, CommitComplete, CommitCancel, Commit, T
<1>4. Shown' = Shown
  BY <1>2, <1>3 DEF Shown, VoyageInv, Shape
<1>5. PICK r : r = IdleTx
  OBVIOUS
<1>6. tx' = [tx EXCEPT ![p] = r]
  BY <1>5 DEF CommitStart, CommitComplete, CommitCancel, Commit, End
<1>7. Sweeps(r, Shown)
  BY <1>5, IdleSweeps
<1> QED BY <1>4, <1>5, <1>6, <1>7, SweepsStay

\* Another import is not alone, and need not find the lists as it left them.
LEMMA CommitImportSweeps == ASSUME VoyageInv, SweepInv, NEW p \in Procs, CommitImport(p) PROVE SweepInv'
<1>1. PICK r : r = IdleTx
  OBVIOUS
<1>2. tx' = [tx EXCEPT ![p] = r]
  BY <1>1 DEF CommitImport, End
<1>3. AloneInv'
  BY <1>1, <1>2, AloneStays DEF SweepInv
<1>4. \A q \in Procs : tx'[q] = IF q = p THEN r ELSE tx[q]
  BY <1>2 DEF VoyageInv, Shape
<1>5. ASSUME NEW q \in Procs PROVE Sweeps(tx'[q], Shown')
  <2>1. CASE q = p
    <3>1. tx'[q] = IdleTx
      BY <1>1, <1>4, <2>1
    <3> QED BY <3>1, IdleSweeps
  <2>2. CASE q # p
    <3>1. tx'[q] = tx[q] /\ Sweeps(tx[q], Shown) /\ TxGood(q, tx[q], owner, status)
      BY <1>4, <2>2 DEF SweepInv, VoyageInv
    <3>2. Importing(tx[p])
      BY DEF CommitImport, Importing, At, TripKind
    <3>3. tx[q].at \in {"boat", "upsert", "sweep"} => ~tx[q].alone
      <4>1. tx[q].at \in {"boat", "upsert", "sweep"} => Importing(tx[q])
        BY <3>1 DEF TxGood, Importing
      <4> QED BY <2>2, <3>2, <4>1 DEF SweepInv, AloneInv
    <3>4. Sweeps(tx[q], Shown')
      BY <3>1, <3>3 DEF Sweeps
    <3> QED BY <3>1, <3>4
  <2> QED BY <2>1, <2>2
<1> QED BY <1>3, <1>5 DEF SweepInv

\* An import that arrives finds out who else is importing, and so do they.
LEMMA BeginSweeps == ASSUME VoyageInv, SweepInv, NEW p \in Procs, NEW job \in TripJobs, BeginTrip(p, job) PROVE SweepInv'
<1>1. UNCHANGED <<status, removed>> /\ tx[p].at = "idle"
  BY DEF BeginTrip, tripVars, At
<1>2. PICK r : /\ tx'[p] = r /\ r.at = "connect" /\ r.job = job /\ r.gone = {}
               /\ r.alone => \A q \in Procs \ {p} : ~Importing(tx[q])
  <2>1. PICK lone : /\ tx'[p] = [IdleTx EXCEPT !.at = "connect", !.job = job, !.alone = lone]
                    /\ lone => {q \in Procs \ {p} : ~At(q, "idle") /\ TripKind(q) = "import"} = {}
    BY Zenon DEF BeginTrip
  <2>2. PICK s : s = [IdleTx EXCEPT !.at = "connect", !.job = job, !.alone = lone]
    OBVIOUS
  <2>3. s.at = "connect" /\ s.job = job /\ s.gone = {} /\ s.alone = lone
    BY <2>2 DEF IdleTx
  <2>4. lone => \A q \in Procs \ {p} : ~Importing(tx[q])
    BY <2>1 DEF Importing, At, TripKind
  <2>5. s.alone => lone
    BY <2>3, Zenon
  <2> QED BY <2>1, <2>2, <2>3, <2>4, <2>5
<1>3. \A q \in Procs \ {p} : \E s :
        /\ tx'[q] = s /\ s.at = tx[q].at /\ s.job = tx[q].job
        /\ s.left = tx[q].left /\ s.saw = tx[q].saw /\ s.gone = tx[q].gone
        /\ s.alone => tx[q].alone /\ ~(Importing(tx[q]) /\ job.kind = "import")
  <2> SUFFICES ASSUME NEW q \in Procs \ {p}
               PROVE  \E s : /\ tx'[q] = s /\ s.at = tx[q].at /\ s.job = tx[q].job
                             /\ s.left = tx[q].left /\ s.saw = tx[q].saw /\ s.gone = tx[q].gone
                             /\ s.alone => tx[q].alone /\ ~(Importing(tx[q]) /\ job.kind = "import")
    OBVIOUS
  <2>1. PICK lone :
          /\ tx'[q] = [tx[q] EXCEPT !.alone = lone]
          /\ lone = (tx[q].alone
                     /\ ~(q \in {u \in Procs \ {p} : ~At(u, "idle") /\ TripKind(u) = "import"}
                          /\ job.kind = "import"))
    BY Zenon DEF BeginTrip
  <2>2. PICK s : s = [tx[q] EXCEPT !.alone = lone]
    OBVIOUS
  <2>3. TxGood(q, tx[q], owner, status)
    BY DEF VoyageInv
  <2>4. /\ s.at = tx[q].at /\ s.job = tx[q].job /\ s.alone = lone
        /\ s.left = tx[q].left /\ s.saw = tx[q].saw /\ s.gone = tx[q].gone
    BY <2>2, <2>3 DEF TxGood, Fields
  <2>5. lone => tx[q].alone /\ ~(Importing(tx[q]) /\ job.kind = "import")
    BY <2>1, Zenon DEF Importing, At, TripKind
  <2>6. s.alone => tx[q].alone /\ ~(Importing(tx[q]) /\ job.kind = "import")
    BY <2>4, <2>5, Zenon
  <2>7. tx'[q] = s
    BY <2>1, <2>2
  <2> QED BY <2>4, <2>6, <2>7
<1>4. AloneInv'
  <2> SUFFICES ASSUME NEW q \in Procs, NEW u \in Procs, q # u, Importing(tx'[q]), Importing(tx'[u])
               PROVE  ~tx'[q].alone
    BY DEF AloneInv
  <2>1. \A w \in Procs \ {p} : Importing(tx'[w]) => Importing(tx[w])
    BY <1>3 DEF Importing
  <2>2. CASE q = p
    BY <1>2, <2>1, <2>2
  <2>3. CASE q # p /\ u = p
    <3>1. Importing(tx[q]) /\ job.kind = "import"
      BY <1>2, <2>1, <2>3 DEF Importing
    <3> QED BY <1>3, <2>3, <3>1
  <2>4. CASE q # p /\ u # p
    <3>1. ~tx[q].alone
      BY <2>1, <2>4 DEF SweepInv, AloneInv
    <3> QED BY <1>3, <2>4, <3>1
  <2> QED BY <2>2, <2>3, <2>4
<1>5. ASSUME NEW q \in Procs PROVE Sweeps(tx'[q], Shown)
  <2>1. CASE q = p
    <3>1. Sweeps(r, Shown)
      BY <1>2 DEF Sweeps
    <3> QED BY <1>2, <2>1, <3>1
  <2>2. CASE q # p
    <3>1. PICK s : /\ tx'[q] = s /\ s.at = tx[q].at /\ s.job = tx[q].job
                   /\ s.left = tx[q].left /\ s.saw = tx[q].saw /\ s.gone = tx[q].gone
                   /\ s.alone => tx[q].alone
      BY <1>3, <2>2
    <3>2. Sweeps(tx[q], Shown)
      BY DEF SweepInv
    <3>3. Sweeps(s, Shown)
      BY <3>1, <3>2 DEF Sweeps, Begun, Spares, Covers
    <3> QED BY <3>1, <3>3
  <2> QED BY <2>1, <2>2
<1>6. Shown' = Shown
  BY <1>1, SameShown
<1> QED BY <1>4, <1>5, <1>6 DEF SweepInv

\* A manifest changes, and no list.
LEMMA ManifestSweeps == ASSUME VoyageInv, SweepInv, NEW t \in Unsettled, ChangeManifest(t) PROVE SweepInv'
<1>1. Shown' = Shown
  BY SameShown DEF ChangeManifest, tripVars
<1>2. ASSUME NEW q \in Procs
      PROVE  /\ tx'[q].at = tx[q].at /\ tx'[q].job = tx[q].job /\ tx'[q].alone = tx[q].alone
             /\ tx'[q].left = tx[q].left /\ tx'[q].saw = tx[q].saw /\ tx'[q].gone = tx[q].gone
  <2>1. PICK late : tx'[q] = [tx[q] EXCEPT !.stale = late]
    BY Zenon DEF ChangeManifest
  <2>2. PICK s : s = [tx[q] EXCEPT !.stale = late]
    OBVIOUS
  <2>3. TxGood(q, tx[q], owner, status)
    BY DEF VoyageInv
  <2>4. /\ s.at = tx[q].at /\ s.job = tx[q].job /\ s.alone = tx[q].alone
        /\ s.left = tx[q].left /\ s.saw = tx[q].saw /\ s.gone = tx[q].gone
    BY <2>2, <2>3 DEF TxGood, Fields
  <2>5. tx'[q] = s
    BY <2>1, <2>2
  <2> QED BY <2>4, <2>5
<1>3. AloneInv'
  BY <1>2 DEF SweepInv, AloneInv, Importing
<1>4. ASSUME NEW q \in Procs PROVE Sweeps(tx'[q], Shown)
  <2>1. Sweeps(tx[q], Shown)
    BY DEF SweepInv
  <2>2. PICK s : /\ s = tx'[q] /\ s.at = tx[q].at /\ s.job = tx[q].job /\ s.alone = tx[q].alone
                 /\ s.left = tx[q].left /\ s.saw = tx[q].saw /\ s.gone = tx[q].gone
    BY <1>2
  <2>3. Sweeps(s, Shown)
    BY <2>1, <2>2 DEF Sweeps, Begun, Spares, Covers
  <2> QED BY <2>2, <2>3
<1> QED BY <1>1, <1>3, <1>4 DEF SweepInv

\* Every step keeps what imports have shown and hidden.
LEMMA NextSweepInv == VoyageInv /\ SweepInv /\ [VoyageNext]_voyageVars => SweepInv'
<1> SUFFICES ASSUME VoyageInv, SweepInv, [VoyageNext]_voyageVars PROVE SweepInv'
  OBVIOUS
<1>1. CASE UNCHANGED voyageVars
  BY <1>1 DEF voyageVars, tripVars, SweepInv, AloneInv, Shown
<1>2. ASSUME NEW p \in Procs, TripStep(p) PROVE SweepInv'
  BY <1>2, ConnectSweeps, OtherSweeps, PickSweeps, UpsertSweeps, HideSweeps, CommitSweeps,
     CommitImportSweeps
  DEF TripStep
<1>3. ASSUME NEW p \in Procs, Leave(p) \/ GiveUp(p) \/ BreakCycle(p) PROVE SweepInv'
  BY <1>3, AbortSweeps DEF Leave, GiveUp, BreakCycle
<1> QED BY <1>1, <1>2, <1>3, BeginSweeps, ManifestSweeps DEF VoyageNext

\* What an import nobody overlapped leaves listed, of a boat in its file.
LEMMA ImportLists ==
  ASSUME VoyageInv, SweepInv, NEW p \in Procs, CommitImport(p), tx[p].alone,
         NEW b \in DOMAIN File(p), NEW source, source = tx[p].job.source
  PROVE  (ListedOf(b, source))' = Members(File(p)[b]) \cap Future
<1>1. /\ tx[p].at = "boat" /\ tx[p].left = {} /\ Sweeps(tx[p], Shown)
  BY DEF CommitImport, SweepInv, At
<1>2. PICK file, gone : file = tx[p].job.file /\ gone = tx[p].gone
  OBVIOUS
<1>3. \A c \in DOMAIN file : \A t \in Members(file[c]) : t \in Trips /\ BoatOf[t] = c /\ SourceOf[t] = source
  BY <1>1, <1>2, ImportJobsAre
<1>4. /\ \A c \in DOMAIN file : gone \cap Members(file[c]) = {}
      /\ \A t \in Shown : BoatOf[t] \in DOMAIN file /\ SourceOf[t] = source =>
                            t \in Members(file[BoatOf[t]]) \cup gone
  BY <1>1, <1>2 DEF Sweeps, Spares, Covers, Begun
<1>5. b \in DOMAIN file /\ File(p)[b] = file[b]
  BY <1>2 DEF File
<1>6. PICK named : named = Touched(p)
  OBVIOUS
<1>7. \A t \in Trips : t \in named <=> \E c \in DOMAIN file : t \in Members(file[c])
  BY <1>2, <1>6 DEF Touched, File
<1>8. \A t \in Trips : /\ status'[t] = (IF t \in named /\ status[t] = "absent" THEN "planned" ELSE status[t])
                       /\ removed'[t] = (t \in gone \/ (removed[t] /\ t \notin named))
  BY <1>2, <1>6, Zenon DEF CommitImport
<1>9. ASSUME NEW t \in Trips, BoatOf[t] = b, SourceOf[t] = source, t \in Future,
             status'[t] # "absent", ~removed'[t]
      PROVE  t \in Members(file[b])
  <2>1. t \notin gone /\ ~(removed[t] /\ t \notin named)
    BY <1>8, <1>9, Zenon
  <2>2. CASE t \in named
    <3>1. PICK c \in DOMAIN file : t \in Members(file[c])
      BY <1>7, <2>2
    <3> QED BY <1>3, <1>9, <3>1
  <2>3. CASE t \notin named
    <3>1. status[t] # "absent"
      BY <1>8, <1>9, <2>3
    <3>2. t \in Shown
      BY <1>9, <2>1, <2>3, <3>1 DEF Shown
    <3> QED BY <1>4, <1>5, <1>9, <2>1, <3>2
  <2> QED BY <2>2, <2>3
<1>10. ASSUME NEW t \in Members(file[b])
       PROVE  /\ t \in Trips /\ BoatOf[t] = b /\ SourceOf[t] = source
              /\ status'[t] # "absent" /\ ~removed'[t]
  <2>1. t \in Trips /\ BoatOf[t] = b /\ SourceOf[t] = source /\ t \in named /\ t \notin gone
    BY <1>3, <1>4, <1>5, <1>7, <1>10
  <2>2. status'[t] # "absent"
    BY <1>8, <2>1
  <2>3. ~removed'[t]
    BY <1>8, <2>1, Zenon
  <2> QED BY <2>1, <2>2, <2>3
<1>11. (ListedOf(b, source))' =
         {t \in Trips : BoatOf[t] = b /\ SourceOf[t] = source /\ t \in Future
                        /\ status'[t] # "absent" /\ ~removed'[t]}
  BY DEF ListedOf
<1> QED BY <1>5, <1>9, <1>10, <1>11

\* An import no other import overlaps leaves exactly its own trips listed, of each boat its
\* file has, for any boats, trips and requests at once (ReplaceSpreadsheetTrips,
\* ReplaceFutureScrapedTrips).
THEOREM ImportsAreAuthoritative == VoyageSpec => ImportIsAuthoritative
<1>1. VoyageInit => SweepInv
  BY IdleSweeps, IdleIs DEF VoyageInit, SweepInv, AloneInv, Importing
<1>2. VoyageInv /\ SweepInv /\ [VoyageNext]_voyageVars =>
        [\A p \in Procs : CommitImport(p) /\ tx[p].alone =>
           \A b \in DOMAIN File(p), source \in {tx[p].job.source} :
             (ListedOf(b, source))' = Members(File(p)[b]) \cap Future]_voyageVars
  BY ImportLists
<1> QED BY <1>1, <1>2, VoyageInvariant, NextSweepInv, PTL DEF VoyageSpec, ImportIsAuthoritative

-----------------------------------------------------------------------------
(***************************************************************************)
(* Types, the pool's bound and the rows that transactions leave free.       *)
(***************************************************************************)
BitsOK ==
  /\ removed \in [Trips -> BOOLEAN] /\ ready \in [Trips -> BOOLEAN] /\ warned \in [Trips -> BOOLEAN]

PoolOK == IsFiniteSet(Holding) /\ Cardinality(Holding) <= PoolSize

RestOK ==
  /\ owner \in [Trips -> Procs \cup {NoProc}]
  /\ \A p \in Procs : tx[p].at = "idle" => /\ tx[p].job \in TripJobs \cup {NoTripJob}
                                           /\ Held(p) = {}

VoyageTypes == BitsOK /\ PoolOK /\ RestOK

\* Connections are held from the first statement to the last.
LEMMA HoldingIs == Holding = {p \in Procs : tx[p].at \notin {"idle", "connect"}}
  BY DEF Holding, At

\* A connection is taken only while one is free.
LEMMA PoolStays ==
  ASSUME VoyageInv, PoolOK, NEW p \in Procs, NEW r, tx' = [tx EXCEPT ![p] = r],
         r.at \in {"idle", "connect"} \/ tx[p].at \notin {"idle", "connect"} \/ ConnectionFree
  PROVE  PoolOK'
<1>1. \A q \in Procs : tx'[q] = IF q = p THEN r ELSE tx[q]
  BY DEF VoyageInv, Shape
<1>2. Holding' = {q \in Procs : tx'[q].at \notin {"idle", "connect"}}
  BY DEF Holding, At
<1>3. CASE Holding' \subseteq Holding
  <2>1. IsFiniteSet(Holding') /\ Cardinality(Holding') <= Cardinality(Holding)
    BY <1>3, FS_Subset DEF PoolOK
  <2>2. Cardinality(Holding) \in Nat /\ Cardinality(Holding') \in Nat /\ PoolSize \in Nat
    BY <2>1, FS_CardinalityType, VoyageAssumption DEF PoolOK
  <2> QED BY <2>1, <2>2 DEF PoolOK
<1>4. CASE ~(Holding' \subseteq Holding)
  <2>1. p \notin Holding /\ Holding' = Holding \cup {p} /\ ConnectionFree
    BY <1>1, <1>2, <1>4, HoldingIs
  <2>2. /\ IsFiniteSet(Holding') /\ Cardinality(Holding') = Cardinality(Holding) + 1
        /\ Cardinality(Holding) \in Nat
    BY <2>1, FS_AddElement, FS_CardinalityType DEF PoolOK
  <2> QED BY <2>1, <2>2, VoyageAssumption DEF PoolOK, ConnectionFree
<1> QED BY <1>3, <1>4

\* Rows go to the transaction that takes its step, and all of them go free when it ends.
LEMMA RestStays ==
  ASSUME VoyageInv, RestOK, NEW p \in Procs, NEW r, tx' = [tx EXCEPT ![p] = r],
         \/ r = IdleTx /\ owner' = Released(p)
         \/ r.at # "idle" /\ (owner' = owner \/ owner' = Granted(p, WantedTrips(p)))
  PROVE  RestOK'
<1>1. \A q \in Procs : tx'[q] = IF q = p THEN r ELSE tx[q]
  BY DEF VoyageInv, Shape
<1>2. owner' \in [Trips -> Procs \cup {NoProc}]
  BY DEF RestOK, Released, Granted
<1>3. ASSUME NEW q \in Procs, tx'[q].at = "idle"
      PROVE  tx'[q].job \in TripJobs \cup {NoTripJob} /\ Held(q)' = {}
  <2>1. CASE q = p
    <3>1. tx'[q] = IdleTx /\ owner' = Released(p)
      BY <1>1, <1>3, <2>1
    <3>2. Held(q)' = {}
      BY <2>1, <3>1, ProcAssumption DEF Held, Released, RestOK
    <3>3. IdleTx.job = NoTripJob
      BY DEF IdleTx
    <3> QED BY <3>1, <3>2, <3>3
  <2>2. CASE q # p
    <3>1. tx'[q] = tx[q] /\ Held(q) = {} /\ tx[q].job \in TripJobs \cup {NoTripJob}
      BY <1>1, <1>3, <2>2 DEF RestOK
    <3>2. \A t \in Trips : owner'[t] = q => owner[t] = q
      BY <2>2, ProcAssumption DEF Released, Granted, RestOK
    <3>3. Held(q)' = {}
      BY <1>2, <3>1, <3>2 DEF Held, RestOK
    <3> QED BY <3>1, <3>3
  <2> QED BY <2>1, <2>2
<1> QED BY <1>2, <1>3 DEF RestOK

\* Which steps keep the bits of the rows as they are.
LEMMA BitsStay == BitsOK /\ UNCHANGED <<removed, ready, warned>> => BitsOK'
  BY DEF BitsOK

\* A transaction that ends frees its rows.
LEMMA AbortTypes == ASSUME VoyageInv, VoyageTypes, NEW p \in Procs, Abort(p) PROVE VoyageTypes'
<1>1. PICK r : r = IdleTx
  OBVIOUS
<1>2. /\ tx' = [tx EXCEPT ![p] = r] /\ owner' = Released(p)
      /\ UNCHANGED <<removed, ready, warned>>
  BY <1>1 DEF Abort, End, tripVars, manifestVars
<1>3. r.at = "idle"
  BY <1>1, IdleIs
<1> QED BY <1>1, <1>2, <1>3, PoolStays, RestStays, BitsStay DEF VoyageTypes

\* So does one that commits.
LEMMA CommitTypes ==
  ASSUME VoyageInv, VoyageTypes, NEW p \in Procs,
         CommitStart(p) \/ CommitComplete(p) \/ CommitCancel(p) \/ CommitImport(p)
  PROVE  VoyageTypes'
<1>1. PICK r : r = IdleTx
  OBVIOUS
<1>2. /\ tx' = [tx EXCEPT ![p] = r] /\ owner' = Released(p) /\ UNCHANGED <<ready, warned>>
  BY <1>1 DEF CommitStart, CommitComplete, CommitCancel, CommitImport, Commit, End, manifestVars
<1>3. r.at = "idle"
  BY <1>1, IdleIs
<1>4. BitsOK'
  <2>1. CASE CommitStart(p) \/ CommitComplete(p) \/ CommitCancel(p)
    <3>1. removed' = removed
      BY <2>1 DEF CommitStart, CommitComplete, CommitCancel, Commit
    <3> QED BY <1>2, <3>1, BitsStay DEF VoyageTypes
  <2>2. CASE CommitImport(p)
    <3>1. removed' \in [Trips -> BOOLEAN]
      BY <2>2, Zenon DEF CommitImport
    <3> QED BY <1>2, <3>1 DEF VoyageTypes, BitsOK
  <2> QED BY <2>1, <2>2
<1> QED BY <1>1, <1>2, <1>3, <1>4, PoolStays, RestStays DEF VoyageTypes

\* Every step of a transaction keeps the types.
LEMMA StepTypes == ASSUME VoyageInv, VoyageTypes, NEW p \in Procs, TripStep(p) PROVE VoyageTypes'
<1>0. TxGood(p, tx[p], owner, status)
  BY DEF VoyageInv
<1>1. CASE Abort(p)
  BY <1>1, AbortTypes
<1>2. CASE CommitStart(p) \/ CommitComplete(p) \/ CommitCancel(p) \/ CommitImport(p)
  BY <1>2, CommitTypes
<1>3. CASE Connect(p)
  <2>1. PICK at, left :
          /\ tx' = [tx EXCEPT ![p] = [tx[p] EXCEPT !.at = at, !.left = left]]
          /\ at \in {"lock", "cancel", "boat"}
    <3>1. tx[p].job.kind \in {"start", "complete", "cancel", "import"}
      BY <1>0, <1>3, GoodJobs DEF Connect, At
    <3> QED BY <1>3, <3>1 DEF Connect, Proceed, TripKind
  <2>2. PICK r : r = [tx[p] EXCEPT !.at = at, !.left = left]
    OBVIOUS
  <2>3. r.at = at
    BY <1>0, <2>2 DEF TxGood, Fields
  <2>4. /\ tx' = [tx EXCEPT ![p] = r] /\ owner' = owner /\ ConnectionFree
        /\ UNCHANGED <<removed, ready, warned>>
    BY <1>3, <2>1, <2>2 DEF Connect, Proceed, tripVars, manifestVars
  <2> QED BY <2>1, <2>3, <2>4, PoolStays, RestStays, BitsStay DEF VoyageTypes
<1>4. CASE ~Abort(p) /\ (LockTrip(p) \/ ReadReadiness(p) \/ CancelPlanned(p))
  <2>1. PICK at : /\ tx' = [tx EXCEPT ![p] = [tx[p] EXCEPT !.at = at]]
                  /\ at \in {"look", "commit"} /\ tx[p].at \in {"lock", "look", "cancel"}
                  /\ owner' = owner \/ owner' = Granted(p, WantedTrips(p))
                  /\ UNCHANGED <<removed, ready, warned>>
    BY <1>4 DEF LockTrip, ReadReadiness, CancelPlanned, Take, Proceed, tripVars, manifestVars, At
  <2>2. PICK r : r = [tx[p] EXCEPT !.at = at]
    OBVIOUS
  <2>3. r.at = at
    BY <1>0, <2>2 DEF TxGood, Fields
  <2> QED BY <2>1, <2>2, <2>3, PoolStays, RestStays, BitsStay DEF VoyageTypes
<1>5. CASE (\E b \in Boats : PickBoat(p, b)) \/ UpsertTrip(p) \/ SweepStale(p)
  <2>1. /\ tx[p].at \in {"boat", "upsert", "sweep"}
        /\ owner' = owner \/ owner' = Granted(p, WantedTrips(p))
        /\ UNCHANGED <<removed, ready, warned>>
    BY <1>5 DEF PickBoat, UpsertTrip, SweepStale, Take, Proceed, tripVars, manifestVars, At
  <2>2. PICK r : tx' = [tx EXCEPT ![p] = r] /\ r.at \in {"boat", "upsert", "sweep"}
    <3>1. CASE \E b \in Boats : PickBoat(p, b)
      <4>1. PICK b \in Boats : PickBoat(p, b)
        BY <3>1
      <4>2. PICK left, todo, saw, r :
              /\ left = tx[p].left \ {b} /\ todo = File(p)[b] /\ saw = {b}
              /\ r = [tx[p] EXCEPT !.at = "upsert", !.left = left, !.todo = todo, !.saw = saw]
        OBVIOUS
      <4>3. tx' = [tx EXCEPT ![p] = r]
        BY <4>1, <4>2 DEF PickBoat, Proceed
      <4>4. r.at = "upsert"
        BY <1>0, <4>2 DEF TxGood, Fields
      <4> QED BY <4>3, <4>4
    <3>2. CASE UpsertTrip(p)
      <4>1. PICK r : /\ tx' = [tx EXCEPT ![p] = r]
                     /\ \/ r = [tx[p] EXCEPT !.todo = Tail(@)]
                        \/ \E b \in tx[p].saw : r = [tx[p] EXCEPT !.at = "sweep", !.saw = Stale(p, b)]
        BY <3>2 DEF UpsertTrip, Take, Proceed
      <4>2. r.at \in {tx[p].at, "sweep"}
        BY <1>0, <4>1 DEF TxGood, Fields
      <4> QED BY <2>1, <4>1, <4>2
    <3>3. CASE SweepStale(p)
      <4>1. PICK r : /\ tx' = [tx EXCEPT ![p] = r]
                     /\ r = [tx[p] EXCEPT !.at = "boat", !.gone = @ \cup tx[p].saw, !.saw = {}]
        BY <3>3 DEF SweepStale, Take, Proceed
      <4>2. r.at = "boat"
        BY <1>0, <4>1 DEF TxGood, Fields
      <4> QED BY <4>1, <4>2
    <3> QED BY <1>5, <3>1, <3>2, <3>3
  <2> QED BY <2>1, <2>2, PoolStays, RestStays, BitsStay DEF VoyageTypes
<1> QED BY <1>1, <1>2, <1>3, <1>4, <1>5 DEF TripStep

\* A request that arrives holds nothing yet.
LEMMA BeginTypes ==
  ASSUME VoyageInv, VoyageTypes, NEW p \in Procs, NEW job \in TripJobs, BeginTrip(p, job)
  PROVE  VoyageTypes'
<1>1. UNCHANGED <<removed, ready, warned, owner>> /\ tx[p].at = "idle"
  BY DEF BeginTrip, tripVars, manifestVars, At
<1>2. tx'[p].at = "connect"
  <2>1. PICK lone : tx'[p] = [IdleTx EXCEPT !.at = "connect", !.job = job, !.alone = lone]
    BY Zenon DEF BeginTrip
  <2> QED BY <2>1 DEF IdleTx
<1>3. \A q \in Procs \ {p} : tx'[q].at = tx[q].at /\ tx'[q].job = tx[q].job
  <2> SUFFICES ASSUME NEW q \in Procs \ {p} PROVE tx'[q].at = tx[q].at /\ tx'[q].job = tx[q].job
    OBVIOUS
  <2>1. PICK lone : tx'[q] = [tx[q] EXCEPT !.alone = lone]
    BY Zenon DEF BeginTrip
  <2>2. TxGood(q, tx[q], owner, status)
    BY DEF VoyageInv
  <2> QED BY <2>1, <2>2 DEF TxGood, Fields
<1>4. Holding' = Holding
  <2>1. Holding' = {q \in Procs : tx'[q].at \notin {"idle", "connect"}}
    BY DEF Holding, At
  <2> QED BY <1>1, <1>2, <1>3, <2>1, HoldingIs
<1>5. PoolOK'
  BY <1>4 DEF VoyageTypes, PoolOK
<1>6. RestOK'
  BY <1>1, <1>2, <1>3 DEF VoyageTypes, RestOK, Held
<1> QED BY <1>1, <1>5, <1>6, BitsStay DEF VoyageTypes

\* A change of a manifest keeps the types.
LEMMA ManifestTypesStay ==
  ASSUME VoyageInv, VoyageTypes, NEW t \in Unsettled, ChangeManifest(t) PROVE VoyageTypes'
<1>1. UNCHANGED <<removed, owner>>
  BY DEF ChangeManifest, tripVars
<1>2. \A q \in Procs : tx'[q].at = tx[q].at /\ tx'[q].job = tx[q].job
  <2> SUFFICES ASSUME NEW q \in Procs PROVE tx'[q].at = tx[q].at /\ tx'[q].job = tx[q].job
    OBVIOUS
  <2>1. PICK late : tx'[q] = [tx[q] EXCEPT !.stale = late]
    BY Zenon DEF ChangeManifest
  <2>2. TxGood(q, tx[q], owner, status)
    BY DEF VoyageInv
  <2> QED BY <2>1, <2>2 DEF TxGood, Fields
<1>3. Holding' = Holding
  <2>1. Holding' = {q \in Procs : tx'[q].at \notin {"idle", "connect"}}
    BY DEF Holding, At
  <2> QED BY <1>2, <2>1, HoldingIs
<1>4. PoolOK'
  BY <1>3 DEF VoyageTypes, PoolOK
<1>5. RestOK'
  BY <1>1, <1>2 DEF VoyageTypes, RestOK, Held
<1>6. BitsOK'
  <2>1. /\ [ready EXCEPT ![t] = ~@] \in [Trips -> BOOLEAN]
        /\ [warned EXCEPT ![t] = ~@] \in [Trips -> BOOLEAN]
    BY Zenon DEF VoyageTypes, BitsOK
  <2> QED BY <1>1, <2>1 DEF ChangeManifest, VoyageTypes, BitsOK
<1> QED BY <1>4, <1>5, <1>6 DEF VoyageTypes

\* Every step keeps the types.
LEMMA NextVoyageTypes == VoyageInv /\ VoyageTypes /\ [VoyageNext]_voyageVars => VoyageTypes'
<1> SUFFICES ASSUME VoyageInv, VoyageTypes, [VoyageNext]_voyageVars PROVE VoyageTypes'
  OBVIOUS
<1>1. CASE UNCHANGED voyageVars
  <2>1. UNCHANGED <<removed, ready, warned, owner, tx>>
    BY <1>1 DEF voyageVars
  <2> QED BY <2>1 DEF VoyageTypes, BitsOK, PoolOK, RestOK, Holding, Held, At
<1>2. ASSUME NEW p \in Procs, Leave(p) \/ GiveUp(p) \/ BreakCycle(p) PROVE VoyageTypes'
  BY <1>2, AbortTypes DEF Leave, GiveUp, BreakCycle
<1> QED BY <1>1, <1>2, StepTypes, BeginTypes, ManifestTypesStay DEF VoyageNext

\* The types hold to begin with.
LEMMA InitVoyageTypes == VoyageInit => VoyageTypes
<1> SUFFICES ASSUME VoyageInit PROVE VoyageTypes
  OBVIOUS
<1>1. BitsOK
  BY Zenon DEF VoyageInit, BitsOK
<1>2. Holding = {}
  BY IdleIs DEF VoyageInit, Holding, At
<1>3. PoolOK
  BY <1>2, FS_EmptySet, VoyageAssumption DEF PoolOK
<1>4. RestOK
  BY IdleIs, ProcAssumption DEF VoyageInit, RestOK, Held, IdleTx
<1> QED BY <1>1, <1>3, <1>4 DEF VoyageTypes

\* The type invariant is part of them.
LEMMA TypesGiveTypeOK == VoyageInv /\ VoyageTypes => VoyageTypeOK
<1> SUFFICES ASSUME VoyageInv, VoyageTypes PROVE VoyageTypeOK
  OBVIOUS
<1>1. ASSUME NEW p \in Procs
      PROVE  /\ tx[p].job \in TripJobs \cup {NoTripJob}
             /\ At(p, "idle") => Held(p) = {}
  <2>1. TxGood(p, tx[p], owner, status)
    BY DEF VoyageInv
  <2> QED BY <2>1 DEF TxGood, VoyageTypes, RestOK, At
<1> QED BY <1>1 DEF VoyageTypeOK, VoyageInv, Shape, VoyageTypes, BitsOK, PoolOK, RestOK

\* Rows and transactions keep their types, no more transactions are open than the pool has
\* connections, and who has ended holds no row, for any pool and any requests at once.
THEOREM VoyagesTyped == VoyageSpec => []VoyageTypeOK
  BY InitVoyageTypes, NextVoyageTypes, TypesGiveTypeOK, VoyageInvariant, PTL DEF VoyageSpec

=============================================================================
