----------------------------- MODULE Office_proofs -----------------------------
(***************************************************************************)
(* What an import job's row says is true, for any number of jobs, uploads   *)
(* and commits, wherever the server stops and whatever it sweeps; and what  *)
(* is proved of jobs and of voyages holds of both parts together.          *)
(***************************************************************************)
EXTENDS MCOffice, Voyages_proofs

\* A goroutine works for a row that exists, has not succeeded and is no spreadsheet's.
OneOwner ==
  \A j \in JobIds : worker[j] # "none" =>
    /\ j \in DOMAIN job /\ job[j] # "succeeded"
    /\ \A u \in Uploaders : j \notin commit[u].job

\* Whoever is about to write a success has replaced the trips.
AboutToSucceed ==
  /\ \A j \in JobIds : worker[j] = "finishing" => j \in replaced
  /\ \A u \in Uploaders : commit[u].at = "mark" => commit[u].job \subseteq replaced

ImportInv == ImportTypeOK /\ OneOwner /\ AboutToSucceed /\ SucceededMeansReplaced

\* No row that succeeded is written again, but with a success.
Final == \A j \in DOMAIN job : job[j] = "succeeded" => job'[j] = "succeeded"

\* A request that commits nothing is one of the kinds of request.
LEMMA AwayIs == Away \in Commits /\ Away.at = "idle" /\ Away.job = {}
  BY DEF Away, Commits

\* Before the first job nothing is claimed of any.
LEMMA InitImportInv == ImportInit => ImportInv
  BY AwayIs, ImportAssumption
  DEF ImportInit, ImportInv, ImportTypeOK, OneOwner, AboutToSucceed, SucceededMeansReplaced,
      WorkerSteps, JobStatuses

\* The sweep of a starting server touches only rows it fails, and no success.
LEMMA SweptIs ==
  ASSUME ImportTypeOK
  PROVE  /\ DOMAIN Swept = DOMAIN job
         /\ \A j \in DOMAIN job : /\ Swept[j] \in {job[j], "failed"}
                                  /\ job[j] = "succeeded" => Swept[j] = "succeeded"
         /\ Swept \in [DOMAIN job -> JobStatuses]
  BY DEF Swept, InFlight, ImportTypeOK, JobStatuses

\* Failed statements stay within their bound.
LEMMA FaultBound == ASSUME ImportInv, Fault \/ UNCHANGED faults PROVE faults' \in 0..MaxFaults
  BY ImportAssumption DEF Fault, ImportInv, ImportTypeOK

-----------------------------------------------------------------------------
\* A row more, queued: the ones that were there keep their status.
LEMMA RowMore ==
  ASSUME ImportInv, NEW j \in JobIds \ DOMAIN job,
         job' = [i \in DOMAIN job \cup {j} |-> IF i = j THEN "queued" ELSE job[i]]
  PROVE  /\ DOMAIN job' = DOMAIN job \cup {j}
         /\ job'[j] = "queued"
         /\ \A i \in DOMAIN job : job'[i] = job[i]
         /\ job' \in [DOMAIN job' -> JobStatuses]
  BY DEF ImportInv, ImportTypeOK, JobStatuses

\* A job kicked off from a listing is a row of its own, queued.
LEMMA KickKeeps == ASSUME ImportInv, NEW j \in JobIds, Kick(j) PROVE ImportInv' /\ Final
<1>1. /\ DOMAIN job' = DOMAIN job \cup {j} /\ job'[j] = "queued"
      /\ \A i \in DOMAIN job : job'[i] = job[i]
      /\ job' \in [DOMAIN job' -> JobStatuses]
  BY RowMore DEF Kick
<1>2. /\ worker' = [worker EXCEPT ![j] = "spawned"] /\ j \notin DOMAIN job /\ server = "up"
      /\ UNCHANGED <<replaced, server, preview, commit, faults>>
  BY DEF Kick
<1>3. ImportTypeOK'
  BY <1>1, <1>2 DEF ImportInv, ImportTypeOK, WorkerSteps
<1>4. OneOwner'
  BY <1>1, <1>2 DEF ImportInv, ImportTypeOK, OneOwner
<1>5. AboutToSucceed'
  BY <1>2 DEF ImportInv, ImportTypeOK, AboutToSucceed
<1>6. SucceededMeansReplaced'
  BY <1>1, <1>2 DEF ImportInv, SucceededMeansReplaced
<1> QED BY <1>1, <1>3, <1>4, <1>5, <1>6 DEF ImportInv, Final

\* A goroutine writes its own row only, and only while it works.
LEMMA WorkerKeeps == ASSUME ImportInv, NEW j \in JobIds, WorkerStep(j) PROVE ImportInv' /\ Final
<1> USE DEF ImportInv, ImportTypeOK
<1>0. /\ j \in DOMAIN job /\ job[j] # "succeeded" /\ worker[j] # "none"
      /\ UNCHANGED <<server, preview, commit>> /\ faults' \in 0..MaxFaults
  BY FaultBound DEF WorkerStep, MarkRunning, Scrape, UpsertBoat, ReplaceTrips, MarkSucceeded, MarkFailed,
         WorkerGoes, SetStatus, OneOwner
<1>1. PICK to \in WorkerSteps : worker' = [worker EXCEPT ![j] = to]
  BY DEF WorkerStep, MarkRunning, Scrape, UpsertBoat, ReplaceTrips, MarkSucceeded, MarkFailed,
         WorkerGoes, WorkerSteps
<1>2. /\ replaced' \in {replaced, replaced \cup {j}}
      /\ to = "finishing" => j \in replaced'
  BY <1>1 DEF WorkerStep, MarkRunning, Scrape, UpsertBoat, ReplaceTrips, MarkSucceeded, MarkFailed,
         WorkerGoes
<1>3. PICK s \in JobStatuses :
        /\ job' = [job EXCEPT ![j] = s]
        /\ s = "succeeded" => worker[j] = "finishing" /\ to = "none"
  BY <1>0, <1>1 DEF WorkerStep, MarkRunning, Scrape, UpsertBoat, ReplaceTrips, MarkSucceeded, MarkFailed,
         WorkerGoes, SetStatus, JobStatuses
<1>4. /\ DOMAIN job' = DOMAIN job /\ job' \in [DOMAIN job -> JobStatuses]
      /\ \A i \in DOMAIN job : job'[i] = IF i = j THEN s ELSE job[i]
  BY <1>3, <1>0
<1>5. ImportTypeOK'
  BY <1>0, <1>1, <1>2, <1>4
<1>6. OneOwner'
  BY <1>0, <1>1, <1>3, <1>4 DEF OneOwner
<1>7. AboutToSucceed'
  BY <1>0, <1>1, <1>2 DEF AboutToSucceed
<1>8. SucceededMeansReplaced'
  BY <1>0, <1>2, <1>3, <1>4 DEF AboutToSucceed, SucceededMeansReplaced
<1> QED BY <1>0, <1>4, <1>5, <1>6, <1>7, <1>8 DEF Final

-----------------------------------------------------------------------------
\* Previews come and go beside the jobs.
LEMMA PreviewKeeps ==
  ASSUME ImportInv, NEW v \in Previews, UploadPreview(v) \/ ExpirePreview(v)
  PROVE  ImportInv' /\ Final
<1>1. /\ UNCHANGED <<job, replaced, worker, server, commit, faults>>
      /\ preview' \in [Previews -> {"absent", "live", "expired"}]
  BY DEF UploadPreview, ExpirePreview, ImportInv, ImportTypeOK
<1> QED BY <1>1 DEF ImportInv, ImportTypeOK, OneOwner, AboutToSucceed, SucceededMeansReplaced, Final

\* A commit that moves on without a job of its own to mark.
LEMMA CommitMoves ==
  ASSUME ImportInv, NEW u \in Uploaders, NEW c \in Commits, commit' = [commit EXCEPT ![u] = c],
         c.at # "mark", c.job \subseteq commit[u].job,
         UNCHANGED <<job, replaced, worker, server>>,
         preview' \in [Previews -> {"absent", "live", "expired"}], faults' \in 0..MaxFaults
  PROVE  ImportInv' /\ Final
<1>1. commit' \in [Uploaders -> Commits] /\ \A w \in Uploaders : commit'[w].job \subseteq commit[w].job
  BY DEF ImportInv, ImportTypeOK
<1>2. \A w \in Uploaders : commit'[w].at = "mark" => commit'[w] = commit[w]
  BY DEF ImportInv, ImportTypeOK
<1> QED BY <1>1, <1>2
        DEF ImportInv, ImportTypeOK, OneOwner, AboutToSucceed, SucceededMeansReplaced, Final

\* A commit makes a row for its job, or finds the preview gone.
LEMMA LoadKeeps ==
  ASSUME ImportInv, NEW u \in Uploaders, NEW v \in Previews, NEW boat, LoadPreview(u, v, boat)
  PROVE  ImportInv' /\ Final
<1>1. PICK c : c = [at |-> "replace", preview |-> v, job |-> {}]
  OBVIOUS
<1>2. c \in Commits /\ c.at # "mark" /\ c.job = {}
  BY <1>1 DEF Commits
<1> QED BY <1>1, <1>2, CommitMoves DEF LoadPreview, ImportInv, ImportTypeOK

\* A commit replaces the trips before its job can succeed.
LEMMA CommitTripsKeeps ==
  ASSUME ImportInv, NEW u \in Uploaders, CommitTrips(u) PROVE ImportInv' /\ Final
<1>1. PICK c : c = [commit[u] EXCEPT !.at = "job"]
  OBVIOUS
<1>2. c \in Commits /\ c.at # "mark" /\ c.job = commit[u].job
  BY <1>1 DEF ImportInv, ImportTypeOK, Commits
<1> QED BY <1>1, <1>2, CommitMoves DEF CommitTrips, CommitGoes, ImportInv, ImportTypeOK

\* The preview is deleted, or the request is cut off.
LEMMA DeletePreviewKeeps ==
  ASSUME ImportInv, NEW u \in Uploaders, DeletePreview(u) \/ LeaveCommit(u) PROVE ImportInv' /\ Final
<1>1. /\ commit' = [commit EXCEPT ![u] = Away] /\ UNCHANGED <<job, replaced, worker, server>>
      /\ preview' \in [Previews -> {"absent", "live", "expired"}] /\ faults' \in 0..MaxFaults
  BY FaultBound DEF DeletePreview, LeaveCommit, ImportInv, ImportTypeOK
<1>2. {} \subseteq commit[u].job
  OBVIOUS
<1> QED BY <1>1, <1>2, AwayIs, CommitMoves

\* The spreadsheet's row is inserted once the trips are in place.
LEMMA RecordKeeps ==
  ASSUME ImportInv, NEW u \in Uploaders, NEW j \in JobIds, RecordJob(u, j) PROVE ImportInv' /\ Final
<1> USE DEF ImportInv, ImportTypeOK
<1>1. /\ DOMAIN job' = DOMAIN job \cup {j} /\ job'[j] = "queued"
      /\ \A i \in DOMAIN job : job'[i] = job[i]
      /\ job' \in [DOMAIN job' -> JobStatuses]
  BY RowMore DEF RecordJob
<1>2. /\ replaced' = replaced \cup {j} /\ j \notin DOMAIN job
      /\ commit' = [commit EXCEPT ![u].at = "mark", ![u].job = {j}]
      /\ UNCHANGED <<worker, server, preview, faults>>
  BY DEF RecordJob
<1>3. /\ commit' \in [Uploaders -> Commits]
      /\ commit'[u].job = {j} /\ \A w \in Uploaders \ {u} : commit'[w] = commit[w]
  BY <1>2 DEF Commits
<1>4. ImportTypeOK'
  BY <1>1, <1>2, <1>3
<1>5. OneOwner'
  BY <1>1, <1>2, <1>3 DEF OneOwner
<1>6. AboutToSucceed'
  BY <1>2, <1>3 DEF AboutToSucceed
<1>7. SucceededMeansReplaced'
  BY <1>1, <1>2 DEF SucceededMeansReplaced
<1> QED BY <1>1, <1>4, <1>5, <1>6, <1>7 DEF Final

\* A commit marks its own job, whose trips it has replaced.
LEMMA MarkCommittedKeeps ==
  ASSUME ImportInv, NEW u \in Uploaders, MarkCommitted(u) PROVE ImportInv' /\ Final
<1> USE DEF ImportInv, ImportTypeOK
<1>1. /\ DOMAIN job' = DOMAIN job /\ job' \in [DOMAIN job -> JobStatuses]
      /\ \A j \in DOMAIN job : job'[j] = IF j \in commit[u].job THEN "succeeded" ELSE job[j]
      /\ commit[u].job \subseteq replaced
  BY DEF MarkCommitted, JobStatuses, AboutToSucceed
<1>2. /\ commit' = [commit EXCEPT ![u].at = "delete"]
      /\ UNCHANGED <<replaced, worker, server, preview, faults>>
  BY DEF MarkCommitted, CommitGoes
<1>3. /\ commit' \in [Uploaders -> Commits]
      /\ \A w \in Uploaders : commit'[w].job = commit[w].job /\ (commit'[w].at = "mark" => commit[w].at = "mark")
  BY <1>2 DEF Commits
<1>4. ImportTypeOK'
  BY <1>1, <1>2, <1>3
<1>5. OneOwner'
  BY <1>1, <1>2, <1>3 DEF OneOwner
<1>6. AboutToSucceed'
  BY <1>2, <1>3 DEF AboutToSucceed
<1>7. SucceededMeansReplaced'
  BY <1>1, <1>2 DEF SucceededMeansReplaced
<1> QED BY <1>1, <1>4, <1>5, <1>6, <1>7 DEF Final

-----------------------------------------------------------------------------
\* The server goes, perhaps with everyone in it, and fails what it finds in flight: no row
\* that succeeded changes.
LEMMA ServerKeeps ==
  ASSUME ImportInv, UNCHANGED <<replaced, preview>>, job' \in {job, Swept},
         \/ Nobody /\ server' = "down"
         \/ UNCHANGED <<worker, commit>> /\ server' \in {"up", "draining", "swept"},
         faults' \in 0..MaxFaults
  PROVE  ImportInv' /\ Final
<1> USE DEF ImportInv, ImportTypeOK
<1>1. /\ DOMAIN job' = DOMAIN job /\ job' \in [DOMAIN job -> JobStatuses]
      /\ \A j \in DOMAIN job : job'[j] \in {job[j], "failed"} /\ (job[j] = "succeeded" => job'[j] = "succeeded")
  BY SweptIs
<1>2. /\ worker' \in [JobIds -> WorkerSteps] /\ \A j \in JobIds : worker'[j] \in {worker[j], "none"}
      /\ server' = "down" => \A j \in JobIds : worker'[j] = "none"
  BY DEF Nobody, WorkerSteps
<1>3. /\ commit' \in [Uploaders -> Commits]
      /\ \A u \in Uploaders : commit'[u] \in {commit[u], Away}
  BY AwayIs DEF Nobody
<1>4. ImportTypeOK'
  BY <1>1, <1>2, <1>3, AwayIs
<1>5. OneOwner'
  BY <1>1, <1>2, <1>3, AwayIs DEF OneOwner
<1>6. AboutToSucceed'
  BY <1>2, <1>3, AwayIs DEF AboutToSucceed
<1>7. SucceededMeansReplaced'
  BY <1>1 DEF SucceededMeansReplaced
<1> QED BY <1>1, <1>4, <1>5, <1>6, <1>7 DEF Final

\* No step of a job, a commit or the server spoils the invariant, nor takes a success back.
LEMMA NextImportInv == ASSUME ImportInv, [ImportNext]_importVars PROVE ImportInv' /\ (UNCHANGED importVars \/ Final)
<1>1. CASE UNCHANGED importVars
  BY <1>1 DEF ImportInv, ImportTypeOK, OneOwner, AboutToSucceed, SucceededMeansReplaced, importVars
<1>2. CASE Drain \/ WaitDeadline \/ Exit \/ Crash \/ StartServer
  <2>1. /\ UNCHANGED <<replaced, preview>> /\ job' \in {job, Swept} /\ faults' \in 0..MaxFaults
        /\ \/ Nobody /\ server' = "down"
           \/ UNCHANGED <<worker, commit>> /\ server' \in {"up", "draining", "swept"}
    BY <1>2, FaultBound DEF Drain, WaitDeadline, Exit, Crash, StartServer
  <2> QED BY <2>1, ServerKeeps
<1> QED
  BY <1>1, <1>2, KickKeeps, WorkerKeeps, PreviewKeeps, LoadKeeps, CommitTripsKeeps, RecordKeeps,
     MarkCommittedKeeps, DeletePreviewKeeps
  DEF ImportNext, CommitStep

\* Each job has one owner, and whoever is about to write a success has replaced the
\* trips (liveaboard_runner.go, import_handlers.go).
THEOREM ImportInvariant == ImportSpec => []ImportInv
<1>1. ImportInv /\ [ImportNext]_importVars => ImportInv'
  BY NextImportInv
<1> QED BY <1>1, InitImportInv, PTL DEF ImportSpec

\* A row says it succeeded only when its trips were replaced (runJob, handleSpreadsheetCommit),
\* whatever the sweep of a restart or of a shutdown's deadline wrote in between.
THEOREM SucceededReplaced == ImportSpec => []SucceededMeansReplaced
<1>1. ImportInv => SucceededMeansReplaced
  BY DEF ImportInv
<1> QED BY <1>1, ImportInvariant, PTL

\* A success is never taken back: the sweep's WHERE clause, and each row's one writer.
THEOREM SuccessStays == ImportSpec => SuccessIsFinal
<1>1. ImportInv /\ [ImportNext]_importVars
        => [\A j \in DOMAIN job : job[j] = "succeeded" => job'[j] = "succeeded"]_importVars
  BY NextImportInv DEF Final
<1> QED BY <1>1, ImportInvariant, PTL DEF ImportSpec, SuccessIsFinal

-----------------------------------------------------------------------------
(***************************************************************************)
(* Both parts: each moves as on its own, and stands still while the other   *)
(* moves.                                                                  *)
(***************************************************************************)
LEMMA OfficeMoves ==
  [OfficeNext]_officeVars => [VoyageNext]_voyageVars /\ [ImportNext]_importVars
<1> SUFFICES ASSUME [OfficeNext]_officeVars PROVE [VoyageNext]_voyageVars /\ [ImportNext]_importVars
  OBVIOUS
<1>1. CASE VoyagesMove(VoyageNext)
  BY <1>1 DEF VoyagesMove
<1>2. CASE ImportsMove(ImportNext)
  BY <1>2 DEF ImportsMove
<1>3. CASE UNCHANGED officeVars
  BY <1>3 DEF officeVars
<1> QED BY <1>1, <1>2, <1>3 DEF OfficeNext

\* The server's trips and its import jobs, together, do what each is specified to do.
THEOREM OfficeRunsBoth == OfficeSpec => VoyageSpec /\ ImportSpec
<1>1. OfficeInit => VoyageInit /\ ImportInit
  BY DEF OfficeInit
<1> QED BY <1>1, OfficeMoves, PTL DEF OfficeSpec, VoyageSpec, ImportSpec

\* Jobs, goroutines, previews and commits keep their types, over crashes and sweeps.
THEOREM JobsTyped == ImportSpec => []ImportTypeOK
<1>1. ImportInv => ImportTypeOK
  BY DEF ImportInv
<1> QED BY <1>1, ImportInvariant, PTL

\* Trips, the pool of connections, rows held, jobs, previews and commits keep their types and
\* bounds, whatever moves.
THEOREM OfficeTyped == OfficeSpec => []OfficeTypeOK
<1>1. VoyageTypeOK /\ ImportTypeOK => OfficeTypeOK
  BY DEF OfficeTypeOK
<1> QED BY <1>1, OfficeRunsBoth, VoyagesTyped, JobsTyped, PTL

=============================================================================
