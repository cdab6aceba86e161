------------------------------ MODULE ImportJobs ------------------------------
(***************************************************************************)
(* Import jobs: the rows a client polls, the goroutines that do the work    *)
(* (internal/imports/liveaboard_runner.go), the spreadsheet commits that    *)
(* record theirs (internal/httpapi/import_handlers.go), and the server that *)
(* may stop, crash and start again under them (cmd/server/main.go).  What   *)
(* replacing the trips does is module Voyages; here it is one step.         *)
(***************************************************************************)
EXTENDS Naturals, FiniteSets

CONSTANTS
  JobIds,      \* bounds how many jobs are ever created
  Previews,    \* bounds how many spreadsheets are uploaded
  Uploaders,   \* the requests that commit a spreadsheet
  NoPreview,
  MaxFaults    \* bounds the statements of jobs that fail

ASSUME ImportAssumption == MaxFaults \in Nat /\ NoPreview \notin Previews

VARIABLES
  job,       \* import_jobs.status of each row, a function on the rows inserted
  replaced,  \* the jobs whose trips were replaced
  worker,    \* where the goroutine of each job is
  server,    \* "up", "draining", "swept" (the deadline of Wait is over) or "down"
  preview,   \* import_previews: "absent", "live" or "expired"
  commit,    \* what each uploader's request is doing
  faults     \* failed statements left to happen

importVars == <<job, replaced, worker, server, preview, commit, faults>>

JobStatuses == {"queued", "running", "succeeded", "failed"}
WorkerSteps == {"none", "spawned", "scraping", "boat", "replacing", "finishing", "failing"}

Commits == [at : {"idle", "replace", "job", "mark", "delete"},
            preview : Previews \cup {NoPreview}, job : SUBSET JobIds]

Away == [at |-> "idle", preview |-> NoPreview, job |-> {}]

-----------------------------------------------------------------------------
InFlight(j) == j \in DOMAIN job /\ job[j] \in {"queued", "running"}

SetStatus(j, s) == job' = [job EXCEPT ![j] = s]

\* MarkInFlightImportJobsFailed.
Swept == [j \in DOMAIN job |-> IF InFlight(j) THEN "failed" ELSE job[j]]

\* UpsertBoat refuses a boat without a slug, a name or a URL.
UpsertAccepts(boat) == boat.slug # "" /\ boat.name # "" /\ boat.url # ""

\* What createManualBoat asks for: a boat no site knows has no URL.
ManualBoat == [slug |-> "vessel-0", name |-> "vessel", url |-> ""]
ScrapedBoat == [slug |-> "vessel", name |-> "vessel", url |-> "https"]

\* The bound on jobs: a row for each commit on its way, and one more.
RowLeft ==
  Cardinality({u \in Uploaders : commit[u].at \in {"replace", "job"}})
    < Cardinality(JobIds \ DOMAIN job)

Fault == faults > 0 /\ faults' = faults - 1

-----------------------------------------------------------------------------
(***************************************************************************)
(* A job of liveaboard.com.                                                *)
(***************************************************************************)
\* handleKickLiveaboardImport and Runner.Kick: the row, then the goroutine.
Kick(j) ==
  /\ server = "up" /\ RowLeft
  /\ j \in JobIds \ DOMAIN job
  /\ job' = [i \in DOMAIN job \cup {j} |-> IF i = j THEN "queued" ELSE job[i]]
  /\ worker' = [worker EXCEPT ![j] = "spawned"]
  /\ UNCHANGED <<replaced, server, preview, commit, faults>>

WorkerGoes(j, to) ==
  /\ worker' = [worker EXCEPT ![j] = to]
  /\ UNCHANGED <<replaced, server, preview, commit>>

\* A row swept meanwhile is left as it is.
MarkRunning(j) ==
  /\ worker[j] = "spawned"
  /\ \/ /\ job' = IF job[j] = "queued" THEN [job EXCEPT ![j] = "running"] ELSE job
        /\ WorkerGoes(j, "scraping") /\ UNCHANGED faults
     \/ Fault /\ WorkerGoes(j, "none") /\ UNCHANGED job

\* The scrape, the boat's upsert, or a panic in between: runJob's recover and fail.
Scrape(j) ==
  /\ worker[j] = "scraping"
  /\ \E to \in {"boat", "failing"} : WorkerGoes(j, to)
  /\ UNCHANGED <<job, faults>>

UpsertBoat(j) ==
  /\ worker[j] = "boat"
  /\ \/ UpsertAccepts(ScrapedBoat) /\ WorkerGoes(j, "replacing") /\ UNCHANGED faults
     \/ Fault /\ WorkerGoes(j, "failing")
  /\ UNCHANGED job

ReplaceTrips(j) ==
  /\ worker[j] = "replacing"
  /\ \/ /\ replaced' = replaced \cup {j}
        /\ worker' = [worker EXCEPT ![j] = "finishing"]
        /\ UNCHANGED <<server, preview, commit, faults>>
     \/ Fault /\ WorkerGoes(j, "failing")
  /\ UNCHANGED job

\* Nothing marks the job failed when this fails.
MarkSucceeded(j) ==
  /\ worker[j] = "finishing"
  /\ WorkerGoes(j, "none")
  /\ \/ SetStatus(j, "succeeded") /\ UNCHANGED faults
     \/ Fault /\ UNCHANGED job

\* Mutant of MarkFailed: the failure is logged and not written.
MarkFailedLogged(j) == worker[j] = "failing" /\ WorkerGoes(j, "none") /\ UNCHANGED <<job, faults>>

MarkFailed(j) ==
  /\ worker[j] = "failing"
  /\ WorkerGoes(j, "none")
  /\ \/ SetStatus(j, "failed") /\ UNCHANGED faults
     \/ Fault /\ UNCHANGED job

-----------------------------------------------------------------------------
(***************************************************************************)
(* Spreadsheets: a preview is uploaded, lives an hour, and is committed.    *)
(***************************************************************************)
UploadPreview(v) ==
  /\ server = "up" /\ preview[v] = "absent"
  /\ preview' = [preview EXCEPT ![v] = "live"]
  /\ UNCHANGED <<job, replaced, worker, server, commit, faults>>

ExpirePreview(v) ==
  /\ preview[v] = "live"
  /\ preview' = [preview EXCEPT ![v] = "expired"]
  /\ UNCHANGED <<job, replaced, worker, server, commit, faults>>

\* handleSpreadsheetCommit: load the preview and map its vessel to a boat of the
\* organization, or to one created now.
LoadPreview(u, v, boat) ==
  /\ server = "up" /\ commit[u].at = "idle" /\ preview[v] = "live" /\ RowLeft
  /\ boat.url = "" => UpsertAccepts(boat)
  /\ commit' = [commit EXCEPT ![u] = [at |-> "replace", preview |-> v, job |-> {}]]
  /\ UNCHANGED <<job, replaced, worker, server, preview, faults>>

CommitGoes(u, to) ==
  /\ commit' = [commit EXCEPT ![u].at = to]
  /\ UNCHANGED <<worker, server, preview, faults>>

CommitTrips(u) ==
  /\ commit[u].at = "replace"
  /\ CommitGoes(u, "job")
  /\ UNCHANGED <<job, replaced>>

\* Mutant of RecordJob: the job is recorded before the trips are replaced.
RecordJobEarly(u, j) ==
  /\ commit[u].at \in {"replace", "job"}
  /\ j \in JobIds \ DOMAIN job
  /\ job' = [i \in DOMAIN job \cup {j} |-> IF i = j THEN "queued" ELSE job[i]]
  /\ replaced' = IF commit[u].at = "job" THEN replaced \cup {j} ELSE replaced
  /\ commit' = [commit EXCEPT ![u].at = "mark", ![u].job = {j}]
  /\ UNCHANGED <<worker, server, preview, faults>>

RecordJob(u, j) ==
  /\ commit[u].at = "job"
  /\ j \in JobIds \ DOMAIN job
  /\ job' = [i \in DOMAIN job \cup {j} |-> IF i = j THEN "queued" ELSE job[i]]
  /\ replaced' = replaced \cup {j}
  /\ commit' = [commit EXCEPT ![u].at = "mark", ![u].job = {j}]
  /\ UNCHANGED <<worker, server, preview, faults>>

\* Failing to record or to mark the job is not reported: the trips are in place.
MarkCommitted(u) ==
  /\ commit[u].at = "mark"
  /\ job' = [j \in DOMAIN job |-> IF j \in commit[u].job THEN "succeeded" ELSE job[j]]
  /\ CommitGoes(u, "delete")
  /\ UNCHANGED replaced

DeletePreview(u) ==
  /\ commit[u].at = "delete"
  /\ preview' = [preview EXCEPT ![commit[u].preview] = "expired"]
  /\ commit' = [commit EXCEPT ![u] = Away]
  /\ UNCHANGED <<job, replaced, worker, server, faults>>

\* The request ends early: its client left, or its 15 s are over.
LeaveCommit(u) ==
  /\ commit[u].at # "idle"
  /\ Fault
  /\ commit' = [commit EXCEPT ![u] = Away]
  /\ UNCHANGED <<job, replaced, worker, server, preview>>

-----------------------------------------------------------------------------
(***************************************************************************)
(* The server.                                                             *)
(***************************************************************************)
Nobody ==
  /\ worker' = [j \in JobIds |-> "none"]
  /\ commit' = [u \in Uploaders |-> Away]

\* A signal: http.Server.Shutdown takes no more requests, and waits 10 s for those under way.
Drain ==
  /\ server = "up"
  /\ server' = "draining"
  /\ UNCHANGED <<job, replaced, worker, preview, commit, faults>>

\* Runner.Wait: at its deadline the jobs still in flight are marked failed, and their
\* goroutines run on until the process ends, as does a request that outlived its 10 s.
WaitDeadline ==
  /\ server = "draining"
  /\ server' = "swept"
  /\ \/ job' = Swept /\ UNCHANGED faults
     \/ Fault /\ UNCHANGED job
  /\ UNCHANGED <<replaced, worker, preview, commit>>

Exit ==
  /\ \/ server = "swept"
     \/ server = "draining" /\ \A j \in JobIds : worker[j] = "none"
  /\ server' = "down"
  /\ Nobody
  /\ UNCHANGED <<job, replaced, preview, faults>>

Crash ==
  /\ server # "down"
  /\ server' = "down"
  /\ Nobody
  /\ UNCHANGED <<job, replaced, preview, faults>>

\* Mutant of StartServer: jobs of the previous process are not looked at.
StartServerOnly ==
  /\ server = "down"
  /\ server' = "up"
  /\ UNCHANGED <<job, replaced, worker, preview, commit, faults>>

\* main: what the previous process left in flight is failed before listening.
StartServer ==
  /\ server = "down"
  /\ server' = "up"
  /\ \/ job' = Swept /\ UNCHANGED faults
     \/ Fault /\ UNCHANGED job
  /\ UNCHANGED <<replaced, worker, preview, commit>>

-----------------------------------------------------------------------------
WorkerStep(j) ==
  \/ MarkRunning(j) \/ Scrape(j) \/ UpsertBoat(j) \/ ReplaceTrips(j)
  \/ MarkSucceeded(j) \/ MarkFailed(j)

CommitStep(u) ==
  \/ CommitTrips(u) \/ (\E j \in JobIds : RecordJob(u, j)) \/ MarkCommitted(u)
  \/ DeletePreview(u)

ImportInit ==
  /\ job = <<>>
  /\ replaced = {}
  /\ worker = [j \in JobIds |-> "none"]
  /\ server = "up"
  /\ preview = [v \in Previews |-> "absent"]
  /\ commit = [u \in Uploaders |-> Away]
  /\ faults = MaxFaults

ImportNext ==
  \/ \E j \in JobIds : Kick(j) \/ WorkerStep(j)
  \/ \E v \in Previews : UploadPreview(v) \/ ExpirePreview(v)
  \/ \E u \in Uploaders :
       \/ \E v \in Previews, boat \in {ManualBoat, ScrapedBoat} : LoadPreview(u, v, boat)
       \/ CommitStep(u) \/ LeaveCommit(u)
  \/ Drain \/ WaitDeadline \/ Exit \/ Crash \/ StartServer

ImportSpec == ImportInit /\ [][ImportNext]_importVars

-----------------------------------------------------------------------------
(***************************************************************************)
(* Properties                                                              *)
(***************************************************************************)
ImportTypeOK ==
  /\ DOMAIN job \subseteq JobIds
  /\ job \in [DOMAIN job -> JobStatuses]
  /\ replaced \subseteq DOMAIN job
  /\ worker \in [JobIds -> WorkerSteps]
  /\ server \in {"up", "draining", "swept", "down"}
  /\ preview \in [Previews -> {"absent", "live", "expired"}]
  /\ commit \in [Uploaders -> Commits]
  /\ \A u \in Uploaders : commit[u].job \subseteq DOMAIN job
  /\ faults \in 0..MaxFaults
  /\ server = "down" => \A j \in JobIds : worker[j] = "none"

\* A job that says it succeeded has replaced its trips, wherever the server stopped and
\* whatever swept the row meanwhile (runJob, handleSpreadsheetCommit).
SucceededMeansReplaced == \A j \in DOMAIN job : job[j] = "succeeded" => j \in replaced

\* A success is final: no sweep, restart or late goroutine takes it back.
SuccessIsFinal == [][\A j \in DOMAIN job : job[j] = "succeeded" => job'[j] = "succeeded"]_importVars

\* A job in flight ends, over crashes and shutdowns, unless a bookkeeping statement failed;
\* and one that a failed statement left in flight ends with the next start of the server.
JobsEnd ==
  \A j \in JobIds : /\ InFlight(j) ~> (~InFlight(j) \/ faults < MaxFaults)
                    /\ InFlight(j) /\ server = "down" /\ faults = 0 ~> ~InFlight(j)

=============================================================================
