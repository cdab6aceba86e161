------------------------------ MODULE MCOffice ------------------------------
(***************************************************************************)
(* Trips under way and imported (Voyages), and the jobs that import them    *)
(* (ImportJobs), one part at a time: part says which moves.  A file with a  *)
(* trip on each of two boats, a scrape that finds one boat empty, and two   *)
(* connections for two requests.                                           *)
(***************************************************************************)
EXTENDS Voyages, ImportJobs, TLC

CONSTANTS t1, t2, b1, b2

VARIABLE part

MCBoatOf == t1 :> b1 @@ t2 :> b2
MCSourceOf == [t \in {t1, t2} |-> "sheet"]

Request(kind, t, override, reason) ==
  [kind |-> kind, trip |-> t, override |-> override, reason |-> reason]
Import(file) == [kind |-> "import", source |-> "sheet", file |-> file]

MCTripJobs ==
  {Request("start", t1, FALSE, FALSE), Request("start", t1, TRUE, TRUE),
   Request("complete", t1, FALSE, TRUE), Request("cancel", t1, FALSE, TRUE),
   Import(b1 :> <<t1>> @@ b2 :> <<t2>>), Import(b1 :> <<>>)}

officeVars == <<voyageVars, importVars, part>>

VoyagesMove(A) == part = "voyages" /\ A /\ UNCHANGED <<importVars, part>>
ImportsMove(A) == part = "imports" /\ A /\ UNCHANGED <<voyageVars, part>>

OfficeInit ==
  /\ VoyageInit /\ ImportInit
  /\ part \in {"voyages", "imports"}

OfficeNext ==
  \/ VoyagesMove(VoyageNext)
  \/ ImportsMove(ImportNext)

\* A request gets its next statement, or a row or connection it waits for, or its time is up.
Served(p) == TripStep(p) \/ GiveUp(p) \/ BreakCycle(p)

OfficeFairness ==
  /\ \A p \in Procs : WF_officeVars(VoyagesMove(Served(p)))
  /\ \A j \in JobIds : WF_officeVars(ImportsMove(WorkerStep(j)))
  /\ \A u \in Uploaders : WF_officeVars(ImportsMove(CommitStep(u)))
  /\ WF_officeVars(ImportsMove(StartServer))

OfficeSpec == OfficeInit /\ [][OfficeNext]_officeVars /\ OfficeFairness

\* The types of both parts.
OfficeTypeOK == VoyageTypeOK /\ ImportTypeOK

=============================================================================
