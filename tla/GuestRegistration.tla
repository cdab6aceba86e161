-------------------------- MODULE GuestRegistration --------------------------
(***************************************************************************)
(* The registration one guest fills in for one trip                         *)
(* (internal/httpapi/guest_registration_handlers.go and                     *)
(* internal/store/guest_registrations.go).  Each device of the guest has    *)
(* one request in flight: a draft saved, or a registration submitted.       *)
(* Its handler looks at the guest, the trip and the registration on the     *)
(* pool, one query at a time, and only then writes.  The write is one       *)
(* transaction of two statements; the first locks the registration, so the  *)
(* writes of two requests never interleave and each is one step here.       *)
(***************************************************************************)
EXTENDS Naturals

CONSTANTS
  Devices,             \* the guest's, with one request each
  Payloads, Complete,  \* what a guest may send; what validateRegistrationPayload accepts
  NoPayload,           \* nothing saved yet
  MaxTime              \* bounds how many times the clock is looked at

ASSUME PayloadAssumption == Complete \subseteq Payloads /\ NoPayload \notin Payloads
ASSUME TimeAssumption == MaxTime \in Nat

VARIABLES
  reg,         \* the guest_trip_registrations row
  shownAt,     \* trip_guests.registration_submitted_at, what the manifest shows; 0 is null
  listed,      \* the guest is on the manifest, linked to the account that asks
  tripOpen,    \* the trip is neither completed nor cancelled
  clock,
  req          \* what each process is doing

regVars == <<reg, shownAt, listed, tripOpen, clock, req>>

Kinds == {"draft", "submit"}

NoReg == [status |-> "none", payload |-> NoPayload, at |-> 0]
Regs ==
  {NoReg} \cup [status: {"draft"}, payload: Payloads, at: {0}]
          \cup [status: {"submitted"}, payload: Payloads, at: 1..MaxTime]

Reqs ==
  [at: {"idle", "access", "trip", "check", "validate", "stamp", "original", "save"},
   kind: Kinds, payload: Payloads \cup {NoPayload}, time: 0..MaxTime]

NoReq == [at |-> "idle", kind |-> "draft", payload |-> NoPayload, time |-> 0]

-----------------------------------------------------------------------------
RegAt(p, at) == req[p].at = at

RegGoto(p, at) ==
  /\ req' = [req EXCEPT ![p].at = at]
  /\ UNCHANGED <<reg, shownAt, listed, tripOpen, clock>>

FailReg(p) ==
  /\ req' = [req EXCEPT ![p] = NoReq]
  /\ UNCHANGED <<reg, shownAt, listed, tripOpen, clock>>

BeginReg(p, kind, payload) ==
  /\ RegAt(p, "idle")
  /\ req' = [req EXCEPT ![p] = [at |-> "access", kind |-> kind, payload |-> payload, time |-> 0]]
  /\ UNCHANGED <<reg, shownAt, listed, tripOpen, clock>>

CheckAccess(p) ==
  /\ RegAt(p, "access")
  /\ IF listed THEN RegGoto(p, "trip") ELSE FailReg(p)

CheckTrip(p) ==
  /\ RegAt(p, "trip")
  /\ IF tripOpen
       THEN RegGoto(p, IF req[p].kind = "draft" THEN "check" ELSE "validate")
       ELSE FailReg(p)

\* A draft is refused once something was submitted; its body is only read then.
CheckDraft(p) ==
  /\ RegAt(p, "check")
  /\ IF reg.status = "submitted" THEN FailReg(p) ELSE RegGoto(p, "save")

Validate(p) ==
  /\ RegAt(p, "validate")
  /\ IF req[p].payload \in Complete THEN RegGoto(p, "stamp") ELSE FailReg(p)

\* The time is taken before the registration is looked at for an earlier one.
Stamp(p) ==
  /\ RegAt(p, "stamp")
  /\ clock < MaxTime
  /\ clock' = clock + 1
  /\ req' = [req EXCEPT ![p].at = "original", ![p].time = clock']
  /\ UNCHANGED <<reg, shownAt, listed, tripOpen>>

KeepOriginal(p) ==
  /\ RegAt(p, "original")
  /\ req' = [req EXCEPT ![p].at = "save", ![p].time = IF reg.at # 0 THEN reg.at ELSE @]
  /\ UNCHANGED <<reg, shownAt, listed, tripOpen, clock>>

\* Mutant of Written: the upsert keeps the status of a row that is there.
WrittenKeepingStatus(p) ==
  [status |-> IF reg.status # "none" THEN reg.status
              ELSE IF req[p].kind = "draft" THEN "draft" ELSE "submitted",
   payload |-> req[p].payload,
   at |-> req[p].time]

\* Mutant of Written: a draft keeps the submission time of the row it replaces.
WrittenKeepingTime(p) ==
  [status |-> IF req[p].kind = "draft" THEN "draft" ELSE "submitted",
   payload |-> req[p].payload,
   at |-> IF reg.at # 0 THEN reg.at ELSE req[p].time]

\* The upsert overwrites every column; a draft has no submission time.
Written(p) ==
  [status |-> IF req[p].kind = "draft" THEN "draft" ELSE "submitted",
   payload |-> req[p].payload,
   at |-> req[p].time]

\* Mutant of Shown: every submission shows its own time.
ShownLast(p) == IF req[p].kind = "submit" THEN req[p].time ELSE shownAt

\* Mutant of Shown: the manifest is told on the first write only.
ShownOnInsert(p) ==
  IF req[p].kind = "submit" /\ reg.status = "none" THEN req[p].time ELSE shownAt

\* COALESCE keeps the first submission's.
Shown(p) == IF req[p].kind = "submit" /\ shownAt = 0 THEN req[p].time ELSE shownAt

SaveGuestRegistration(p) ==
  /\ RegAt(p, "save")
  /\ reg' = Written(p)
  /\ shownAt' = Shown(p)
  /\ req' = [req EXCEPT ![p] = NoReq]
  /\ UNCHANGED <<listed, tripOpen, clock>>

\* The client gives up, or the request's time is up.
DisconnectReg(p) == ~RegAt(p, "idle") /\ FailReg(p)

-----------------------------------------------------------------------------
\* Staff revoke the guest, send the invitation again, or close the trip.
SetListed ==
  /\ listed' = ~listed
  /\ UNCHANGED <<reg, shownAt, tripOpen, clock, req>>

CloseTrip ==
  /\ tripOpen
  /\ tripOpen' = FALSE
  /\ UNCHANGED <<reg, shownAt, listed, clock, req>>

RegInit ==
  /\ reg = NoReg
  /\ shownAt = 0
  /\ listed = TRUE
  /\ tripOpen = TRUE
  /\ clock = 0
  /\ req = [p \in Devices |-> NoReq]

RegNext ==
  \/ \E p \in Devices :
       \/ \E kind \in Kinds, payload \in Payloads : BeginReg(p, kind, payload)
       \/ CheckAccess(p) \/ CheckTrip(p) \/ CheckDraft(p) \/ Validate(p)
       \/ Stamp(p) \/ KeepOriginal(p) \/ SaveGuestRegistration(p)
       \/ DisconnectReg(p)
  \/ SetListed
  \/ CloseTrip

RegSpec == RegInit /\ [][RegNext]_regVars

-----------------------------------------------------------------------------
(***************************************************************************)
(* Properties                                                              *)
(***************************************************************************)
\* Rows of the table's type: a submission time is what a submitted registration has and
\* a draft has not, however writes overwrite each other (SaveGuestRegistration).
RegTypeOK ==
  /\ reg \in Regs
  /\ shownAt \in 0..MaxTime
  /\ listed \in BOOLEAN
  /\ tripOpen \in BOOLEAN
  /\ clock \in 0..MaxTime
  /\ req \in [Devices -> Reqs]

\* Whatever drafts and submissions race, a registration that counts as submitted is one
\* that passed validation (handleSubmitGuestRegistration).
SubmittedIsComplete == reg.status = "submitted" => reg.payload \in Complete

\* A submitted registration is shown as submitted on the manifest
\* (SaveGuestRegistration's second statement).
SubmittedIsShown == reg.status = "submitted" => shownAt # 0

\* The time the manifest shows never drifts, not even when two first submissions race
\* ("doesn't drift", guest_registrations.go:66).
ShownTimeStays == [][shownAt # 0 => shownAt' = shownAt]_regVars

\* "any further edit must re-validate via /submit so the persisted state stays a
\* fully-valid submission" (guest_registration_handlers.go:105).
SubmissionStays == [][reg.status = "submitted" => reg'.status = "submitted"]_regVars

=============================================================================
