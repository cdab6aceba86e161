----------------------- MODULE GuestRegistration_proofs -----------------------
(***************************************************************************)
(* Proofs about one guest's registration, for any number of requests in     *)
(* flight, of payloads and of looks at the clock.  What a registration must *)
(* hold follows from what every request carries to its write.              *)
(***************************************************************************)
EXTENDS GuestRegistration, TLAPS

\* A request carries a payload it was sent; a submission past validation carries a
\* complete one, and past the clock a time; a draft carries no time.
Carries(p) ==
  /\ ~RegAt(p, "idle") => req[p].payload \in Payloads
  /\ req[p].kind = "draft" => req[p].time = 0
  /\ RegAt(p, "check") => req[p].kind = "draft"
  /\ req[p].at \in {"validate", "stamp", "original"} => req[p].kind = "submit"
  /\ req[p].at \in {"stamp", "original", "save"} /\ req[p].kind = "submit" =>
       req[p].payload \in Complete
  /\ req[p].at \in {"original", "save"} /\ req[p].kind = "submit" => req[p].time # 0

RegInv ==
  /\ RegTypeOK
  /\ SubmittedIsComplete
  /\ SubmittedIsShown
  /\ \A p \in Devices : Carries(p)

\* Nothing is saved and nobody asks for anything at first.
LEMMA InitRegInv == RegInit => RegInv
  BY PayloadAssumption, TimeAssumption
  DEF RegInit, RegInv, RegTypeOK, SubmittedIsComplete, SubmittedIsShown, Carries, RegAt, NoReq,
      NoReg, Regs, Reqs, Kinds

-----------------------------------------------------------------------------
\* A step of one request leaves what the others carry alone.
LEMMA OneRequestMoves ==
  ASSUME RegInv, NEW p \in Devices, NEW r \in Reqs,
         req' = [req EXCEPT ![p] = r],
         Carries(p)'
  PROVE  req' \in [Devices -> Reqs] /\ \A q \in Devices : Carries(q)'
<1>1. req \in [Devices -> Reqs]
  BY DEF RegInv, RegTypeOK
<1>2. \A q \in Devices \ {p} : req'[q] = req[q]
  BY <1>1
<1>3. ASSUME NEW q \in Devices
      PROVE  Carries(q)'
  <2>1. CASE q = p
    BY <2>1
  <2>2. CASE q # p
    BY <1>2, <2>2 DEF RegInv, Carries, RegAt
  <2> QED BY <2>1, <2>2
<1> QED BY <1>1, <1>3

\* So a request that writes nothing only has to carry what it must.
LEMMA QuietStep ==
  ASSUME RegInv, NEW p \in Devices, NEW r \in Reqs,
         req' = [req EXCEPT ![p] = r],
         r.at # "idle" => r.payload \in Payloads,
         r.kind = "draft" => r.time = 0,
         r.at = "check" => r.kind = "draft",
         r.at \in {"validate", "stamp", "original"} => r.kind = "submit",
         r.at \in {"stamp", "original", "save"} /\ r.kind = "submit" => r.payload \in Complete,
         r.at \in {"original", "save"} /\ r.kind = "submit" => r.time # 0,
         UNCHANGED <<reg, shownAt, listed, tripOpen>>,
         clock' \in 0..MaxTime
  PROVE  RegInv'
<1>1. req'[p] = r
  BY DEF RegInv, RegTypeOK
<1>2. Carries(p)'
  BY <1>1 DEF Carries, RegAt
<1>3. req' \in [Devices -> Reqs] /\ \A q \in Devices : Carries(q)'
  BY <1>2, OneRequestMoves
<1> QED
  BY <1>3 DEF RegInv, RegTypeOK, SubmittedIsComplete, SubmittedIsShown

\* A request that is refused or cut off writes nothing.
LEMMA FailKeepsRegInv ==
  ASSUME RegInv, NEW p \in Devices, FailReg(p)
  PROVE  RegInv'
<1>1. /\ NoReq \in Reqs
      /\ NoReq.at = "idle" /\ NoReq.kind = "draft" /\ NoReq.time = 0
  BY TimeAssumption DEF NoReq, Reqs, Kinds
<1>2. /\ req' = [req EXCEPT ![p] = NoReq]
      /\ UNCHANGED <<reg, shownAt, listed, tripOpen>>
      /\ clock' \in 0..MaxTime
  BY DEF FailReg, RegInv, RegTypeOK
<1> HIDE DEF NoReq
<1> QED BY <1>1, <1>2, QuietStep

\* Moving on with the same payload, kind and time.
LEMMA GotoKeepsRegInv ==
  ASSUME RegInv, NEW p \in Devices,
         NEW at \in {"trip", "check", "validate", "stamp", "save"},
         RegGoto(p, at),
         ~RegAt(p, "idle"),
         at = "check" => req[p].kind = "draft",
         at \in {"validate", "stamp"} => req[p].kind = "submit",
         at = "stamp" => req[p].payload \in Complete,
         at = "save" => req[p].kind = "draft"
  PROVE  RegInv'
<1> DEFINE r == [req[p] EXCEPT !.at = at]
<1>1. req[p] \in Reqs /\ Carries(p)
  BY DEF RegInv, RegTypeOK
<1>2. /\ r \in Reqs /\ r.at = at
      /\ r.kind = req[p].kind /\ r.payload = req[p].payload /\ r.time = req[p].time
  BY <1>1 DEF Reqs
<1>3. /\ req' = [req EXCEPT ![p] = r]
      /\ UNCHANGED <<reg, shownAt, listed, tripOpen>>
      /\ clock' \in 0..MaxTime
  BY DEF RegGoto, RegInv, RegTypeOK
<1>4. /\ r.payload \in Payloads
      /\ r.kind = "draft" => r.time = 0
  BY <1>1, <1>2 DEF Carries
<1> HIDE DEF r
<1> QED BY <1>2, <1>3, <1>4, QuietStep

-----------------------------------------------------------------------------
\* The clock is read after validation.
LEMMA StampKeepsRegInv ==
  ASSUME RegInv, NEW p \in Devices, Stamp(p)
  PROVE  RegInv'
<1> DEFINE t == clock'
           r == [req[p] EXCEPT !.at = "original", !.time = t]
<1>1. req[p] \in Reqs /\ Carries(p) /\ t \in 0..MaxTime /\ t # 0
  BY TimeAssumption DEF RegInv, RegTypeOK, Stamp
<1>2. /\ req' = [req EXCEPT ![p] = r]
      /\ UNCHANGED <<reg, shownAt, listed, tripOpen>>
      /\ clock' \in 0..MaxTime
  BY <1>1 DEF Stamp
<1> HIDE DEF t
<1>3. /\ r \in Reqs /\ r.at = "original" /\ r.time = t
      /\ r.kind = req[p].kind /\ r.payload = req[p].payload
  BY <1>1 DEF Reqs
<1>4. r.payload \in Payloads /\ r.payload \in Complete /\ r.kind = "submit"
  BY <1>1, <1>3 DEF Carries, Stamp, RegAt
<1> HIDE DEF r
<1> QED BY <1>1, <1>2, <1>3, <1>4, QuietStep

\* The time of the first submission is kept.
LEMMA KeepOriginalKeepsRegInv ==
  ASSUME RegInv, NEW p \in Devices, KeepOriginal(p)
  PROVE  RegInv'
<1> DEFINE t == IF reg.at # 0 THEN reg.at ELSE req[p].time
           r == [req[p] EXCEPT !.at = "save", !.time = t]
<1>1. req[p] \in Reqs /\ Carries(p) /\ reg \in Regs
  BY DEF RegInv, RegTypeOK
<1>2. req[p].time # 0 /\ req[p].payload \in Payloads \cap Complete /\ req[p].kind = "submit"
  BY <1>1 DEF Carries, KeepOriginal, RegAt
<1>3. t \in 0..MaxTime /\ t # 0
  BY <1>1, <1>2, TimeAssumption DEF Regs, NoReg, Reqs
<1>4. /\ r \in Reqs /\ r.at = "save" /\ r.time = t
      /\ r.kind = req[p].kind /\ r.payload = req[p].payload
  BY <1>1, <1>3 DEF Reqs
<1>5. /\ req' = [req EXCEPT ![p] = r]
      /\ UNCHANGED <<reg, shownAt, listed, tripOpen>>
      /\ clock' \in 0..MaxTime
  BY <1>1 DEF KeepOriginal, RegInv, RegTypeOK
<1> HIDE DEF r
<1> QED BY <1>2, <1>3, <1>4, <1>5, QuietStep

\* The one step that writes: what is saved is what the request carried.
LEMMA SaveKeepsRegInv ==
  ASSUME RegInv, NEW p \in Devices, SaveGuestRegistration(p)
  PROVE  RegInv'
<1>1. req[p] \in Reqs /\ Carries(p) /\ shownAt \in 0..MaxTime
  BY DEF RegInv, RegTypeOK
<1>2. /\ req[p].payload \in Payloads
      /\ req[p].kind = "draft" => req[p].time = 0
      /\ req[p].kind = "submit" => req[p].payload \in Complete /\ req[p].time # 0
      /\ req[p].kind \in Kinds /\ req[p].time \in 0..MaxTime
  BY <1>1 DEF Carries, SaveGuestRegistration, RegAt, Reqs
<1>3. reg' \in Regs
  BY <1>2, TimeAssumption DEF SaveGuestRegistration, Written, Regs, Kinds
<1>4. shownAt' \in 0..MaxTime
  BY <1>1, <1>2 DEF SaveGuestRegistration, Shown
<1>5. SubmittedIsComplete'
  BY <1>2 DEF SaveGuestRegistration, Written, SubmittedIsComplete, Kinds
<1>6. SubmittedIsShown'
  BY <1>2 DEF SaveGuestRegistration, Written, Shown, SubmittedIsShown, Kinds
<1>7. req' \in [Devices -> Reqs] /\ \A q \in Devices : Carries(q)'
  <2>1. NoReq \in Reqs
    BY TimeAssumption DEF NoReq, Reqs, Kinds
  <2>2. req'[p] = NoReq
    BY DEF SaveGuestRegistration, RegInv, RegTypeOK
  <2>3. Carries(p)'
    BY <2>2 DEF Carries, RegAt, NoReq
  <2> QED BY <2>1, <2>3, OneRequestMoves DEF SaveGuestRegistration
<1> QED
  BY <1>3, <1>4, <1>5, <1>6, <1>7 DEF SaveGuestRegistration, RegInv, RegTypeOK

\* A request begins with its payload.
LEMMA BeginKeepsRegInv ==
  ASSUME RegInv, NEW p \in Devices, NEW kind \in Kinds, NEW payload \in Payloads,
         BeginReg(p, kind, payload)
  PROVE  RegInv'
<1> DEFINE r == [at |-> "access", kind |-> kind, payload |-> payload, time |-> 0]
<1>1. r \in Reqs /\ r.at = "access" /\ r.payload \in Payloads /\ r.time = 0
  BY TimeAssumption DEF Reqs
<1>2. /\ req' = [req EXCEPT ![p] = r]
      /\ UNCHANGED <<reg, shownAt, listed, tripOpen>>
      /\ clock' \in 0..MaxTime
  BY DEF BeginReg, RegInv, RegTypeOK
<1> HIDE DEF r
<1> QED BY <1>1, <1>2, QuietStep

-----------------------------------------------------------------------------
\* No step spoils the invariant.
LEMMA NextKeepsRegInv == RegInv /\ [RegNext]_regVars => RegInv'
<1> SUFFICES ASSUME RegInv, [RegNext]_regVars PROVE RegInv'
  OBVIOUS
<1>1. ASSUME NEW p \in Devices, NEW kind \in Kinds, NEW payload \in Payloads,
             BeginReg(p, kind, payload)
      PROVE  RegInv'
  BY <1>1, BeginKeepsRegInv
<1>2. ASSUME NEW p \in Devices, CheckAccess(p) PROVE RegInv'
  BY <1>2, FailKeepsRegInv, GotoKeepsRegInv DEF CheckAccess, RegAt
<1>3. ASSUME NEW p \in Devices, CheckTrip(p) PROVE RegInv'
  <2>1. req[p].kind \in Kinds
    BY DEF RegInv, RegTypeOK, Reqs
  <2> QED BY <1>3, <2>1, FailKeepsRegInv, GotoKeepsRegInv DEF CheckTrip, RegAt, Kinds
<1>4. ASSUME NEW p \in Devices, CheckDraft(p) PROVE RegInv'
  <2>1. CASE reg.status = "submitted"
    BY <1>4, <2>1, FailKeepsRegInv DEF CheckDraft
  <2>2. CASE reg.status # "submitted" /\ req[p].kind = "draft"
    BY <1>4, <2>2, GotoKeepsRegInv DEF CheckDraft, RegAt
  <2> QED BY <1>4, <2>1, <2>2 DEF CheckDraft, RegInv, Carries
<1>5. ASSUME NEW p \in Devices, Validate(p) PROVE RegInv'
  <2>1. req[p].kind = "submit"
    BY <1>5 DEF Validate, RegInv, Carries, RegAt
  <2> QED BY <1>5, <2>1, FailKeepsRegInv, GotoKeepsRegInv DEF Validate, RegAt
<1>6. ASSUME NEW p \in Devices, Stamp(p) PROVE RegInv'
  BY <1>6, StampKeepsRegInv
<1>7. ASSUME NEW p \in Devices, KeepOriginal(p) PROVE RegInv'
  BY <1>7, KeepOriginalKeepsRegInv
<1>8. ASSUME NEW p \in Devices, SaveGuestRegistration(p) PROVE RegInv'
  BY <1>8, SaveKeepsRegInv
<1>9. ASSUME NEW p \in Devices, DisconnectReg(p) PROVE RegInv'
  BY <1>9, FailKeepsRegInv DEF DisconnectReg
<1>10. CASE SetListed \/ CloseTrip \/ UNCHANGED regVars
  BY <1>10 DEF SetListed, CloseTrip, regVars, RegInv, RegTypeOK, SubmittedIsComplete,
               SubmittedIsShown, Carries, RegAt
<1> QED
  BY <1>1, <1>2, <1>3, <1>4, <1>5, <1>6, <1>7, <1>8, <1>9, <1>10 DEF RegNext

\* Every reachable state, for any number of requests in flight, satisfies RegInv.
THEOREM RegistrationInvariant == RegSpec => []RegInv
<1>1. RegInv /\ [RegNext]_regVars => RegInv'
  BY NextKeepsRegInv
<1> QED BY InitRegInv, <1>1, PTL DEF RegSpec

\* Rows of the table's type, a submission time exactly on a submitted registration
\* (SaveGuestRegistration).
THEOREM TypeCorrect == RegSpec => []RegTypeOK
<1>1. RegInv => RegTypeOK
  BY DEF RegInv
<1> QED BY RegistrationInvariant, <1>1, PTL

\* A registration that counts as submitted passed validation, whatever raced
\* (handleSubmitGuestRegistration).
THEOREM SubmissionsAreComplete == RegSpec => []SubmittedIsComplete
<1>1. RegInv => SubmittedIsComplete
  BY DEF RegInv
<1> QED BY RegistrationInvariant, <1>1, PTL

\* A submitted registration is shown on the manifest (SaveGuestRegistration).
THEOREM SubmissionsAreShown == RegSpec => []SubmittedIsShown
<1>1. RegInv => SubmittedIsShown
  BY DEF RegInv
<1> QED BY RegistrationInvariant, <1>1, PTL

\* The time on the manifest is the first submission's for ever (the COALESCE of
\* guest_registrations.go:71).
THEOREM ShownTimeNeverDrifts == RegSpec => ShownTimeStays
<1>1. [RegNext]_regVars => [shownAt # 0 => shownAt' = shownAt]_regVars
  BY DEF RegNext, regVars, BeginReg, CheckAccess, CheckTrip, CheckDraft, Validate, Stamp,
         KeepOriginal, SaveGuestRegistration, Shown, DisconnectReg, RegGoto, FailReg,
         SetListed, CloseTrip
<1> QED BY <1>1, PTL DEF RegSpec, ShownTimeStays

=============================================================================
