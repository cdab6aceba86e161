---------------------------- MODULE Manifest_proofs ----------------------------
(***************************************************************************)
(* What holds of a manifest for any number of guests, berths, invitations   *)
(* and requests: a berth has one guest, a guest one open invitation, and an *)
(* account is linked by an invitation.  The invariant ties the rows a       *)
(* transaction holds to what its commit is going to write.                  *)
(***************************************************************************)
EXTENDS Manifest, FiniteSetTheorems, TLAPS

Fields == {"at", "job", "saw"}
GuestStates == {"absent", "listed", "revoked"}
Invites == [guest : Guests, status : {"pending", "accepted", "revoked"}]
Keepers == {"invite", "resend", "revoke"}

PendingIn(invs, g) == {i \in DOMAIN invs : invs[i].guest = g /\ invs[i].status = "pending"}

\* The kinds of request that reach each statement.
RightKind(r) ==
  /\ r.at = "guest" => r.job.kind \in Keepers
  /\ r.at = "drop" => r.job.kind \in {"resend", "revoke"}
  /\ r.at = "addInvite" => r.job.kind \in {"invite", "resend"}
  /\ r.at = "see" => r.job.kind \in {"revoke", "invite", "assign"}
  /\ r.at = "unseat" => r.job.kind = "revoke"
  /\ r.at = "check" => r.job.kind = "assign"
  /\ r.at \in {"berth", "leave", "take"} => r.job.kind \in {"invite", "assign"}
  /\ r.at \in {"look", "claim", "join"} => r.job.kind = "accept"
  /\ r.at = "commit" => r.job.kind \in Keepers \cup {"assign", "accept"}

Late == {"berth", "see", "unseat", "leave", "take", "commit"}

\* Past their first statement, requests that write the guest hold it.
HoldsGuest(p, r, owners) ==
  r.at \in {"drop", "addInvite"} \/ (r.at \in Late /\ r.job.kind \in Keepers) =>
    owners[<<"guest", r.job.guest>>] = p

\* Those that insert an invitation hold its key, and the open ones with it; those that end
\* one have it; those that revoke the guest have ended all there are.
HoldsInvite(p, r, owners, invs) ==
  LET mine == owners[<<"invite", r.job.guest>>] = p
  IN
  /\ r.at \in Late /\ r.job.kind = "invite" => mine
  /\ r.at = "commit" /\ r.job.kind = "resend" => mine
  /\ r.at \in Late /\ r.job.kind = "revoke" => mine \/ PendingIn(invs, r.job.guest) = {}
  /\ r.at \in {"join", "commit"} /\ r.job.kind = "accept" =>
       mine /\ r.job.invite \in PendingIn(invs, r.job.guest)

\* Accepting holds a listed guest, placing a berth that is nobody else's.
HoldsPlace(p, r, owners, guests, seats) ==
  /\ r.at = "commit" /\ r.job.kind = "accept" =>
       owners[<<"guest", r.job.guest>>] = p /\ guests[r.job.guest] = "listed"
  /\ r.at = "commit" /\ r.job.kind \in {"invite", "assign"} =>
       /\ owners[<<"berth", r.job.berth>>] = p
       /\ \A h \in Guests \ {r.job.guest} : seats[h] # r.job.berth

TxGood(p, r, owners, guests, invs, seats) ==
  /\ DOMAIN r = Fields
  /\ r.at # "idle" => r.job \in Jobs
  /\ RightKind(r)
  /\ HoldsGuest(p, r, owners)
  /\ HoldsInvite(p, r, owners, invs)
  /\ HoldsPlace(p, r, owners, guests, seats)

Shape ==
  /\ DOMAIN owner = Rows
  /\ DOMAIN tx = Procs
  /\ guest \in [Guests -> GuestStates]
  /\ DOMAIN account = Guests
  /\ invites \in [DOMAIN invites -> Invites]
  /\ seat \in [Guests -> Berths \cup {NoBerth}]

OneOpen ==
  \A g \in Guests :
    /\ guest[g] # "listed" => PendingIn(invites, g) = {}
    /\ \A i, j \in PendingIn(invites, g) : i = j

ManifestInv ==
  /\ Shape
  /\ \A p \in Procs : TxGood(p, tx[p], owner, guest, invites, seat)
  /\ OneGuestPerBerth
  /\ OneOpen

\* A step leaves q what it holds.
Spares(q) ==
  /\ \A row \in Rows : owner[row] = q => owner'[row] = q
  /\ \A g \in Guests : owner[<<"guest", g>>] = q =>
       guest'[g] = guest[g] /\ PendingIn(invites', g) \subseteq PendingIn(invites, g)
  /\ \A g \in Guests : owner[<<"invite", g>>] = q => PendingIn(invites', g) = PendingIn(invites, g)
  /\ \A b \in Berths : owner[<<"berth", b>>] = q =>
       \A h \in Guests : seat'[h] = b => seat[h] = b

-----------------------------------------------------------------------------
\* What each kind of request names.
LEMMA JobsAre ==
  \A job \in Jobs :
    /\ job.kind \in Keepers \cup {"assign", "accept"} => job.guest \in Guests
    /\ job.kind \in {"invite", "assign"} => job.berth \in Berths
  BY JobAssumption DEF AllJobs, Keepers

\* Guests, their invitations and seats, and berths can be locked.
LEMMA RowsAre ==
  /\ \A g \in Guests : {<<"guest", g>>, <<"invite", g>>, <<"seat", g>>} \subseteq Rows
  /\ \A b \in Berths : <<"berth", b>> \in Rows
  BY DEF Rows

\* A process at rest.
LEMMA IdleIs == DOMAIN Idle = Fields /\ Idle.at = "idle"
  BY DEF Idle, Fields

\* A process under way has a job.
LEMMA GoodJob ==
  ASSUME NEW p, NEW r, NEW owners, NEW guests, NEW invs, NEW seats,
         TxGood(p, r, owners, guests, invs, seats), r.at # "idle"
  PROVE  /\ r.job \in Jobs
         /\ r.job.kind \in Keepers \cup {"assign", "accept"} => r.job.guest \in Guests
         /\ r.job.kind \in {"invite", "assign"} => r.job.berth \in Berths
<1>1. PICK job \in Jobs : job = r.job
  BY DEF TxGood
<1> QED BY <1>1, JobsAre

\* A process at rest is bound to nothing.
LEMMA IdleGood ==
  ASSUME NEW p, NEW owners, NEW guests, NEW invs, NEW seats
  PROVE  TxGood(p, Idle, owners, guests, invs, seats)
  BY IdleIs DEF TxGood, RightKind, HoldsGuest, HoldsInvite, HoldsPlace, Late

\* Whoever keeps what it holds stays good.
LEMMA SparedStaysGood ==
  ASSUME NEW q \in Procs, NEW r, TxGood(q, r, owner, guest, invites, seat), Spares(q)
  PROVE  TxGood(q, r, owner', guest', invites', seat')
<1>1. CASE r.at = "idle"
  BY <1>1 DEF TxGood, RightKind, HoldsGuest, HoldsInvite, HoldsPlace, Late
<1>2. CASE r.at # "idle"
  <2>1. /\ r.job.kind \in Keepers \cup {"assign", "accept"} => r.job.guest \in Guests
        /\ r.job.kind \in {"invite", "assign"} => r.job.berth \in Berths
    BY <1>2, GoodJob
  <2>2. HoldsGuest(q, r, owner')
    <3>1. r.at \in {"drop", "addInvite"} => r.job.kind \in Keepers
      BY DEF TxGood, RightKind, Keepers
    <3> QED BY <2>1, <3>1, RowsAre DEF TxGood, HoldsGuest, Spares
  <2>3. HoldsInvite(q, r, owner', invites')
    <3> SUFFICES ASSUME r.at \in Late \cup {"join"}, r.job.kind \in Keepers \cup {"accept"}
                 PROVE  HoldsInvite(q, r, owner', invites')
      BY DEF HoldsInvite, Late, Keepers
    <3>1. PICK g \in Guests : g = r.job.guest
      BY <2>1
    <3>2. owner[<<"invite", g>>] = q =>
            owner'[<<"invite", g>>] = q /\ PendingIn(invites', g) = PendingIn(invites, g)
      BY RowsAre DEF Spares
    <3>3. r.job.kind = "revoke" => PendingIn(invites', g) \subseteq PendingIn(invites, g)
      BY <3>1 DEF TxGood, RightKind, HoldsGuest, Spares, Late, Keepers
    <3> QED BY <3>1, <3>2, <3>3 DEF TxGood, HoldsInvite
  <2>4. HoldsPlace(q, r, owner', guest', seat')
    BY <2>1, RowsAre DEF TxGood, HoldsPlace, Spares, Keepers
  <2> QED BY <2>2, <2>3, <2>4 DEF TxGood
<1> QED BY <1>1, <1>2

\* A step that is good for its process and spares the others keeps the invariant.
LEMMA StepKeeps ==
  ASSUME ManifestInv, NEW p \in Procs, NEW r, tx' = [tx EXCEPT ![p] = r],
         TxGood(p, r, owner', guest', invites', seat'),
         \A q \in Procs \ {p} : Spares(q), Shape', OneGuestPerBerth', OneOpen'
  PROVE  ManifestInv'
<1>1. ASSUME NEW q \in Procs, q # p PROVE TxGood(q, tx'[q], owner', guest', invites', seat')
  <2>1. tx'[q] = tx[q] /\ TxGood(q, tx[q], owner, guest, invites, seat)
    BY <1>1 DEF ManifestInv, Shape
  <2>2. TxGood(q, tx[q], owner', guest', invites', seat')
    BY <1>1, <2>1, SparedStaysGood
  <2> QED BY <2>1, <2>2
<1>2. tx'[p] = r
  BY DEF ManifestInv, Shape
<1> QED BY <1>1, <1>2 DEF ManifestInv

\* What others hold is theirs over a step of p that takes free rows or gives its own up.
Takes(p) ==
  \/ owner' = owner
  \/ owner' = Released(p)
  \/ Waits(p) = {} /\ owner' = Granted(p, Wants(p))

\* Taking free locks takes none from another.
LEMMA TakesSpares ==
  ASSUME ManifestInv, NEW p \in Procs, Takes(p)
  PROVE  DOMAIN owner' = Rows /\ \A q \in Procs \ {p}, row \in Rows : owner[row] = q => owner'[row] = q
  BY ProcAssumption DEF Takes, ManifestInv, Shape, Released, Granted, Waits, Blockers

\* A statement that publishes nothing need only be good for its process.
LEMMA QuietStep ==
  ASSUME ManifestInv, NEW p \in Procs, NEW r, tx' = [tx EXCEPT ![p] = r],
         UNCHANGED rowVars, Takes(p), TxGood(p, r, owner', guest, invites, seat)
  PROVE  ManifestInv'
<1>1. UNCHANGED <<guest, account, invites, seat>>
  BY DEF rowVars
<1>2. \A q \in Procs \ {p} : Spares(q)
  BY <1>1, TakesSpares DEF Spares
<1>3. Shape' /\ OneGuestPerBerth' /\ OneOpen'
  BY <1>1, TakesSpares DEF ManifestInv, Shape, OneGuestPerBerth, OneOpen
<1>4. TxGood(p, r, owner', guest', invites', seat')
  BY <1>1
<1> QED BY <1>2, <1>3, <1>4, StepKeeps

\* A request that fails rolls back.
LEMMA FailKeeps == ASSUME ManifestInv, NEW p \in Procs, Fail(p) PROVE ManifestInv'
<1>1. PICK r : r = Idle
  OBVIOUS
<1>2. tx' = [tx EXCEPT ![p] = r] /\ UNCHANGED rowVars /\ owner' = Released(p)
  BY <1>1 DEF Fail, Finish
<1>3. TxGood(p, r, owner', guest, invites, seat)
  BY <1>1, IdleGood
<1> QED BY <1>2, <1>3, QuietStep DEF Takes

-----------------------------------------------------------------------------
(***************************************************************************)
(* One lemma per statement.                                                *)
(***************************************************************************)
\* Going on to the next statement.
LEMMA GoesOn ==
  ASSUME ManifestInv, NEW p \in Procs, NEW at, Goto(p, at), Takes(p), tx[p].at # "idle",
         \A r : r.at = at /\ r.job = tx[p].job =>
           /\ RightKind(r) /\ HoldsGuest(p, r, owner') /\ HoldsInvite(p, r, owner', invites)
           /\ HoldsPlace(p, r, owner', guest, seat)
  PROVE  ManifestInv'
<1>1. PICK r : r = [tx[p] EXCEPT !.at = at]
  OBVIOUS
<1>2. TxGood(p, tx[p], owner, guest, invites, seat)
  BY DEF ManifestInv
<1>3. DOMAIN r = Fields /\ r.at = at /\ r.job = tx[p].job /\ r.job \in Jobs
  BY <1>1, <1>2 DEF TxGood, Fields
<1>4. tx' = [tx EXCEPT ![p] = r] /\ UNCHANGED rowVars
  BY <1>1 DEF Goto
<1>5. TxGood(p, r, owner', guest, invites, seat)
  BY <1>3 DEF TxGood
<1> QED BY <1>4, <1>5, QuietStep

\* What a request under way is known to be and to hold.
LEMMA Known ==
  ASSUME ManifestInv, NEW p \in Procs, tx[p].at # "idle"
  PROVE  /\ TxGood(p, tx[p], owner, guest, invites, seat)
         /\ tx[p].job.kind \in Keepers \cup {"assign", "accept"} => tx[p].job.guest \in Guests
         /\ tx[p].job.kind \in {"invite", "assign"} => tx[p].job.berth \in Berths
<1>1. TxGood(p, tx[p], owner, guest, invites, seat)
  BY DEF ManifestInv
<1> QED BY <1>1, GoodJob

\* A statement that locks rows has them, and what it had.
LEMMA LockTakes ==
  ASSUME ManifestInv, NEW p \in Procs, NEW at, Waits(p) = {}, Lock(p, at)
  PROVE  /\ Goto(p, at) /\ Takes(p)
         /\ \A row \in Rows : row \in Wants(p) \/ owner[row] = p => owner'[row] = p
  BY DEF Lock, Takes, Granted, ManifestInv, Shape

\* The guest is written under its lock.
LEMMA WriteGuestKeeps ==
  ASSUME ManifestInv, NEW p \in Procs, Waits(p) = {}, WriteGuest(p) PROVE ManifestInv'
<1>1. tx[p].at = "guest" /\ tx[p].job.kind \in Keepers /\ tx[p].job.guest \in Guests
  <2>1. tx[p].at = "guest"
    BY DEF WriteGuest, At
  <2> QED BY <2>1, Known DEF TxGood, RightKind
<1>2. CASE Fail(p)
  BY <1>2, FailKeeps
<1>3. CASE \E at \in {"addInvite", "drop"} :
             /\ Lock(p, at)
             /\ at = "addInvite" => Kind(p) = "invite"
             /\ at = "drop" => Kind(p) # "invite" /\ guest[G(p)] # "absent"
  <2>1. PICK at \in {"addInvite", "drop"} :
          /\ Lock(p, at)
          /\ at = "addInvite" => Kind(p) = "invite"
          /\ at = "drop" => Kind(p) # "invite" /\ guest[G(p)] # "absent"
    BY <1>3
  <2>2. <<"guest", tx[p].job.guest>> \in Wants(p)
    BY <1>1, <2>1 DEF Wants, At, GuestRow, G
  <2>3. owner'[<<"guest", tx[p].job.guest>>] = p
    BY <1>1, <2>1, <2>2, LockTakes, RowsAre
  <2>4. ASSUME NEW r, r.at = at, r.job = tx[p].job
        PROVE  /\ RightKind(r) /\ HoldsGuest(p, r, owner') /\ HoldsInvite(p, r, owner', invites)
               /\ HoldsPlace(p, r, owner', guest, seat)
    BY <1>1, <2>1, <2>3, <2>4 DEF RightKind, HoldsGuest, HoldsInvite, HoldsPlace, Late, Keepers, Kind
  <2> QED BY <1>1, <2>1, <2>4, LockTakes, GoesOn
<1> QED BY <1>2, <1>3 DEF WriteGuest

\* The open invitations of the guest are revoked under their lock.
LEMMA DropInvitesKeeps ==
  ASSUME ManifestInv, NEW p \in Procs, Waits(p) = {}, DropInvites(p) PROVE ManifestInv'
<1>1. /\ tx[p].at = "drop" /\ tx[p].job.kind \in {"resend", "revoke"} /\ tx[p].job.guest \in Guests
      /\ owner[<<"guest", tx[p].job.guest>>] = p
  <2>1. tx[p].at = "drop"
    BY DEF DropInvites, At
  <2>2. tx[p].job.kind \in {"resend", "revoke"}
    BY <2>1, Known DEF TxGood, RightKind
  <2> QED BY <2>1, <2>2, Known DEF TxGood, HoldsGuest, Keepers
<1>2. PICK at : /\ Lock(p, at)
                /\ tx[p].job.kind = "resend" => at = "addInvite"
                /\ tx[p].job.kind = "revoke" => at = "see"
  BY DEF DropInvites, Kind
<1>3. PendingIn(invites, tx[p].job.guest) # {} => <<"invite", tx[p].job.guest>> \in Wants(p)
  BY <1>1 DEF Wants, At, InviteRow, G, Pending, PendingIn
<1>4. /\ owner'[<<"guest", tx[p].job.guest>>] = p
      /\ PendingIn(invites, tx[p].job.guest) # {} => owner'[<<"invite", tx[p].job.guest>>] = p
  BY <1>1, <1>2, <1>3, LockTakes, RowsAre
<1>5. ASSUME NEW r, r.at = at, r.job = tx[p].job
      PROVE  /\ RightKind(r) /\ HoldsGuest(p, r, owner') /\ HoldsInvite(p, r, owner', invites)
             /\ HoldsPlace(p, r, owner', guest, seat)
  BY <1>1, <1>2, <1>4, <1>5 DEF RightKind, HoldsGuest, HoldsInvite, HoldsPlace, Late, Keepers
<1> QED BY <1>1, <1>2, <1>5, LockTakes, GoesOn

\* An invitation is added where none is open.
LEMMA AddInviteKeeps ==
  ASSUME ManifestInv, NEW p \in Procs, Waits(p) = {}, AddInvite(p) PROVE ManifestInv'
<1>1. /\ tx[p].at = "addInvite" /\ tx[p].job.kind \in {"invite", "resend"} /\ tx[p].job.guest \in Guests
      /\ owner[<<"guest", tx[p].job.guest>>] = p
  <2>1. tx[p].at = "addInvite"
    BY DEF AddInvite, At
  <2>2. tx[p].job.kind \in {"invite", "resend"}
    BY <2>1, Known DEF TxGood, RightKind
  <2> QED BY <2>1, <2>2, Known DEF TxGood, HoldsGuest, Keepers
<1>2. CASE Fail(p)
  BY <1>2, FailKeeps
<1>3. CASE ~Fail(p)
  <2>1. PICK at : /\ Lock(p, at)
                  /\ tx[p].job.kind = "invite" => at = "berth"
                  /\ tx[p].job.kind = "resend" => at = "commit"
    BY <1>3 DEF AddInvite, Kind
  <2>2. <<"invite", tx[p].job.guest>> \in Wants(p)
    BY <1>1 DEF Wants, At, InviteRow, G
  <2>3. owner'[<<"guest", tx[p].job.guest>>] = p /\ owner'[<<"invite", tx[p].job.guest>>] = p
    BY <1>1, <2>1, <2>2, LockTakes, RowsAre
  <2>4. ASSUME NEW r, r.at = at, r.job = tx[p].job
        PROVE  /\ RightKind(r) /\ HoldsGuest(p, r, owner') /\ HoldsInvite(p, r, owner', invites)
               /\ HoldsPlace(p, r, owner', guest, seat)
    BY <1>1, <2>1, <2>3, <2>4 DEF RightKind, HoldsGuest, HoldsInvite, HoldsPlace, Late, Keepers
  <2> QED BY <1>1, <2>1, <2>4, LockTakes, GoesOn
<1> QED BY <1>2, <1>3

\* An UPDATE sees the seat its snapshot has.
LEMMA SeeSeatKeeps ==
  ASSUME ManifestInv, NEW p \in Procs, SeeSeat(p) PROVE ManifestInv'
<1>1. tx[p].at = "see" /\ tx[p].job.kind \in {"revoke", "invite", "assign"}
      /\ TxGood(p, tx[p], owner, guest, invites, seat)
  <2>1. tx[p].at = "see"
    BY DEF SeeSeat, At
  <2> QED BY <2>1, Known DEF TxGood, RightKind
<1>2. PICK r, at, saw : /\ r = [tx[p] EXCEPT !.saw = saw, !.at = at]
                        /\ tx' = [tx EXCEPT ![p] = r]
                        /\ tx[p].job.kind = "revoke" => at = "unseat"
                        /\ tx[p].job.kind # "revoke" => at = "leave"
  BY DEF SeeSeat, Kind
<1>3. DOMAIN r = Fields /\ r.at = at /\ r.job = tx[p].job
  BY <1>1, <1>2 DEF TxGood, Fields
<1>4. UNCHANGED rowVars /\ owner' = owner
  BY DEF SeeSeat
<1>5. TxGood(p, r, owner', guest, invites, seat)
  BY <1>1, <1>2, <1>3, <1>4 DEF TxGood, RightKind, HoldsGuest, HoldsInvite, HoldsPlace, Late, Keepers
<1> QED BY <1>2, <1>4, <1>5, QuietStep DEF Takes

\* The seat seen is ended under its lock.
LEMMA UnseatKeeps ==
  ASSUME ManifestInv, NEW p \in Procs, Waits(p) = {}, Unseat(p) PROVE ManifestInv'
<1>1. /\ tx[p].at = "unseat" /\ tx[p].job.kind = "revoke" /\ tx[p].job.guest \in Guests
      /\ TxGood(p, tx[p], owner, guest, invites, seat)
  <2>1. tx[p].at = "unseat"
    BY DEF Unseat, At
  <2>2. tx[p].job.kind = "revoke"
    BY <2>1, Known DEF TxGood, RightKind
  <2> QED BY <2>1, <2>2, Known DEF Keepers
<1>2. Lock(p, "commit")
  BY DEF Unseat
<1>3. /\ owner'[<<"guest", tx[p].job.guest>>] = p
      /\ owner[<<"invite", tx[p].job.guest>>] = p => owner'[<<"invite", tx[p].job.guest>>] = p
  BY <1>1, <1>2, LockTakes, RowsAre DEF TxGood, HoldsGuest, Late, Keepers
<1>4. ASSUME NEW r, r.at = "commit", r.job = tx[p].job
      PROVE  /\ RightKind(r) /\ HoldsGuest(p, r, owner') /\ HoldsInvite(p, r, owner', invites)
             /\ HoldsPlace(p, r, owner', guest, seat)
  BY <1>1, <1>3, <1>4 DEF TxGood, RightKind, HoldsGuest, HoldsInvite, HoldsPlace, Late, Keepers
<1> QED BY <1>1, <1>2, <1>4, LockTakes, GoesOn

\* Reading on: what the request holds stays what it was.
LEMMA ReadKeeps ==
  ASSUME ManifestInv, NEW p \in Procs, Waits(p) = {},
         CheckGuest(p) \/ CheckBerth(p) \/ LeaveBerth(p) \/ LookUpInvite(p) \/ CheckInUse(p)
  PROVE  ManifestInv'
<1>1. CASE Fail(p)
  BY <1>1, FailKeeps
<1>2. CASE ~Fail(p)
  <2>1. tx[p].at \in {"check", "berth", "leave", "look", "inUse"}
    BY DEF CheckGuest, CheckBerth, LeaveBerth, LookUpInvite, CheckInUse, At
  <2>2. PICK at : /\ Read(p, at) \/ Lock(p, at)
                  /\ \/ tx[p].at = "check" /\ at = "berth"
                     \/ tx[p].at = "berth" /\ at = "see"
                     \/ tx[p].at = "leave" /\ at = "take"
                     \/ tx[p].at = "look" /\ at = "claim"
                     \/ at \in {"closeBerth", "closeCabin"}
    BY <1>2 DEF CheckGuest, CheckBerth, LeaveBerth, LookUpInvite, CheckInUse, At
  <2>3. Goto(p, at) /\ Takes(p) /\ \A row \in Rows : owner[row] = p => owner'[row] = p
    BY <2>2, LockTakes DEF Read, Takes
  <2>4. TxGood(p, tx[p], owner, guest, invites, seat)
    BY <2>1, Known
  <2>5. tx[p].at \in {"berth", "leave"} => tx[p].job.guest \in Guests
    BY <2>4, Known DEF TxGood, RightKind, Keepers
  <2>6. ASSUME NEW r, r.at = at, r.job = tx[p].job
        PROVE  /\ RightKind(r) /\ HoldsGuest(p, r, owner') /\ HoldsInvite(p, r, owner', invites)
               /\ HoldsPlace(p, r, owner', guest, seat)
    <3>1. RightKind(r) /\ HoldsPlace(p, r, owner', guest, seat)
      BY <2>2, <2>4, <2>6 DEF TxGood, RightKind, HoldsPlace
    <3>2. tx[p].at \in {"berth", "leave"} =>
            /\ owner[<<"guest", tx[p].job.guest>>] = p => owner'[<<"guest", tx[p].job.guest>>] = p
            /\ owner[<<"invite", tx[p].job.guest>>] = p => owner'[<<"invite", tx[p].job.guest>>] = p
      BY <2>3, <2>5, RowsAre
    <3>3. HoldsGuest(p, r, owner') /\ HoldsInvite(p, r, owner', invites)
      BY <2>2, <2>4, <2>6, <3>2 DEF TxGood, RightKind, HoldsGuest, HoldsInvite, Late, Keepers
    <3> QED BY <3>1, <3>3
  <2> QED BY <2>1, <2>3, <2>6, GoesOn
<1> QED BY <1>1, <1>2

\* A berth is taken by its key, or found taken.
LEMMA TakeBerthKeeps ==
  ASSUME ManifestInv, NEW p \in Procs, Waits(p) = {}, TakeBerth(p) PROVE ManifestInv'
<1>1. /\ tx[p].at = "take" /\ tx[p].job.kind \in {"invite", "assign"}
      /\ tx[p].job.guest \in Guests /\ tx[p].job.berth \in Berths
      /\ TxGood(p, tx[p], owner, guest, invites, seat)
  <2>1. tx[p].at = "take"
    BY DEF TakeBerth, At
  <2>2. tx[p].job.kind \in {"invite", "assign"}
    BY <2>1, Known DEF TxGood, RightKind
  <2> QED BY <2>1, <2>2, Known DEF Keepers
<1>2. CASE Fail(p)
  BY <1>2, FailKeeps
<1>3. CASE ~Fail(p)
  <2>1. Lock(p, "commit") /\ ~Taken(tx[p].job.guest, tx[p].job.berth)
    BY <1>3 DEF TakeBerth, G, B
  <2>2. <<"berth", tx[p].job.berth>> \in Wants(p)
    BY <1>1 DEF Wants, At, B
  <2>3. /\ owner'[<<"berth", tx[p].job.berth>>] = p
        /\ owner[<<"guest", tx[p].job.guest>>] = p => owner'[<<"guest", tx[p].job.guest>>] = p
        /\ owner[<<"invite", tx[p].job.guest>>] = p => owner'[<<"invite", tx[p].job.guest>>] = p
    BY <1>1, <2>1, <2>2, LockTakes, RowsAre
  <2>4. ASSUME NEW r, r.at = "commit", r.job = tx[p].job
        PROVE  /\ RightKind(r) /\ HoldsGuest(p, r, owner') /\ HoldsInvite(p, r, owner', invites)
               /\ HoldsPlace(p, r, owner', guest, seat)
    <3>1. RightKind(r) /\ HoldsGuest(p, r, owner') /\ HoldsInvite(p, r, owner', invites)
      BY <1>1, <2>3, <2>4 DEF TxGood, RightKind, HoldsGuest, HoldsInvite, Late, Keepers
    <3>2. HoldsPlace(p, r, owner', guest, seat)
      BY <1>1, <2>1, <2>3, <2>4 DEF HoldsPlace, Taken
    <3> QED BY <3>1, <3>2
  <2> QED BY <1>1, <2>1, <2>4, LockTakes, GoesOn
<1> QED BY <1>2, <1>3

\* An acceptance claims the invitation while it is open.
LEMMA ClaimInviteKeeps ==
  ASSUME ManifestInv, NEW p \in Procs, Waits(p) = {}, ClaimInvite(p) PROVE ManifestInv'
<1>1. tx[p].at = "claim" /\ tx[p].job.kind = "accept" /\ tx[p].job.guest \in Guests
  <2>1. tx[p].at = "claim"
    BY DEF ClaimInvite, At
  <2>2. tx[p].job.kind = "accept"
    BY <2>1, Known DEF TxGood, RightKind
  <2> QED BY <2>1, <2>2, Known
<1>2. CASE tx[p].job.invite \in Pending(G(p))
  <2>1. Lock(p, "join") /\ tx[p].job.invite \in PendingIn(invites, tx[p].job.guest)
    BY <1>2 DEF ClaimInvite, Pending, PendingIn, G
  <2>2. <<"invite", tx[p].job.guest>> \in Wants(p)
    BY <1>1, <1>2 DEF Wants, At, InviteRow, G
  <2>3. owner'[<<"invite", tx[p].job.guest>>] = p
    BY <1>1, <2>1, <2>2, LockTakes, RowsAre
  <2>4. ASSUME NEW r, r.at = "join", r.job = tx[p].job
        PROVE  /\ RightKind(r) /\ HoldsGuest(p, r, owner') /\ HoldsInvite(p, r, owner', invites)
               /\ HoldsPlace(p, r, owner', guest, seat)
    BY <1>1, <2>1, <2>3, <2>4 DEF RightKind, HoldsGuest, HoldsInvite, HoldsPlace, Late, Keepers
  <2> QED BY <1>1, <2>1, <2>4, LockTakes, GoesOn
<1>3. CASE tx[p].job.invite \notin Pending(G(p))
  BY <1>3, FailKeeps DEF ClaimInvite
<1> QED BY <1>2, <1>3

\* An acceptance then locks the guest.
LEMMA JoinGuestKeeps ==
  ASSUME ManifestInv, NEW p \in Procs, Waits(p) = {}, JoinGuest(p) PROVE ManifestInv'
<1>1. /\ tx[p].at = "join" /\ tx[p].job.kind = "accept" /\ tx[p].job.guest \in Guests
      /\ TxGood(p, tx[p], owner, guest, invites, seat)
  <2>1. tx[p].at = "join"
    BY DEF JoinGuest, At
  <2>2. tx[p].job.kind = "accept"
    BY <2>1, Known DEF TxGood, RightKind
  <2> QED BY <2>1, <2>2, Known
<1>2. CASE guest[G(p)] = "listed"
  <2>1. Lock(p, "commit") /\ guest[tx[p].job.guest] = "listed"
    BY <1>2 DEF JoinGuest, G
  <2>2. <<"guest", tx[p].job.guest>> \in Wants(p)
    BY <1>1, <1>2 DEF Wants, At, GuestRow, G
  <2>3. /\ owner'[<<"guest", tx[p].job.guest>>] = p
        /\ owner[<<"invite", tx[p].job.guest>>] = p => owner'[<<"invite", tx[p].job.guest>>] = p
    BY <1>1, <2>1, <2>2, LockTakes, RowsAre
  <2>4. ASSUME NEW r, r.at = "commit", r.job = tx[p].job
        PROVE  /\ RightKind(r) /\ HoldsGuest(p, r, owner') /\ HoldsInvite(p, r, owner', invites)
               /\ HoldsPlace(p, r, owner', guest, seat)
    BY <1>1, <2>1, <2>3, <2>4 DEF TxGood, RightKind, HoldsGuest, HoldsInvite, HoldsPlace, Late, Keepers
  <2> QED BY <1>1, <2>1, <2>4, LockTakes, GoesOn
<1>3. CASE guest[G(p)] # "listed"
  BY <1>3, FailKeeps DEF JoinGuest
<1> QED BY <1>2, <1>3

-----------------------------------------------------------------------------
(***************************************************************************)
(* Commits.                                                                *)
(***************************************************************************)
LEMMA EndedIs ==
  ASSUME ManifestInv, NEW p \in Procs, NEW status \in {"accepted", "revoked"}
  PROVE  /\ DOMAIN Ended(p, status) = DOMAIN invites
         /\ Ended(p, status) \in [DOMAIN invites -> Invites]
         /\ \A g \in Guests :
              PendingIn(Ended(p, status), g) =
                IF g = G(p) /\ owner[<<"invite", g>>] = p THEN {} ELSE PendingIn(invites, g)
<1>1. \A i \in DOMAIN invites :
        /\ invites[i] \in Invites
        /\ Ended(p, status)[i] = IF i \in Pending(G(p)) /\ owner[<<"invite", G(p)>>] = p
                                 THEN [invites[i] EXCEPT !.status = status] ELSE invites[i]
  BY DEF ManifestInv, Shape, Ended
<1>2. DOMAIN Ended(p, status) = DOMAIN invites
  BY DEF Ended
<1>3. \A i \in DOMAIN invites :
        /\ Ended(p, status)[i] \in Invites
        /\ Ended(p, status)[i].guest = invites[i].guest
        /\ Ended(p, status)[i].status = IF i \in Pending(G(p)) /\ owner[<<"invite", G(p)>>] = p
                                        THEN status ELSE invites[i].status
  BY <1>1 DEF Invites
<1>4. ASSUME NEW g \in Guests
      PROVE  PendingIn(Ended(p, status), g) =
               IF g = G(p) /\ owner[<<"invite", g>>] = p THEN {} ELSE PendingIn(invites, g)
  BY <1>2, <1>3 DEF PendingIn, Pending
<1>5. Ended(p, status) \in [DOMAIN invites -> Invites]
  BY <1>3 DEF Ended
<1> QED BY <1>2, <1>4, <1>5

\* After a commit the process is idle, and its rows are free.
LEMMA CommitStep ==
  ASSUME ManifestInv, NEW p \in Procs, Finish(p),
         \A q \in Procs \ {p} :
           /\ \A g \in Guests : owner[<<"guest", g>>] = q =>
                guest'[g] = guest[g] /\ PendingIn(invites', g) \subseteq PendingIn(invites, g)
           /\ \A g \in Guests : owner[<<"invite", g>>] = q =>
                PendingIn(invites', g) = PendingIn(invites, g)
           /\ \A b \in Berths : owner[<<"berth", b>>] = q =>
                \A h \in Guests : seat'[h] = b => seat[h] = b,
         guest' \in [Guests -> GuestStates], DOMAIN account' = Guests,
         invites' \in [DOMAIN invites' -> Invites], seat' \in [Guests -> Berths \cup {NoBerth}],
         OneGuestPerBerth', OneOpen'
  PROVE  ManifestInv'
<1>1. PICK r : r = Idle
  OBVIOUS
<1>2. tx' = [tx EXCEPT ![p] = r] /\ Takes(p)
  BY <1>1 DEF Finish, Takes
<1>3. TxGood(p, r, owner', guest', invites', seat')
  BY <1>1, IdleGood
<1>4. Shape'
  BY <1>2, TakesSpares DEF ManifestInv, Shape
<1>5. \A q \in Procs \ {p} : Spares(q)
  BY <1>2, TakesSpares DEF Spares
<1> QED BY <1>2, <1>3, <1>4, <1>5, StepKeeps

\* Seating a guest at a berth that is held and nobody else's.
LEMMA SeatFits ==
  ASSUME ManifestInv, NEW g \in Guests, NEW b \in Berths, seat' = [seat EXCEPT ![g] = b],
         \A h \in Guests \ {g} : seat[h] # b
  PROVE  /\ seat' \in [Guests -> Berths \cup {NoBerth}]
         /\ OneGuestPerBerth'
         /\ \A h \in Guests, c \in Berths : seat'[h] = c => seat[h] = c \/ c = b
  BY DEF ManifestInv, Shape, OneGuestPerBerth

\* The new invitation is the one that is open.
LEMMA CommitInviteKeeps ==
  ASSUME ManifestInv, NEW p \in Procs, NEW i \in InviteIds, CommitInvite(p, i) PROVE ManifestInv'
<1>1. /\ tx[p].job.kind \in {"invite", "resend"} /\ tx[p].at = "commit"
      /\ TxGood(p, tx[p], owner, guest, invites, seat)
  BY Known DEF CommitInvite, Kind, At
<1>2. PICK g \in Guests : g = tx[p].job.guest /\ g = G(p)
  BY <1>1, Known DEF Keepers, G
<1>3. owner[<<"guest", g>>] = p /\ owner[<<"invite", g>>] = p
  BY <1>1, <1>2 DEF TxGood, HoldsGuest, HoldsInvite, Late, Keepers
<1>4. PICK ended, new : ended = Ended(p, "revoked") /\ new = [guest |-> g, status |-> "pending"]
  OBVIOUS
<1>5. /\ DOMAIN ended = DOMAIN invites /\ ended \in [DOMAIN invites -> Invites]
      /\ \A h \in Guests : PendingIn(ended, h) = IF h = g THEN {} ELSE PendingIn(invites, h)
  BY <1>2, <1>3, <1>4, EndedIs
<1>6. /\ i \notin DOMAIN invites
      /\ invites' = [j \in DOMAIN invites \cup {i} |-> IF j = i THEN new ELSE ended[j]]
      /\ guest' = [guest EXCEPT ![g] = "listed"] /\ account' = account /\ Finish(p)
  BY <1>2, <1>4 DEF CommitInvite
<1>7. invites' \in [DOMAIN invites' -> Invites]
  BY <1>4, <1>5, <1>6 DEF Invites
<1>8. \A h \in Guests : PendingIn(invites', h) = IF h = g THEN {i} ELSE PendingIn(invites, h)
  <2>1. \A h \in Guests : PendingIn(invites', h) =
          IF h = g THEN {i} \cup PendingIn(ended, h) ELSE PendingIn(ended, h)
    BY <1>4, <1>5, <1>6 DEF PendingIn
  <2> QED BY <1>5, <2>1
<1>9. guest' \in [Guests -> GuestStates] /\ DOMAIN account' = Guests
  BY <1>6 DEF ManifestInv, Shape, GuestStates
<1>10. OneOpen'
  BY <1>6, <1>8, <1>9 DEF ManifestInv, Shape, OneOpen
<1>11. /\ seat' \in [Guests -> Berths \cup {NoBerth}] /\ OneGuestPerBerth'
       /\ \A h \in Guests, c \in Berths : seat'[h] = c => seat[h] = c \/ owner[<<"berth", c>>] = p
  <2>1. CASE tx[p].job.kind = "invite"
    <3>1. PICK b \in Berths : b = tx[p].job.berth
      BY <2>1, <1>1, Known
    <3>2. seat' = [seat EXCEPT ![g] = b]
      BY <1>2, <2>1, <3>1 DEF CommitInvite, Kind, B
    <3>3. owner[<<"berth", b>>] = p /\ \A h \in Guests \ {g} : seat[h] # b
      BY <1>1, <1>2, <2>1, <3>1 DEF TxGood, HoldsPlace
    <3> QED BY <3>2, <3>3, SeatFits
  <2>2. CASE tx[p].job.kind # "invite"
    <3>1. seat' = seat
      BY <2>2 DEF CommitInvite, Kind
    <3> QED BY <3>1 DEF ManifestInv, Shape, OneGuestPerBerth
  <2> QED BY <2>1, <2>2
<1>12. ASSUME NEW q \in Procs \ {p}
       PROVE  /\ \A h \in Guests : owner[<<"guest", h>>] = q =>
                   guest'[h] = guest[h] /\ PendingIn(invites', h) \subseteq PendingIn(invites, h)
              /\ \A h \in Guests : owner[<<"invite", h>>] = q =>
                   PendingIn(invites', h) = PendingIn(invites, h)
              /\ \A b \in Berths : owner[<<"berth", b>>] = q =>
                   \A h \in Guests : seat'[h] = b => seat[h] = b
  BY <1>3, <1>6, <1>8, <1>11 DEF ManifestInv, Shape
<1> QED BY <1>6, <1>7, <1>9, <1>10, <1>11, <1>12, CommitStep

\* A revoked guest has no invitation open.
LEMMA CommitRevokeKeeps ==
  ASSUME ManifestInv, NEW p \in Procs, CommitRevoke(p) PROVE ManifestInv'
<1>1. /\ tx[p].job.kind = "revoke" /\ tx[p].at = "commit"
      /\ TxGood(p, tx[p], owner, guest, invites, seat)
  BY Known DEF CommitRevoke, Kind, At
<1>2. PICK g \in Guests : g = tx[p].job.guest /\ g = G(p)
  BY <1>1, Known DEF Keepers, G
<1>3. owner[<<"guest", g>>] = p /\ (owner[<<"invite", g>>] = p \/ PendingIn(invites, g) = {})
  BY <1>1, <1>2 DEF TxGood, HoldsGuest, HoldsInvite, Late, Keepers
<1>4. /\ invites' = Ended(p, "revoked") /\ guest' = [guest EXCEPT ![g] = "revoked"]
      /\ account' = account /\ Finish(p)
      /\ seat' = [seat EXCEPT ![g] = IF owner[<<"seat", g>>] = p THEN NoBerth ELSE @]
  BY <1>2 DEF CommitRevoke
<1>5. /\ invites' \in [DOMAIN invites' -> Invites]
      /\ \A h \in Guests : PendingIn(invites', h) =
           IF h = g /\ owner[<<"invite", h>>] = p THEN {} ELSE PendingIn(invites, h)
  BY <1>2, <1>4, EndedIs
<1>6. \A h \in Guests : PendingIn(invites', h) = IF h = g THEN {} ELSE PendingIn(invites, h)
  BY <1>3, <1>5
<1>7. guest' \in [Guests -> GuestStates] /\ DOMAIN account' = Guests
  BY <1>4 DEF ManifestInv, Shape, GuestStates
<1>8. OneOpen'
  BY <1>4, <1>6, <1>7 DEF ManifestInv, Shape, OneOpen
<1>9. \A h \in Guests : seat'[h] = seat[h] \/ seat'[h] = NoBerth
  BY <1>4 DEF ManifestInv, Shape
<1>10. seat' \in [Guests -> Berths \cup {NoBerth}] /\ OneGuestPerBerth'
  BY <1>4, <1>9 DEF ManifestInv, Shape, OneGuestPerBerth
<1>11. ASSUME NEW q \in Procs \ {p}
       PROVE  /\ \A h \in Guests : owner[<<"guest", h>>] = q =>
                   guest'[h] = guest[h] /\ PendingIn(invites', h) \subseteq PendingIn(invites, h)
              /\ \A h \in Guests : owner[<<"invite", h>>] = q =>
                   PendingIn(invites', h) = PendingIn(invites, h)
              /\ \A b \in Berths : owner[<<"berth", b>>] = q =>
                   \A h \in Guests : seat'[h] = b => seat[h] = b
  BY <1>3, <1>4, <1>5, <1>6, <1>9, LayoutAssumption DEF ManifestInv, Shape
<1> QED BY <1>4, <1>5, <1>7, <1>8, <1>10, <1>11, CommitStep

\* An accepted invitation is no longer open.
LEMMA CommitAcceptKeeps ==
  ASSUME ManifestInv, NEW p \in Procs, CommitAccept(p) PROVE ManifestInv'
<1>1. /\ tx[p].job.kind = "accept" /\ tx[p].at = "commit"
      /\ TxGood(p, tx[p], owner, guest, invites, seat)
  BY Known DEF CommitAccept, Kind, At
<1>2. PICK g \in Guests : g = tx[p].job.guest /\ g = G(p)
  BY <1>1, Known, Zenon DEF G
<1>3. owner[<<"invite", g>>] = p
  BY <1>1, <1>2 DEF TxGood, HoldsInvite
<1>4. /\ invites' = Ended(p, "accepted") /\ account' = [account EXCEPT ![g] = TRUE]
      /\ guest' = guest /\ seat' = seat /\ Finish(p)
  BY <1>2 DEF CommitAccept
<1>5. /\ invites' \in [DOMAIN invites' -> Invites]
      /\ \A h \in Guests : PendingIn(invites', h) = IF h = g THEN {} ELSE PendingIn(invites, h)
  BY <1>2, <1>3, <1>4, EndedIs
<1>6. /\ guest' \in [Guests -> GuestStates] /\ DOMAIN account' = Guests
      /\ seat' \in [Guests -> Berths \cup {NoBerth}] /\ OneGuestPerBerth'
  BY <1>4 DEF ManifestInv, Shape, OneGuestPerBerth
<1>7. OneOpen'
  BY <1>4, <1>5 DEF ManifestInv, OneOpen
<1>8. ASSUME NEW q \in Procs \ {p}
      PROVE  /\ \A h \in Guests : owner[<<"guest", h>>] = q =>
                  guest'[h] = guest[h] /\ PendingIn(invites', h) \subseteq PendingIn(invites, h)
             /\ \A h \in Guests : owner[<<"invite", h>>] = q =>
                  PendingIn(invites', h) = PendingIn(invites, h)
             /\ \A b \in Berths : owner[<<"berth", b>>] = q =>
                  \A h \in Guests : seat'[h] = b => seat[h] = b
  BY <1>3, <1>4, <1>5
<1> QED BY <1>4, <1>5, <1>6, <1>7, <1>8, CommitStep

\* Nobody else has the berth the seat is committed to.
LEMMA CommitSeatKeeps ==
  ASSUME ManifestInv, NEW p \in Procs, CommitSeat(p) PROVE ManifestInv'
<1>1. /\ tx[p].job.kind = "assign" /\ tx[p].at = "commit"
      /\ TxGood(p, tx[p], owner, guest, invites, seat)
  BY Known DEF CommitSeat, Kind, At
<1>2. PICK g \in Guests, b \in Berths :
        g = tx[p].job.guest /\ g = G(p) /\ b = tx[p].job.berth /\ b = B(p)
  BY <1>1, Known, Zenon DEF G, B
<1>3. owner[<<"berth", b>>] = p /\ \A h \in Guests \ {g} : seat[h] # b
  BY <1>1, <1>2 DEF TxGood, HoldsPlace
<1>4. /\ seat' = [seat EXCEPT ![g] = b] /\ Finish(p)
      /\ guest' = guest /\ account' = account /\ invites' = invites
  BY <1>2 DEF CommitSeat
<1>5. /\ seat' \in [Guests -> Berths \cup {NoBerth}] /\ OneGuestPerBerth'
      /\ \A h \in Guests, c \in Berths : seat'[h] = c => seat[h] = c \/ c = b
  BY <1>3, <1>4, SeatFits
<1>6. /\ guest' \in [Guests -> GuestStates] /\ DOMAIN account' = Guests
      /\ invites' \in [DOMAIN invites' -> Invites] /\ OneOpen'
  BY <1>4 DEF ManifestInv, Shape, OneOpen
<1>7. ASSUME NEW q \in Procs \ {p}
      PROVE  /\ \A h \in Guests : owner[<<"guest", h>>] = q =>
                  guest'[h] = guest[h] /\ PendingIn(invites', h) \subseteq PendingIn(invites, h)
             /\ \A h \in Guests : owner[<<"invite", h>>] = q =>
                  PendingIn(invites', h) = PendingIn(invites, h)
             /\ \A c \in Berths : owner[<<"berth", c>>] = q =>
                  \A h \in Guests : seat'[h] = c => seat[h] = c
  BY <1>3, <1>4, <1>5
<1> QED BY <1>4, <1>5, <1>6, <1>7, CommitStep

-----------------------------------------------------------------------------
(***************************************************************************)
(* The layout, arrivals, and the statement without a transaction.           *)
(***************************************************************************)
LEMMA LayoutKeeps ==
  ASSUME ManifestInv, NEW p \in Procs, DeactivateBerth(p) \/ DeactivateCabin(p) \/ DeactivateBerths(p)
  PROVE  ManifestInv'
<1>1. CASE DeactivateBerth(p) \/ DeactivateBerths(p)
  <2>1. PICK r : r = Idle
    OBVIOUS
  <2>2. tx' = [tx EXCEPT ![p] = r] /\ UNCHANGED rowVars /\ Takes(p)
    BY <1>1, <2>1 DEF DeactivateBerth, DeactivateBerths, Finish, Takes
  <2>3. TxGood(p, r, owner', guest, invites, seat)
    BY <2>1, IdleGood
  <2> QED BY <2>2, <2>3, QuietStep
<1>2. CASE DeactivateCabin(p)
  <2>1. PICK r : r = [tx[p] EXCEPT !.at = "closeBerths"]
    OBVIOUS
  <2>2. tx' = [tx EXCEPT ![p] = r] /\ UNCHANGED rowVars /\ Takes(p) /\ tx[p].at # "idle"
    BY <1>2, <2>1 DEF DeactivateCabin, Takes, At
  <2>3. TxGood(p, tx[p], owner, guest, invites, seat)
    BY DEF ManifestInv
  <2>4. DOMAIN r = Fields /\ r.at = "closeBerths" /\ r.job \in Jobs
    BY <2>1, <2>2, <2>3 DEF TxGood, Fields
  <2>5. TxGood(p, r, owner', guest, invites, seat)
    BY <2>4 DEF TxGood, RightKind, HoldsGuest, HoldsInvite, HoldsPlace, Late
  <2> QED BY <2>2, <2>5, QuietStep
<1> QED BY <1>1, <1>2

\* A request begins with a job, and owns nothing yet.
LEMMA BeginKeeps ==
  ASSUME ManifestInv, NEW p \in Procs, NEW job \in Jobs, Begin(p, job) PROVE ManifestInv'
<1>1. PICK at, r : /\ r = [job |-> job, saw |-> NoBerth, at |-> at]
                   /\ tx' = [tx EXCEPT ![p] = r]
                   /\ job.kind \in Keepers => at = "guest"
                   /\ job.kind = "assign" => at = "check"
                   /\ job.kind = "accept" => at = "look"
                   /\ job.kind \in {"closeBerth", "closeCabin"} => at = "inUse"
  BY DEF Begin, Keepers
<1>2. job.kind \in Keepers \cup {"assign", "accept", "closeBerth", "closeCabin"}
  BY JobAssumption DEF AllJobs, Keepers
<1>3. UNCHANGED rowVars /\ Takes(p)
  BY DEF Begin, Takes
<1>4. DOMAIN r = Fields /\ r.at = at /\ r.job = job
  BY <1>1 DEF Fields
<1>5. TxGood(p, r, owner', guest, invites, seat)
  BY <1>1, <1>2, <1>4 DEF TxGood, RightKind, HoldsGuest, HoldsInvite, HoldsPlace, Late, Keepers
<1> QED BY <1>1, <1>3, <1>5, QuietStep

\* Freeing a berth leaves it to nobody.
LEMMA UnassignKeeps ==
  ASSUME ManifestInv, NEW g \in Guests, UnassignTripGuestBerth(g) PROVE ManifestInv'
<1>1. /\ seat' = [seat EXCEPT ![g] = NoBerth]
      /\ guest' = guest /\ account' = account /\ invites' = invites /\ tx' = tx /\ owner' = owner
  BY DEF UnassignTripGuestBerth
<1>2. \A h \in Guests : seat'[h] = seat[h] \/ seat'[h] = NoBerth
  BY <1>1 DEF ManifestInv, Shape
<1>3. \A q \in Procs : Spares(q)
  BY <1>1, <1>2, LayoutAssumption DEF Spares
<1>4. Shape' /\ OneGuestPerBerth' /\ OneOpen'
  BY <1>1, <1>2 DEF ManifestInv, Shape, OneGuestPerBerth, OneOpen
<1>5. ASSUME NEW q \in Procs PROVE TxGood(q, tx[q], owner', guest', invites', seat')
  BY <1>3, SparedStaysGood DEF ManifestInv
<1> QED BY <1>1, <1>4, <1>5 DEF ManifestInv

-----------------------------------------------------------------------------
\* The invariant holds to begin with.
LEMMA InitManifestInv == Init => ManifestInv
<1> SUFFICES ASSUME Init PROVE ManifestInv
  OBVIOUS
<1>1. invites = <<>> /\ DOMAIN invites = {}
  BY DEF Init
<1>2. \A g \in Guests : PendingIn(invites, g) = {}
  BY <1>1 DEF PendingIn
<1>3. Shape
  BY <1>1 DEF Init, Shape, GuestStates
<1>4. ASSUME NEW p \in Procs PROVE TxGood(p, tx[p], owner, guest, invites, seat)
  <2>1. tx[p] = Idle
    BY DEF Init
  <2> QED BY <2>1, IdleGood
<1>5. OneGuestPerBerth /\ OneOpen
  BY <1>2 DEF Init, OneGuestPerBerth, OneOpen
<1> QED BY <1>3, <1>4, <1>5 DEF ManifestInv

\* Every step of a process keeps the invariant.
LEMMA StepKeepsManifest == ASSUME ManifestInv, NEW p \in Procs, Step(p) PROVE ManifestInv'
<1>1. Waits(p) = {}
  BY DEF Step
<1>2. CASE WriteGuest(p) \/ DropInvites(p) \/ AddInvite(p) \/ SeeSeat(p) \/ Unseat(p)
  BY <1>1, <1>2, WriteGuestKeeps, DropInvitesKeeps, AddInviteKeeps, SeeSeatKeeps, UnseatKeeps
<1>3. CASE CheckGuest(p) \/ CheckBerth(p) \/ LeaveBerth(p) \/ LookUpInvite(p) \/ CheckInUse(p)
  BY <1>1, <1>3, ReadKeeps
<1>4. CASE TakeBerth(p) \/ ClaimInvite(p) \/ JoinGuest(p)
  BY <1>1, <1>4, TakeBerthKeeps, ClaimInviteKeeps, JoinGuestKeeps
<1>5. CASE (\E i \in InviteIds : CommitInvite(p, i)) \/ CommitRevoke(p) \/ CommitAccept(p) \/ CommitSeat(p)
  BY <1>5, CommitInviteKeeps, CommitRevokeKeeps, CommitAcceptKeeps, CommitSeatKeeps
<1>6. CASE DeactivateBerth(p) \/ DeactivateCabin(p) \/ DeactivateBerths(p)
  BY <1>6, LayoutKeeps
<1> QED BY <1>2, <1>3, <1>4, <1>5, <1>6 DEF Step

\* Every step keeps the invariant.
LEMMA NextManifestInv == ManifestInv /\ [Next]_vars => ManifestInv'
<1> SUFFICES ASSUME ManifestInv, [Next]_vars PROVE ManifestInv'
  OBVIOUS
<1>1. CASE UNCHANGED vars
  BY <1>1 DEF vars, ManifestInv, Shape, OneGuestPerBerth, OneOpen
<1>2. ASSUME NEW p \in Procs, NEW job \in Jobs, Begin(p, job) PROVE ManifestInv'
  BY <1>2, BeginKeeps
<1>3. ASSUME NEW p \in Procs, Step(p) PROVE ManifestInv'
  BY <1>3, StepKeepsManifest
<1>4. ASSUME NEW p \in Procs, Disconnect(p) \/ BreakDeadlock(p) PROVE ManifestInv'
  BY <1>4, FailKeeps DEF Disconnect, BreakDeadlock
<1>5. ASSUME NEW g \in Guests, UnassignTripGuestBerth(g) PROVE ManifestInv'
  BY <1>5, UnassignKeeps
<1> QED BY <1>1, <1>2, <1>3, <1>4, <1>5 DEF Next

\* The inductive invariant: what a transaction will write, it holds.
THEOREM ManifestInvariant == Spec => []ManifestInv
  BY InitManifestInv, NextManifestInv, PTL DEF Spec

\* No two guests have one berth, however placements, swaps, revocations and lost requests
\* interleave (assignTripGuestBerthTx and the unique indexes it leans on).
THEOREM OneBerthOneGuest == Spec => []OneGuestPerBerth
<1>1. ManifestInv => OneGuestPerBerth
  BY DEF ManifestInv
<1> QED BY <1>1, ManifestInvariant, PTL

\* A guest off the manifest has no open invitation, one on it at most one (trip_guests.go).
THEOREM OneInvitationOpen == Spec => []OpenInvitations
<1>1. ManifestInv => OpenInvitations
  <2> SUFFICES ASSUME ManifestInv, NEW g \in Guests
               PROVE  Cardinality(Pending(g)) <= IF guest[g] = "listed" THEN 1 ELSE 0
    BY DEF OpenInvitations
  <2>1. Pending(g) = PendingIn(invites, g)
    BY DEF Pending, PendingIn
  <2>2. CASE Pending(g) = {}
    BY <2>2, FS_EmptySet
  <2>3. CASE Pending(g) # {}
    <3>1. guest[g] = "listed" /\ \A i, j \in Pending(g) : i = j
      BY <2>1, <2>3 DEF ManifestInv, OneOpen
    <3>2. PICK i : i \in Pending(g)
      BY <2>3
    <3>3. Pending(g) = {i}
      BY <3>1, <3>2
    <3>4. Cardinality({i}) = 1
      BY FS_Singleton
    <3> QED BY <3>1, <3>3, <3>4
  <2> QED BY <2>2, <2>3
<1> QED BY <1>1, ManifestInvariant, PTL

\* An account is linked to a guest on the manifest by the request that ends an open
\* invitation of theirs, and by nothing else (AcceptGuestInvite).
THEOREM AccountsJoinByInvitation == Spec => JoinsByInvitation
<1>1. ManifestInv /\ [Next]_vars =>
        [\A g \in Guests : account'[g] # account[g] =>
           /\ guest[g] = "listed" /\ guest'[g] = "listed"
           /\ \E i \in Pending(g) : invites'[i].status = "accepted"]_vars
  <2> SUFFICES ASSUME ManifestInv, Next, NEW g \in Guests, account'[g] # account[g]
               PROVE  /\ guest[g] = "listed" /\ guest'[g] = "listed"
                      /\ \E i \in Pending(g) : invites'[i].status = "accepted"
    BY DEF vars
  <2>1. PICK p \in Procs : CommitAccept(p)
    <3>1. CASE \E p \in Procs : CommitAccept(p)
      BY <3>1
    <3>2. CASE ~\E p \in Procs : CommitAccept(p)
      <4>1. account' = account
        BY <3>2 DEF Next, Step, Begin, Disconnect, BreakDeadlock, Fail, UnassignTripGuestBerth,
                    WriteGuest, DropInvites, AddInvite, SeeSeat, Unseat, CheckGuest, CheckBerth,
                    LeaveBerth, TakeBerth, LookUpInvite, ClaimInvite, JoinGuest, Lock, Read, Goto,
                    CommitInvite, CommitRevoke, CommitSeat, CheckInUse, DeactivateBerth,
                    DeactivateCabin, DeactivateBerths, rowVars
      <4> QED BY <4>1
    <3> QED BY <3>1, <3>2
  <2>2. /\ tx[p].job.kind = "accept" /\ tx[p].at = "commit"
        /\ TxGood(p, tx[p], owner, guest, invites, seat)
    BY <2>1, Known DEF CommitAccept, Kind, At
  <2>3. g = tx[p].job.guest /\ g = G(p)
    BY <2>1 DEF CommitAccept, ManifestInv, Shape, G
  <2>4. PICK i \in PendingIn(invites, g) : i = tx[p].job.invite
    BY <2>2, <2>3 DEF TxGood, HoldsInvite
  <2>5. guest[g] = "listed" /\ guest'[g] = "listed" /\ owner[<<"invite", g>>] = p
    BY <2>1, <2>2, <2>3 DEF TxGood, HoldsInvite, HoldsPlace, CommitAccept
  <2>6. i \in Pending(g) /\ invites'[i] = [invites[i] EXCEPT !.status = "accepted"]
    BY <2>1, <2>3, <2>4, <2>5 DEF CommitAccept, Ended, Pending, PendingIn
  <2>7. invites'[i].status = "accepted"
    BY <2>6 DEF ManifestInv, Shape, Invites, Pending
  <2> QED BY <2>5, <2>6, <2>7
<1> QED BY <1>1, ManifestInvariant, PTL DEF Spec, JoinsByInvitation

\* An invitation ends once: neither a race of accepting and revoking nor a resend gives it
\* another end (the status guards of every UPDATE of guest_trip_invitations).
THEOREM InvitationsEnd == Spec => InvitationsEndOnce
<1>1. [Next]_vars =>
        [\A i \in DOMAIN invites : invites[i].status # "pending" => invites'[i] = invites[i]]_vars
  <2> SUFFICES ASSUME Next, NEW i \in DOMAIN invites, invites[i].status # "pending"
               PROVE  invites'[i] = invites[i]
    BY DEF vars
  <2>1. ASSUME NEW p \in Procs, NEW status PROVE Ended(p, status)[i] = invites[i]
    BY DEF Ended, Pending
  <2>2. ASSUME NEW p \in Procs, NEW j \in InviteIds, CommitInvite(p, j) PROVE invites'[i] = invites[i]
    BY <2>1, <2>2 DEF CommitInvite
  <2>3. ASSUME NEW p \in Procs, CommitRevoke(p) \/ CommitAccept(p) PROVE invites'[i] = invites[i]
    BY <2>1, <2>3 DEF CommitRevoke, CommitAccept
  <2>4. CASE \A p \in Procs : ~CommitRevoke(p) /\ ~CommitAccept(p) /\ \A j \in InviteIds : ~CommitInvite(p, j)
    <3>1. invites' = invites
      BY <2>4 DEF Next, Step, Begin, Disconnect, BreakDeadlock, Fail, UnassignTripGuestBerth,
                  WriteGuest, DropInvites, AddInvite, SeeSeat, Unseat, CheckGuest, CheckBerth,
                  LeaveBerth, TakeBerth, LookUpInvite, ClaimInvite, JoinGuest, Lock, Read, Goto,
                  CommitSeat, CheckInUse, DeactivateBerth,
                  DeactivateCabin, DeactivateBerths, rowVars
    <3> QED BY <3>1
  <2> QED BY <2>2, <2>3, <2>4
<1> QED BY <1>1, PTL DEF Spec, InvitationsEndOnce

-----------------------------------------------------------------------------
(***************************************************************************)
(* Types, and no lock outlives its request.                                *)
(***************************************************************************)
TableTypes ==
  /\ guest \in [Guests -> GuestStates]
  /\ account \in [Guests -> BOOLEAN]
  /\ DOMAIN invites \subseteq InviteIds
  /\ invites \in [DOMAIN invites -> Invites]
  /\ seat \in [Guests -> Berths \cup {NoBerth}]
  /\ cabinActive \in [Cabins -> BOOLEAN]
  /\ berthActive \in [Berths -> BOOLEAN]

RequestTyped(p, r, owners) ==
  /\ r.job \in Jobs \cup {Nothing}
  /\ r.saw \in Berths \cup {NoBerth}
  /\ r.at = "idle" => r = Idle /\ \A row \in Rows : owners[row] # p

TypeInv ==
  /\ TableTypes
  /\ owner \in [Rows -> Procs \cup {NoProc}]
  /\ DOMAIN tx = Procs
  /\ \A p \in Procs : RequestTyped(p, tx[p], owner)

\* A step of one request leaves the others what they are and hold.
LEMMA StepTypes ==
  ASSUME TypeInv, NEW p \in Procs, NEW r, tx' = [tx EXCEPT ![p] = r], Takes(p), TableTypes',
         RequestTyped(p, r, owner')
  PROVE  TypeInv'
<1>1. /\ owner' \in [Rows -> Procs \cup {NoProc}]
      /\ \A q \in Procs \ {p}, row \in Rows : owner'[row] = q => owner[row] = q
  BY ProcAssumption DEF TypeInv, Takes, Released, Granted
<1>2. ASSUME NEW q \in Procs PROVE RequestTyped(q, tx'[q], owner')
  <2>1. CASE q = p
    BY <2>1 DEF TypeInv
  <2>2. CASE q # p
    <3>1. tx'[q] = tx[q] /\ RequestTyped(q, tx[q], owner)
      BY <2>2 DEF TypeInv
    <3> QED BY <1>1, <2>2, <3>1 DEF RequestTyped
  <2> QED BY <2>1, <2>2
<1> QED BY <1>1, <1>2 DEF TypeInv

\* A request that is over is idle and has given up what it held.
LEMMA FinishTypes ==
  ASSUME TypeInv, NEW p \in Procs, Finish(p), TableTypes'
  PROVE  TypeInv'
<1>1. PICK r : r = Idle
  OBVIOUS
<1>2. /\ tx' = [tx EXCEPT ![p] = r] /\ Takes(p)
      /\ \A row \in Rows : owner'[row] # p
  BY <1>1, ProcAssumption DEF Finish, Takes, Released, TypeInv
<1>3. RequestTyped(p, r, owner')
  BY <1>1, <1>2 DEF RequestTyped, Idle
<1> QED BY <1>2, <1>3, StepTypes

\* The tables of a step that writes none.
LEMMA QuietTables ==
  ASSUME TypeInv, UNCHANGED <<rowVars, layoutVars>>
  PROVE  TableTypes'
  BY DEF TypeInv, TableTypes, rowVars, layoutVars

\* Going on to a statement keeps the job.
LEMMA GotoTypes ==
  ASSUME ManifestInv, TypeInv, NEW p \in Procs, NEW at, at # "idle", Goto(p, at), Takes(p)
  PROVE  TypeInv'
<1>1. PICK r : r = [tx[p] EXCEPT !.at = at]
  OBVIOUS
<1>2. DOMAIN tx[p] = Fields /\ RequestTyped(p, tx[p], owner)
  BY DEF ManifestInv, TxGood, TypeInv
<1>3. r.at = at /\ r.job = tx[p].job /\ r.saw = tx[p].saw
  BY <1>1, <1>2 DEF Fields
<1>4. tx' = [tx EXCEPT ![p] = r] /\ TableTypes'
  BY <1>1, QuietTables DEF Goto
<1>5. RequestTyped(p, r, owner')
  BY <1>2, <1>3 DEF RequestTyped
<1> QED BY <1>4, <1>5, StepTypes

\* A statement before the commit writes no table.
LEMMA ReadTypes ==
  ASSUME ManifestInv, TypeInv, NEW p \in Procs, Waits(p) = {},
         \/ WriteGuest(p) \/ DropInvites(p) \/ AddInvite(p) \/ SeeSeat(p) \/ Unseat(p)
         \/ CheckGuest(p) \/ CheckBerth(p) \/ LeaveBerth(p) \/ TakeBerth(p)
         \/ LookUpInvite(p) \/ ClaimInvite(p) \/ JoinGuest(p) \/ CheckInUse(p)
  PROVE  TypeInv'
<1>1. PICK Later : Later = {"addInvite", "drop", "see", "berth", "commit", "take", "claim",
                            "join", "closeBerth", "closeCabin"}
  OBVIOUS
<1>2. CASE Fail(p)
  BY <1>2, FinishTypes, QuietTables DEF Fail
<1>3. CASE \E at \in Later : Lock(p, at) \/ Read(p, at)
  <2>1. PICK at \in Later : Lock(p, at) \/ Read(p, at)
    BY <1>3
  <2>2. at # "idle" /\ Goto(p, at) /\ Takes(p)
    BY <1>1, <2>1 DEF Lock, Read, Takes
  <2> QED BY <2>2, GotoTypes
<1>4. CASE SeeSeat(p)
  <2>1. PICK saw, at : /\ saw = seat[G(p)] /\ at \in {"unseat", "leave"}
                       /\ tx' = [tx EXCEPT ![p].saw = saw, ![p].at = at]
    BY <1>4 DEF SeeSeat
  <2>2. PICK r : r = [tx[p] EXCEPT !.saw = saw, !.at = at]
    OBVIOUS
  <2>3. tx[p].at = "see" /\ DOMAIN tx[p] = Fields /\ RequestTyped(p, tx[p], owner)
    BY <1>4 DEF SeeSeat, At, ManifestInv, TxGood, TypeInv
  <2>4. G(p) \in Guests
    BY <2>3, Known DEF G, TxGood, RightKind, Keepers
  <2>5. r.at = at /\ r.job = tx[p].job /\ r.saw = saw /\ tx' = [tx EXCEPT ![p] = r]
    BY <2>1, <2>2, <2>3 DEF Fields
  <2>6. saw \in Berths \cup {NoBerth}
    BY <2>1, <2>4 DEF TypeInv, TableTypes
  <2>7. RequestTyped(p, r, owner')
    BY <2>1, <2>3, <2>5, <2>6 DEF RequestTyped
  <2>8. Takes(p) /\ TableTypes'
    BY <1>4, QuietTables DEF SeeSeat, Takes
  <2> QED BY <2>5, <2>7, <2>8, StepTypes
<1>5. CASE WriteGuest(p) \/ DropInvites(p) \/ AddInvite(p) \/ Unseat(p) \/ CheckGuest(p)
  BY <1>1, <1>2, <1>3, <1>5 DEF WriteGuest, DropInvites, AddInvite, Unseat, CheckGuest
<1>6. CASE CheckBerth(p) \/ LeaveBerth(p) \/ TakeBerth(p) \/ LookUpInvite(p)
  BY <1>1, <1>2, <1>3, <1>6 DEF CheckBerth, LeaveBerth, TakeBerth, LookUpInvite
<1>7. CASE ClaimInvite(p) \/ JoinGuest(p) \/ CheckInUse(p)
  BY <1>1, <1>2, <1>3, <1>7 DEF ClaimInvite, JoinGuest, CheckInUse
<1> QED BY <1>4, <1>5, <1>6, <1>7

\* What a commit writes is of its table's type: the guest, berth and invitation it names.
LEMMA CommitTypes ==
  ASSUME ManifestInv, TypeInv, NEW p \in Procs,
         \/ \E i \in InviteIds : CommitInvite(p, i)
         \/ CommitRevoke(p) \/ CommitAccept(p) \/ CommitSeat(p)
  PROVE  TypeInv'
<1>1. tx[p].at = "commit" /\ Finish(p) /\ UNCHANGED layoutVars
  BY DEF CommitInvite, CommitRevoke, CommitAccept, CommitSeat, At
<1>2. /\ Kind(p) \in {"invite", "assign"} => B(p) \in Berths
      /\ G(p) \in Guests
  <2>1. tx[p].job.kind \in Keepers \cup {"assign", "accept"}
    BY <1>1, Known DEF TxGood, RightKind
  <2>2. tx[p].job.kind \in {"invite", "assign"} => tx[p].job.berth \in Berths
    BY <1>1, Known
  <2>3. tx[p].job.guest \in Guests
    BY <1>1, <2>1, Known
  <2> QED BY <2>2, <2>3 DEF G, B, Kind
<1>3. /\ guest' \in [Guests -> GuestStates] /\ account' \in [Guests -> BOOLEAN]
  BY <1>2 DEF CommitInvite, CommitRevoke, CommitAccept, CommitSeat, TypeInv, TableTypes, GuestStates
<1>4. seat' \in [Guests -> Berths \cup {NoBerth}]
  BY <1>2 DEF CommitInvite, CommitRevoke, CommitAccept, CommitSeat, TypeInv, TableTypes
<1>5. DOMAIN invites' \subseteq InviteIds /\ invites' \in [DOMAIN invites' -> Invites]
  <2>1. ASSUME NEW i \in InviteIds, CommitInvite(p, i)
        PROVE  DOMAIN invites' \subseteq InviteIds /\ invites' \in [DOMAIN invites' -> Invites]
    <3>1. PICK ended, new :
            ended = Ended(p, "revoked") /\ new = [guest |-> G(p), status |-> "pending"]
      OBVIOUS
    <3>2. DOMAIN ended = DOMAIN invites /\ ended \in [DOMAIN invites -> Invites] /\ new \in Invites
      BY <1>2, <3>1, EndedIs DEF Invites
    <3>3. invites' = [j \in DOMAIN invites \cup {i} |-> IF j = i THEN new ELSE ended[j]]
      BY <2>1, <3>1 DEF CommitInvite
    <3> QED BY <3>2, <3>3 DEF TypeInv, TableTypes
  <2>2. CASE CommitRevoke(p) \/ CommitAccept(p)
    <3>1. PICK status \in {"accepted", "revoked"} : invites' = Ended(p, status)
      BY <2>2 DEF CommitRevoke, CommitAccept
    <3> QED BY <3>1, EndedIs DEF TypeInv, TableTypes
  <2>3. CASE CommitSeat(p)
    BY <2>3 DEF CommitSeat, TypeInv, TableTypes
  <2> QED BY <2>1, <2>2, <2>3
<1>6. TableTypes'
  BY <1>1, <1>3, <1>4, <1>5 DEF TypeInv, TableTypes, layoutVars
<1> QED BY <1>1, <1>6, FinishTypes

\* Taking a cabin or a berth out of use writes truth values.
LEMMA LayoutTypes ==
  ASSUME ManifestInv, TypeInv, NEW p \in Procs,
         DeactivateBerth(p) \/ DeactivateCabin(p) \/ DeactivateBerths(p)
  PROVE  TypeInv'
<1>1. TableTypes'
  BY DEF TypeInv, TableTypes, DeactivateBerth, DeactivateCabin, DeactivateBerths, rowVars
<1>2. CASE Finish(p)
  BY <1>1, <1>2, FinishTypes
<1>3. CASE DeactivateCabin(p)
  <2>1. PICK r : r = [tx[p] EXCEPT !.at = "closeBerths"]
    OBVIOUS
  <2>2. DOMAIN tx[p] = Fields /\ RequestTyped(p, tx[p], owner)
    BY DEF ManifestInv, TxGood, TypeInv
  <2>3. r.at = "closeBerths" /\ r.job = tx[p].job /\ r.saw = tx[p].saw
    BY <2>1, <2>2 DEF Fields
  <2>4. tx' = [tx EXCEPT ![p] = r] /\ Takes(p) /\ RequestTyped(p, r, owner')
    BY <1>3, <2>1, <2>2, <2>3 DEF DeactivateCabin, Takes, RequestTyped
  <2> QED BY <1>1, <2>4, StepTypes
<1> QED BY <1>2, <1>3 DEF DeactivateBerth, DeactivateBerths

\* Every step keeps the types.
LEMMA NextTypes == ManifestInv /\ TypeInv /\ [Next]_vars => TypeInv'
<1> SUFFICES ASSUME ManifestInv, TypeInv, [Next]_vars PROVE TypeInv'
  OBVIOUS
<1>1. CASE UNCHANGED vars
  BY <1>1 DEF vars, TypeInv, TableTypes
<1>2. ASSUME NEW p \in Procs, NEW job \in Jobs, Begin(p, job) PROVE TypeInv'
  <2>1. PICK at, r : /\ r = [job |-> job, saw |-> NoBerth, at |-> at]
                     /\ tx' = [tx EXCEPT ![p] = r]
                     /\ job.kind \in Keepers => at = "guest"
                     /\ job.kind = "assign" => at = "check"
                     /\ job.kind = "accept" => at = "look"
                     /\ job.kind \in {"closeBerth", "closeCabin"} => at = "inUse"
    BY <1>2 DEF Begin, Keepers
  <2>4. job.kind \in Keepers \cup {"assign", "accept", "closeBerth", "closeCabin"}
    BY JobAssumption DEF AllJobs, Keepers
  <2>2. RequestTyped(p, r, owner')
    BY <2>1, <2>4 DEF RequestTyped
  <2>3. TableTypes' /\ Takes(p)
    BY <1>2, QuietTables DEF Begin, Takes
  <2> QED BY <2>1, <2>2, <2>3, StepTypes
<1>3. ASSUME NEW p \in Procs, Step(p) PROVE TypeInv'
  BY <1>3, ReadTypes, CommitTypes, LayoutTypes DEF Step
<1>4. ASSUME NEW p \in Procs, Disconnect(p) \/ BreakDeadlock(p) PROVE TypeInv'
  <2>1. Finish(p) /\ TableTypes'
    BY <1>4, QuietTables DEF Disconnect, BreakDeadlock, Fail
  <2> QED BY <2>1, FinishTypes
<1>5. ASSUME NEW g \in Guests, UnassignTripGuestBerth(g) PROVE TypeInv'
  BY <1>5 DEF UnassignTripGuestBerth, TypeInv, TableTypes, layoutVars
<1> QED BY <1>1, <1>2, <1>3, <1>4, <1>5 DEF Next

\* A new trip has nobody on its manifest.
LEMMA InitTypes == Init => TypeInv
<1> SUFFICES ASSUME Init PROVE TypeInv
  OBVIOUS
<1>1. TableTypes
  BY DEF Init, TableTypes, GuestStates
<1>2. \A p \in Procs : tx[p] = Idle /\ \A row \in Rows : owner[row] # p
  BY ProcAssumption DEF Init
<1>3. Idle.job = Nothing /\ Idle.saw = NoBerth
  BY DEF Idle
<1> QED BY <1>1, <1>2, <1>3 DEF Init, TypeInv, RequestTyped

\* Tables hold rows of their type, and a request that was answered, refused, lost or broken
\* out of a deadlock holds no lock (the deferred rollbacks of trip_guests.go and cabins.go).
THEOREM ManifestTypes == Spec => []TypeOK
<1>1. TypeInv => TypeOK
  <2> SUFFICES ASSUME TypeInv PROVE TypeOK
    OBVIOUS
  <2>1. ASSUME NEW p \in Procs
        PROVE  /\ tx[p].job \in Jobs \cup {Nothing} /\ tx[p].saw \in Berths \cup {NoBerth}
               /\ At(p, "idle") => tx[p] = Idle /\ Held(p) = {}
    BY DEF TypeInv, RequestTyped, At, Held
  <2> QED BY <2>1 DEF TypeInv, TypeOK, TableTypes, GuestStates, Invites
<1> QED BY <1>1, InitTypes, NextTypes, ManifestInvariant, PTL DEF Spec

=============================================================================
