------------------------------- MODULE Manifest -------------------------------
(***************************************************************************)
(* The manifest of one trip: its guests, their invitations, and the berths  *)
(* they are given on the trip's boat (internal/store/trip_guests.go and     *)
(* cabins.go).  Each process is one request, run at READ COMMITTED one      *)
(* statement at a time; what a transaction writes is seen when it commits.  *)
(* The trip is open throughout: the handlers look at its status on the pool *)
(* before the request gets here.                                           *)
(***************************************************************************)
EXTENDS Naturals, FiniteSets, RowLocks

CONSTANTS
  Guests, Berths, Cabins, CabinOf,  \* people by e-mail; the layout of the boat
  InviteIds,                        \* bounds how many invitations are ever sent
  Jobs,                             \* the requests clients send
  NoBerth, Nothing                  \* no berth assigned; no job

ASSUME LayoutAssumption ==
  /\ CabinOf \in [Berths -> Cabins]
  /\ NoBerth \notin Berths

VARIABLES
  guest,       \* the trip_guests row: "absent", "listed" or "revoked"
  account,     \* trip_guests.guest_user_id is set
  invites,     \* guest_trip_invitations: a function on the rows inserted
  seat,        \* the active trip_cabin_assignments row of each guest
  cabinActive, berthActive,  \* is_active of boat_cabins and boat_cabin_berths
  tx           \* what each process is doing

rowVars == <<guest, account, invites, seat>>
layoutVars == <<cabinActive, berthActive>>
vars == <<guest, account, invites, seat, cabinActive, berthActive, tx, owner>>

Rows == ({"guest", "invite", "seat"} \X Guests) \cup ({"berth"} \X Berths)

AllJobs ==
  [kind: {"invite", "assign"}, guest: Guests, berth: Berths]
  \cup [kind: {"resend", "revoke"}, guest: Guests]
  \cup [kind: {"accept"}, guest: Guests, invite: InviteIds]
  \cup [kind: {"closeBerth"}, berth: Berths]
  \cup [kind: {"closeCabin"}, cabin: Cabins]

ASSUME JobAssumption == Jobs \subseteq AllJobs

Idle == [at |-> "idle", job |-> Nothing, saw |-> NoBerth]

-----------------------------------------------------------------------------
Kind(p) == tx[p].job.kind
G(p) == tx[p].job.guest
B(p) == tx[p].job.berth
At(p, at) == tx[p].at = at

\* Mutant of Pending: accepted invitations count as open ones.
Unrevoked(g) == {i \in DOMAIN invites : invites[i].guest = g /\ invites[i].status # "revoked"}

Pending(g) == {i \in DOMAIN invites : invites[i].guest = g /\ invites[i].status = "pending"}

Usable(b) == berthActive[b] /\ cabinActive[CabinOf[b]]

\* Mutant of Taken: the index on the active berth of a trip is not unique.
NeverTaken(g, b) == FALSE

Taken(g, b) == \E h \in Guests \ {g} : seat[h] = b

\* Mutant of GuestRow: the row is read where the code updates it first.
Unlocked(p) == {}

GuestRow(p) == {<<"guest", G(p)>>}

InviteRow(p) == {<<"invite", G(p)>>}

\* An active assignment is one row under two unique keys: its guest and its berth.
SeatRows(g) == IF seat[g] = NoBerth THEN {} ELSE {<<"seat", g>>, <<"berth", seat[g]>>}

\* An UPDATE that waited takes the row its snapshot had, if it is still there: an
\* assignment inserted meanwhile is not seen.
SeenRows(p) == IF seat[G(p)] = tx[p].saw THEN SeatRows(G(p)) ELSE {}

\* The rows the pending statement of p must lock before it returns.
Wants(p) ==
  CASE At(p, "guest") ->
         IF Kind(p) = "invite" \/ guest[G(p)] # "absent" THEN GuestRow(p) ELSE {}
    [] At(p, "drop") -> IF Pending(G(p)) = {} THEN {} ELSE InviteRow(p)
    [] At(p, "claim") -> IF tx[p].job.invite \in Pending(G(p)) THEN InviteRow(p) ELSE {}
    [] At(p, "addInvite") -> InviteRow(p)
    [] At(p, "join") -> IF guest[G(p)] = "listed" THEN GuestRow(p) ELSE {}
    [] At(p, "unseat") -> SeenRows(p)
    [] At(p, "leave") -> IF seat[G(p)] = B(p) THEN {} ELSE SeenRows(p)
    [] At(p, "take") -> SeatRows(G(p)) \cup {<<"seat", G(p)>>, <<"berth", B(p)>>}
    [] OTHER -> {}

Waits(p) == Blockers(p, Wants(p))

Deadlocked(p) == InWaitCycle(p, [q \in Procs |-> Waits(q)])

Goto(p, at) == tx' = [tx EXCEPT ![p].at = at] /\ UNCHANGED <<rowVars, layoutVars>>
Read(p, at) == Goto(p, at) /\ UNCHANGED owner
Lock(p, at) == Goto(p, at) /\ owner' = Granted(p, Wants(p))

Finish(p) == tx' = [tx EXCEPT ![p] = Idle] /\ owner' = Released(p)

\* Mutant of Fail: an early return forgets the deferred rollback and keeps its locks.
FailKeepingLocks(p) == tx' = [tx EXCEPT ![p] = Idle] /\ UNCHANGED <<rowVars, layoutVars, owner>>

Fail(p) == Finish(p) /\ UNCHANGED <<rowVars, layoutVars>>

Begin(p, job) ==
  /\ At(p, "idle")
  /\ job.kind = "accept" =>
       job.invite \in DOMAIN invites /\ invites[job.invite].guest = job.guest
  /\ tx' = [tx EXCEPT ![p] = [job |-> job, saw |-> NoBerth,
              at |-> CASE job.kind \in {"invite", "resend", "revoke"} -> "guest"
                       [] job.kind = "assign" -> "check"
                       [] job.kind = "accept" -> "look"
                       [] job.kind \in {"closeBerth", "closeCabin"} -> "inUse"]]
  /\ UNCHANGED <<rowVars, layoutVars, owner>>

-----------------------------------------------------------------------------
(***************************************************************************)
(* CreateTripGuestInvite, ResendTripGuestInvite and RevokeTripGuestInvite   *)
(* write the guest first.  Inviting a guest who is listed is refused.       *)
(***************************************************************************)
WriteGuest(p) ==
  /\ At(p, "guest")
  /\ IF Kind(p) = "invite"
       THEN IF guest[G(p)] = "listed" THEN Fail(p) ELSE Lock(p, "addInvite")
       ELSE IF guest[G(p)] = "absent" THEN Fail(p) ELSE Lock(p, "drop")

\* Open invitations, if any, are revoked.
DropInvites(p) ==
  /\ At(p, "drop")
  /\ Lock(p, IF Kind(p) = "resend" THEN "addInvite" ELSE "see")

\* One open invitation per guest: another one is a unique violation.
AddInvite(p) ==
  /\ At(p, "addInvite")
  /\ IF Pending(G(p)) # {} /\ owner[<<"invite", G(p)>>] # p
       THEN Fail(p)
       ELSE Lock(p, IF Kind(p) = "invite" THEN "berth" ELSE "commit")

\* Ending an assignment starts: the snapshot is taken, locks may be waited for.
SeeSeat(p) ==
  /\ At(p, "see")
  /\ tx' = [tx EXCEPT ![p].saw = seat[G(p)],
                     ![p].at = IF Kind(p) = "revoke" THEN "unseat" ELSE "leave"]
  /\ UNCHANGED <<rowVars, layoutVars, owner>>

Unseat(p) ==
  /\ At(p, "unseat")
  /\ Lock(p, "commit")

-----------------------------------------------------------------------------
(***************************************************************************)
(* assignTripGuestBerthTx reads the guest and the berth without locking     *)
(* them, ends the guest's other assignment and inserts the new one, or      *)
(* moves one inserted meanwhile.                                           *)
(***************************************************************************)
CheckGuest(p) ==
  /\ At(p, "check")
  /\ IF guest[G(p)] = "listed" THEN Read(p, "berth") ELSE Fail(p)

CheckBerth(p) ==
  /\ At(p, "berth")
  /\ IF Usable(B(p)) THEN Read(p, "see") ELSE Fail(p)

LeaveBerth(p) ==
  /\ At(p, "leave")
  /\ Lock(p, "take")

TakeBerth(p) ==
  /\ At(p, "take")
  /\ IF Taken(G(p), B(p)) THEN Fail(p) ELSE Lock(p, "commit")

-----------------------------------------------------------------------------
(***************************************************************************)
(* Accepting looks the token up on the pool, then claims the invitation,    *)
(* then the guest: the reverse of the order above.                          *)
(***************************************************************************)
LookUpInvite(p) ==
  /\ At(p, "look")
  /\ IF tx[p].job.invite \in Pending(G(p)) /\ guest[G(p)] = "listed"
       THEN Read(p, "claim") ELSE Fail(p)

\* Mutant of ClaimInvite: what the look at the token said is not asked again.
ClaimUnasked(p) == At(p, "claim") /\ Lock(p, "join")

ClaimInvite(p) ==
  /\ At(p, "claim")
  /\ IF tx[p].job.invite \in Pending(G(p)) THEN Lock(p, "join") ELSE Fail(p)

JoinGuest(p) ==
  /\ At(p, "join")
  /\ IF guest[G(p)] = "listed" THEN Lock(p, "commit") ELSE Fail(p)

-----------------------------------------------------------------------------
(***************************************************************************)
(* Commit: what the transaction wrote becomes visible and its locks go.     *)
(***************************************************************************)
\* The open invitations of g whose row p holds are ended with the given status.
Ended(p, status) ==
  [i \in DOMAIN invites |->
     IF i \in Pending(G(p)) /\ owner[<<"invite", G(p)>>] = p
       THEN [invites[i] EXCEPT !.status = status] ELSE invites[i]]

CommitInvite(p, i) ==
  LET ended == Ended(p, "revoked")
  IN
  /\ At(p, "commit")
  /\ Kind(p) \in {"invite", "resend"}
  /\ i \in InviteIds \ DOMAIN invites
  /\ guest' = [guest EXCEPT ![G(p)] = "listed"]
  /\ invites' = [j \in DOMAIN invites \cup {i} |->
                   IF j = i THEN [guest |-> G(p), status |-> "pending"] ELSE ended[j]]
  /\ seat' = IF Kind(p) = "invite" THEN [seat EXCEPT ![G(p)] = B(p)] ELSE seat
  /\ Finish(p)
  /\ UNCHANGED <<account, layoutVars>>

CommitRevoke(p) ==
  /\ At(p, "commit")
  /\ Kind(p) = "revoke"
  /\ guest' = [guest EXCEPT ![G(p)] = "revoked"]
  /\ invites' = Ended(p, "revoked")
  /\ seat' = [seat EXCEPT ![G(p)] = IF owner[<<"seat", G(p)>>] = p THEN NoBerth ELSE @]
  /\ Finish(p)
  /\ UNCHANGED <<account, layoutVars>>

CommitAccept(p) ==
  /\ At(p, "commit")
  /\ Kind(p) = "accept"
  /\ account' = [account EXCEPT ![G(p)] = TRUE]
  /\ invites' = Ended(p, "accepted")
  /\ Finish(p)
  /\ UNCHANGED <<guest, seat, layoutVars>>

CommitSeat(p) ==
  /\ At(p, "commit")
  /\ Kind(p) = "assign"
  /\ seat' = [seat EXCEPT ![G(p)] = B(p)]
  /\ Finish(p)
  /\ UNCHANGED <<guest, account, invites, layoutVars>>

-----------------------------------------------------------------------------
(***************************************************************************)
(* The layout.  Deactivating looks for assignments on the pool, then        *)
(* updates; a cabin and its berths are two statements without a transaction.*)
(***************************************************************************)
CheckInUse(p) ==
  LET closing == IF Kind(p) = "closeBerth" THEN {B(p)}
                 ELSE {b \in Berths : CabinOf[b] = tx[p].job.cabin}
  IN
  /\ At(p, "inUse")
  /\ IF \E g \in Guests : seat[g] \in closing
       THEN Fail(p)
       ELSE Read(p, IF Kind(p) = "closeBerth" THEN "closeBerth" ELSE "closeCabin")

DeactivateBerth(p) ==
  /\ At(p, "closeBerth")
  /\ berthActive' = [berthActive EXCEPT ![B(p)] = FALSE]
  /\ Finish(p)
  /\ UNCHANGED <<rowVars, cabinActive>>

DeactivateCabin(p) ==
  /\ At(p, "closeCabin")
  /\ cabinActive' = [cabinActive EXCEPT ![tx[p].job.cabin] = FALSE]
  /\ tx' = [tx EXCEPT ![p].at = "closeBerths"]
  /\ UNCHANGED <<rowVars, berthActive, owner>>

DeactivateBerths(p) ==
  /\ At(p, "closeBerths")
  /\ berthActive' = [b \in Berths |-> berthActive[b] /\ CabinOf[b] # tx[p].job.cabin]
  /\ Finish(p)
  /\ UNCHANGED <<rowVars, cabinActive>>

\* One statement: the guest's assignment, if any, ends.
UnassignTripGuestBerth(g) ==
  /\ \A r \in SeatRows(g) : Free(r)
  /\ seat' = [seat EXCEPT ![g] = NoBerth]
  /\ UNCHANGED <<guest, account, invites, layoutVars, tx, owner>>

-----------------------------------------------------------------------------
Step(p) ==
  /\ Waits(p) = {}
  /\ \/ WriteGuest(p) \/ DropInvites(p) \/ AddInvite(p) \/ SeeSeat(p) \/ Unseat(p)
     \/ CheckGuest(p) \/ CheckBerth(p) \/ LeaveBerth(p) \/ TakeBerth(p)
     \/ LookUpInvite(p) \/ ClaimInvite(p) \/ JoinGuest(p)
     \/ \E i \in InviteIds : CommitInvite(p, i)
     \/ CommitRevoke(p) \/ CommitAccept(p) \/ CommitSeat(p)
     \/ CheckInUse(p) \/ DeactivateBerth(p) \/ DeactivateCabin(p) \/ DeactivateBerths(p)

Disconnect(p) == ~At(p, "idle") /\ Fail(p)

BreakDeadlock(p) == Deadlocked(p) /\ Fail(p)

Init ==
  /\ guest = [g \in Guests |-> "absent"]
  /\ account = [g \in Guests |-> FALSE]
  /\ invites = <<>>
  /\ seat = [g \in Guests |-> NoBerth]
  /\ cabinActive = [c \in Cabins |-> TRUE]
  /\ berthActive = [b \in Berths |-> TRUE]
  /\ tx = [p \in Procs |-> Idle]
  /\ owner = [r \in Rows |-> NoProc]

\* The bound on invitations: a request that inserts one starts while an id is left for it.
IdLeft(job) ==
  job.kind \in {"invite", "resend"} =>
    Cardinality({q \in Procs : ~At(q, "idle") /\ Kind(q) \in {"invite", "resend"}})
      < Cardinality(InviteIds \ DOMAIN invites)

Next ==
  \/ \E p \in Procs :
       \/ \E job \in Jobs : IdLeft(job) /\ Begin(p, job)
       \/ Step(p)
       \/ Disconnect(p)
       \/ BreakDeadlock(p)
  \/ \E g \in Guests : UnassignTripGuestBerth(g)

Spec == Init /\ [][Next]_vars

\* Statements return, lock queues are served and the deadlock detector runs.
Fairness == \A p \in Procs : SF_vars(Step(p)) /\ WF_vars(BreakDeadlock(p))

LiveSpec == Spec /\ Fairness

-----------------------------------------------------------------------------
(***************************************************************************)
(* Properties                                                              *)
(***************************************************************************)
\* Every table holds rows of its type, and only a request in flight holds locks
\* (the deferred rollbacks of trip_guests.go and cabins.go).
TypeOK ==
  /\ guest \in [Guests -> {"absent", "listed", "revoked"}]
  /\ account \in [Guests -> BOOLEAN]
  /\ DOMAIN invites \subseteq InviteIds
  /\ invites \in [DOMAIN invites ->
                    [guest: Guests, status: {"pending", "accepted", "revoked"}]]
  /\ seat \in [Guests -> Berths \cup {NoBerth}]
  /\ cabinActive \in [Cabins -> BOOLEAN]
  /\ berthActive \in [Berths -> BOOLEAN]
  /\ owner \in [Rows -> Procs \cup {NoProc}]
  /\ \A p \in Procs : tx[p].job \in Jobs \cup {Nothing} /\ tx[p].saw \in Berths \cup {NoBerth}
                      /\ (At(p, "idle") => tx[p] = Idle /\ Held(p) = {})

\* Two requests placing guests, moving them or swapping them never leave two guests
\* in one berth (assignTripGuestBerthTx and its unique indexes).
OneGuestPerBerth ==
  \A g, h \in Guests : seat[g] = seat[h] /\ seat[g] # NoBerth => g = h

\* A guest taken off the manifest has no invitation left to accept, and a listed one at
\* most one, however invitations, resends and revocations interleave (trip_guests.go).
OpenInvitations ==
  \A g \in Guests :
    Cardinality(Pending(g)) <= IF guest[g] = "listed" THEN 1 ELSE 0

\* A guest is linked to an account only while on the manifest, and only by the one
\* request that ends an open invitation (AcceptGuestInvite).
JoinsByInvitation ==
  [][\A g \in Guests : account'[g] # account[g] =>
       /\ guest[g] = "listed" /\ guest'[g] = "listed"
       /\ \E i \in Pending(g) : invites'[i].status = "accepted"]_vars

\* An invitation ends once: accepted or revoked, it is never anything else again.
InvitationsEndOnce ==
  [][\A i \in DOMAIN invites : invites[i].status # "pending" =>
       invites'[i] = invites[i]]_vars

\* Every request is answered, although accepting and revoking lock the invitation and
\* the guest in opposite orders, and swapping two guests locks two berths in either.
EveryRequestEnds == \A p \in Procs : ~At(p, "idle") ~> At(p, "idle")

\* "Revoking a guest invite also clears that guest's active berth assignment"
\* (SPRINT-016.md:38).
RevokedHoldsNoBerth == \A g \in Guests : guest[g] = "revoked" => seat[g] = NoBerth

\* "a berth implies an active cabin since cabin is its parent" (cabins.go:734), whenever
\* nobody is deactivating the cabin.
ActiveBerthInActiveCabin ==
  (\A p \in Procs : ~At(p, "closeBerths")) =>
    \A b \in Berths : berthActive[b] => cabinActive[CabinOf[b]]

=============================================================================
