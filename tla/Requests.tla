------------------------------- MODULE Requests -------------------------------
(***************************************************************************)
(* One request walks through the statements of its handler (module          *)
(* Handlers) while other requests assign directors, move trips on and       *)
(* revoke guests between any two of them: no handler holds a transaction    *)
(* over its gates and its writes.                                          *)
(***************************************************************************)
EXTENDS Handlers, FiniteSets, TLC

CONSTANTS
  Orgs, Boats, Trips, Guests,
  Parent,      \* the organization of a boat, the boat of a trip, the trip of a guest
  Users, RoleOf, HomeOf,  \* accounts, their role and, for staff, their organization
  AccountOf,   \* the account each guest registered with
  Callers,     \* the accounts whose requests are followed
  Assigned,    \* the <<trip, director>> pairs to begin with
  Changing,    \* the trips and guests other requests change
  Nobody

Directors == {u \in Users : RoleOf[u] = "cruise_director"}
Places == Orgs \cup Boats \cup Trips \cup Guests

\* No row is of two tables, and the directors to begin with are on trips of their own.
ASSUME RequestAssumption ==
  /\ Boats \cap Orgs = {} /\ Trips \cap (Orgs \cup Boats) = {}
  /\ Guests \cap (Orgs \cup Boats \cup Trips) = {}
  /\ Parent \in [Boats \cup Trips \cup Guests -> Places]
  /\ \A b \in Boats : Parent[b] \in Orgs
  /\ \A t \in Trips : Parent[t] \in Boats
  /\ \A g \in Guests : Parent[g] \in Trips
  /\ RoleOf \in [Users -> Roles]
  /\ \A u \in Users : RoleOf[u] \in Staff => HomeOf[u] \in Orgs
  /\ AccountOf \in [Guests -> Users]
  /\ Assigned \subseteq {p \in Trips \X Directors : HomeOf[p[2]] = Parent[Parent[p[1]]]}
  /\ Callers \subseteq Users /\ Nobody \notin Users \cup Places

VARIABLES
  directs,   \* trip_cruise_directors: the <<trip, director>> pairs
  phase,     \* each trip: "planned", "active", or "ended" (completed, cancelled, or past)
  revoked,   \* the guests whose invitation is revoked
  req        \* the request

requestVars == <<directs, phase, revoked, req>>

\* A place and all it belongs to.
Up[x \in Places] == {x} \cup (IF x \in Orgs THEN {} ELSE Up[Parent[x]])

\* Where the rows of a table hang; exchange rates belong to no organization.
TablesOf == [
  orgs |-> {"organizations", "users", "invitations", "catalog_categories", "catalog_items",
            "import_jobs", "import_previews", "organization_payment_settings",
            "checkout_quotes", "equipment_assets", "exchange_rates", "audit_events",
            "crew_members", "crew_certifications", "leads", "booking_quotes",
            "offline_payments"},
  boats |-> {"boats", "boat_cabins", "boat_cabin_berths", "boat_inventory_items",
             "catalog_price_overrides"},
  trips |-> {"trips", "trip_cruise_directors", "catalog_price_overrides", "audit_events"},
  guests |-> {"trip_guests", "guest_trip_registrations", "guest_documents", "guest_folios",
              "guest_folio_lines", "trip_cabin_assignments", "audit_events"}]

Tables == UNION {TablesOf[k] : k \in DOMAIN TablesOf}

PlacesOf == [table \in Tables |->
  UNION {IF table \in TablesOf.orgs THEN Orgs ELSE {},
         IF table \in TablesOf.boats THEN Boats ELSE {},
         IF table \in TablesOf.trips THEN Trips ELSE {},
         IF table \in TablesOf.guests THEN Guests ELSE {}}]

-----------------------------------------------------------------------------
\* The routes of a role.  A statement for other roles is passed over.
RoutesOf(role) ==
  IF role = "guest" THEN GuestRoutes
  ELSE [h \in DOMAIN StaffRoutes \cup DOMAIN AdminRoutes |->
          IF h \in DOMAIN StaffRoutes THEN StaffRoutes[h] ELSE RequireOrgAdmin \o AdminRoutes[h]]

Plan == [role \in Roles |-> RoutesOf(role)]

Concerns(role, s) == s.do = "require" \/ role \in s.who

NoRequest == [at |-> 0]
InFlight == req # NoRequest
Role == RoleOf[req.user]
Steps == Plan[Role][req.route]
Now == Steps[req.at]
Doing(kinds) == InFlight /\ Concerns(Role, Now) /\ Now.do \in kinds

\* The organization of the session, or of the guest's row.
CallerOrg == IF Role = "guest" THEN CHOOSE o \in Up[req.guest] : o \in Orgs ELSE HomeOf[req.user]

TripsAt(x) == Up[x] \cap Trips
Mine(x) ==
  IF Role = "guest" THEN x \in Guests /\ AccountOf[x] = req.user
  ELSE \E t \in TripsAt(x) : <<t, req.user>> \in directs
OfPhase(x, ps) == \A t \in TripsAt(x) : phase[t] \in ps

\* One condition of a WHERE clause.  Those on layouts, berths and listing are left open.
Meets(c, x) ==
  CASE c = "organization_id" -> CallerOrg \in Up[x]
    [] c = "boat_id" -> req.boat \in Up[x]
    [] c = "boat_of_trip" -> x \in Up[req.trip]
    [] c = "trip_id" -> req.trip \in Up[x]
    [] c = "trip_guest_id" -> req.guest \in Up[x]
    [] c = "id" -> req.row = x
    [] c = "user_id" -> HomeOf[req.director] = x
    [] c = "caller" -> HomeOf[req.user] = x
    [] c = "mine" -> Mine(x)
    [] c = "mine_or_no_trip" -> Mine(x) \/ TripsAt(x) = {}
    [] c = "directing" -> <<x, req.director>> \in directs
    [] c = "not_directing" -> <<x, req.director>> \notin directs
    [] c = "shown" -> TripsAt(x) \subseteq req.found
    [] c = "planned" -> OfPhase(x, {"planned"})
    [] c = "active" -> OfPhase(x, {"active"})
    [] c = "open" -> OfPhase(x, {"planned", "active"})
    [] c = "not_revoked" -> x \notin revoked
    [] c = "of_a_boat" -> x \in Boats
    [] c = "of_a_trip" -> x \in Trips
    [] OTHER -> TRUE

Rows(s) == {x \in PlacesOf[s.table] : \A c \in s.where : Meets(c, x)}

OpenTrips == {t \in Trips : phase[t] # "ended"}
DirectedBy(u, pairs) == {t \in Trips : <<t, u>> \in pairs}

\* What belongs to a caller: the trips a director is on, the places of a guest.
OwnOf(u, pairs, gone) ==
  IF RoleOf[u] = "guest" THEN {g \in Guests \ gone : AccountOf[g] = u} ELSE DirectedBy(u, pairs)

-----------------------------------------------------------------------------
\* What a route lets its caller name; the rest stays open.
Asked(u, h) ==
  {s \in {Plan[RoleOf[u]][h][i] : i \in DOMAIN Plan[RoleOf[u]][h]} : Concerns(RoleOf[u], s)}
Named(u, h) == UNION {s.where : s \in Asked(u, h)}
Choices(u, h, condition, S) == IF condition \in Named(u, h) THEN S ELSE {Nobody}
IdRows(u, h) ==
  {x \in Places : \E s \in Asked(u, h) : "id" \in s.where /\ x \in PlacesOf[s.table]}

\* SessionMiddleware.Wrap and guestSessionMiddleware: a live session of the role.
Begin(u, h) ==
  /\ ~InFlight
  /\ \E guest \in Choices(u, h, "trip_guest_id", Guests), boat \in Choices(u, h, "boat_id", Boats),
        row \in Choices(u, h, "id", IdRows(u, h)),
        director \in Choices(u, h, "user_id", Directors) :
     \E trip \in IF RoleOf[u] = "guest" THEN {Parent[g] : g \in {guest} \cap Guests}
                 ELSE IF {"trip_id", "boat_of_trip"} \cap Named(u, h) # {} THEN Trips
                 ELSE {Nobody} :
       req' = [at |-> 1, user |-> u, route |-> h, trip |-> trip, boat |-> boat,
               guest |-> guest, row |-> row, director |-> director,
               own |-> OwnOf(u, directs, revoked), openThen |-> OpenTrips,
               done |-> {}, found |-> {}]
  /\ UNCHANGED <<directs, phase, revoked>>

\* Mutant of Advance: the handler goes on after its answer.
AdvanceOn(done, found) == req' = [req EXCEPT !.at = @ + 1, !.done = done, !.found = found]

\* After the last statement the answer is written.
Advance(done, found) ==
  req' = IF req.at = Len(Steps) THEN NoRequest
         ELSE [req EXCEPT !.at = @ + 1, !.done = done, !.found = found]

Answer == req' = NoRequest /\ UNCHANGED <<directs, phase, revoked>>

\* A branch for other roles.
PassOver ==
  /\ ~Concerns(Role, Now)
  /\ Advance(req.done, req.found)
  /\ UNCHANGED <<directs, phase, revoked>>

Gate ==
  /\ Doing({"require"})
  /\ Role \in Now.who
  /\ Advance(req.done, req.found)
  /\ UNCHANGED <<directs, phase, revoked>>

Look ==
  /\ Doing({"find"})
  /\ Rows(Now) # {}
  /\ Advance(req.done, req.found)
  /\ UNCHANGED <<directs, phase, revoked>>

Fetch ==
  /\ Doing({"show"})
  /\ Advance(IF Rows(Now) = {} THEN req.done ELSE req.done \cup {Now.table},
             IF Now.table = "trips" THEN Rows(Now) ELSE req.found)
  /\ UNCHANGED <<directs, phase, revoked>>

Write ==
  /\ Doing({"put", "try"})
  /\ Now.do = "put" => Rows(Now) # {}
  /\ directs' = CASE Now.to = "directed" -> directs \cup {<<t, req.director>> : t \in Rows(Now)}
                  [] Now.to = "undirected" -> directs \ {<<t, req.director>> : t \in Rows(Now)}
                  [] OTHER -> directs
  /\ phase' = [t \in Trips |-> IF Now.to \in {"active", "ended"} /\ t \in Rows(Now)
                               THEN Now.to ELSE phase[t]]
  /\ revoked' = CASE Now.to = "revoked" -> revoked \cup Rows(Now)
                  [] Now.to = "invited" -> revoked \ Rows(Now)
                  [] OTHER -> revoked
  /\ Advance(IF Rows(Now) = {} THEN req.done ELSE req.done \cup {Now.table}, req.found)

\* An audit event, a mail: after the change, and not part of its transaction.
Report ==
  /\ Doing({"tell", "tell_if_done"})
  /\ Advance(req.done, req.found)
  /\ UNCHANGED <<directs, phase, revoked>>

\* A malformed request, no row where one is needed, a statement that fails, the 15 s of
\* middleware.Timeout, or a client that left.
Refuse == InFlight /\ Answer

-----------------------------------------------------------------------------
\* The caller's own grows with what other requests give it, and is never taken back here.
Others(pairs, phases, gone) ==
  /\ directs' = pairs /\ phase' = phases /\ revoked' = gone
  /\ req' = IF InFlight THEN [req EXCEPT !.own = @ \cup OwnOf(req.user, pairs, gone)] ELSE req

OthersAssign(t, d) ==
  /\ HomeOf[d] \in Up[t] /\ phase[t] # "ended"
  /\ Others(directs \cup {<<t, d>>}, phase, revoked)

OthersUnassign(t, d) ==
  /\ HomeOf[d] \in Up[t] /\ phase[t] # "ended"
  /\ Others(directs \ {<<t, d>>}, phase, revoked)

OthersMoveOn(t) ==
  /\ \E p \in {<<"planned", "active">>, <<"planned", "ended">>, <<"active", "ended">>} :
       phase[t] = p[1] /\ Others(directs, [phase EXCEPT ![t] = p[2]], revoked)

OthersInvite(g) ==
  /\ phase[Parent[g]] # "ended"
  /\ \E gone \in {revoked \cup {g}, revoked \ {g}} : Others(directs, phase, gone)

RequestInit ==
  /\ directs = Assigned
  /\ phase = [t \in Trips |-> "planned"]
  /\ revoked = {}
  /\ req = NoRequest

RequestNext ==
  \/ \E u \in Callers : \E h \in DOMAIN Plan[RoleOf[u]] : Begin(u, h)
  \/ InFlight /\ (PassOver \/ Gate \/ Look \/ Fetch \/ Write \/ Report)
  \/ Refuse
  \/ \E t \in Changing \cap Trips :
       \/ \E d \in Directors : OthersAssign(t, d) \/ OthersUnassign(t, d)
       \/ OthersMoveOn(t)
  \/ \E g \in Changing \cap Guests : OthersInvite(g)

RequestSpec == RequestInit /\ [][RequestNext]_requestVars

-----------------------------------------------------------------------------
(***************************************************************************)
(* Properties.  Each says what the pending statement would touch.           *)
(***************************************************************************)
RequestTypeOK ==
  /\ directs \subseteq Trips \X Directors
  /\ phase \in [Trips -> {"planned", "active", "ended"}]
  /\ revoked \subseteq Guests
  /\ InFlight =>
       /\ req.user \in Callers
       /\ req.at \in DOMAIN Steps
       /\ req.trip \in Trips \cup {Nobody} /\ req.boat \in Boats \cup {Nobody}
       /\ req.guest \in Guests \cup {Nobody}
       /\ req.done \subseteq Tables

Writing == Doing({"put", "try"})
Touching == Doing({"put", "try", "show"})

\* Whatever ids a request names, and whatever changes meanwhile, the rows it reads for its
\* answer and the rows it writes are its caller's organization's (the organization_id of
\* every statement, and of the row a statement without one was led to).
RowsStayHome ==
  Touching /\ Now.table # "exchange_rates" => \A x \in Rows(Now) : CallerOrg \in Up[x]

\* A director is only ever on trips of their own organization (AssignCruiseDirector:
\* "Cross-org checks are caller responsibility").
AssignmentsStayHome == \A pair \in directs : HomeOf[pair[2]] \in Up[pair[1]]

\* What no director reads, and what none writes.
AdminTables == {"invitations", "import_jobs", "import_previews", "equipment_assets",
                "exchange_rates", "catalog_price_overrides", "crew_members",
                "crew_certifications", "leads", "booking_quotes", "offline_payments"}
AdminWrites == AdminTables \cup {"organizations", "boats"}
BoatWork == {"boat_cabins", "boat_cabin_berths", "boat_inventory_items"}

\* A director touches guests, trips and boats only where they were assigned when the
\* request began or since, and a guest only a place of theirs not revoked then: a gate and
\* what it guards are separate statements, and nothing else slips through.
ActorsKeepToTheirOwn ==
  /\ Touching /\ Role = "cruise_director" =>
       /\ Now.table \notin (IF Writing THEN AdminWrites ELSE AdminTables)
       /\ \A x \in Rows(Now) : /\ TripsAt(x) \subseteq req.own
                               /\ Now.table \in BoatWork => \E t \in req.own : x \in Up[t]
  /\ Touching /\ Role = "guest" => Rows(Now) \cap Guests \subseteq req.own

\* The record of a trip: who sails and who directs it, the registrations, documents, charges
\* and placements of its guests, the tabs opened for them, and the trip's own status.  Two
\* changes of it, freeing a berth and settling a tab, are left to ClosedTripsAreReadOnly;
\* that a bill was mailed is no change of the record.
RecordTables == {"trip_guests", "guest_trip_registrations", "guest_documents", "guest_folios",
                 "guest_folio_lines", "trip_cabin_assignments", "trip_cruise_directors"}
OfRecord(s) ==
  \/ s.table \in RecordTables /\ s.to \notin {"freed", "closed", "mailed"}
  \/ s.to \in {"active", "ended"}

\* Whatever the route, a trip that was over before its request began keeps its record
\* (ensureTripMutable, tripForOrg, the trip's status in the WHERE of a charge or transition).
ClosedTripsKeepTheirRecord ==
  Writing /\ OfRecord(Now) => \A x \in Rows(Now) : TripsAt(x) \subseteq req.openThen

\* "Completed and cancelled trips are read-only for guest, document, cabin, registration,
\* folio, and director-assignment mutations" (SPRINT-018): the same with the two changes
\* handleUnassignGuestCabin and handleCloseGuestFolio make, which look at no trip's status.
ClosedTripsAreReadOnly ==
  Writing /\ (OfRecord(Now) \/ Now.to \in {"freed", "closed"}) =>
    \A x \in Rows(Now) : TripsAt(x) \subseteq req.openThen

\* An audit event or a mail reports what this request has read or written: never a change
\* that found no row, nor an assignment another request made or undid first.  (The berth
\* a guest did not have is the exception: handleUnassignGuestCabin reports it freed.)
ToldOnlyWhatHappened ==
  Doing({"tell"}) /\ req.route # "handleUnassignGuestCabin" => Now.table \in req.done

=============================================================================
