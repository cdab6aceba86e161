---------------------------- MODULE Requests_proofs ----------------------------
(***************************************************************************)
(* Whatever ids a request names and whatever changes between two of its     *)
(* statements, it stays in its caller's organization, among its caller's    *)
(* own, off trips that were over, and tells only what happened: for any     *)
(* number of organizations, boats, trips, guests and accounts.  The         *)
(* statements a handler has been through leave facts behind; what a        *)
(* statement may touch follows from the facts before it.                   *)
(***************************************************************************)
EXTENDS MCRequests, Accounts_proofs, SequenceTheorems

\* What statements that found a row, or wrote one, leave known; a table: it was written.
FactNames == {"trip_home", "boat_home", "guest_home", "director_home", "trip_own", "boat_own",
              "guest_own", "guest_in_trip", "trip_open", "documents_shown", "folio_shown",
              "unasked", "barred"}
Facts == FactNames \cup Tables

\* The request goes on only if the statement found a row that meets all its columns.
Earns(role, s, f) ==
  \/ s.do = "require" /\ role \notin s.who /\ f = "barred"
  \/ /\ s.do = "show" /\ role \in s.who /\ s.where \subseteq Guest
     /\ \/ f = "documents_shown" /\ s.table = "guest_documents"
        \/ f = "folio_shown" /\ s.table = "guest_folios"
  \/ /\ s.do \in {"find", "put"} /\ role \in s.who
     /\ \/ s.do = "put" /\ f = s.table
        \/ f = "trip_home" /\ {"organization_id", "trip_id"} \subseteq s.where
        \/ f = "boat_home" /\ {"organization_id", "boat_id"} \subseteq s.where
        \/ f = "guest_home" /\ {"organization_id", "trip_guest_id"} \subseteq s.where
        \/ f = "guest_in_trip" /\ {"trip_id", "trip_guest_id"} \subseteq s.where
        \/ f = "trip_open" /\ {"trip_id", "open"} \subseteq s.where
        \/ /\ f = "director_home" /\ s.table = "users"
           /\ {"organization_id", "user_id"} \subseteq s.where
        \/ /\ role = "cruise_director" /\ s.table = "trip_cruise_directors"
           /\ \/ f = "trip_own" /\ {"trip_id", "mine"} \subseteq s.where
              \/ f = "boat_own" /\ {"boat_id", "mine"} \subseteq s.where
        \/ /\ role = "guest" /\ s.table = "trip_guests"
           /\ {"trip_guest_id", "mine", "not_revoked"} \subseteq s.where
           /\ f \in {"guest_own", "guest_home", "trip_home", "guest_in_trip"}

OnTrips(s) == s.table \in TablesOf.trips \cup TablesOf.guests

\* The rows are of the caller's organization.
HomeBound(known, s) ==
  \/ s.table = "exchange_rates"
  \/ "organization_id" \in s.where
  \/ "caller" \in s.where /\ s.table = "users"
  \/ "shown" \in s.where /\ s.table \in {"trip_cruise_directors", "trip_guests"}
  \/ "trip_id" \in s.where /\ "trip_home" \in known
  \/ "boat_id" \in s.where /\ "boat_home" \in known
  \/ "trip_guest_id" \in s.where /\ "guest_home" \in known
  \/ "boat_of_trip" \in s.where /\ "trip_home" \in known /\ s.table = "boats"

\* The rows are on trips, and the boat work on boats, of a director.
OwnBound(known, s) ==
  /\ s.table \notin (IF s.do = "show" THEN AdminTables ELSE AdminWrites)
  /\ \/ ~OnTrips(s)
     \/ {"mine", "mine_or_no_trip", "shown"} \cap s.where # {}
     \/ "trip_id" \in s.where /\ "trip_own" \in known
     \/ "trip_guest_id" \in s.where /\ {"guest_in_trip", "trip_own"} \subseteq known
  /\ s.table \in BoatWork => \/ "boat_id" \in s.where /\ "boat_own" \in known
                             \/ "boat_of_trip" \in s.where /\ "trip_own" \in known

\* The guests are the caller.
GuestBound(known, s) ==
  /\ "caller" \notin s.where
  /\ \/ s.table \notin TablesOf.guests
     \/ "trip_guest_id" \in s.where /\ "guest_own" \in known

\* The trips were not over when the request began.
OpenBound(known, s) ==
  \/ ~OnTrips(s)
  \/ {"planned", "active", "open"} \cap s.where # {}
  \/ "trip_open" \in known /\ "trip_id" \in s.where
  \/ {"trip_open", "guest_in_trip"} \subseteq known /\ "trip_guest_id" \in s.where

\* What a written row is set to.
SoundEffect(known, s) ==
  /\ s.to = "directed" => /\ s.table = "trip_cruise_directors" /\ "trip_id" \in s.where
                          /\ {"trip_home", "director_home"} \subseteq known
  /\ s.to = "active" => "planned" \in s.where
  /\ s.to \in {"revoked", "invited"} => s.table = "trip_guests"

\* The request wrote the row, or sent the guest's to the client.
Told(known, table) ==
  \/ table \in known
  \/ "unasked" \in known
  \/ /\ {"guest_home", "guest_in_trip"} \subseteq known
     /\ \/ table = "guest_documents" /\ "documents_shown" \in known
        \/ table = "guest_folios" /\ "folio_shown" \in known

Safe(role, known, s) ==
  \/ "barred" \in known \/ ~Concerns(role, s) \/ s.do = "require"
  \/ /\ s.do \in {"find", "show", "put", "try", "tell"} => s.table \in Tables
     /\ s.do \in {"show", "put", "try"} =>
          /\ HomeBound(known, s)
          /\ role = "cruise_director" => OwnBound(known, s)
          /\ role = "guest" => GuestBound(known, s)
     /\ s.do \in {"put", "try"} => (OfRecord(s) => OpenBound(known, s)) /\ SoundEffect(known, s)
     /\ s.do = "tell" => Told(known, s.table)

\* What is known after the first n statements, when what is in known was before them.
After(role, known, steps, n) ==
  known \cup {f \in Facts : \E i \in DOMAIN steps : i <= n /\ Earns(role, steps[i], f)}

\* Statements that are safe whenever needs are known, and leave gives known.
Does(role, needs, steps, gives) ==
  /\ \E S : steps \in Seq(S)
  /\ steps # <<>>
  /\ \A i \in DOMAIN steps : Safe(role, After(role, needs, steps, i - 1), steps[i])
  /\ gives \subseteq After(role, needs, steps, Len(steps))

\* What is known of a route before its first statement: an administrator need not be
\* assigned, and one route reports what was not asked.
Start(role) == IF role = "org_admin" THEN {"trip_own", "boat_own"} ELSE {}

Begins(role, h) ==
  Start(role) \cup (IF h = "handleUnassignGuestCabin" THEN {"unasked"} ELSE {})

-----------------------------------------------------------------------------
(***************************************************************************)
(* What the facts say of the request in flight.                             *)
(***************************************************************************)
GuestHome == req.guest \in Guests /\ CallerOrg \in Up[req.guest]
GuestInTrip == req.guest \in Guests /\ req.trip = Parent[req.guest]

Fact(f, done) ==
  /\ f = "trip_home" => req.trip \in Trips /\ CallerOrg \in Up[req.trip]
  /\ f = "boat_home" => req.boat \in Boats /\ CallerOrg \in Up[req.boat]
  /\ f = "guest_home" => GuestHome
  /\ f = "guest_in_trip" => GuestInTrip
  /\ f = "director_home" => req.director \in Directors /\ HomeOf[req.director] = CallerOrg
  /\ f = "trip_own" /\ Role = "cruise_director" => req.trip \in req.own
  /\ f = "boat_own" /\ Role = "cruise_director" => \E t \in req.own : req.boat \in Up[t]
  /\ f = "guest_own" => req.guest \in req.own
  /\ f = "trip_open" => req.trip \in req.openThen
  /\ f = "documents_shown" /\ GuestHome /\ GuestInTrip => "guest_documents" \in done
  /\ f = "folio_shown" /\ GuestHome /\ GuestInTrip => "guest_folios" \in done
  /\ f = "unasked" => req.route = "handleUnassignGuestCabin"
  /\ f # "barred"
  /\ f \in Tables => f \in done

RouteNames == DOMAIN StaffRoutes \cup DOMAIN AdminRoutes \cup DOMAIN GuestRoutes

RequestRows ==
  [at : Nat \ {0}, user : Callers, route : RouteNames, trip : Trips \cup {Nobody},
   boat : Boats \cup {Nobody}, guest : Guests \cup {Nobody}, row : Places \cup {Nobody},
   director : Directors \cup {Nobody}, own : SUBSET Places, openThen : SUBSET Trips,
   done : SUBSET Tables, found : SUBSET Trips]

Known == After(Role, Begins(Role, req.route), Steps, req.at - 1)

RowsTyped ==
  /\ directs \subseteq Trips \X Directors
  /\ phase \in [Trips -> {"planned", "active", "ended"}]
  /\ revoked \subseteq Guests

\* A trip open now was open when the request began; the caller's own has been noted.
Noted ==
  /\ OpenTrips \subseteq req.openThen
  /\ OwnOf(req.user, directs, revoked) \subseteq req.own

\* The trips sent to the client are the caller's organization's, and a director's own.
FoundGood ==
  \A t \in req.found : CallerOrg \in Up[t] /\ (Role = "cruise_director" => t \in req.own)

\* What does not change while the request is answered.
Begun ==
  /\ req.route \in DOMAIN RoutesOf(Role)
  /\ Role = "guest" => GuestInTrip
  /\ "user_id" \in Named(req.user, req.route) => req.director \in Directors

RequestInv ==
  /\ RowsTyped
  /\ AssignmentsStayHome
  /\ InFlight => /\ req \in RequestRows /\ Begun /\ req.at \in DOMAIN Steps
                 /\ Noted /\ FoundGood
                 /\ \A f \in Known : Fact(f, req.done)

\* The tables, by name.
LEMMA TableNames ==
  Tables = {"organizations", "users", "invitations", "catalog_categories", "catalog_items",
            "import_jobs", "import_previews", "organization_payment_settings", "checkout_quotes",
            "equipment_assets", "exchange_rates", "audit_events", "crew_members",
            "crew_certifications", "leads", "booking_quotes", "offline_payments", "boats",
            "boat_cabins",
            "boat_cabin_berths", "boat_inventory_items", "catalog_price_overrides", "trips",
            "trip_cruise_directors", "trip_guests", "guest_trip_registrations", "guest_documents",
            "guest_folios", "guest_folio_lines", "trip_cabin_assignments"}
<1>1. Tables = TablesOf.orgs \cup TablesOf.boats \cup TablesOf.trips \cup TablesOf.guests
  <2>1. DOMAIN TablesOf = {"orgs", "boats", "trips", "guests"}
    BY DEF TablesOf
  <2>2. Tables = UNION {TablesOf["orgs"], TablesOf["boats"], TablesOf["trips"], TablesOf["guests"]}
    BY <2>1 DEF Tables
  <2> QED BY <2>2
<1> QED BY <1>1 DEF TablesOf


-----------------------------------------------------------------------------
(***************************************************************************)
(* Statements one after the other.                                          *)
(***************************************************************************)
\* More is known after more has been known before.
LEMMA SafeMonotone ==
  ASSUME NEW role, NEW known, NEW more, known \subseteq more, NEW s, Safe(role, known, s)
  PROVE  Safe(role, more, s)
<1>1. HomeBound(known, s) => HomeBound(more, s)
  BY DEF HomeBound
<1>2. OwnBound(known, s) => OwnBound(more, s)
  BY DEF OwnBound
<1>3. GuestBound(known, s) => GuestBound(more, s)
  BY DEF GuestBound
<1>4. OpenBound(known, s) => OpenBound(more, s)
  BY DEF OpenBound
<1>5. SoundEffect(known, s) => SoundEffect(more, s)
  BY DEF SoundEffect
<1>6. Told(known, s.table) => Told(more, s.table)
  BY DEF Told
<1> QED BY <1>1, <1>2, <1>3, <1>4, <1>5, <1>6 DEF Safe

\* One statement that is safe.
LEMMA Alone ==
  ASSUME NEW role, NEW needs, NEW s, NEW gives,
         Safe(role, needs, s), \A f \in gives : f \in needs \/ (f \in Facts /\ Earns(role, s, f))
  PROVE  Does(role, needs, <<s>>, gives)
<1>1. <<s>> \in Seq({s}) /\ <<s>> # <<>> /\ DOMAIN <<s>> = {1} /\ Len(<<s>>) = 1 /\ <<s>>[1] = s
  OBVIOUS
<1>2. needs \subseteq After(role, needs, <<s>>, 1 - 1)
  BY DEF After
<1>3. Safe(role, After(role, needs, <<s>>, 1 - 1), s)
  BY <1>2, SafeMonotone
<1>4. gives \subseteq After(role, needs, <<s>>, 1)
  BY <1>1 DEF After
<1> QED BY <1>1, <1>3, <1>4 DEF Does

\* Two lists of statements, the second safe with what the first leaves known.
LEMMA Then ==
  ASSUME NEW role, NEW needs, NEW first, NEW gives, Does(role, needs, first, gives),
         NEW asks, NEW second, NEW adds, Does(role, asks, second, adds),
         asks \subseteq needs \cup gives,
         NEW result, result \subseteq needs \cup gives \cup adds
  PROVE  Does(role, needs, first \o second, result)
<1> DEFINE both == first \o second
<1>0. PICK A, B : first \in Seq(A) /\ second \in Seq(B)
  BY DEF Does
<1> DEFINE S == A \cup B
<1>1. /\ first \in Seq(S) /\ second \in Seq(S) /\ first # <<>>
      /\ \A i \in DOMAIN first : Safe(role, After(role, needs, first, i - 1), first[i])
      /\ \A i \in DOMAIN second : Safe(role, After(role, asks, second, i - 1), second[i])
      /\ gives \subseteq After(role, needs, first, Len(first))
      /\ adds \subseteq After(role, asks, second, Len(second))
  <2>1. first \in Seq(S) /\ second \in Seq(S)
    BY <1>0, SeqMonotonic
  <2> QED BY <2>1 DEF Does
<1> HIDE DEF S
<1>2. /\ Len(first) \in Nat /\ DOMAIN first = 1..Len(first)
      /\ Len(second) \in Nat /\ DOMAIN second = 1..Len(second)
      /\ Len(first) # 0
  BY <1>1, LenProperties, EmptySeq
<1>3. /\ both \in Seq(S) /\ Len(both) = Len(first) + Len(second)
      /\ DOMAIN both = 1..Len(first) + Len(second)
      /\ \A i \in DOMAIN first : both[i] = first[i]
      /\ \A i \in DOMAIN second : both[i + Len(first)] = second[i]
  <2>1. /\ both \in Seq(S) /\ Len(both) = Len(first) + Len(second)
        /\ \A i \in 1 .. Len(first) + Len(second) : both[i] =
                     IF i <= Len(first) THEN first[i] ELSE second[i - Len(first)]
    BY <1>1, ConcatProperties
  <2>2. DOMAIN both = 1..Len(both)
    BY <2>1, LenProperties
  <2>3. \A i \in DOMAIN first : both[i] = first[i]
    BY <2>1, <1>2
  <2>4. ASSUME NEW i \in DOMAIN second PROVE both[i + Len(first)] = second[i]
    <3>1. i + Len(first) \in 1..Len(first) + Len(second) /\ ~(i + Len(first) <= Len(first))
          /\ i + Len(first) - Len(first) = i
      BY <1>2
    <3> QED BY <3>1, <2>1
  <2> QED BY <2>1, <2>2, <2>3, <2>4
<1>4. both # <<>>
  BY <1>2, <1>3
<1> HIDE DEF both
<1>5. ASSUME NEW n \in 0..Len(first)
      PROVE  After(role, needs, first, n) \subseteq After(role, needs, both, n)
  BY <1>2, <1>3 DEF After
<1>6. needs \cup gives \subseteq After(role, needs, both, Len(first))
  BY <1>1, <1>2, <1>5 DEF After
<1>7. ASSUME NEW n \in 0..Len(second)
      PROVE  After(role, asks, second, n) \subseteq After(role, needs, both, n + Len(first))
  <2> SUFFICES ASSUME NEW f \in After(role, asks, second, n)
               PROVE  f \in After(role, needs, both, n + Len(first))
    OBVIOUS
  <2>1. CASE f \in asks
    <3>1. f \in After(role, needs, both, Len(first))
      BY <2>1, <1>6
    <3> QED BY <3>1, <1>2, <1>3 DEF After
  <2>2. CASE f \notin asks
    <3>1. PICK i \in DOMAIN second : i <= n /\ Earns(role, second[i], f) /\ f \in Facts
      BY <2>2 DEF After
    <3>2. i + Len(first) \in DOMAIN both /\ i + Len(first) <= n + Len(first)
          /\ Earns(role, both[i + Len(first)], f)
      BY <3>1, <1>2, <1>3
    <3> QED BY <3>1, <3>2 DEF After
  <2> QED BY <2>1, <2>2
<1>8. ASSUME NEW i \in DOMAIN both PROVE Safe(role, After(role, needs, both, i - 1), both[i])
  <2>1. CASE i <= Len(first)
    <3>1. i \in DOMAIN first /\ i - 1 \in 0..Len(first) /\ both[i] = first[i]
      BY <2>1, <1>2, <1>3
    <3> QED BY <3>1, <1>1, <1>5, SafeMonotone
  <2>2. CASE ~(i <= Len(first))
    <3>0. i \in Nat /\ i <= Len(first) + Len(second)
      BY <1>2, <1>3
    <3>j. i - Len(first) \in DOMAIN second /\ i = (i - Len(first)) + Len(first)
      BY <3>0, <2>2, <1>2
    <3>1. PICK j \in DOMAIN second : i = j + Len(first)
      BY <3>j
    <3>2. j - 1 \in 0..Len(second) /\ j - 1 + Len(first) = i - 1 /\ both[i] = second[j]
      BY <3>1, <1>2, <1>3
    <3>3. After(role, asks, second, j - 1) \subseteq After(role, needs, both, i - 1)
      BY <3>2, <1>7
    <3>4. Safe(role, After(role, asks, second, j - 1), second[j])
      BY <1>1
    <3> QED BY <3>2, <3>3, <3>4, SafeMonotone
  <2> QED BY <2>1, <2>2
<1>9. result \subseteq After(role, needs, both, Len(both))
  <2>1. After(role, needs, both, Len(first)) \subseteq After(role, needs, both, Len(both))
    BY <1>2, <1>3 DEF After
  <2>2. adds \subseteq After(role, needs, both, Len(both))
    <3>1. After(role, asks, second, Len(second))
            \subseteq After(role, needs, both, Len(second) + Len(first))
      BY <1>7, <1>2
    <3>2. Len(second) + Len(first) = Len(both)
      BY <1>2, <1>3
    <3> QED BY <3>1, <3>2, <1>1
  <2> QED BY <2>1, <2>2, <1>6
<1>10. Does(role, needs, both, result)
  BY <1>3, <1>4, <1>8, <1>9 DEF Does
<1> QED BY <1>10 DEF both

\* What is safe is safe when more is known before.
LEMMA DoesMonotone ==
  ASSUME NEW role, NEW needs, NEW steps, NEW gives, Does(role, needs, steps, gives),
         NEW more, needs \subseteq more
  PROVE  Does(role, more, steps, gives)
<1>1. \A n : After(role, needs, steps, n) \subseteq After(role, more, steps, n)
  BY DEF After
<1>2. ASSUME NEW i \in DOMAIN steps PROVE Safe(role, After(role, more, steps, i - 1), steps[i])
  <2>1. Safe(role, After(role, needs, steps, i - 1), steps[i])
    BY DEF Does
  <2>2. After(role, needs, steps, i - 1) \subseteq After(role, more, steps, i - 1)
    BY <1>1
  <2> QED BY <2>1, <2>2, SafeMonotone
<1>3. gives \subseteq After(role, more, steps, Len(steps))
  BY <1>1 DEF Does
<1> QED BY <1>2, <1>3 DEF Does

\* The second leaves nothing known that matters later.
LEMMA AndThen ==
  \A role, needs, first, gives, asks, second, adds :
    Does(role, needs, first, gives) /\ Does(role, asks, second,
         adds) /\ asks \subseteq needs \cup gives
      => Does(role, needs, first \o second, gives)
  BY Then

\* What is safe is safe when more is known before, and leaves no less known.
LEMMA Weaken ==
  \A role, needs, steps, gives, more, less :
    Does(role, needs, steps, gives) /\ needs \subseteq more /\ less \subseteq gives
      => Does(role, more, steps, less)
<1> SUFFICES ASSUME NEW role, NEW needs, NEW steps, NEW gives, NEW more, NEW less,
                    Does(role, needs, steps, gives), needs \subseteq more, less \subseteq gives
             PROVE  Does(role, more, steps, less)
  OBVIOUS
<1>1. Does(role, more, steps, gives)
  BY DoesMonotone
<1> QED BY <1>1 DEF Does

\* What To and For do to a list of one statement.
LEMMA Singles ==
  \A s, value : /\ To(value, <<s>>) = <<[s EXCEPT !.to = value]>>
                /\ For(value, <<s>>) = <<[s EXCEPT !.who = value]>>
  BY DEF To, For

\* What one statement leaves known, when it is safe.
Fits(role, needs, s, gives) ==
  /\ Safe(role, needs, s)
  /\ \A f \in gives : f \in needs \/ (f \in Facts /\ Earns(role, s, f))

\* The ways a list of one statement is written.
LEMMA Entries ==
  \A role, needs, gives, do, table, where, who, to :
    /\ Fits(role, needs,
            [do |-> do, table |-> table, where |-> where, who |-> Roles, to |-> ""], gives)
         => Does(role, needs, Step(do, table, where), gives)
    /\ Fits(role, needs,
            [do |-> do, table |-> table, where |-> where, who |-> Roles, to |-> to], gives)
         => Does(role, needs, To(to, Step(do, table, where)), gives)
    /\ Fits(role, needs,
            [do |-> do, table |-> table, where |-> where, who |-> who, to |-> ""], gives)
         => Does(role, needs, For(who, Step(do, table, where)), gives)
    /\ Fits(role, needs,
            [do |-> "require", table |-> "", where |-> {}, who |-> who, to |-> ""], gives)
         => Does(role, needs, Require(who), gives)
<1> TAKE role, needs, gives, do, table, where, who, to
<1>1. ASSUME NEW s, Fits(role, needs, s, gives) PROVE Does(role, needs, <<s>>, gives)
  BY <1>1, Alone DEF Fits
<1>0. PICK same : same = ""
  OBVIOUS
<1> DEFINE s == [do |-> do, table |-> table, where |-> where, who |-> Roles, to |-> same]
<1>2. Step(do, table, where) = <<s>>
  BY <1>0 DEF Step
<1>3. /\ To(to, <<s>>) = <<[s EXCEPT !.to = to]>>
      /\ For(who, <<s>>) = <<[s EXCEPT !.who = who]>>
  BY Singles
<1>4. /\ [s EXCEPT !.to = to]
           = [do |-> do, table |-> table, where |-> where, who |-> Roles, to |-> to]
      /\ [s EXCEPT !.who = who]
           = [do |-> do, table |-> table, where |-> where, who |-> who, to |-> same]
  OBVIOUS
<1>5. Require(who) = <<[do |-> "require", table |-> "", where |-> {}, who |-> who, to |-> ""]>>
  BY DEF Require
<1> HIDE DEF s
<1>6. /\ To(to, Step(do, table, where))
           = <<[do |-> do, table |-> table, where |-> where, who |-> Roles, to |-> to]>>
      /\ For(who, Step(do, table, where))
           = <<[do |-> do, table |-> table, where |-> where, who |-> who, to |-> same]>>
  BY <1>2, <1>3, <1>4
<1> QED BY <1>0, <1>1, <1>2, <1>5, <1>6 DEF s

\* A statement every role goes through, and a list of such statements.
ForAll(s) ==
  /\ s.do # "require"
  /\ \E do, table, where, to :
       s = [do |-> do, table |-> table, where |-> where, who |-> Roles, to |-> to]
Plain(steps) ==
  /\ \E S : steps \in Seq(S)
  /\ steps # <<>>
  /\ \A i \in DOMAIN steps : ForAll(steps[i])

\* One statement is plain, and two lists of plain statements are.
LEMMA PlainLists ==
  /\ \A do, table, where : do # "require" => Plain(Step(do, table, where))
  /\ \A first, second : Plain(first) /\ Plain(second) => Plain(first \o second)
<1>1. ASSUME NEW do, NEW table, NEW where, do # "require" PROVE Plain(Step(do, table, where))
  <2>1. PICK s : s = [do |-> do, table |-> table, where |-> where, who |-> Roles, to |-> ""]
    OBVIOUS
  <2>2. <<s>> \in Seq({s}) /\ <<s>> # <<>> /\ DOMAIN <<s>> = {1} /\ <<s>>[1] = s
    OBVIOUS
  <2>3. s.do = do
    BY <2>1
  <2>4. Step(do, table, where) = <<s>>
    BY <2>1 DEF Step
  <2>5. Plain(<<s>>)
    BY <1>1, <2>1, <2>2, <2>3 DEF Plain, ForAll
  <2> QED BY <2>4, <2>5
<1>2. ASSUME NEW first, NEW second, Plain(first), Plain(second) PROVE Plain(first \o second)
  <2>1. PICK A, B : first \in Seq(A) /\ second \in Seq(B)
    BY <1>2 DEF Plain
  <2>2. first \in Seq(A \cup B) /\ second \in Seq(A \cup B)
    BY <2>1, SeqMonotonic
  <2>3. /\ first \o second \in Seq(A \cup B) /\ Len(first \o second) = Len(first) + Len(second)
        /\ \A i \in 1 .. Len(first) + Len(second) : (first \o second)[i] =
                     IF i <= Len(first) THEN first[i] ELSE second[i - Len(first)]
    BY <2>2, ConcatProperties
  <2>4. /\ Len(first) \in Nat /\ Len(second) \in Nat /\ Len(first) # 0
        /\ DOMAIN first = 1..Len(first) /\ DOMAIN second = 1..Len(second)
        /\ DOMAIN (first \o second) = 1..Len(first \o second)
    BY <1>2, <2>2, <2>3, LenProperties, EmptySeq DEF Plain
  <2>5. first \o second # <<>>
    BY <2>3, <2>4
  <2>6. ASSUME NEW i \in DOMAIN (first \o second)
        PROVE  \/ i \in DOMAIN first /\ (first \o second)[i] = first[i]
               \/ i - Len(first) \in DOMAIN second /\ (first \o second)[i] = second[i - Len(first)]
    BY <2>3, <2>4
  <2>7. \A i \in DOMAIN (first \o second) : ForAll((first \o second)[i])
    BY <1>2, <2>6 DEF Plain
  <2> QED BY <2>3, <2>5, <2>7 DEF Plain
<1> QED BY <1>1, <1>2

\* What For makes of a list of plain statements.
LEMMA ForPlain ==
  ASSUME NEW steps, Plain(steps), NEW who
  PROVE  /\ \E S : For(who, steps) \in Seq(S)
         /\ For(who, steps) # <<>>
         /\ DOMAIN For(who, steps) = DOMAIN steps
         /\ Len(For(who, steps)) = Len(steps)
         /\ \A i \in DOMAIN steps : For(who, steps)[i] = [steps[i] EXCEPT !.who = who]
<1>1. PICK S : steps \in Seq(S)
  BY DEF Plain
<1>2. Len(steps) \in Nat /\ DOMAIN steps = 1..Len(steps)
  BY <1>1, LenProperties
<1> DEFINE T == {[steps[i] EXCEPT !.who = who] : i \in 1..Len(steps)}
           n == Len(steps)
<1>3. For(who, steps) = [i \in 1..n |-> [steps[i] EXCEPT !.who = who]]
  BY <1>2 DEF For
<1>4. \A i \in 1..n : For(who, steps)[i] = [steps[i] EXCEPT !.who = who]
  BY <1>3
<1>5. For(who, steps) \in [1..n -> T]
  BY <1>3
<1> HIDE DEF T, n
<1>6. For(who, steps) \in Seq(T) /\ Len(For(who, steps)) = n
  BY <1>2, <1>5 DEF n
<1>7. DOMAIN For(who, steps) = DOMAIN steps
  BY <1>2, <1>3 DEF n
<1>8. n # 0
  BY <1>1, EmptySeq DEF Plain, n
<1>9. For(who, steps) # <<>>
  BY <1>6, <1>8
<1> QED BY <1>2, <1>4, <1>6, <1>7, <1>9 DEF n

\* Those the statements are not for pass over them; to the others nothing changes.
LEMMA ForSome ==
  ASSUME NEW role \in Roles, NEW who, NEW steps, Plain(steps), NEW needs,
         role \in who => Does(role, needs, steps, {})
  PROVE  Does(role, needs, For(who, steps), {})
<1> DEFINE made == For(who, steps)
<1>1. /\ \E S : made \in Seq(S)
      /\ made # <<>> /\ DOMAIN made = DOMAIN steps /\ Len(made) = Len(steps)
      /\ \A i \in DOMAIN steps : made[i] = [steps[i] EXCEPT !.who = who]
  BY ForPlain
<1> HIDE DEF made
<1>2. ASSUME NEW i \in DOMAIN steps
      PROVE  /\ made[i].do = steps[i].do /\ made[i].table = steps[i].table
             /\ made[i].where = steps[i].where
             /\ made[i].to = steps[i].to /\ made[i].who = who /\ steps[i].who = Roles
             /\ steps[i].do # "require"
  <2>1. PICK do, table, where, to :
          steps[i] = [do |-> do, table |-> table, where |-> where, who |-> Roles, to |-> to]
    BY DEF Plain, ForAll
  <2>2. made[i] = [do |-> do, table |-> table, where |-> where, who |-> who, to |-> to]
    BY <1>1, <2>1
  <2>3. steps[i].do # "require"
    BY DEF Plain, ForAll
  <2> QED BY <2>1, <2>2, <2>3
<1>3. CASE role \notin who
  <2>1. \A i \in DOMAIN made : ~Concerns(role, made[i])
    BY <1>1, <1>2, <1>3 DEF Concerns
  <2> QED BY <1>1, <2>1 DEF Does, Safe, made
<1>4. CASE role \in who
  <2>1. Does(role, needs, steps, {})
    BY <1>4
  <2>2. ASSUME NEW i \in DOMAIN steps, NEW known
        PROVE  /\ Safe(role, known, steps[i]) => Safe(role, known, made[i])
               /\ \A f : Earns(role, steps[i], f) <=> Earns(role, made[i], f)
    <3>1. \A f : Earns(role, steps[i], f) <=> Earns(role, made[i], f)
      <4> TAKE f
      <4>1. PICK s, t : s = steps[i] /\ t = made[i]
        OBVIOUS
      <4>2. /\ s.do = t.do /\ s.table = t.table /\ s.where = t.where /\ role \in s.who
            /\ role \in t.who
            /\ s.do # "require"
        BY <1>2, <1>4, <4>1
      <4>3. Earns(role, s, f) => Earns(role, t, f)
        BY <4>2 DEF Earns
      <4>4. Earns(role, t, f) => Earns(role, s, f)
        BY <4>2 DEF Earns
      <4> QED BY <4>1, <4>3, <4>4
    <3>2. /\ HomeBound(known, steps[i]) => HomeBound(known, made[i])
          /\ OwnBound(known, steps[i]) => OwnBound(known, made[i])
          /\ GuestBound(known, steps[i]) => GuestBound(known, made[i])
          /\ OpenBound(known, steps[i]) => OpenBound(known, made[i])
          /\ OfRecord(made[i]) => OfRecord(steps[i])
          /\ SoundEffect(known, steps[i]) => SoundEffect(known, made[i])
      BY <1>2 DEF HomeBound, OwnBound, GuestBound, OpenBound, SoundEffect, OnTrips, OfRecord
    <3>3. Concerns(role, steps[i])
      BY <1>2 DEF Concerns
    <3>4. Safe(role, known, steps[i]) => Safe(role, known, made[i])
      BY <1>2, <3>2, <3>3 DEF Safe
    <3> QED BY <3>1, <3>4
  <2>3. \A n : After(role, needs, made, n) = After(role, needs, steps, n)
    BY <1>1, <2>2 DEF After
  <2>4. \A i \in DOMAIN made : Safe(role, After(role, needs, made, i - 1), made[i])
    BY <1>1, <2>1, <2>2, <2>3 DEF Does
  <2> QED BY <1>1, <2>4 DEF Does, made
<1> QED BY <1>3, <1>4

\* A route for administrators, asked for by staff: another role does not get past the gate.
LEMMA AdminsOnly ==
  ASSUME NEW role \in Staff, NEW needs, NEW steps, Does("org_admin", needs, steps, {}), NEW more,
         role = "org_admin" => needs \subseteq more
  PROVE  Does(role, more, RequireOrgAdmin \o steps, {})
<1>1. CASE role = "org_admin"
  <2>1. Does(role, {}, RequireOrgAdmin, {})
    BY <1>1, Entries DEF RequireOrgAdmin, Fits, Safe
  <2>2. Does(role, more, RequireOrgAdmin, {})
    BY <2>1, DoesMonotone
  <2> QED BY <1>1, <2>2, AndThen
<1>2. CASE role # "org_admin"
  <2>1. Does(role, {}, RequireOrgAdmin, {"barred"})
    BY <1>2, Entries DEF RequireOrgAdmin, Fits, Safe, Earns, Facts, FactNames
  <2>2. Does(role, more, RequireOrgAdmin, {"barred"})
    BY <2>1, DoesMonotone
  <2>3. Does(role, {"barred"}, steps, {})
    <3>1. \A s, n : Safe(role, After(role, {"barred"}, steps, n), s)
      BY DEF Safe, After
    <3> QED BY <3>1 DEF Does
  <2>4. {"barred"} \subseteq more \cup {"barred"} /\ {} \subseteq more \cup {"barred"} \cup {}
    OBVIOUS
  <2> QED BY <2>2, <2>3, <2>4, Then
<1> QED BY <1>1, <1>2

\* What staff read of their organization, its users and its boats.
LEMMA StaffOrganizations ==
  ASSUME NEW role \in Staff
  PROVE  /\ Does(role, {}, OrganizationByID, {})
         /\ Does(role, {}, UsersForOrg, {})
         /\ Does(role, {}, CountActiveUsersByRole, {})
         /\ Does(role, {}, UpdateUserProfile, {})
         /\ Does(role, {}, BoatByID, {"boat_home"})
         /\ Does(role, {}, BoatsForOrg, {})
         /\ Does(role, {}, BoatCountForOrg, {})
<1> USE Entries, TableNames DEF Find, Show, Put, Try, Tell, TellIfDone, Org, Trip, Boat, Guest,
      FolioForActiveMutation, Staff, Roles, Fits, Safe, Concerns, HomeBound, OwnBound, GuestBound,
      OpenBound, SoundEffect, Told, OnTrips, TablesOf, AdminTables, AdminWrites, BoatWork, Earns,
      Facts, FactNames, OfRecord, RecordTables
<1>1. Does(role, {}, OrganizationByID, {})
  BY DEF OrganizationByID
<1>2. Does(role, {}, UsersForOrg, {})
  BY DEF UsersForOrg
<1>3. Does(role, {}, CountActiveUsersByRole, {})
  BY DEF CountActiveUsersByRole
<1>4. Does(role, {}, UpdateUserProfile, {})
  BY DEF UpdateUserProfile
<1>5. Does(role, {}, BoatByID, {"boat_home"})
  BY DEF BoatByID
<1>6. Does(role, {}, BoatsForOrg, {})
  BY DEF BoatsForOrg
<1>7. Does(role, {}, BoatCountForOrg, {})
  BY DEF BoatCountForOrg
<1> QED BY <1>1, <1>2, <1>3, <1>4, <1>5, <1>6, <1>7

\* What administrators change of their organization.
LEMMA AdminOrganizations ==
  /\ Does("org_admin", {}, UpdateOrganizationProfile, {})
  /\ Does("org_admin", {}, DismissOrganizationOnboarding, {"organizations"})
<1>0. "org_admin" \in Staff
  BY DEF Staff
<1> USE Entries, TableNames DEF Find, Show, Put, Try, Tell, TellIfDone, Org, Trip, Boat, Guest,
      FolioForActiveMutation, Staff, Roles, Fits, Safe, Concerns, HomeBound, OwnBound, GuestBound,
      OpenBound, SoundEffect, Told, OnTrips, TablesOf, AdminTables, AdminWrites, BoatWork, Earns,
      Facts, FactNames, OfRecord, RecordTables
<1>1. Does("org_admin", {}, UpdateOrganizationProfile, {})
  BY DEF UpdateOrganizationProfile
<1>2. Does("org_admin", {}, DismissOrganizationOnboarding, {"organizations"})
  BY DEF DismissOrganizationOnboarding
<1> QED BY <1>1, <1>2

\* The trips of staff: their rows, their readiness, and their start and end.
LEMMA StaffTrips ==
  ASSUME NEW role \in Staff
  PROVE  /\ Does(role, {}, TripByID, {"trip_home"})
         /\ Does(role, {}, TripsForUser, {})
         /\ Does(role, {}, CruiseDirectorAssignmentsByTrip, {})
         /\ Does(role, {"trip_own"}, TripReadiness, {})
         /\ Does(role, {"trip_own"}, StartTrip, {})
         /\ Does(role, {"trip_own"}, CompleteTrip, {})
<1> USE Entries, TableNames DEF Find, Show, Put, Try, Tell, TellIfDone, Org, Trip, Boat, Guest,
      FolioForActiveMutation, Staff, Roles, Fits, Safe, Concerns, HomeBound, OwnBound, GuestBound,
      OpenBound, SoundEffect, Told, OnTrips, TablesOf, AdminTables, AdminWrites, BoatWork, Earns,
      Facts, FactNames, OfRecord, RecordTables
<1>1. Does(role, {}, TripByID, {"trip_home"})
  BY DEF TripByID
<1>2. Does(role, {}, TripsForUser, {})
  BY DEF TripsForUser
<1>3. Does(role, {}, CruiseDirectorAssignmentsByTrip, {})
  BY DEF CruiseDirectorAssignmentsByTrip
<1>4. Does(role, {"trip_own"}, Show("trip_guests", Trip), {})
  OBVIOUS
<1>5. Does(role, {"trip_own"}, Show("guest_folios", Trip), {})
  OBVIOUS
<1>6. Does(role, {"trip_own"}, To("active", Put("trips", Trip \cup {"planned"})), {})
  OBVIOUS
<1>7. Does(role, {"trip_own"}, To("ended", Put("trips", Trip \cup {"active"})), {})
  OBVIOUS
<1> HIDE Entries, TableNames DEF Find, Show, Put, Try, Tell, TellIfDone, Org, Trip, Boat, Guest,
      FolioForActiveMutation, Staff, Roles, Fits, Safe, Concerns, HomeBound, OwnBound, GuestBound,
      OpenBound, SoundEffect, Told, OnTrips, TablesOf, AdminTables, AdminWrites, BoatWork, Earns,
      Facts, FactNames, OfRecord, RecordTables
<1>8. Does(role, {"trip_own"}, TripReadiness, {})
  BY <1>1, <1>4, <1>5, AndThen, Weaken DEF TripReadiness
<1>9. Does(role, {"trip_own"}, StartTrip, {})
  BY <1>8, <1>6, AndThen DEF StartTrip
<1>10. Does(role, {"trip_own"}, CompleteTrip, {})
  BY <1>8, <1>7, AndThen DEF CompleteTrip
<1> QED BY <1>1, <1>2, <1>3, <1>8, <1>9, <1>10

\* The trips of administrators: imports, cancelling, and who directs them.
LEMMA AdminTrips ==
  /\ Does("org_admin", {"boat_home"}, TripsForBoat, {})
  /\ Does("org_admin", {}, ReplaceTrips, {})
  /\ Does("org_admin", {}, TripsNeedingAttention, {})
  /\ Does("org_admin", {}, TripCountForOrg, {})
  /\ Does("org_admin", {"trip_home"}, CruiseDirectorIDsForTrip, {})
  /\ Does("org_admin", {"director_home", "trip_home", "trip_open"}, AssignCruiseDirector, {})
  /\ Does("org_admin", {"trip_home", "trip_open"}, UnassignCruiseDirector, {})
  /\ Does("org_admin", {}, CancelTrip, {})
<1>0. "org_admin" \in Staff
  BY DEF Staff
<1> USE Entries, TableNames DEF Find, Show, Put, Try, Tell, TellIfDone, Org, Trip, Boat, Guest,
      FolioForActiveMutation, Staff, Roles, Fits, Safe, Concerns, HomeBound, OwnBound, GuestBound,
      OpenBound, SoundEffect, Told, OnTrips, TablesOf, AdminTables, AdminWrites, BoatWork, Earns,
      Facts, FactNames, OfRecord, RecordTables
<1>1. Does("org_admin", {"boat_home"}, TripsForBoat, {})
  BY DEF TripsForBoat
<1>2. Does("org_admin", {}, ReplaceTrips, {})
  BY DEF ReplaceTrips
<1>3. Does("org_admin", {}, TripsNeedingAttention, {})
  BY DEF TripsNeedingAttention
<1>4. Does("org_admin", {}, TripCountForOrg, {})
  BY DEF TripCountForOrg
<1>5. Does("org_admin", {"trip_home"}, CruiseDirectorIDsForTrip, {})
  BY DEF CruiseDirectorIDsForTrip
<1>6. Does("org_admin", {"director_home", "trip_home", "trip_open"}, AssignCruiseDirector, {})
  BY DEF AssignCruiseDirector
<1>7. Does("org_admin", {"trip_home", "trip_open"}, UnassignCruiseDirector, {})
  BY DEF UnassignCruiseDirector
<1>8. Does("org_admin", {}, CancelTrip, {})
  BY DEF CancelTrip
<1> QED BY <1>1, <1>2, <1>3, <1>4, <1>5, <1>6, <1>7, <1>8

\* Cabin layouts, and the berths of guests, for staff.
LEMMA StaffCabins ==
  ASSUME NEW role \in Staff
  PROVE  /\ Does(role, {"boat_own"}, BoatCabinLayout, {})
         /\ Does(role, {}, PreviewCabinLayout, {})
         /\ Does(role, {"boat_own"}, ReplaceBoatCabinLayout, {})
         /\ Does(role, {"boat_own"}, UpdateBoatCabin, {})
         /\ Does(role, {"boat_own"}, UpdateBoatBerth, {})
         /\ Does(role, {"boat_own"}, DeactivateBoatCabin, {})
         /\ Does(role, {"boat_own"}, DeactivateBoatBerth, {})
         /\ Does(role, {"trip_open", "trip_own"}, AssignTripGuestBerth,
                 {"trip_cabin_assignments"})
         /\ Does(role, {"trip_own"}, UnassignTripGuestBerth, {})
         /\ Does(role, {"trip_own"}, TripCabinBoard, {})
         /\ Does(role, {"trip_own"}, PreviousBerth, {})
         /\ Does(role, {}, BoatHasUsableLayout, {})
         /\ Does(role, {}, UnconfiguredBoatCount, {})
         /\ Does(role, {}, UnconfiguredBoats, {})
<1> USE Entries, TableNames DEF Find, Show, Put, Try, Tell, TellIfDone, Org, Trip, Boat, Guest,
      FolioForActiveMutation, Staff, Roles, Fits, Safe, Concerns, HomeBound, OwnBound, GuestBound,
      OpenBound, SoundEffect, Told, OnTrips, TablesOf, AdminTables, AdminWrites, BoatWork, Earns,
      Facts, FactNames, OfRecord, RecordTables
<1>1. Does(role, {"boat_own"}, UpdateBoatCabin, {})
  BY DEF UpdateBoatCabin
<1>2. Does(role, {"boat_own"}, UpdateBoatBerth, {})
  BY DEF UpdateBoatBerth
<1>3. Does(role, {"boat_own"}, DeactivateBoatBerth, {})
  BY DEF DeactivateBoatBerth
<1>4. Does(role, {"trip_open", "trip_own"}, AssignTripGuestBerth, {"trip_cabin_assignments"})
  BY DEF AssignTripGuestBerth
<1>5. Does(role, {"trip_own"}, UnassignTripGuestBerth, {})
  BY DEF UnassignTripGuestBerth
<1>6. Does(role, {}, BoatActiveBerthCount, {})
  BY DEF BoatActiveBerthCount
<1>7. Does(role, {}, UnconfiguredBoatCount, {})
  BY DEF UnconfiguredBoatCount
<1>8. Does(role, {}, UnconfiguredBoats, {})
  BY DEF UnconfiguredBoats
<1>9. Does(role, {"boat_own"}, Show("boat_cabins", Boat), {})
  OBVIOUS
<1>10. Does(role, {"boat_own"}, Show("boat_cabin_berths", Boat), {})
  OBVIOUS
<1>11. Does(role, {"boat_own"}, Put("boat_cabins", Boat \cup {"not_in_use"}), {})
  OBVIOUS
<1>12. Does(role, {"boat_own"}, Put("boat_cabins", Boat \cup {"id", "not_in_use"}), {})
  OBVIOUS
<1>13. Does(role, {"boat_own"}, Try("boat_cabin_berths", Boat), {})
  OBVIOUS
<1>14. Does(role, {"trip_own"}, Show("boat_cabins", Org \cup {"boat_of_trip"}), {})
  OBVIOUS
<1>15. Does(role, {"trip_own"}, Show("trip_guests", Trip \cup {"not_revoked"}), {})
  OBVIOUS
<1> HIDE Entries, TableNames DEF Find, Show, Put, Try, Tell, TellIfDone, Org, Trip, Boat, Guest,
      FolioForActiveMutation, Staff, Roles, Fits, Safe, Concerns, HomeBound, OwnBound, GuestBound,
      OpenBound, SoundEffect, Told, OnTrips, TablesOf, AdminTables, AdminWrites, BoatWork, Earns,
      Facts, FactNames, OfRecord, RecordTables
<1>16. Does(role, {"boat_own"}, BoatCabinLayout, {})
  BY StaffOrganizations, <1>9, <1>10, AndThen, Weaken DEF BoatCabinLayout
<1>17. Does(role, {}, PreviewCabinLayout, {})
  BY StaffOrganizations, Weaken DEF PreviewCabinLayout
<1>18. Does(role, {"boat_own"}, ReplaceBoatCabinLayout, {})
  BY <1>17, <1>11, <1>16, AndThen, Weaken DEF ReplaceBoatCabinLayout
<1>19. Does(role, {"boat_own"}, DeactivateBoatCabin, {})
  BY <1>12, <1>13, AndThen DEF DeactivateBoatCabin
<1>20. Does(role, {"trip_own"}, TripCabinBoard, {})
  BY StaffTrips, <1>14, <1>15, AndThen, Weaken DEF TripCabinBoard
<1>22. Does(role, {"trip_own"}, PreviousBerth, {})
  BY <1>14, <1>15, AndThen DEF PreviousBerth
<1>21. Does(role, {}, BoatHasUsableLayout, {})
  BY <1>6 DEF BoatHasUsableLayout
<1> QED BY <1>16, <1>17, <1>18, <1>1, <1>2, <1>19, <1>3, <1>4, <1>5, <1>20, <1>22, <1>21, <1>7,
  <1>8

\* The manifest, invitations, registrations and documents, for staff.
LEMMA StaffGuests ==
  ASSUME NEW role \in Staff
  PROVE  /\ Does(role, {"trip_own"}, TripManifest, {})
         /\ Does(role, {}, TripManifestSummaries, {})
         /\ Does(role, {"trip_own"}, TripManifestSummary, {})
         /\ Does(role, {}, TripGuestByID, {"guest_home", "guest_in_trip"})
         /\ Does(role, {"trip_open", "trip_own"}, CreateTripGuestInvite,
                 {"guest_home", "guest_in_trip", "trip_guests"})
         /\ Does(role, {"trip_open", "trip_own"}, ResendTripGuestInvite,
                 {"guest_home", "guest_in_trip", "trip_guests"})
         /\ Does(role, {"trip_open", "trip_own"}, RevokeTripGuestInvite, {"trip_guests"})
         /\ Does(role, {"guest_home", "guest_in_trip", "trip_open", "trip_own"},
                 MarkTripGuestInvite, {})
         /\ Does(role, {"guest_home", "guest_in_trip", "trip_own"}, GuestRegistrationByTripGuest,
                 {})
         /\ Does(role, {"trip_open", "trip_own"}, CreateGuestDocument, {"guest_documents"})
         /\ Does(role, {"trip_own"}, GuestDocumentsForTripGuest, {})
         /\ Does(role, {"trip_own"}, GuestDocumentByID, {"documents_shown"})
         /\ Does(role, {"trip_open", "trip_own"}, ArchiveGuestDocument, {"guest_documents"})
         /\ Does(role, {}, AuditEvents, {})
         /\ Does(role, {"trip_own"}, AuditEventsForTripGuest, {})
<1> USE Entries, TableNames DEF Find, Show, Put, Try, Tell, TellIfDone, Org, Trip, Boat, Guest,
      FolioForActiveMutation, Staff, Roles, Fits, Safe, Concerns, HomeBound, OwnBound, GuestBound,
      OpenBound, SoundEffect, Told, OnTrips, TablesOf, AdminTables, AdminWrites, BoatWork, Earns,
      Facts, FactNames, OfRecord, RecordTables
<1>1. Does(role, {"trip_own"}, TripManifest, {})
  BY DEF TripManifest
<1>2. Does(role, {}, TripManifestSummaries, {})
  BY DEF TripManifestSummaries
<1>21. Does(role, {"trip_own"}, TripManifestSummary, {})
  BY DEF TripManifestSummary
<1>3. Does(role, {}, TripGuestByID, {"guest_home", "guest_in_trip"})
  BY DEF TripGuestByID
<1>4. Does(role, {"trip_open", "trip_own"}, ResendTripGuestInvite,
           {"guest_home", "guest_in_trip", "trip_guests"})
  BY DEF ResendTripGuestInvite
<1>5. Does(role, {"trip_open", "trip_own"}, RevokeTripGuestInvite, {"trip_guests"})
  BY DEF RevokeTripGuestInvite
<1>6. Does(role, {"guest_home", "guest_in_trip", "trip_open", "trip_own"}, MarkTripGuestInvite,
           {})
  BY DEF MarkTripGuestInvite
<1>7. Does(role, {"guest_home", "guest_in_trip", "trip_own"}, GuestRegistrationByTripGuest, {})
  BY DEF GuestRegistrationByTripGuest
<1>8. Does(role, {"trip_open", "trip_own"}, CreateGuestDocument, {"guest_documents"})
  BY DEF CreateGuestDocument
<1>9. Does(role, {"trip_own"}, GuestDocumentsForTripGuest, {})
  BY DEF GuestDocumentsForTripGuest
<1>10. Does(role, {"trip_open", "trip_own"}, ArchiveGuestDocument, {"guest_documents"})
  BY DEF ArchiveGuestDocument
<1>11. Does(role, {"trip_own"}, AuditEventsForTripGuest, {})
  BY DEF AuditEventsForTripGuest
<1>12. Does(role, {"trip_open", "trip_own"}, To("invited", Put("trip_guests", Guest)),
            {"guest_home", "guest_in_trip", "trip_guests"})
  OBVIOUS
<1>13. Does(role, {"trip_open", "trip_own"},
            Put("trip_cabin_assignments", Guest \cup {"laid_out"}), {})
  OBVIOUS
<1>14. Does(role, {}, Find("guest_documents", Guest), {})
  OBVIOUS
<1>15. Does(role, {"trip_own"}, Show("guest_documents", Guest), {"documents_shown"})
  OBVIOUS
<1>16. Does(role, {}, Admin(Show("audit_events", Org)), {})
  BY DEF Admin
<1>17. Does(role, {}, Director(Show("audit_events", Org \cup {"mine_or_no_trip"})), {})
  BY DEF Director
<1> HIDE Entries, TableNames DEF Find, Show, Put, Try, Tell, TellIfDone, Org, Trip, Boat, Guest,
      FolioForActiveMutation, Staff, Roles, Fits, Safe, Concerns, HomeBound, OwnBound, GuestBound,
      OpenBound, SoundEffect, Told, OnTrips, TablesOf, AdminTables, AdminWrites, BoatWork, Earns,
      Facts, FactNames, OfRecord, RecordTables
<1>18. Does(role, {"trip_open", "trip_own"}, CreateTripGuestInvite,
            {"guest_home", "guest_in_trip", "trip_guests"})
  BY <1>12, <1>13, Then DEF CreateTripGuestInvite
<1>19. Does(role, {"trip_own"}, GuestDocumentByID, {"documents_shown"})
  <2>1. Does(role, {"trip_own"}, Find("guest_documents", Guest), {})
    BY <1>14, Weaken
  <2> QED BY <2>1, <1>15, Then DEF GuestDocumentByID
<1>20. Does(role, {}, AuditEvents, {})
  BY <1>16, <1>17, AndThen DEF AuditEvents
<1> QED BY <1>1, <1>2, <1>21, <1>3, <1>18, <1>4, <1>5, <1>6, <1>7, <1>8, <1>9, <1>19, <1>10,
  <1>20, <1>11

\* A guest's registration and documents, for the guest.
LEMMA CallerGuests ==
  /\ Does("guest", {}, AssertTripGuestAccess, {"guest_home", "guest_in_trip", "guest_own"})
  /\ Does("guest", {"guest_home", "guest_own"}, GuestRegistrationByTripGuest, {})
  /\ Does("guest", {"guest_home", "guest_in_trip", "guest_own", "trip_open"},
          SaveGuestRegistration, {})
  /\ Does("guest", {"guest_own", "trip_open"}, CreateGuestDocument, {"guest_documents"})
  /\ Does("guest", {"guest_own"}, GuestDocumentsForTripGuest, {})
  /\ Does("guest", {"guest_own"}, GuestDocumentByID, {"documents_shown"})
<1> USE Entries, TableNames DEF Find, Show, Put, Try, Tell, TellIfDone, Org, Trip, Boat, Guest,
      FolioForActiveMutation, Staff, Roles, Fits, Safe, Concerns, HomeBound, OwnBound, GuestBound,
      OpenBound, SoundEffect, Told, OnTrips, TablesOf, AdminTables, AdminWrites, BoatWork, Earns,
      Facts, FactNames, OfRecord, RecordTables
<1>1. Does("guest", {}, AssertTripGuestAccess, {"guest_home", "guest_in_trip", "guest_own"})
  BY DEF AssertTripGuestAccess
<1>2. Does("guest", {"guest_home", "guest_own"}, GuestRegistrationByTripGuest, {})
  BY DEF GuestRegistrationByTripGuest
<1>3. Does("guest", {"guest_home", "guest_in_trip", "guest_own", "trip_open"},
           SaveGuestRegistration, {})
  BY DEF SaveGuestRegistration
<1>4. Does("guest", {"guest_own", "trip_open"}, CreateGuestDocument, {"guest_documents"})
  BY DEF CreateGuestDocument
<1>5. Does("guest", {"guest_own"}, GuestDocumentsForTripGuest, {})
  BY DEF GuestDocumentsForTripGuest
<1>6. Does("guest", {}, Find("guest_documents", Guest), {})
  OBVIOUS
<1>7. Does("guest", {"guest_own"}, Show("guest_documents", Guest), {"documents_shown"})
  OBVIOUS
<1> HIDE Entries, TableNames DEF Find, Show, Put, Try, Tell, TellIfDone, Org, Trip, Boat, Guest,
      FolioForActiveMutation, Staff, Roles, Fits, Safe, Concerns, HomeBound, OwnBound, GuestBound,
      OpenBound, SoundEffect, Told, OnTrips, TablesOf, AdminTables, AdminWrites, BoatWork, Earns,
      Facts, FactNames, OfRecord, RecordTables
<1>8. Does("guest", {"guest_own"}, GuestDocumentByID, {"documents_shown"})
  <2>1. Does("guest", {"guest_own"}, Find("guest_documents", Guest), {})
    BY <1>6, Weaken
  <2> QED BY <2>1, <1>7, Then DEF GuestDocumentByID
<1> QED BY <1>1, <1>2, <1>3, <1>4, <1>5, <1>8

\* Folios, their lines, stock and the catalog, for staff.
LEMMA StaffFolios ==
  ASSUME NEW role \in Staff
  PROVE  /\ Does(role, {"trip_own"}, TripConsumptionLedger, {})
         /\ Does(role, {"trip_own"}, GuestFolioByTripGuest,
                 {"folio_shown", "guest_home", "guest_in_trip"})
         /\ Does(role, {"trip_open", "trip_own"}, OpenGuestFolio, {"guest_folios"})
         /\ Does(role, {"trip_own"}, AddGuestFolioLine, {"guest_folio_lines"})
         /\ Does(role, {"trip_own"}, UpdateGuestFolioLine, {"guest_folio_lines"})
         /\ Does(role, {"trip_own"}, DeleteGuestFolioLine, {"guest_folio_lines"})
         /\ Does(role, {"trip_own"}, CloseGuestFolio,
                 {"guest_folios", "guest_home", "guest_in_trip"})
         /\ Does(role, {"guest_home", "guest_in_trip", "trip_own"}, MarkGuestFolioEmail,
                 {})
         /\ Does(role, {}, CatalogCategories, {})
         /\ Does(role, {}, CreateCatalogCategory, {})
         /\ Does(role, {}, UpdateCatalogCategory, {})
         /\ Does(role, {}, CatalogItems, {})
         /\ Does(role, {}, CatalogItemByID, {})
         /\ Does(role, {}, CreateCatalogItem, {})
         /\ Does(role, {}, UpdateCatalogItem, {})
         /\ Does(role, {}, SeedDefaultCatalog, {})
         /\ Does(role, {}, EnsureCatalogItemInOrg, {})
         /\ Does(role, {"boat_own"}, BoatInventory, {})
         /\ Does(role, {"boat_own"}, SetBoatInventoryItem, {})
         /\ Does(role, {"boat_own"}, AdjustStock, {"boat_inventory_items"})
<1> USE Entries, TableNames DEF Find, Show, Put, Try, Tell, TellIfDone, Org, Trip, Boat, Guest,
      FolioForActiveMutation, Staff, Roles, Fits, Safe, Concerns, HomeBound, OwnBound, GuestBound,
      OpenBound, SoundEffect, Told, OnTrips, TablesOf, AdminTables, AdminWrites, BoatWork, Earns,
      Facts, FactNames, OfRecord, RecordTables
<1>1. Does(role, {"guest_home", "guest_in_trip", "trip_own"}, MarkGuestFolioEmail, {})
  BY DEF MarkGuestFolioEmail
<1>2. Does(role, {}, CatalogCategories, {})
  BY DEF CatalogCategories
<1>3. Does(role, {}, CreateCatalogCategory, {})
  BY DEF CreateCatalogCategory
<1>4. Does(role, {}, UpdateCatalogCategory, {})
  BY DEF UpdateCatalogCategory
<1>5. Does(role, {}, CatalogItems, {})
  BY DEF CatalogItems
<1>6. Does(role, {}, CatalogItemByID, {})
  BY DEF CatalogItemByID
<1>7. Does(role, {}, EnsureCategoryInOrg, {})
  BY DEF EnsureCategoryInOrg
<1>8. Does(role, {}, EnsureCatalogItemInOrg, {})
  BY DEF EnsureCatalogItemInOrg
<1>9. Does(role, {}, Show("catalog_items", Org), {})
  OBVIOUS
<1>10. Does(role, {"trip_own"}, Show("trip_guests", Trip \cup {"not_revoked"}), {})
  OBVIOUS
<1>11. Does(role, {"trip_own"}, Show("guest_folio_lines", Trip), {})
  OBVIOUS
<1>12. Does(role, {}, Find("guest_folios", Guest), {"guest_home", "guest_in_trip"})
  OBVIOUS
<1>13. Does(role, {"trip_own"}, Show("guest_folios", Guest), {"folio_shown"})
  OBVIOUS
<1>14. Does(role, {"trip_own"}, Show("guest_folio_lines", Guest), {})
  OBVIOUS
<1>15. Does(role, {"trip_open", "trip_own"}, Put("guest_folios", Guest \cup {"not_revoked"}),
            {"guest_folios"})
  OBVIOUS
<1>16. Does(role, {"trip_own"}, Put("guest_folio_lines", FolioForActiveMutation),
            {"guest_folio_lines"})
  OBVIOUS
<1>17. Does(role, {"trip_own"}, To("closed", Put("guest_folios", Guest \cup {"not_revoked"})),
            {"guest_folios", "guest_home", "guest_in_trip"})
  OBVIOUS
<1>18. Does(role, {}, Put("catalog_items", Org), {})
  OBVIOUS
<1>19. Does(role, {}, Put("catalog_items", Org \cup {"id"}), {})
  OBVIOUS
<1>20. Does(role, {}, Put("catalog_categories", Org), {})
  OBVIOUS
<1>21. Does(role, {"boat_own"}, Show("boat_inventory_items", Boat), {})
  OBVIOUS
<1>22. Does(role, {"boat_own"}, Put("boat_inventory_items", Boat), {"boat_inventory_items"})
  OBVIOUS
<1> HIDE Entries, TableNames DEF Find, Show, Put, Try, Tell, TellIfDone, Org, Trip, Boat, Guest,
      FolioForActiveMutation, Staff, Roles, Fits, Safe, Concerns, HomeBound, OwnBound, GuestBound,
      OpenBound, SoundEffect, Told, OnTrips, TablesOf, AdminTables, AdminWrites, BoatWork, Earns,
      Facts, FactNames, OfRecord, RecordTables
<1>23. Does(role, {"trip_own"}, TripConsumptionLedger, {})
  BY StaffTrips, <1>9, <1>10, <1>11, AndThen, Weaken DEF TripConsumptionLedger
<1>24. Does(role, {"trip_own"}, GuestFolioByTripGuest,
            {"folio_shown", "guest_home", "guest_in_trip"})
  <2>1. Does(role, {"trip_own"}, Find("guest_folios", Guest), {"guest_home", "guest_in_trip"})
    BY <1>12, Weaken
  <2>2. Does(role, {"trip_own"}, Find("guest_folios", Guest) \o Show("guest_folios", Guest),
             {"folio_shown", "guest_home", "guest_in_trip"})
    BY <2>1, <1>13, Then
  <2> QED BY <2>2, <1>14, Then DEF GuestFolioByTripGuest
<1>25. Does(role, {"trip_open", "trip_own"}, OpenGuestFolio, {"guest_folios"})
  BY <1>15, <1>24, Then DEF OpenGuestFolio
<1>26. Does(role, {"trip_own"}, AddGuestFolioLine, {"guest_folio_lines"})
  BY <1>16, <1>24, Then DEF AddGuestFolioLine
<1>27. Does(role, {"trip_own"}, UpdateGuestFolioLine, {"guest_folio_lines"})
  BY <1>16, <1>24, Then DEF UpdateGuestFolioLine
<1>28. Does(role, {"trip_own"}, DeleteGuestFolioLine, {"guest_folio_lines"})
  BY <1>16, <1>24, Then DEF DeleteGuestFolioLine
<1>29. Does(role, {"trip_own"}, CloseGuestFolio,
            {"guest_folios", "guest_home", "guest_in_trip"})
  BY <1>17, <1>24, Then DEF CloseGuestFolio
<1>30. Does(role, {}, CreateCatalogItem, {})
  BY <1>7, <1>18, AndThen DEF CreateCatalogItem
<1>31. Does(role, {}, UpdateCatalogItem, {})
  BY <1>7, <1>19, AndThen DEF UpdateCatalogItem
<1>32. Does(role, {}, SeedDefaultCatalog, {})
  BY <1>20, <1>18, AndThen DEF SeedDefaultCatalog
<1>33. Does(role, {}, ValidateBoatAndCountedItem, {})
  BY StaffOrganizations, <1>6, AndThen, Weaken DEF ValidateBoatAndCountedItem
<1>34. Does(role, {"boat_own"}, BoatInventory, {})
  BY StaffOrganizations, <1>21, AndThen, Weaken DEF BoatInventory
<1>35. Does(role, {"boat_own"}, SetBoatInventoryItem, {})
  BY <1>33, <1>22, AndThen, Weaken DEF SetBoatInventoryItem
<1>36. Does(role, {"boat_own"}, AdjustStock, {"boat_inventory_items"})
  <2>1. Does(role, {"boat_own"}, ValidateBoatAndCountedItem, {})
    BY <1>33, Weaken
  <2> QED BY <2>1, <1>22, Then DEF AdjustStock
<1> QED BY <1>23, <1>24, <1>25, <1>26, <1>27, <1>28, <1>29, <1>1, <1>2, <1>3, <1>4, <1>5, <1>6,
  <1>30, <1>31, <1>32, <1>8, <1>34, <1>35, <1>36

\* Price overrides and the fleet's inventory, for administrators.
LEMMA AdminFolios ==
  /\ Does("org_admin", {}, ListCatalogPriceOverrides, {})
  /\ Does("org_admin", {}, UpsertBoatPriceOverride, {"catalog_price_overrides"})
  /\ Does("org_admin", {}, UpsertTripPriceOverride, {"catalog_price_overrides"})
  /\ Does("org_admin", {}, ArchiveCatalogPriceOverride, {"catalog_price_overrides"})
  /\ Does("org_admin", {}, InventoryFleetSummary, {})
<1>0. "org_admin" \in Staff
  BY DEF Staff
<1> USE Entries, TableNames DEF Find, Show, Put, Try, Tell, TellIfDone, Org, Trip, Boat, Guest,
      FolioForActiveMutation, Staff, Roles, Fits, Safe, Concerns, HomeBound, OwnBound, GuestBound,
      OpenBound, SoundEffect, Told, OnTrips, TablesOf, AdminTables, AdminWrites, BoatWork, Earns,
      Facts, FactNames, OfRecord, RecordTables
<1>1. Does("org_admin", {}, ListCatalogPriceOverrides, {})
  BY DEF ListCatalogPriceOverrides
<1>2. Does("org_admin", {}, ArchiveCatalogPriceOverride, {"catalog_price_overrides"})
  BY DEF ArchiveCatalogPriceOverride
<1>3. Does("org_admin", {}, InventoryFleetSummary, {})
  BY DEF InventoryFleetSummary
<1>4. Does("org_admin", {}, Put("catalog_price_overrides", Boat \cup {"of_a_boat"}),
           {"catalog_price_overrides"})
  OBVIOUS
<1>5. Does("org_admin", {}, Put("catalog_price_overrides", Trip \cup {"of_a_trip"}),
           {"catalog_price_overrides"})
  OBVIOUS
<1> HIDE Entries, TableNames DEF Find, Show, Put, Try, Tell, TellIfDone, Org, Trip, Boat, Guest,
      FolioForActiveMutation, Staff, Roles, Fits, Safe, Concerns, HomeBound, OwnBound, GuestBound,
      OpenBound, SoundEffect, Told, OnTrips, TablesOf, AdminTables, AdminWrites, BoatWork, Earns,
      Facts, FactNames, OfRecord, RecordTables
<1>6. Does("org_admin", {}, UpsertBoatPriceOverride, {"catalog_price_overrides"})
  <2>1. Does("org_admin", {}, EnsureCatalogItemInOrg \o BoatByID, {})
    BY <1>0, StaffFolios, StaffOrganizations, AndThen
  <2> QED BY <2>1, <1>4, Then DEF UpsertBoatPriceOverride
<1>7. Does("org_admin", {}, UpsertTripPriceOverride, {"catalog_price_overrides"})
  <2>1. Does("org_admin", {}, EnsureCatalogItemInOrg, {})
    BY <1>0, StaffFolios, Weaken
  <2>2. Does("org_admin", {}, EnsureCatalogItemInOrg \o TripByID, {})
    BY <1>0, <2>1, StaffTrips, AndThen
  <2> QED BY <2>2, <1>5, Then DEF UpsertTripPriceOverride
<1> QED BY <1>1, <1>6, <1>7, <1>2, <1>3

\* Payment settings, quotes, and the previews and invitations of an organization.
LEMMA StaffPayments ==
  ASSUME NEW role \in Staff
  PROVE  /\ Does(role, {}, PaymentSettings, {})
         /\ Does(role, {}, UpdatePaymentSettings, {"organization_payment_settings"})
         /\ Does(role, {}, CreateCheckoutQuote, {})
         /\ Does(role, {}, ImportPreviewByID, {})
         /\ Does(role, {}, InvitationByID, {})
<1> USE Entries, TableNames DEF Find, Show, Put, Try, Tell, TellIfDone, Org, Trip, Boat, Guest,
      FolioForActiveMutation, Staff, Roles, Fits, Safe, Concerns, HomeBound, OwnBound, GuestBound,
      OpenBound, SoundEffect, Told, OnTrips, TablesOf, AdminTables, AdminWrites, BoatWork, Earns,
      Facts, FactNames, OfRecord, RecordTables
<1>1. Does(role, {}, EnsurePaymentSettings, {})
  BY DEF EnsurePaymentSettings
<1>2. Does(role, {}, LatestExchangeRate, {})
  BY DEF LatestExchangeRate
<1>3. Does(role, {}, ImportPreviewByID, {})
  BY DEF ImportPreviewByID
<1>4. Does(role, {}, InvitationByID, {})
  BY DEF InvitationByID
<1>5. Does(role, {}, Show("organization_payment_settings", Org), {})
  OBVIOUS
<1>6. Does(role, {}, Put("organization_payment_settings", Org), {"organization_payment_settings"})
  OBVIOUS
<1>7. Does(role, {}, Put("checkout_quotes", Org), {})
  OBVIOUS
<1> HIDE Entries, TableNames DEF Find, Show, Put, Try, Tell, TellIfDone, Org, Trip, Boat, Guest,
      FolioForActiveMutation, Staff, Roles, Fits, Safe, Concerns, HomeBound, OwnBound, GuestBound,
      OpenBound, SoundEffect, Told, OnTrips, TablesOf, AdminTables, AdminWrites, BoatWork, Earns,
      Facts, FactNames, OfRecord, RecordTables
<1>8. Does(role, {}, PaymentSettings, {})
  BY <1>1, <1>5, AndThen DEF PaymentSettings
<1>9. Does(role, {}, UpdatePaymentSettings, {"organization_payment_settings"})
  BY <1>1, <1>6, Then DEF UpdatePaymentSettings
<1>10. Does(role, {}, CreateCheckoutQuote, {})
  BY StaffFolios, <1>2, <1>7, AndThen DEF CreateCheckoutQuote
<1> QED BY <1>8, <1>9, <1>10, <1>3, <1>4

\* Exchange rates, imports and staff invitations, for administrators.
LEMMA AdminPayments ==
  /\ Does("org_admin", {}, LatestExchangeRates, {})
  /\ Does("org_admin", {}, UpsertExchangeRate, {})
  /\ Does("org_admin", {}, CreateImportJob, {})
  /\ Does("org_admin", {}, ImportJobByID, {})
  /\ Does("org_admin", {}, CreateImportPreview, {})
  /\ Does("org_admin", {}, DeleteImportPreview, {})
  /\ Does("org_admin", {}, CreateInvitation, {"invitations"})
  /\ Does("org_admin", {}, PendingInvitationsForOrg, {})
  /\ Does("org_admin", {}, RotateInvitationToken, {"invitations"})
  /\ Does("org_admin", {}, RevokeInvitation, {})
<1>0. "org_admin" \in Staff
  BY DEF Staff
<1> USE Entries, TableNames DEF Find, Show, Put, Try, Tell, TellIfDone, Org, Trip, Boat, Guest,
      FolioForActiveMutation, Staff, Roles, Fits, Safe, Concerns, HomeBound, OwnBound, GuestBound,
      OpenBound, SoundEffect, Told, OnTrips, TablesOf, AdminTables, AdminWrites, BoatWork, Earns,
      Facts, FactNames, OfRecord, RecordTables
<1>1. Does("org_admin", {}, LatestExchangeRates, {})
  BY DEF LatestExchangeRates
<1>2. Does("org_admin", {}, UpsertExchangeRate, {})
  BY DEF UpsertExchangeRate
<1>3. Does("org_admin", {}, CreateImportJob, {})
  BY DEF CreateImportJob
<1>4. Does("org_admin", {}, CreateImportPreview, {})
  BY DEF CreateImportPreview
<1>5. Does("org_admin", {}, DeleteImportPreview, {})
  BY DEF DeleteImportPreview
<1>6. Does("org_admin", {}, CreateInvitation, {"invitations"})
  BY DEF CreateInvitation
<1>7. Does("org_admin", {}, PendingInvitationsForOrg, {})
  BY DEF PendingInvitationsForOrg
<1>8. Does("org_admin", {}, RotateInvitationToken, {"invitations"})
  BY DEF RotateInvitationToken
<1>9. Does("org_admin", {}, RevokeInvitation, {})
  BY DEF RevokeInvitation
<1>10. Does("org_admin", {}, Find("import_jobs", Org \cup {"id"}), {})
  OBVIOUS
<1>11. Does("org_admin", {}, Show("import_jobs", Org \cup {"id"}), {})
  OBVIOUS
<1> HIDE Entries, TableNames DEF Find, Show, Put, Try, Tell, TellIfDone, Org, Trip, Boat, Guest,
      FolioForActiveMutation, Staff, Roles, Fits, Safe, Concerns, HomeBound, OwnBound, GuestBound,
      OpenBound, SoundEffect, Told, OnTrips, TablesOf, AdminTables, AdminWrites, BoatWork, Earns,
      Facts, FactNames, OfRecord, RecordTables
<1>12. Does("org_admin", {}, ImportJobByID, {})
  BY <1>10, <1>11, AndThen, Weaken DEF ImportJobByID
<1> QED BY <1>1, <1>2, <1>3, <1>12, <1>4, <1>5, <1>6, <1>7, <1>8, <1>9

\* What the reports of administrators read.
LEMMA AdminReportReads ==
  /\ Does("org_admin", {}, SetupCompleteness, {})
  /\ Does("org_admin", {}, AdminReports, {})
  /\ Does("org_admin", {}, OnboardingState, {})
  /\ Does("org_admin", {}, AdminCockpitPulse, {})
  /\ Does("org_admin", {}, CockpitInventory, {})
<1>0. "org_admin" \in Staff
  BY DEF Staff
<1> USE Entries, TableNames DEF Find, Show, Put, Try, Tell, TellIfDone, Org, Trip, Boat, Guest,
      FolioForActiveMutation, Staff, Roles, Fits, Safe, Concerns, HomeBound, OwnBound, GuestBound,
      OpenBound, SoundEffect, Told, OnTrips, TablesOf, AdminTables, AdminWrites, BoatWork, Earns,
      Facts, FactNames, OfRecord, RecordTables
<1>1. Does("org_admin", {}, TripStatusCounts, {})
  BY DEF TripStatusCounts
<1>2. Does("org_admin", {}, CockpitInventory, {})
  BY DEF CockpitInventory
<1>3. Does("org_admin", {}, Show("trips", Org \cup {"listed"}), {})
  OBVIOUS
<1>4. Does("org_admin", {}, Show("trip_guests", Org \cup {"not_revoked"}), {})
  OBVIOUS
<1>5. Does("org_admin", {}, Show("guest_folios", Org), {})
  OBVIOUS
<1>6. Does("org_admin", {}, Show("guest_folio_lines", Org), {})
  OBVIOUS
<1>13. Does("org_admin", {}, Show("leads", Org), {})
  OBVIOUS
<1>14. Does("org_admin", {}, Show("booking_quotes", Org), {})
  OBVIOUS
<1> HIDE Entries, TableNames DEF Find, Show, Put, Try, Tell, TellIfDone, Org, Trip, Boat, Guest,
      FolioForActiveMutation, Staff, Roles, Fits, Safe, Concerns, HomeBound, OwnBound, GuestBound,
      OpenBound, SoundEffect, Told, OnTrips, TablesOf, AdminTables, AdminWrites, BoatWork, Earns,
      Facts, FactNames, OfRecord, RecordTables
<1>7. Does("org_admin", {}, SetupCompleteness, {})
  BY <1>0, StaffOrganizations, AdminTrips, StaffCabins, AndThen, Weaken DEF SetupCompleteness
<1>8. Does("org_admin", {}, TripOperationalRows, {})
  BY <1>3, <1>4, AndThen DEF TripOperationalRows
<1>9. Does("org_admin", {}, TripRevenueRows, {})
  BY <1>5, <1>6, AndThen DEF TripRevenueRows
<1>10. Does("org_admin", {}, AdminReports, {})
  BY <1>7, <1>1, <1>8, <1>9, AndThen DEF AdminReports
<1>11. Does("org_admin", {}, OnboardingState, {})
  BY <1>0, StaffOrganizations, <1>7, StaffCabins, AndThen, Weaken DEF OnboardingState
<1>12. Does("org_admin", {}, AdminCockpitPulse, {})
  BY <1>0, StaffOrganizations, AdminTrips, <1>13, <1>14, <1>3, AndThen DEF AdminCockpitPulse
<1> QED BY <1>7, <1>10, <1>11, <1>12, <1>2

\* What the cockpit reads of an administrator's voyages, and of a director's.
LEMMA CockpitLists ==
  /\ Does("org_admin", {}, Show("trips", Org \cup {"listed"}) \o VoyageCounts(Org), {})
  /\ Does("org_admin", {}, VoyageGaps(Org), {})
  /\ Does("org_admin", {}, SupplyBlockers, {})
  /\ Does("org_admin", {}, Show("booking_quotes", Org) \o Show("offline_payments", Org), {})
  /\ Does("cruise_director", {}, Show("trips", Org \cup {"mine", "listed"})
                                   \o VoyageCounts(Org \cup {"mine"}), {})
  /\ Does("cruise_director", {}, VoyageGaps(Org \cup {"mine"}), {})
<1> USE Entries, TableNames DEF Show, Org, Trip, Boat, Guest, Staff, Roles, Fits, Safe, Concerns,
      HomeBound, OwnBound, GuestBound, OpenBound, SoundEffect, Told, OnTrips, TablesOf,
      AdminTables, AdminWrites, BoatWork, Earns, Facts, FactNames, OfRecord, RecordTables
<1>1. /\ Does("org_admin", {}, Show("trips", Org \cup {"listed"}), {})
      /\ Does("org_admin", {}, Show("trips", Org \cup {"planned", "listed"}), {})
      /\ Does("org_admin", {}, Show("trip_guests", Org \cup {"not_revoked"}), {})
      /\ Does("org_admin", {}, Show("trip_guests", Org), {})
  OBVIOUS
<1>2. /\ Does("org_admin", {}, Show("guest_trip_registrations", Org), {})
      /\ Does("org_admin", {}, Show("trip_cabin_assignments", Org), {})
      /\ Does("org_admin", {}, Show("trip_cruise_directors", Org), {})
      /\ Does("org_admin", {}, Show("guest_folios", Org), {})
  OBVIOUS
<1>3. /\ Does("org_admin", {}, Show("crew_members", Org), {})
      /\ Does("org_admin", {}, Show("crew_certifications", Org), {})
      /\ Does("org_admin", {}, Show("equipment_assets", Org), {})
      /\ Does("org_admin", {}, Show("booking_quotes", Org), {})
      /\ Does("org_admin", {}, Show("offline_payments", Org), {})
  OBVIOUS
<1> DEFINE Own == Org \cup {"mine"}
<1>4. /\ Does("cruise_director", {}, Show("trips", Org \cup {"mine", "listed"}), {})
      /\ Does("cruise_director", {}, Show("trips", Own \cup {"planned", "listed"}), {})
      /\ Does("cruise_director", {}, Show("trip_guests", Own \cup {"not_revoked"}), {})
      /\ Does("cruise_director", {}, Show("trip_guests", Own), {})
  OBVIOUS
<1>5. /\ Does("cruise_director", {}, Show("guest_trip_registrations", Own), {})
      /\ Does("cruise_director", {}, Show("trip_cabin_assignments", Own), {})
      /\ Does("cruise_director", {}, Show("trip_cruise_directors", Own), {})
      /\ Does("cruise_director", {}, Show("guest_folios", Own), {})
  OBVIOUS
<1> HIDE Entries, TableNames DEF Show, Org, Trip, Boat, Guest, Staff, Roles, Fits, Safe, Concerns,
      HomeBound, OwnBound, GuestBound, OpenBound, SoundEffect, Told, OnTrips, TablesOf,
      AdminTables, AdminWrites, BoatWork, Earns, Facts, FactNames, OfRecord, RecordTables
<1>6. Does("org_admin", {}, VoyageCounts(Org), {})
  BY <1>1, <1>2, AndThen DEF VoyageCounts
<1>7. Does("cruise_director", {}, VoyageCounts(Org \cup {"mine"}), {})
  BY <1>4, <1>5, AndThen DEF VoyageCounts
<1>8. Does("org_admin", {}, VoyageGaps(Org), {})
  BY <1>1, <1>2, AndThen DEF VoyageGaps
<1>9. Does("cruise_director", {}, VoyageGaps(Org \cup {"mine"}), {})
  BY <1>4, <1>5, AndThen DEF VoyageGaps
<1>10. /\ Does("org_admin", {}, SupplyBlockers, {})
       /\ Does("org_admin", {}, Show("booking_quotes", Org) \o Show("offline_payments", Org), {})
  BY <1>3, AndThen DEF SupplyBlockers
<1> QED BY <1>1, <1>4, <1>6, <1>7, <1>8, <1>9, <1>10, AndThen

\* What the dashboards of staff read.
LEMMA StaffReportReads ==
  ASSUME NEW role \in Staff
  PROVE  /\ Does(role, {"trip_own"}, TripDashboard, {})
         /\ Does(role, {}, Cockpit, {})
<1> USE Entries, TableNames DEF Find, Show, Put, Try, Tell, TellIfDone, Org, Trip, Boat, Guest,
      FolioForActiveMutation, Staff, Roles, Fits, Safe, Concerns, HomeBound, OwnBound, GuestBound,
      OpenBound, SoundEffect, Told, OnTrips, TablesOf, AdminTables, AdminWrites, BoatWork, Earns,
      Facts, FactNames, OfRecord, RecordTables
<1>1. Does(role, {"trip_own"}, TopItemsForTrip, {})
  BY DEF TopItemsForTrip
<1>2. Does(role, {"trip_own"}, LowStockForBoat, {})
  BY DEF LowStockForBoat
<1>3. Does(role, {}, AssignedVoyageCount, {})
  BY DEF AssignedVoyageCount
<1>4. Does(role, {"trip_home"}, Show("boats", {"boat_of_trip"}), {})
  OBVIOUS
<1>5. Does(role, {"trip_own"}, Show("trip_guests", Trip), {})
  OBVIOUS
<1>6. Does(role, {"trip_own"}, Show("guest_folios", Trip), {})
  OBVIOUS
<1>12. Does(role, {}, Admin(Show("guest_folios", Org)), {})
  BY DEF Admin
<1>13. Does(role, {}, Director(Show("guest_folios", Org \cup {"mine"})), {})
  BY DEF Director
<1> HIDE Entries, TableNames DEF Find, Show, Put, Try, Tell, TellIfDone, Org, Trip, Boat, Guest,
      FolioForActiveMutation, Staff, Roles, Fits, Safe, Concerns, HomeBound, OwnBound, GuestBound,
      OpenBound, SoundEffect, Told, OnTrips, TablesOf, AdminTables, AdminWrites, BoatWork, Earns,
      Facts, FactNames, OfRecord, RecordTables
<1>14. Does(role, {"trip_own"}, TripDashboard, {})
  <2>1. Does(role, {"trip_own"}, TripByID, {"trip_home"})
    BY StaffTrips, Weaken
  <2>2. Does(role, {"trip_own"}, TripByID \o Show("boats", {"boat_of_trip"})
             \o Show("trip_guests", Trip) \o Show("guest_folios", Trip) \o TopItemsForTrip,
             {"trip_home"})
    BY <2>1, <1>4, <1>5, <1>6, <1>1, AndThen
  <2> QED BY <2>2, <1>2, Then DEF TripDashboard
<1>7. /\ role \in Roles
      /\ role \in {"org_admin"} => role = "org_admin"
      /\ role \in {"cruise_director"} => role = "cruise_director"
  BY DEF Staff, Roles
<1>15. Does(role, {}, CockpitVoyages, {})
  <2> DEFINE all == Show("trips", Org \cup {"listed"}) \o VoyageCounts(Org)
             own == Show("trips", Org \cup {"mine", "listed"}) \o VoyageCounts(Org \cup {"mine"})
  <2>1. Plain(all) /\ Plain(own)
    BY PlainLists DEF VoyageCounts, Show
  <2>2. Does(role, {}, For({"org_admin"}, all), {})
    BY <1>7, <2>1, CockpitLists, ForSome
  <2>3. Does(role, {}, For({"cruise_director"}, own), {})
    BY <1>7, <2>1, CockpitLists, ForSome
  <2> QED BY <2>2, <2>3, AndThen DEF CockpitVoyages, Admin, Director
<1>16. Does(role, {}, CockpitBlockers, {})
  <2>1. Plain(VoyageGaps(Org)) /\ Plain(VoyageGaps(Org \cup {"mine"})) /\ Plain(SupplyBlockers)
    BY PlainLists DEF VoyageGaps, SupplyBlockers, Show
  <2>2. /\ Does(role, {}, For({"org_admin"}, VoyageGaps(Org)), {})
        /\ Does(role, {}, For({"org_admin"}, SupplyBlockers), {})
    BY <1>7, <2>1, CockpitLists, ForSome
  <2>3. Does(role, {}, For({"cruise_director"}, VoyageGaps(Org \cup {"mine"})), {})
    BY <1>7, <2>1, CockpitLists, ForSome
  <2> QED BY <2>2, <2>3, AndThen DEF CockpitBlockers, Admin, Director
<1>17. Does(role, {}, CockpitMoney, {})
  <2> DEFINE more == Show("booking_quotes", Org) \o Show("offline_payments", Org)
  <2>1. Plain(more)
    BY PlainLists DEF Show
  <2>2. Does(role, {}, For({"org_admin"}, more), {})
    BY <1>7, <2>1, CockpitLists, ForSome
  <2> QED BY <1>12, <1>13, <2>2, AndThen DEF CockpitMoney, Admin
<1>18. Does(role, {}, CockpitActivity, {})
  BY StaffGuests DEF CockpitActivity
<1>19. Does(role, {}, Admin(SetupCompleteness \o AdminCockpitPulse \o CockpitInventory), {})
  <2>1. Does("org_admin", {}, SetupCompleteness \o AdminCockpitPulse \o CockpitInventory, {})
    BY AdminReportReads, AndThen
  <2>2. Plain(SetupCompleteness \o AdminCockpitPulse \o CockpitInventory)
    BY PlainLists DEF SetupCompleteness, AdminCockpitPulse, CockpitInventory, OrganizationByID,
      BoatCountForOrg, TripCountForOrg, CountActiveUsersByRole, UnconfiguredBoatCount, Find, Show
  <2> QED BY <2>1, <2>2, ForSome DEF Admin, Staff, Roles
<1>20. Does(role, {}, Cockpit, {})
  BY <1>3, <1>15, <1>16, <1>17, <1>19, <1>18, AndThen DEF Cockpit
<1> QED BY <1>14, <1>20

\* What a guest reads of their tab.
LEMMA CallerReportReads ==
  Does("guest", {}, GuestTab, {})
<1> USE Entries, TableNames DEF Find, Show, Put, Try, Tell, TellIfDone, Org, Trip, Boat, Guest,
      FolioForActiveMutation, Staff, Roles, Fits, Safe, Concerns, HomeBound, OwnBound, GuestBound,
      OpenBound, SoundEffect, Told, OnTrips, TablesOf, AdminTables, AdminWrites, BoatWork, Earns,
      Facts, FactNames, OfRecord, RecordTables
<1>1. Does("guest", {}, Find("trip_guests", {"trip_guest_id", "mine", "not_revoked"}),
           {"guest_home", "guest_in_trip", "guest_own"})
  OBVIOUS
<1>2. Does("guest", {"guest_home", "guest_own"}, Show("guest_folios", {"trip_guest_id"}), {})
  OBVIOUS
<1>3. Does("guest", {"guest_home", "guest_own"}, Show("guest_folio_lines", {"trip_guest_id"}), {})
  OBVIOUS
<1> HIDE Entries, TableNames DEF Find, Show, Put, Try, Tell, TellIfDone, Org, Trip, Boat, Guest,
      FolioForActiveMutation, Staff, Roles, Fits, Safe, Concerns, HomeBound, OwnBound, GuestBound,
      OpenBound, SoundEffect, Told, OnTrips, TablesOf, AdminTables, AdminWrites, BoatWork, Earns,
      Facts, FactNames, OfRecord, RecordTables
<1>4. Does("guest", {}, GuestTab, {})
  <2>1. Does("guest", {}, Find("trip_guests", {"trip_guest_id", "mine", "not_revoked"}),
             {"guest_home", "guest_own"})
    BY <1>1, Weaken
  <2>2. Does("guest", {}, Find("trip_guests", {"trip_guest_id", "mine", "not_revoked"})
             \o Show("guest_folios", {"trip_guest_id"}), {"guest_home", "guest_own"})
    BY <2>1, <1>2, AndThen
  <2> QED BY <2>2, <1>3, Then DEF GuestTab
<1> QED BY <1>4

\* What the gates of staff routes leave known.
LEMMA StaffGates ==
  ASSUME NEW role \in Staff
  PROVE  /\ Does(role, {}, RequireStaff, {})
         /\ Does(role, Start(role), RequireBoatAccess, {"boat_own"})
         /\ Does(role, Start(role), AuthorizeManifestAccess, {"trip_own"})
         /\ Does(role, Start(role), AuthorizeBoatLayoutAccess, {"boat_own"})
         /\ Does(role, Start(role), AuthorizeLifecycleTransition, {"trip_own"})
         /\ Does(role, {}, EnsureTripMutable, {"trip_open"})
         /\ Does(role, {}, RequireBoatLayoutForTrip, {"trip_home"})
         /\ Does(role, {}, TripForOrg, {"trip_home", "trip_open"})
         /\ Does(role, {}, CruiseDirectorForOrg, {"director_home"})
         /\ Does(role, Start(role), StaffGuestAccess, {"guest_home", "guest_in_trip", "trip_own"})
<1> USE Entries, TableNames DEF Find, Show, Put, Try, Tell, TellIfDone, Org, Trip, Boat, Guest,
      FolioForActiveMutation, Staff, Roles, Fits, Safe, Concerns, HomeBound, OwnBound, GuestBound,
      OpenBound, SoundEffect, Told, OnTrips, TablesOf, AdminTables, AdminWrites, BoatWork, Earns,
      Facts, FactNames, OfRecord, RecordTables
<1>1. Does(role, {}, RequireStaff, {})
  BY DEF RequireStaff
<1>2. Does(role, Start(role), RequireBoatAccess, {"boat_own"})
  BY DEF RequireBoatAccess, Director, UserAssignedToBoat, Start
<1>3. Does(role, {}, EnsureTripMutable, {"trip_open"})
  BY DEF EnsureTripMutable
<1>4. Does(role, {}, TripForOrg, {"trip_home", "trip_open"})
  BY DEF TripForOrg
<1>5. Does(role, {}, CruiseDirectorForOrg, {"director_home"})
  BY DEF CruiseDirectorForOrg
<1>6. Does(role, Start(role), Director(UserAssignedToTrip), {"trip_own"})
  BY DEF Director, UserAssignedToTrip, Start
<1> HIDE Entries, TableNames DEF Find, Show, Put, Try, Tell, TellIfDone, Org, Trip, Boat, Guest,
      FolioForActiveMutation, Staff, Roles, Fits, Safe, Concerns, HomeBound, OwnBound, GuestBound,
      OpenBound, SoundEffect, Told, OnTrips, TablesOf, AdminTables, AdminWrites, BoatWork, Earns,
      Facts, FactNames, OfRecord, RecordTables
<1>7. Does(role, Start(role), AuthorizeManifestAccess, {"trip_own"})
  <2>1. Does(role, Start(role), TripByID, {})
    BY StaffTrips, Weaken
  <2> QED BY <2>1, <1>6, Then DEF AuthorizeManifestAccess
<1>8. Does(role, Start(role), AuthorizeBoatLayoutAccess, {"boat_own"})
  <2>1. Does(role, Start(role), BoatByID, {})
    BY StaffOrganizations, Weaken
  <2> QED BY <2>1, <1>2, Then DEF AuthorizeBoatLayoutAccess
<1>9. Does(role, Start(role), AuthorizeLifecycleTransition, {"trip_own"})
  BY <1>7 DEF AuthorizeLifecycleTransition
<1>10. Does(role, {}, RequireBoatLayoutForTrip, {"trip_home"})
  BY StaffTrips, StaffCabins, Then DEF RequireBoatLayoutForTrip
<1>11. Does(role, Start(role), StaffGuestAccess, {"guest_home", "guest_in_trip", "trip_own"})
  BY <1>7, StaffGuests, Then DEF StaffGuestAccess
<1> QED BY <1>1, <1>2, <1>7, <1>8, <1>9, <1>3, <1>10, <1>4, <1>5, <1>11

\* What the gates of guest routes leave known.
LEMMA CallerGates ==
  /\ Does("guest", {}, EnsureTripMutable, {"trip_open"})
  /\ Does("guest", {}, GuestRegistrationAccess, {"guest_home", "guest_in_trip", "guest_own"})
<1> USE Entries, TableNames DEF Find, Show, Put, Try, Tell, TellIfDone, Org, Trip, Boat, Guest,
      FolioForActiveMutation, Staff, Roles, Fits, Safe, Concerns, HomeBound, OwnBound, GuestBound,
      OpenBound, SoundEffect, Told, OnTrips, TablesOf, AdminTables, AdminWrites, BoatWork, Earns,
      Facts, FactNames, OfRecord, RecordTables
<1>1. Does("guest", {}, EnsureTripMutable, {"trip_open"})
  BY DEF EnsureTripMutable
<1> HIDE Entries, TableNames DEF Find, Show, Put, Try, Tell, TellIfDone, Org, Trip, Boat, Guest,
      FolioForActiveMutation, Staff, Roles, Fits, Safe, Concerns, HomeBound, OwnBound, GuestBound,
      OpenBound, SoundEffect, Told, OnTrips, TablesOf, AdminTables, AdminWrites, BoatWork, Earns,
      Facts, FactNames, OfRecord, RecordTables
<1>2. Does("guest", {}, GuestRegistrationAccess, {"guest_home", "guest_in_trip", "guest_own"})
  BY CallerGuests DEF GuestRegistrationAccess
<1> QED BY <1>1, <1>2

\* The lists and overviews of staff.
LEMMA StaffOverviews ==
  ASSUME NEW role \in Staff
  PROVE  /\ Does(role, {}, BoatNamesForOrg, {})
         /\ Does(role, {}, DirectorNamesForOrg, {})
         /\ Does(role, {}, HandleListBoats, {})
         /\ Does(role, {}, HandleGetBoat, {})
         /\ Does(role, {}, HandleListTrips, {})
         /\ Does(role, {}, HandleListUsers, {})
         /\ Does(role, {}, handleCruiseDirectorOverview, {})
         /\ Does(role, {}, handleCockpit, {})
         /\ Does(role, Start(role), handleTripDashboard, {})
         /\ Does(role, {}, handleOrganization, {})
         /\ Does(role, {}, handleUpdateProfile, {})
         /\ Does(role, {}, SendTripAssignmentEmail, {})
<1> USE Entries, TableNames DEF Find, Show, Put, Try, Tell, TellIfDone, Org, Trip, Boat, Guest,
      FolioForActiveMutation, Staff, Roles, Fits, Safe, Concerns, HomeBound, OwnBound, GuestBound,
      OpenBound, SoundEffect, Told, OnTrips, TablesOf, AdminTables, AdminWrites, BoatWork, Earns,
      Facts, FactNames, OfRecord, RecordTables
<1>1. Does(role, {}, SendTripAssignmentEmail, {})
  BY DEF SendTripAssignmentEmail
<1>2. Does(role, {}, Admin(TripsByOrgInRange), {})
  BY DEF Admin, TripsByOrgInRange
<1>3. Does(role, {}, Director(TripsForUser), {})
  BY DEF Director, TripsForUser
<1>4. Does(role, {}, Require({"cruise_director"}), {})
  OBVIOUS
<1>5. Does(role, Start(role), Director(UserAssignedToTrip), {"trip_own"})
  BY DEF Director, UserAssignedToTrip, Start
<1> HIDE Entries, TableNames DEF Find, Show, Put, Try, Tell, TellIfDone, Org, Trip, Boat, Guest,
      FolioForActiveMutation, Staff, Roles, Fits, Safe, Concerns, HomeBound, OwnBound, GuestBound,
      OpenBound, SoundEffect, Told, OnTrips, TablesOf, AdminTables, AdminWrites, BoatWork, Earns,
      Facts, FactNames, OfRecord, RecordTables
<1>6. Does(role, {}, BoatNamesForOrg, {})
  BY StaffOrganizations DEF BoatNamesForOrg
<1>7. Does(role, {}, DirectorNamesForOrg, {})
  BY StaffOrganizations DEF DirectorNamesForOrg
<1>8. Does(role, {}, HandleListBoats, {})
  BY StaffOrganizations DEF HandleListBoats
<1>9. Does(role, {}, HandleGetBoat, {})
  BY StaffOrganizations, Weaken DEF HandleGetBoat
<1>10. Does(role, {}, HandleListTrips, {})
  BY <1>2, <1>3, <1>6, <1>7, StaffTrips, StaffGuests, AndThen DEF HandleListTrips
<1>11. Does(role, {}, HandleListUsers, {})
  BY StaffOrganizations DEF HandleListUsers
<1>12. Does(role, {}, handleCruiseDirectorOverview, {})
  BY <1>4, StaffOrganizations, StaffTrips, AndThen DEF handleCruiseDirectorOverview
<1>13. Does(role, {}, handleCockpit, {})
  BY StaffReportReads DEF handleCockpit
<1>14. Does(role, Start(role), handleTripDashboard, {})
  BY <1>5, StaffReportReads, Then DEF handleTripDashboard
<1>15. Does(role, {}, handleOrganization, {})
  BY StaffOrganizations DEF handleOrganization
<1>16. Does(role, {}, handleUpdateProfile, {})
  BY StaffOrganizations DEF handleUpdateProfile
<1> QED BY <1>6, <1>7, <1>8, <1>9, <1>10, <1>11, <1>12, <1>13, <1>14, <1>15, <1>16, <1>1

\* The lists, reports and assignments of administrators.
LEMMA AdminOverviews ==
  /\ Does("org_admin", {}, HandleOverview, {})
  /\ Does("org_admin", {}, HandleListBoatTrips, {})
  /\ Does("org_admin", {}, HandlePatchOrganization, {})
  /\ Does("org_admin", {}, handleAdminReports, {})
  /\ Does("org_admin", {}, handleGetOnboarding, {})
  /\ Does("org_admin", {}, handleDismissOnboarding, {})
  /\ Does("org_admin", {}, handleAssignCruiseDirector, {})
  /\ Does("org_admin", {}, handleUnassignCruiseDirector, {})
<1>0. "org_admin" \in Staff
  BY DEF Staff
<1> USE Entries, TableNames DEF Find, Show, Put, Try, Tell, TellIfDone, Org, Trip, Boat, Guest,
      FolioForActiveMutation, Staff, Roles, Fits, Safe, Concerns, HomeBound, OwnBound, GuestBound,
      OpenBound, SoundEffect, Told, OnTrips, TablesOf, AdminTables, AdminWrites, BoatWork, Earns,
      Facts, FactNames, OfRecord, RecordTables
<1>1. Does("org_admin", {"organizations"}, RecordStaffAudit("organizations"), {})
  BY DEF RecordStaffAudit
<1> HIDE Entries, TableNames DEF Find, Show, Put, Try, Tell, TellIfDone, Org, Trip, Boat, Guest,
      FolioForActiveMutation, Staff, Roles, Fits, Safe, Concerns, HomeBound, OwnBound, GuestBound,
      OpenBound, SoundEffect, Told, OnTrips, TablesOf, AdminTables, AdminWrites, BoatWork, Earns,
      Facts, FactNames, OfRecord, RecordTables
<1>2. Does("org_admin", {}, HandleOverview, {})
  BY <1>0, AdminReportReads, StaffOrganizations, AdminTrips, StaffOverviews, AndThen
    DEF HandleOverview
<1>3. Does("org_admin", {}, HandleListBoatTrips, {})
  <2>1. Does("org_admin", {}, BoatByID \o TripsForBoat \o DirectorNamesForOrg
             \o CruiseDirectorAssignmentsByTrip, {"boat_home"})
    BY <1>0, StaffOrganizations, AdminTrips, StaffOverviews, StaffTrips, AndThen
  <2> QED BY <1>0, <2>1, StaffGuests, Then DEF HandleListBoatTrips
<1>4. Does("org_admin", {}, HandlePatchOrganization, {})
  BY AdminOrganizations DEF HandlePatchOrganization
<1>5. Does("org_admin", {}, handleAdminReports, {})
  BY AdminReportReads DEF handleAdminReports
<1>6. Does("org_admin", {}, handleGetOnboarding, {})
  BY AdminReportReads DEF handleGetOnboarding
<1>7. Does("org_admin", {}, handleDismissOnboarding, {})
  <2>1. Does("org_admin", {}, OrganizationByID \o DismissOrganizationOnboarding,
             {"organizations"})
    BY <1>0, StaffOrganizations, AdminOrganizations, Then
  <2>2. Does("org_admin", {}, OrganizationByID \o DismissOrganizationOnboarding
             \o RecordStaffAudit("organizations"), {"organizations"})
    BY <2>1, <1>1, AndThen
  <2> QED BY <2>2, AdminReportReads, Then DEF handleDismissOnboarding
<1>8. Does("org_admin", {"trip_home"}, WriteTripDirectorsView, {})
  BY AdminTrips DEF WriteTripDirectorsView
<1>9. Does("org_admin", {}, handleAssignCruiseDirector, {})
  <2>1. Does("org_admin", {}, RequireBoatLayoutForTrip \o TripForOrg, {"trip_home", "trip_open"})
    BY <1>0, StaffGates, Then
  <2>2. Does("org_admin", {}, RequireBoatLayoutForTrip \o TripForOrg \o CruiseDirectorForOrg,
             {"director_home", "trip_home", "trip_open"})
    BY <1>0, <2>1, StaffGates, Then
  <2>3. Does("org_admin", {}, RequireBoatLayoutForTrip \o TripForOrg \o CruiseDirectorForOrg
             \o AssignCruiseDirector \o SendTripAssignmentEmail,
             {"director_home", "trip_home", "trip_open"})
    BY <1>0, <2>2, AdminTrips, StaffOverviews, AndThen
  <2> QED BY <2>3, <1>8, Then DEF handleAssignCruiseDirector
<1>10. Does("org_admin", {}, handleUnassignCruiseDirector, {})
  <2>1. Does("org_admin", {}, TripForOrg \o CruiseDirectorForOrg \o UnassignCruiseDirector
             \o SendTripAssignmentEmail, {"trip_home", "trip_open"})
    BY <1>0, StaffGates, AdminTrips, StaffOverviews, AndThen
  <2> QED BY <2>1, <1>8, Then DEF handleUnassignCruiseDirector
<1> QED BY <1>2, <1>3, <1>4, <1>5, <1>6, <1>7, <1>9, <1>10

\* The routes of cabin layouts and berths.
LEMMA StaffCabinRoutes ==
  ASSUME NEW role \in Staff
  PROVE  /\ Does(role, Start(role), handleGetBoatCabins, {})
         /\ Does(role, Start(role), handlePreviewBoatCabins, {})
         /\ Does(role, Start(role), handleReplaceBoatCabins, {})
         /\ Does(role, Start(role), handlePatchBoatCabin, {})
         /\ Does(role, Start(role), handleDeleteBoatCabin, {})
         /\ Does(role, Start(role), handlePatchBoatBerth, {})
         /\ Does(role, Start(role), handleDeleteBoatBerth, {})
         /\ Does(role, Start(role), handleTripCabinBoard, {})
         /\ Does(role, Start(role), handleAssignGuestCabin, {})
         /\ Does(role, Start(role) \cup {"unasked"}, handleUnassignGuestCabin, {})
<1> USE Entries, TableNames DEF Find, Show, Put, Try, Tell, TellIfDone, Org, Trip, Boat, Guest,
      FolioForActiveMutation, Staff, Roles, Fits, Safe, Concerns, HomeBound, OwnBound, GuestBound,
      OpenBound, SoundEffect, Told, OnTrips, TablesOf, AdminTables, AdminWrites, BoatWork, Earns,
      Facts, FactNames, OfRecord, RecordTables
<1>1. Does(role, {"trip_cabin_assignments"}, RecordStaffAudit("trip_cabin_assignments"), {})
  BY DEF RecordStaffAudit
<1>2. Does(role, {"unasked"}, RecordStaffAudit("trip_cabin_assignments"), {})
  BY DEF RecordStaffAudit
<1> HIDE Entries, TableNames DEF Find, Show, Put, Try, Tell, TellIfDone, Org, Trip, Boat, Guest,
      FolioForActiveMutation, Staff, Roles, Fits, Safe, Concerns, HomeBound, OwnBound, GuestBound,
      OpenBound, SoundEffect, Told, OnTrips, TablesOf, AdminTables, AdminWrites, BoatWork, Earns,
      Facts, FactNames, OfRecord, RecordTables
<1>3. Does(role, Start(role), handleGetBoatCabins, {})
  BY StaffGates, StaffCabins, Then DEF handleGetBoatCabins
<1>4. Does(role, Start(role), handlePreviewBoatCabins, {})
  BY StaffGates, StaffCabins, AndThen, Weaken DEF handlePreviewBoatCabins
<1>5. Does(role, Start(role), handleReplaceBoatCabins, {})
  BY StaffGates, StaffCabins, Then DEF handleReplaceBoatCabins
<1>6. Does(role, Start(role), handlePatchBoatCabin, {})
  BY StaffGates, StaffCabins, Then DEF handlePatchBoatCabin
<1>7. Does(role, Start(role), handleDeleteBoatCabin, {})
  BY StaffGates, StaffCabins, Then DEF handleDeleteBoatCabin
<1>8. Does(role, Start(role), handlePatchBoatBerth, {})
  BY StaffGates, StaffCabins, Then DEF handlePatchBoatBerth
<1>9. Does(role, Start(role), handleDeleteBoatBerth, {})
  BY StaffGates, StaffCabins, Then DEF handleDeleteBoatBerth
<1>10. Does(role, Start(role), handleTripCabinBoard, {})
  BY StaffGates, StaffCabins, Then DEF handleTripCabinBoard
<1>11. Does(role, Start(role), handleAssignGuestCabin, {})
  <2>1. Does(role, Start(role), AuthorizeManifestAccess \o EnsureTripMutable,
             {"trip_open", "trip_own"})
    BY StaffGates, Then
  <2>2. Does(role, Start(role), AuthorizeManifestAccess \o EnsureTripMutable
             \o RequireBoatLayoutForTrip, {"trip_open", "trip_own"})
    BY <2>1, StaffGates, AndThen
  <2>3. Does(role, Start(role), AuthorizeManifestAccess \o EnsureTripMutable
             \o RequireBoatLayoutForTrip \o AssignTripGuestBerth,
             {"trip_cabin_assignments", "trip_open", "trip_own"})
    BY <2>2, StaffCabins, Then
  <2> QED BY <2>3, <1>1, Then DEF handleAssignGuestCabin
<1>12. Does(role, Start(role) \cup {"unasked"}, handleUnassignGuestCabin, {})
  <2>1. Does(role, Start(role) \cup {"unasked"}, AuthorizeManifestAccess, {"trip_own"})
    BY StaffGates, Weaken
  <2>2. Does(role, Start(role) \cup {"unasked"}, AuthorizeManifestAccess
             \o PreviousBerth \o UnassignTripGuestBerth, {"trip_own"})
    BY <2>1, StaffCabins, AndThen
  <2> QED BY <2>2, <1>2, Then DEF handleUnassignGuestCabin
<1> QED BY <1>3, <1>4, <1>5, <1>6, <1>7, <1>8, <1>9, <1>10, <1>11, <1>12

\* The routes of the manifest, and of a trip's start and end.
LEMMA StaffManifestRoutes ==
  ASSUME NEW role \in Staff
  PROVE  /\ Does(role, Start(role), handleTripManifest, {})
         /\ Does(role, Start(role), handleAddTripGuest, {})
         /\ Does(role, Start(role), handleResendTripGuestInvite, {})
         /\ Does(role, Start(role), handleRevokeTripGuestInvite, {})
         /\ Does(role, Start(role), handleStaffGuestRegistration, {})
         /\ Does(role, Start(role), handleTripLifecycle, {})
         /\ Does(role, Start(role), handleStartTrip, {})
         /\ Does(role, Start(role), handleCompleteTrip, {})
<1> USE Entries, TableNames DEF Find, Show, Put, Try, Tell, TellIfDone, Org, Trip, Boat, Guest,
      FolioForActiveMutation, Staff, Roles, Fits, Safe, Concerns, HomeBound, OwnBound, GuestBound,
      OpenBound, SoundEffect, Told, OnTrips, TablesOf, AdminTables, AdminWrites, BoatWork, Earns,
      Facts, FactNames, OfRecord, RecordTables
<1>1. Does(role, {"trip_guests"}, Tell("trip_guests"), {})
  OBVIOUS
<1>2. Does(role, {"trip_guests"}, RecordStaffAudit("trip_guests"), {})
  BY DEF RecordStaffAudit
<1>3. Does(role, {}, Find("trip_guests", Guest), {"guest_home", "guest_in_trip"})
  OBVIOUS
<1> HIDE Entries, TableNames DEF Find, Show, Put, Try, Tell, TellIfDone, Org, Trip, Boat, Guest,
      FolioForActiveMutation, Staff, Roles, Fits, Safe, Concerns, HomeBound, OwnBound, GuestBound,
      OpenBound, SoundEffect, Told, OnTrips, TablesOf, AdminTables, AdminWrites, BoatWork, Earns,
      Facts, FactNames, OfRecord, RecordTables
<1>4. Does(role, {"trip_open", "trip_own"}, InviteTripGuest, {"trip_guests"})
  <2>1. Does(role, {"trip_open", "trip_own"}, CreateTripGuestInvite \o Tell("trip_guests"),
             {"guest_home", "guest_in_trip", "trip_guests"})
    BY StaffGuests, <1>1, AndThen
  <2> QED BY <2>1, StaffGuests, Then DEF InviteTripGuest
<1>5. Does(role, {"trip_open", "trip_own"}, ResendTripGuestInviteEmail, {"trip_guests"})
  <2>1. Does(role, {"trip_open", "trip_own"}, ResendTripGuestInvite \o Tell("trip_guests"),
             {"guest_home", "guest_in_trip", "trip_guests"})
    BY StaffGuests, <1>1, AndThen
  <2> QED BY <2>1, StaffGuests, Then DEF ResendTripGuestInviteEmail
<1>6. Does(role, Start(role), handleTripManifest, {})
  <2>1. Does(role, {}, BoatNamesForOrg, {})
    BY StaffOverviews
  <2>2. Does(role, Start(role), AuthorizeManifestAccess \o TripManifest \o TripManifestSummary,
             {"trip_own"})
    BY StaffGates, StaffGuests, AndThen
  <2> QED BY <2>1, <2>2, Then DEF handleTripManifest
<1>7. Does(role, Start(role), handleAddTripGuest, {})
  <2>1. Does(role, Start(role), AuthorizeManifestAccess \o EnsureTripMutable,
             {"trip_open", "trip_own"})
    BY StaffGates, Then
  <2>2. Does(role, Start(role), AuthorizeManifestAccess \o EnsureTripMutable
             \o RequireBoatLayoutForTrip, {"trip_open", "trip_own"})
    BY <2>1, StaffGates, AndThen
  <2>3. Does(role, Start(role), AuthorizeManifestAccess \o EnsureTripMutable
             \o RequireBoatLayoutForTrip \o InviteTripGuest,
             {"trip_guests", "trip_open", "trip_own"})
    BY <2>2, <1>4, Then
  <2>4. Does(role, Start(role), AuthorizeManifestAccess \o EnsureTripMutable
             \o RequireBoatLayoutForTrip \o InviteTripGuest \o TripManifest,
             {"trip_guests", "trip_open", "trip_own"})
    BY <2>3, StaffGuests, AndThen
  <2> QED BY <2>4, <1>2, Then DEF handleAddTripGuest
<1>8. Does(role, Start(role), handleResendTripGuestInvite, {})
  <2>1. Does(role, Start(role), AuthorizeManifestAccess \o EnsureTripMutable,
             {"trip_open", "trip_own"})
    BY StaffGates, Then
  <2>2. Does(role, Start(role), AuthorizeManifestAccess \o EnsureTripMutable
             \o ResendTripGuestInviteEmail, {"trip_guests", "trip_open", "trip_own"})
    BY <2>1, <1>5, Then
  <2>3. Does(role, Start(role), AuthorizeManifestAccess \o EnsureTripMutable
             \o ResendTripGuestInviteEmail \o TripGuestByID \o RecordStaffAudit("trip_guests"),
             {"trip_guests", "trip_open", "trip_own"})
    BY <2>2, StaffGuests, <1>2, AndThen
  <2> QED BY <2>3, StaffGuests, Then DEF handleResendTripGuestInvite
<1>9. Does(role, Start(role), handleRevokeTripGuestInvite, {})
  <2>1. Does(role, Start(role), AuthorizeManifestAccess \o EnsureTripMutable,
             {"trip_open", "trip_own"})
    BY StaffGates, Then
  <2>2. Does(role, Start(role), AuthorizeManifestAccess \o EnsureTripMutable
             \o RevokeTripGuestInvite, {"trip_guests", "trip_open", "trip_own"})
    BY <2>1, StaffGuests, Then
  <2> QED BY <2>2, <1>2, Then DEF handleRevokeTripGuestInvite
<1>10. Does(role, Start(role), handleStaffGuestRegistration, {})
  <2>1. Does(role, Start(role), AuthorizeManifestAccess \o TripManifest, {"trip_own"})
    BY StaffGates, StaffGuests, AndThen
  <2>2. Does(role, Start(role), AuthorizeManifestAccess \o TripManifest
             \o Find("trip_guests", Guest), {"guest_home", "guest_in_trip", "trip_own"})
    BY <2>1, <1>3, Then
  <2> QED BY <2>2, StaffGuests, Then DEF handleStaffGuestRegistration
<1>11. Does(role, Start(role), handleTripLifecycle, {})
  BY StaffGates, StaffTrips, Then DEF handleTripLifecycle
<1>12. Does(role, Start(role), handleLifecycleTransition(StartTrip), {})
  BY StaffGates, StaffTrips, Then DEF handleLifecycleTransition
<1>13. Does(role, Start(role), handleLifecycleTransition(CompleteTrip), {})
  BY StaffGates, StaffTrips, Then DEF handleLifecycleTransition
<1>14. Does(role, Start(role), handleStartTrip, {})
  BY StaffGates, <1>12, AndThen, Weaken DEF handleStartTrip
<1>15. Does(role, Start(role), handleCompleteTrip, {})
  BY <1>13 DEF handleCompleteTrip
<1> QED BY <1>6, <1>7, <1>8, <1>9, <1>10, <1>11, <1>14, <1>15

\* The routes of folios and their lines.
LEMMA StaffFolioRoutes ==
  ASSUME NEW role \in Staff
  PROVE  /\ Does(role, Start(role), handleTripLedger, {})
         /\ Does(role, Start(role), handleAddTripLedgerLine, {})
         /\ Does(role, Start(role), handleGetGuestFolio, {})
         /\ Does(role, Start(role), handleOpenGuestFolio, {})
         /\ Does(role, Start(role), handleAddGuestFolioLine, {})
         /\ Does(role, Start(role), handleUpdateGuestFolioLine, {})
         /\ Does(role, Start(role), handleDeleteGuestFolioLine, {})
         /\ Does(role, Start(role), handleCloseGuestFolio, {})
         /\ Does(role, Start(role), handleResendGuestFolioEmail, {})
<1> USE Entries, TableNames DEF Find, Show, Put, Try, Tell, TellIfDone, Org, Trip, Boat, Guest,
      FolioForActiveMutation, Staff, Roles, Fits, Safe, Concerns, HomeBound, OwnBound, GuestBound,
      OpenBound, SoundEffect, Told, OnTrips, TablesOf, AdminTables, AdminWrites, BoatWork, Earns,
      Facts, FactNames, OfRecord, RecordTables
<1>1. Does(role, {"guest_folios"}, Tell("guest_folios"), {})
  OBVIOUS
<1>2. Does(role, {"folio_shown", "guest_home", "guest_in_trip"}, Tell("guest_folios"), {})
  OBVIOUS
<1>3. Does(role, {"guest_folio_lines"}, RecordStaffAudit("guest_folio_lines"), {})
  BY DEF RecordStaffAudit
<1>4. Does(role, {"guest_folios"}, RecordStaffAudit("guest_folios"), {})
  BY DEF RecordStaffAudit
<1> HIDE Entries, TableNames DEF Find, Show, Put, Try, Tell, TellIfDone, Org, Trip, Boat, Guest,
      FolioForActiveMutation, Staff, Roles, Fits, Safe, Concerns, HomeBound, OwnBound, GuestBound,
      OpenBound, SoundEffect, Told, OnTrips, TablesOf, AdminTables, AdminWrites, BoatWork, Earns,
      Facts, FactNames, OfRecord, RecordTables
<1>5. Does(role, {"guest_folios"}, SendGuestFolioEmail, {})
  BY StaffPayments, <1>1, AndThen, Weaken DEF SendGuestFolioEmail
<1>6. Does(role, {"folio_shown", "guest_home", "guest_in_trip"}, SendGuestFolioEmail, {})
  BY StaffPayments, <1>2, AndThen, Weaken DEF SendGuestFolioEmail
<1>7. Does(role, Start(role), handleTripLedger, {})
  BY StaffGates, StaffFolios, Then DEF handleTripLedger
<1>8. Does(role, Start(role), handleAddTripLedgerLine, {})
  <2>1. Does(role, Start(role), AuthorizeManifestAccess \o AddGuestFolioLine,
             {"guest_folio_lines", "trip_own"})
    BY StaffGates, StaffFolios, Then
  <2> QED BY <2>1, <1>3, Then DEF handleAddTripLedgerLine
<1>9. Does(role, Start(role), handleGetGuestFolio, {})
  BY StaffGates, StaffFolios, Then DEF handleGetGuestFolio
<1>10. Does(role, Start(role), handleOpenGuestFolio, {})
  <2>1. Does(role, Start(role), AuthorizeManifestAccess \o EnsureTripMutable,
             {"trip_open", "trip_own"})
    BY StaffGates, Then
  <2>2. Does(role, Start(role), AuthorizeManifestAccess \o EnsureTripMutable \o OpenGuestFolio,
             {"guest_folios", "trip_open", "trip_own"})
    BY <2>1, StaffFolios, Then
  <2> QED BY <2>2, <1>4, Then DEF handleOpenGuestFolio
<1>11. Does(role, Start(role), handleAddGuestFolioLine, {})
  <2>1. Does(role, Start(role), AuthorizeManifestAccess \o EnsureTripMutable, {"trip_own"})
    BY StaffGates, AndThen
  <2>2. Does(role, Start(role), AuthorizeManifestAccess \o EnsureTripMutable \o AddGuestFolioLine,
             {"guest_folio_lines", "trip_own"})
    BY <2>1, StaffFolios, Then
  <2> QED BY <2>2, <1>3, Then DEF handleAddGuestFolioLine
<1>12. Does(role, Start(role), handleUpdateGuestFolioLine, {})
  <2>1. Does(role, Start(role), AuthorizeManifestAccess \o EnsureTripMutable, {"trip_own"})
    BY StaffGates, AndThen
  <2>2. Does(role, Start(role), AuthorizeManifestAccess \o EnsureTripMutable
             \o UpdateGuestFolioLine, {"guest_folio_lines", "trip_own"})
    BY <2>1, StaffFolios, Then
  <2> QED BY <2>2, <1>3, Then DEF handleUpdateGuestFolioLine
<1>13. Does(role, Start(role), handleDeleteGuestFolioLine, {})
  <2>1. Does(role, Start(role), AuthorizeManifestAccess \o EnsureTripMutable, {"trip_own"})
    BY StaffGates, AndThen
  <2>2. Does(role, Start(role), AuthorizeManifestAccess \o EnsureTripMutable
             \o DeleteGuestFolioLine, {"guest_folio_lines", "trip_own"})
    BY <2>1, StaffFolios, Then
  <2> QED BY <2>2, <1>3, Then DEF handleDeleteGuestFolioLine
<1>14. Does(role, Start(role), handleCloseGuestFolio, {})
  <2>1. Does(role, Start(role), AuthorizeManifestAccess, {"trip_own"})
    BY StaffGates, Weaken
  <2>2. Does(role, Start(role), AuthorizeManifestAccess \o CloseGuestFolio,
             {"guest_folios", "guest_home", "guest_in_trip", "trip_own"})
    BY <2>1, StaffFolios, Then
  <2>3. Does(role, Start(role), AuthorizeManifestAccess \o CloseGuestFolio
             \o SendGuestFolioEmail \o MarkGuestFolioEmail \o GuestFolioByTripGuest,
             {"guest_folios", "guest_home", "guest_in_trip", "trip_own"})
    BY <2>2, <1>5, StaffFolios, AndThen
  <2> QED BY <2>3, <1>4, Then DEF handleCloseGuestFolio
<1>15. Does(role, Start(role), handleResendGuestFolioEmail, {})
  <2>1. Does(role, Start(role), AuthorizeManifestAccess, {"trip_own"})
    BY StaffGates, Weaken
  <2>2. Does(role, Start(role), AuthorizeManifestAccess \o GuestFolioByTripGuest,
             {"folio_shown", "guest_home", "guest_in_trip", "trip_own"})
    BY <2>1, StaffFolios, Then
  <2>3. Does(role, Start(role), AuthorizeManifestAccess \o GuestFolioByTripGuest
             \o SendGuestFolioEmail, {"folio_shown", "guest_home", "guest_in_trip", "trip_own"})
    BY <2>2, <1>6, AndThen
  <2> QED BY <2>3, StaffFolios, Then DEF handleResendGuestFolioEmail
<1> QED BY <1>7, <1>8, <1>9, <1>10, <1>11, <1>12, <1>13, <1>14, <1>15

\* The routes of documents, and of what happened.
LEMMA StaffDocumentRoutes ==
  ASSUME NEW role \in Staff
  PROVE  /\ Does(role, Start(role), handleListStaffGuestDocuments, {})
         /\ Does(role, Start(role), handleUploadStaffGuestDocument, {})
         /\ Does(role, Start(role), handleOpenStaffGuestDocument, {})
         /\ Does(role, Start(role), handleArchiveStaffGuestDocument, {})
         /\ Does(role, Start(role), handleGuestActivity, {})
         /\ Does(role, {}, handleAuditEvents, {})
<1> USE Entries, TableNames DEF Find, Show, Put, Try, Tell, TellIfDone, Org, Trip, Boat, Guest,
      FolioForActiveMutation, Staff, Roles, Fits, Safe, Concerns, HomeBound, OwnBound, GuestBound,
      OpenBound, SoundEffect, Told, OnTrips, TablesOf, AdminTables, AdminWrites, BoatWork, Earns,
      Facts, FactNames, OfRecord, RecordTables
<1>1. Does(role, {"guest_documents"}, RecordStaffAudit("guest_documents"), {})
  BY DEF RecordStaffAudit
<1>2. Does(role, {"documents_shown", "guest_home", "guest_in_trip"},
           RecordStaffAudit("guest_documents"), {})
  BY DEF RecordStaffAudit
<1> HIDE Entries, TableNames DEF Find, Show, Put, Try, Tell, TellIfDone, Org, Trip, Boat, Guest,
      FolioForActiveMutation, Staff, Roles, Fits, Safe, Concerns, HomeBound, OwnBound, GuestBound,
      OpenBound, SoundEffect, Told, OnTrips, TablesOf, AdminTables, AdminWrites, BoatWork, Earns,
      Facts, FactNames, OfRecord, RecordTables
<1>3. Does(role, {"trip_open", "trip_own"}, UploadDocument, {"guest_documents"})
  BY StaffGuests DEF UploadDocument
<1>4. Does(role, Start(role), handleListStaffGuestDocuments, {})
  <2>1. Does(role, Start(role), StaffGuestAccess, {"trip_own"})
    BY StaffGates, Weaken
  <2> QED BY <2>1, StaffGuests, Then DEF handleListStaffGuestDocuments
<1>5. Does(role, Start(role), handleUploadStaffGuestDocument, {})
  <2>1. Does(role, Start(role), StaffGuestAccess, {"trip_own"})
    BY StaffGates, Weaken
  <2>2. Does(role, Start(role), StaffGuestAccess \o EnsureTripMutable, {"trip_open", "trip_own"})
    BY <2>1, StaffGates, Then
  <2>3. Does(role, Start(role), StaffGuestAccess \o EnsureTripMutable \o UploadDocument,
             {"guest_documents", "trip_open", "trip_own"})
    BY <2>2, <1>3, Then
  <2> QED BY <2>3, <1>1, Then DEF handleUploadStaffGuestDocument
<1>6. Does(role, Start(role), handleOpenStaffGuestDocument, {})
  <2>1. Does(role, Start(role), StaffGuestAccess \o GuestDocumentByID,
             {"documents_shown", "guest_home", "guest_in_trip", "trip_own"})
    BY StaffGates, StaffGuests, Then
  <2> QED BY <2>1, <1>2, Then DEF handleOpenStaffGuestDocument
<1>7. Does(role, Start(role), handleArchiveStaffGuestDocument, {})
  <2>1. Does(role, Start(role), StaffGuestAccess, {"trip_own"})
    BY StaffGates, Weaken
  <2>2. Does(role, Start(role), StaffGuestAccess \o EnsureTripMutable, {"trip_open", "trip_own"})
    BY <2>1, StaffGates, Then
  <2>3. Does(role, Start(role), StaffGuestAccess \o EnsureTripMutable \o ArchiveGuestDocument,
             {"guest_documents", "trip_open", "trip_own"})
    BY <2>2, StaffGuests, Then
  <2> QED BY <2>3, <1>1, Then DEF handleArchiveStaffGuestDocument
<1>8. Does(role, Start(role), handleGuestActivity, {})
  <2>1. Does(role, Start(role), StaffGuestAccess, {"trip_own"})
    BY StaffGates, Weaken
  <2> QED BY <2>1, StaffGuests, Then DEF handleGuestActivity
<1>9. Does(role, {}, handleAuditEvents, {})
  BY StaffGates, StaffGuests, AndThen DEF handleAuditEvents
<1> QED BY <1>4, <1>5, <1>6, <1>7, <1>8, <1>9

\* The routes of guests.
LEMMA CallerDocumentRoutes ==
  /\ Does("guest", {}, handleListGuestDocuments, {})
  /\ Does("guest", {}, handleUploadGuestDocument, {})
  /\ Does("guest", {}, handleOpenGuestDocument, {})
  /\ Does("guest", {}, handleGetGuestRegistration, {})
  /\ Does("guest", {}, handleSaveGuestRegistration, {})
  /\ Does("guest", {}, handleSubmitGuestRegistration, {})
  /\ Does("guest", {}, handleGuestTab, {})
<1> USE Entries, TableNames DEF Find, Show, Put, Try, Tell, TellIfDone, Org, Trip, Boat, Guest,
      FolioForActiveMutation, Staff, Roles, Fits, Safe, Concerns, HomeBound, OwnBound, GuestBound,
      OpenBound, SoundEffect, Told, OnTrips, TablesOf, AdminTables, AdminWrites, BoatWork, Earns,
      Facts, FactNames, OfRecord, RecordTables
<1>1. Does("guest", {"guest_documents"}, RecordGuestAudit("guest_documents"), {})
  BY DEF RecordGuestAudit
<1>2. Does("guest", {"documents_shown", "guest_home", "guest_in_trip"},
           RecordGuestAudit("guest_documents"), {})
  BY DEF RecordGuestAudit
<1> HIDE Entries, TableNames DEF Find, Show, Put, Try, Tell, TellIfDone, Org, Trip, Boat, Guest,
      FolioForActiveMutation, Staff, Roles, Fits, Safe, Concerns, HomeBound, OwnBound, GuestBound,
      OpenBound, SoundEffect, Told, OnTrips, TablesOf, AdminTables, AdminWrites, BoatWork, Earns,
      Facts, FactNames, OfRecord, RecordTables
<1>3. Does("guest", {"guest_own", "trip_open"}, UploadDocument, {"guest_documents"})
  BY CallerGuests DEF UploadDocument
<1>4. Does("guest", {}, handleListGuestDocuments, {})
  <2>1. Does("guest", {}, GuestRegistrationAccess, {"guest_own"})
    BY CallerGates, Weaken
  <2> QED BY <2>1, CallerGuests, Then DEF handleListGuestDocuments
<1>5. Does("guest", {}, handleUploadGuestDocument, {})
  <2>1. Does("guest", {}, GuestRegistrationAccess, {"guest_own"})
    BY CallerGates, Weaken
  <2>2. Does("guest", {}, GuestRegistrationAccess \o EnsureTripMutable,
             {"guest_own", "trip_open"})
    BY <2>1, CallerGates, Then
  <2>3. Does("guest", {}, GuestRegistrationAccess \o EnsureTripMutable \o UploadDocument,
             {"guest_documents", "guest_own", "trip_open"})
    BY <2>2, <1>3, Then
  <2> QED BY <2>3, <1>1, Then DEF handleUploadGuestDocument
<1>6. Does("guest", {}, handleOpenGuestDocument, {})
  <2>1. Does("guest", {}, GuestRegistrationAccess \o GuestDocumentByID,
             {"documents_shown", "guest_home", "guest_in_trip", "guest_own"})
    BY CallerGates, CallerGuests, Then
  <2> QED BY <2>1, <1>2, Then DEF handleOpenGuestDocument
<1>7. Does("guest", {}, handleGetGuestRegistration, {})
  <2>1. Does("guest", {}, GuestRegistrationAccess, {"guest_home", "guest_own"})
    BY CallerGates, Weaken
  <2> QED BY <2>1, CallerGuests, Then DEF handleGetGuestRegistration
<1>8. Does("guest", {}, handleSaveGuestRegistration, {})
  <2>1. Does("guest", {}, GuestRegistrationAccess \o EnsureTripMutable,
             {"guest_home", "guest_in_trip", "guest_own", "trip_open"})
    BY CallerGates, Then
  <2> QED BY <2>1, CallerGuests, Then DEF handleSaveGuestRegistration
<1>9. Does("guest", {}, handleSubmitGuestRegistration, {})
  BY <1>8 DEF handleSubmitGuestRegistration
<1>10. Does("guest", {}, handleGuestTab, {})
  BY CallerReportReads DEF handleGuestTab
<1> QED BY <1>4, <1>5, <1>6, <1>7, <1>8, <1>9, <1>10

\* The routes of the catalog and of a boat's inventory.
LEMMA StaffCatalogRoutes ==
  ASSUME NEW role \in Staff
  PROVE  /\ Does(role, {}, handleListCatalogCategories, {})
         /\ Does(role, {}, handleCreateCatalogCategory, {})
         /\ Does(role, {}, handleUpdateCatalogCategory, {})
         /\ Does(role, {}, handleListCatalogItems, {})
         /\ Does(role, {}, handleCreateCatalogItem, {})
         /\ Does(role, {}, handleUpdateCatalogItem, {})
         /\ Does(role, {}, handleApplyCatalogDefaults, {})
         /\ Does(role, Start(role), handleListBoatInventory, {})
         /\ Does(role, Start(role), handleSetBoatInventory, {})
         /\ Does(role, Start(role), handleAdjustBoatInventory, {})
         /\ Does(role, {}, handleGetPaymentSettings, {})
         /\ Does(role, {}, handleUpdatePaymentSettings, {})
         /\ Does(role, {}, handleCheckoutQuote, {})
<1> USE Entries, TableNames DEF Find, Show, Put, Try, Tell, TellIfDone, Org, Trip, Boat, Guest,
      FolioForActiveMutation, Staff, Roles, Fits, Safe, Concerns, HomeBound, OwnBound, GuestBound,
      OpenBound, SoundEffect, Told, OnTrips, TablesOf, AdminTables, AdminWrites, BoatWork, Earns,
      Facts, FactNames, OfRecord, RecordTables
<1>1. Does(role, {"boat_inventory_items"}, RecordStaffAudit("boat_inventory_items"), {})
  BY DEF RecordStaffAudit
<1>2. Does(role, {"organization_payment_settings"},
           RecordStaffAudit("organization_payment_settings"), {})
  BY DEF RecordStaffAudit
<1> HIDE Entries, TableNames DEF Find, Show, Put, Try, Tell, TellIfDone, Org, Trip, Boat, Guest,
      FolioForActiveMutation, Staff, Roles, Fits, Safe, Concerns, HomeBound, OwnBound, GuestBound,
      OpenBound, SoundEffect, Told, OnTrips, TablesOf, AdminTables, AdminWrites, BoatWork, Earns,
      Facts, FactNames, OfRecord, RecordTables
<1>3. Does(role, {}, handleListCatalogCategories, {})
  BY StaffGates, StaffFolios, AndThen DEF handleListCatalogCategories
<1>4. Does(role, {}, handleCreateCatalogCategory, {})
  BY StaffGates, StaffFolios, AndThen DEF handleCreateCatalogCategory
<1>5. Does(role, {}, handleUpdateCatalogCategory, {})
  BY StaffGates, StaffFolios, AndThen DEF handleUpdateCatalogCategory
<1>6. Does(role, {}, handleListCatalogItems, {})
  BY StaffGates, StaffFolios, AndThen DEF handleListCatalogItems
<1>7. Does(role, {}, handleCreateCatalogItem, {})
  BY StaffGates, StaffFolios, AndThen DEF handleCreateCatalogItem
<1>8. Does(role, {}, handleUpdateCatalogItem, {})
  BY StaffGates, StaffFolios, AndThen DEF handleUpdateCatalogItem
<1>9. Does(role, {}, handleApplyCatalogDefaults, {})
  BY StaffFolios DEF handleApplyCatalogDefaults
<1>10. Does(role, Start(role), handleListBoatInventory, {})
  BY StaffGates, StaffFolios, Then DEF handleListBoatInventory
<1>11. Does(role, Start(role), handleSetBoatInventory, {})
  BY StaffGates, StaffFolios, Then DEF handleSetBoatInventory
<1>12. Does(role, Start(role), handleAdjustBoatInventory, {})
  <2>1. Does(role, Start(role), RequireBoatAccess \o AdjustStock,
             {"boat_inventory_items", "boat_own"})
    BY StaffGates, StaffFolios, Then
  <2> QED BY <2>1, <1>1, Then DEF handleAdjustBoatInventory
<1>13. Does(role, {}, handleGetPaymentSettings, {})
  BY StaffPayments DEF handleGetPaymentSettings
<1>14. Does(role, {}, handleUpdatePaymentSettings, {})
  <2>1. Does(role, {}, PaymentSettings \o UpdatePaymentSettings,
             {"organization_payment_settings"})
    BY StaffPayments, Then
  <2> QED BY <2>1, <1>2, Then DEF handleUpdatePaymentSettings
<1>15. Does(role, {}, handleCheckoutQuote, {})
  BY StaffPayments DEF handleCheckoutQuote
<1> QED BY <1>3, <1>4, <1>5, <1>6, <1>7, <1>8, <1>9, <1>10, <1>11, <1>12, <1>13, <1>14, <1>15

\* The routes of price overrides, fleet inventory and exchange rates.
LEMMA AdminCatalogRoutes ==
  /\ Does("org_admin", {}, handleListPriceOverrides, {})
  /\ Does("org_admin", {}, handleUpsertBoatPriceOverride, {})
  /\ Does("org_admin", {}, handleUpsertTripPriceOverride, {})
  /\ Does("org_admin", {}, handleArchivePriceOverride, {})
  /\ Does("org_admin", {}, handleInventoryBoatSummary, {})
  /\ Does("org_admin", {}, handleListFXRates, {})
  /\ Does("org_admin", {}, handleCreateFXRate, {})
<1>0. "org_admin" \in Staff
  BY DEF Staff
<1> USE Entries, TableNames DEF Find, Show, Put, Try, Tell, TellIfDone, Org, Trip, Boat, Guest,
      FolioForActiveMutation, Staff, Roles, Fits, Safe, Concerns, HomeBound, OwnBound, GuestBound,
      OpenBound, SoundEffect, Told, OnTrips, TablesOf, AdminTables, AdminWrites, BoatWork, Earns,
      Facts, FactNames, OfRecord, RecordTables
<1>1. Does("org_admin", {"catalog_price_overrides"}, RecordStaffAudit("catalog_price_overrides"),
           {})
  BY DEF RecordStaffAudit
<1> HIDE Entries, TableNames DEF Find, Show, Put, Try, Tell, TellIfDone, Org, Trip, Boat, Guest,
      FolioForActiveMutation, Staff, Roles, Fits, Safe, Concerns, HomeBound, OwnBound, GuestBound,
      OpenBound, SoundEffect, Told, OnTrips, TablesOf, AdminTables, AdminWrites, BoatWork, Earns,
      Facts, FactNames, OfRecord, RecordTables
<1>2. Does("org_admin", {}, handleListPriceOverrides, {})
  BY AdminFolios DEF handleListPriceOverrides
<1>3. Does("org_admin", {}, handleUpsertBoatPriceOverride, {})
  BY AdminFolios, <1>1, Then DEF handleUpsertBoatPriceOverride
<1>4. Does("org_admin", {}, handleUpsertTripPriceOverride, {})
  BY AdminFolios, <1>1, Then DEF handleUpsertTripPriceOverride
<1>5. Does("org_admin", {}, handleArchivePriceOverride, {})
  BY AdminFolios, <1>1, Then DEF handleArchivePriceOverride
<1>6. Does("org_admin", {}, handleInventoryBoatSummary, {})
  BY AdminFolios DEF handleInventoryBoatSummary
<1>7. Does("org_admin", {}, handleListFXRates, {})
  BY AdminPayments DEF handleListFXRates
<1>8. Does("org_admin", {}, handleCreateFXRate, {})
  BY AdminPayments DEF handleCreateFXRate
<1> QED BY <1>2, <1>3, <1>4, <1>5, <1>6, <1>7, <1>8

\* The routes of staff invitations, imports and payment settings.
LEMMA AdminImportRoutes ==
  /\ Does("org_admin", {}, handleListInvitations, {})
  /\ Does("org_admin", {}, handleCreateInvitation, {})
  /\ Does("org_admin", {}, handleResendInvitation, {})
  /\ Does("org_admin", {}, handleRevokeInvitation, {})
  /\ Does("org_admin", {}, handleKickLiveaboardImport, {})
  /\ Does("org_admin", {}, handleGetImportJob, {})
  /\ Does("org_admin", {}, handleSpreadsheetPreview, {})
  /\ Does("org_admin", {}, handleSpreadsheetCommit, {})
<1>0. "org_admin" \in Staff
  BY DEF Staff
<1> USE Entries, TableNames DEF Find, Show, Put, Try, Tell, TellIfDone, Org, Trip, Boat, Guest,
      FolioForActiveMutation, Staff, Roles, Fits, Safe, Concerns, HomeBound, OwnBound, GuestBound,
      OpenBound, SoundEffect, Told, OnTrips, TablesOf, AdminTables, AdminWrites, BoatWork, Earns,
      Facts, FactNames, OfRecord, RecordTables
<1>1. Does("org_admin", {"invitations"}, Tell("invitations"), {})
  OBVIOUS
<1> HIDE Entries, TableNames DEF Find, Show, Put, Try, Tell, TellIfDone, Org, Trip, Boat, Guest,
      FolioForActiveMutation, Staff, Roles, Fits, Safe, Concerns, HomeBound, OwnBound, GuestBound,
      OpenBound, SoundEffect, Told, OnTrips, TablesOf, AdminTables, AdminWrites, BoatWork, Earns,
      Facts, FactNames, OfRecord, RecordTables
<1>2. Does("org_admin", {}, handleListInvitations, {})
  BY AdminPayments DEF handleListInvitations
<1>3. Does("org_admin", {}, handleCreateInvitation, {})
  BY AdminPayments, <1>1, Then DEF handleCreateInvitation
<1>4. Does("org_admin", {}, handleResendInvitation, {})
  <2>1. Does("org_admin", {}, InvitationByID \o RotateInvitationToken, {"invitations"})
    BY <1>0, StaffPayments, AdminPayments, Then
  <2> QED BY <2>1, <1>1, Then DEF handleResendInvitation
<1>5. Does("org_admin", {}, handleRevokeInvitation, {})
  BY AdminPayments DEF handleRevokeInvitation
<1>6. Does("org_admin", {}, handleKickLiveaboardImport, {})
  BY AdminPayments DEF handleKickLiveaboardImport
<1>7. Does("org_admin", {}, handleGetImportJob, {})
  BY <1>0, AdminPayments, StaffCabins, AndThen DEF handleGetImportJob
<1>8. Does("org_admin", {}, handleSpreadsheetPreview, {})
  BY <1>0, StaffOrganizations, AdminPayments, AndThen, Weaken DEF handleSpreadsheetPreview
<1>9. Does("org_admin", {}, handleSpreadsheetCommit, {})
  BY <1>0, StaffPayments, StaffOrganizations, AdminTrips, AdminPayments, AndThen, Weaken
    DEF handleSpreadsheetCommit
<1> QED BY <1>2, <1>3, <1>4, <1>5, <1>6, <1>7, <1>8, <1>9
\* What staff ask for is safe from its first statement.
LEMMA StaffRoutesSafe ==
  ASSUME NEW role \in Staff, NEW h \in DOMAIN StaffRoutes
  PROVE  Does(role, Begins(role, h), StaffRoutes[h], {})
<1> DEFINE Good(k) == Does(role, Begins(role, k), StaffRoutes[k], {})
<1>1. DOMAIN StaffRoutes = {
          "handleUpdateProfile", "handleOrganization", "handleCheckoutQuote", "HandleListTrips",
          "handleTripLifecycle", "handleStartTrip", "handleCompleteTrip", "handleCancelTrip",
          "handleTripLedger", "handleAddTripLedgerLine", "handleTripManifest",
          "handleTripCabinBoard", "handleAddTripGuest", "handleResendTripGuestInvite",
          "handleRevokeTripGuestInvite", "handleAssignGuestCabin", "handleUnassignGuestCabin",
          "handleStaffGuestRegistration", "handleListStaffGuestDocuments",
          "handleUploadStaffGuestDocument", "handleOpenStaffGuestDocument",
          "handleArchiveStaffGuestDocument", "handleGuestActivity", "handleGetGuestFolio",
          "handleOpenGuestFolio", "handleAddGuestFolioLine", "handleUpdateGuestFolioLine",
          "handleDeleteGuestFolioLine", "handleCloseGuestFolio", "handleResendGuestFolioEmail",
          "handleGetBoatCabins", "handlePreviewBoatCabins", "handleReplaceBoatCabins",
          "handlePatchBoatCabin", "handleDeleteBoatCabin", "handlePatchBoatBerth",
          "handleDeleteBoatBerth", "handleCockpit", "handleCruiseDirectorOverview",
          "handleAuditEvents", "handleTripDashboard", "handleListCatalogCategories",
          "handleCreateCatalogCategory", "handleUpdateCatalogCategory", "handleListCatalogItems",
          "handleCreateCatalogItem", "handleUpdateCatalogItem", "handleListBoatInventory",
          "handleSetBoatInventory", "handleAdjustBoatInventory"}
  BY DEF StaffRoutes
<1>2. /\ "org_admin" \in Staff /\ Start("org_admin") = {"trip_own", "boat_own"}
      /\ \A k : Start(role) \subseteq Begins(role, k)
  BY DEF Staff, Start, Begins
<1>3. Good("handleCancelTrip")
  BY <1>2, AdminTrips, AdminsOnly DEF StaffRoutes, handleCancelTrip
<1>4. /\ Good("handleUpdateProfile")
      /\ Good("handleOrganization")
      /\ Good("HandleListTrips")
      /\ Good("handleCockpit")
      /\ Good("handleCruiseDirectorOverview")
      /\ Good("handleTripDashboard")
  BY <1>2, StaffOverviews, Weaken DEF StaffRoutes
<1>5. /\ Good("handleCheckoutQuote")
      /\ Good("handleListCatalogCategories")
      /\ Good("handleCreateCatalogCategory")
      /\ Good("handleUpdateCatalogCategory")
      /\ Good("handleListCatalogItems")
      /\ Good("handleCreateCatalogItem")
      /\ Good("handleUpdateCatalogItem")
      /\ Good("handleListBoatInventory")
      /\ Good("handleSetBoatInventory")
      /\ Good("handleAdjustBoatInventory")
  BY <1>2, StaffCatalogRoutes, Weaken DEF StaffRoutes
<1>6. /\ Good("handleTripLifecycle")
      /\ Good("handleStartTrip")
      /\ Good("handleCompleteTrip")
      /\ Good("handleTripManifest")
      /\ Good("handleAddTripGuest")
      /\ Good("handleResendTripGuestInvite")
      /\ Good("handleRevokeTripGuestInvite")
      /\ Good("handleStaffGuestRegistration")
  BY <1>2, StaffManifestRoutes, Weaken DEF StaffRoutes
<1>7. /\ Good("handleTripLedger")
      /\ Good("handleAddTripLedgerLine")
      /\ Good("handleGetGuestFolio")
      /\ Good("handleOpenGuestFolio")
      /\ Good("handleAddGuestFolioLine")
      /\ Good("handleUpdateGuestFolioLine")
      /\ Good("handleDeleteGuestFolioLine")
      /\ Good("handleCloseGuestFolio")
      /\ Good("handleResendGuestFolioEmail")
  BY <1>2, StaffFolioRoutes, Weaken DEF StaffRoutes, Begins
<1>8. /\ Good("handleTripCabinBoard")
      /\ Good("handleAssignGuestCabin")
      /\ Good("handleUnassignGuestCabin")
      /\ Good("handleGetBoatCabins")
      /\ Good("handlePreviewBoatCabins")
      /\ Good("handleReplaceBoatCabins")
      /\ Good("handlePatchBoatCabin")
      /\ Good("handleDeleteBoatCabin")
      /\ Good("handlePatchBoatBerth")
      /\ Good("handleDeleteBoatBerth")
  BY <1>2, StaffCabinRoutes, Weaken DEF StaffRoutes, Begins
<1>9. /\ Good("handleListStaffGuestDocuments")
      /\ Good("handleUploadStaffGuestDocument")
      /\ Good("handleOpenStaffGuestDocument")
      /\ Good("handleArchiveStaffGuestDocument")
      /\ Good("handleGuestActivity")
      /\ Good("handleAuditEvents")
  BY <1>2, StaffDocumentRoutes, Weaken DEF StaffRoutes
<1> QED BY <1>1, <1>3, <1>4, <1>5, <1>6, <1>7, <1>8, <1>9

\* What administrators ask for is safe after RequireOrgAdmin.
LEMMA AdminRoutesSafe ==
  ASSUME NEW h \in DOMAIN AdminRoutes
  PROVE  Does("org_admin", Begins("org_admin", h), AdminRoutes[h], {})
<1> DEFINE Good(k) == Does("org_admin", Begins("org_admin", k), AdminRoutes[k], {})
<1>1. DOMAIN AdminRoutes = {
          "handleListInvitations", "handleCreateInvitation", "handleResendInvitation",
          "handleRevokeInvitation", "HandleOverview", "handleAdminReports",
          "handleGetOnboarding", "handleDismissOnboarding", "handleGetPaymentSettings",
          "handleUpdatePaymentSettings", "HandleListBoats", "HandleGetBoat",
          "HandleListBoatTrips", "HandleListUsers", "handleApplyCatalogDefaults",
          "handleListPriceOverrides", "handleUpsertBoatPriceOverride",
          "handleUpsertTripPriceOverride", "handleArchivePriceOverride",
          "handleInventoryBoatSummary", "handleListFXRates", "handleCreateFXRate",
          "handleAssignCruiseDirector", "handleUnassignCruiseDirector",
          "handleKickLiveaboardImport", "handleGetImportJob", "handleSpreadsheetPreview",
          "handleSpreadsheetCommit", "HandlePatchOrganization"}
  BY DEF AdminRoutes
<1>2. /\ "org_admin" \in Staff /\ Start("org_admin") = {"trip_own", "boat_own"}
      /\ \A k : Start("org_admin") \subseteq Begins("org_admin", k)
  BY DEF Staff, Start, Begins
<1>3. /\ Good("handleListInvitations")
      /\ Good("handleCreateInvitation")
      /\ Good("handleResendInvitation")
      /\ Good("handleRevokeInvitation")
      /\ Good("handleKickLiveaboardImport")
      /\ Good("handleGetImportJob")
      /\ Good("handleSpreadsheetPreview")
      /\ Good("handleSpreadsheetCommit")
  BY <1>2, AdminImportRoutes, Weaken DEF AdminRoutes, Begins
<1>4. /\ Good("HandleOverview")
      /\ Good("handleAdminReports")
      /\ Good("handleGetOnboarding")
      /\ Good("handleDismissOnboarding")
      /\ Good("HandleListBoatTrips")
      /\ Good("handleAssignCruiseDirector")
      /\ Good("handleUnassignCruiseDirector")
      /\ Good("HandlePatchOrganization")
  BY <1>2, AdminOverviews, Weaken DEF AdminRoutes
<1>5. /\ Good("handleGetPaymentSettings")
      /\ Good("handleUpdatePaymentSettings")
      /\ Good("handleApplyCatalogDefaults")
  BY <1>2, StaffCatalogRoutes, Weaken DEF AdminRoutes
<1>6. /\ Good("HandleListBoats")
      /\ Good("HandleGetBoat")
      /\ Good("HandleListUsers")
  BY <1>2, StaffOverviews, Weaken DEF AdminRoutes
<1>7. /\ Good("handleListPriceOverrides")
      /\ Good("handleUpsertBoatPriceOverride")
      /\ Good("handleUpsertTripPriceOverride")
      /\ Good("handleArchivePriceOverride")
      /\ Good("handleInventoryBoatSummary")
      /\ Good("handleListFXRates")
      /\ Good("handleCreateFXRate")
  BY <1>2, AdminCatalogRoutes, Weaken DEF AdminRoutes, Begins
<1> QED BY <1>1, <1>3, <1>4, <1>5, <1>6, <1>7

\* What guests ask for is safe.
LEMMA GuestRoutesSafe ==
  ASSUME NEW h \in DOMAIN GuestRoutes
  PROVE  Does("guest", Begins("guest", h), GuestRoutes[h], {})
<1> DEFINE Good(k) == Does("guest", Begins("guest", k), GuestRoutes[k], {})
<1>1. DOMAIN GuestRoutes = {
          "handleGetGuestRegistration", "handleSaveGuestRegistration",
          "handleSubmitGuestRegistration", "handleListGuestDocuments",
          "handleUploadGuestDocument", "handleOpenGuestDocument", "handleGuestTab"}
  BY DEF GuestRoutes
<1>2. /\ Good("handleGetGuestRegistration")
      /\ Good("handleSaveGuestRegistration")
      /\ Good("handleSubmitGuestRegistration")
      /\ Good("handleListGuestDocuments")
      /\ Good("handleUploadGuestDocument")
      /\ Good("handleOpenGuestDocument")
      /\ Good("handleGuestTab")
  BY CallerDocumentRoutes, Weaken DEF GuestRoutes
<1> QED BY <1>1, <1>2

\* Every route is safe from its first statement.
LEMMA RoutesSafe ==
  ASSUME NEW role \in Roles, NEW h \in DOMAIN RoutesOf(role)
  PROVE  Does(role, Begins(role, h), RoutesOf(role)[h], {})
<1>1. CASE role = "guest"
  BY <1>1, GuestRoutesSafe DEF RoutesOf
<1>2. CASE role \in Staff
  <2> DEFINE listed == DOMAIN StaffRoutes \cup DOMAIN AdminRoutes
             steps(k) == IF k \in DOMAIN StaffRoutes THEN StaffRoutes[k]
                         ELSE RequireOrgAdmin \o AdminRoutes[k]
  <2>1. RoutesOf(role) = [k \in listed |-> steps(k)]
    BY <1>2 DEF RoutesOf, Staff
  <2>2. h \in listed /\ RoutesOf(role)[h] = steps(h)
    BY <2>1
  <2>3. CASE h \in DOMAIN StaffRoutes
    BY <1>2, <2>2, <2>3, StaffRoutesSafe
  <2>4. CASE h \notin DOMAIN StaffRoutes
    <3>1. h \in DOMAIN AdminRoutes /\ RoutesOf(role)[h] = RequireOrgAdmin \o AdminRoutes[h]
      BY <2>2, <2>4
    <3>2. Does("org_admin", Begins("org_admin", h), AdminRoutes[h], {})
      BY <3>1, AdminRoutesSafe
    <3>3. role = "org_admin" => Begins("org_admin", h) \subseteq Begins(role, h)
      OBVIOUS
    <3> QED BY <1>2, <3>1, <3>2, <3>3, AdminsOnly
  <2> QED BY <2>3, <2>4
<1> QED BY <1>1, <1>2 DEF Roles

-----------------------------------------------------------------------------
(***************************************************************************)
(* Places.                                                                  *)
(***************************************************************************)
\* What is above an organization, a boat, a trip and a guest.
LEMMA Above ==
  /\ \A o \in Orgs : Up[o] = {o}
  /\ \A b \in Boats : Up[b] = {b, Parent[b]}
  /\ \A t \in Trips : Up[t] = {t, Parent[t], Parent[Parent[t]]}
  /\ \A g \in Guests : Up[g] = {g, Parent[g], Parent[Parent[g]], Parent[Parent[Parent[g]]]}
<1> USE RequestAssumption
<1> DEFINE over(x) == IF x \in Orgs THEN {} ELSE {Parent[x]}
           F == [x \in Places |->
                   IF x \in Orgs THEN {x} ELSE
                   IF x \in Boats THEN {x, Parent[x]} ELSE
                   IF x \in Trips THEN {x, Parent[x], Parent[Parent[x]]}
                   ELSE {x, Parent[x], Parent[Parent[x]], Parent[Parent[Parent[x]]]}]
<1>1. /\ \A o \in Orgs : F[o] = {o}
      /\ \A b \in Boats : F[b] = {b, Parent[b]}
      /\ \A t \in Trips : F[t] = {t, Parent[t], Parent[Parent[t]]}
      /\ \A g \in Guests : F[g] = {g, Parent[g], Parent[Parent[g]], Parent[Parent[Parent[g]]]}
  BY DEF RequestAssumption, Places
<1>2. ASSUME NEW x \in Places
      PROVE  F[x] = {x} \cup (IF x \in Orgs THEN {} ELSE F[Parent[x]])
  <2>1. CASE x \in Orgs
    BY <2>1, <1>1
  <2>2. CASE x \in Boats
    <3>1. Parent[x] \in Orgs /\ x \notin Orgs
      BY <2>2 DEF RequestAssumption
    <3>2. F[x] = {x, Parent[x]} /\ F[Parent[x]] = {Parent[x]}
      BY <1>1, <2>2, <3>1
    <3> HIDE DEF F
    <3> QED BY <3>1, <3>2
  <2>3. CASE x \in Trips
    <3>1. Parent[x] \in Boats /\ x \notin Orgs
      BY <2>3 DEF RequestAssumption
    <3>2. F[x] = {x, Parent[x], Parent[Parent[x]]} /\ F[Parent[x]] = {Parent[x], Parent[Parent[x]]}
      BY <1>1, <2>3, <3>1
    <3> HIDE DEF F
    <3> QED BY <3>1, <3>2
  <2>4. CASE x \in Guests
    <3>1. Parent[x] \in Trips /\ x \notin Orgs
      BY <2>4 DEF RequestAssumption
    <3>2. /\ F[x] = {x, Parent[x], Parent[Parent[x]], Parent[Parent[Parent[x]]]}
          /\ F[Parent[x]] = {Parent[x], Parent[Parent[x]], Parent[Parent[Parent[x]]]}
      BY <1>1, <2>4, <3>1
    <3> HIDE DEF F
    <3> QED BY <3>1, <3>2
  <2> QED BY <2>1, <2>2, <2>3, <2>4 DEF Places
<1> DEFINE G == [x \in Places |-> {x} \cup (IF x \in Orgs THEN {} ELSE F[Parent[x]])]
<1>3. F = G
  <2>1. F = [x \in Places |-> F[x]]
    OBVIOUS
  <2>2. G = [x \in Places |-> F[x]]
    BY <1>2
  <2> QED BY <2>1, <2>2
<1> DEFINE Good(f) == f = [x \in Places |-> {x} \cup (IF x \in Orgs THEN {} ELSE f[Parent[x]])]
<1>4. Good(F)
  BY <1>3
<1>5. Good(Up)
  <2>1. Good(CHOOSE f : Good(f))
    BY <1>4
  <2> QED BY <2>1 DEF Up
<1> HIDE DEF F
<1>6. \A x \in Places : Up[x] = {x} \cup (IF x \in Orgs THEN {} ELSE Up[Parent[x]])
  BY <1>5
<1> HIDE DEF Good
<1>7. \A o \in Orgs : Up[o] = {o}
  BY <1>6 DEF Places
<1>8. \A b \in Boats : Up[b] = {b, Parent[b]}
  <2> TAKE b \in Boats
  <2>1. b \in Places /\ b \notin Orgs /\ Parent[b] \in Orgs
    BY DEF Places, RequestAssumption
  <2> QED BY <2>1, <1>6, <1>7
<1>9. \A t \in Trips : Up[t] = {t, Parent[t], Parent[Parent[t]]}
  <2> TAKE t \in Trips
  <2>1. t \in Places /\ t \notin Orgs /\ Parent[t] \in Boats
    BY DEF Places, RequestAssumption
  <2> QED BY <2>1, <1>6, <1>8
<1>10. \A g \in Guests : Up[g] = {g, Parent[g], Parent[Parent[g]], Parent[Parent[Parent[g]]]}
  <2> TAKE g \in Guests
  <2>1. g \in Places /\ g \notin Orgs /\ Parent[g] \in Trips
    BY DEF Places, RequestAssumption
  <2> QED BY <2>1, <1>6, <1>9
<1> QED BY <1>7, <1>8, <1>9, <1>10

\* Every place is of one organization; what is above a place is of the same, and below
\* an organization nothing else has it above.
LEMMA OneHome ==
  ASSUME NEW x \in Places
  PROVE  /\ Up[x] \subseteq Places
         /\ \E o \in Orgs : \A y \in Up[x] : Up[y] \cap Orgs = {o}
         /\ x \in Up[x]
         /\ \A y \in Up[x] : Up[y] \subseteq Up[x]
<1> USE Above, RequestAssumption
<1>1. CASE x \in Orgs
  BY <1>1 DEF Places
<1>2. CASE x \in Boats
  <2>1. Parent[x] \in Orgs /\ Up[Parent[x]] = {Parent[x]} /\ Up[x] = {x, Parent[x]} /\ x \notin Orgs
    BY <1>2 DEF RequestAssumption
  <2> QED BY <1>2, <2>1 DEF Places
<1>3. CASE x \in Trips
  <2>1. PICK b \in Boats : b = Parent[x]
    BY <1>3 DEF RequestAssumption
  <2>2. PICK o \in Orgs : o = Parent[b]
    BY DEF RequestAssumption
  <2>3. /\ Up[o] = {o} /\ Up[b] = {b, o} /\ Up[x] = {x, b, o}
        /\ x \notin Orgs /\ b \notin Orgs
    BY <1>3, <2>1, <2>2 DEF RequestAssumption
  <2> HIDE Above, RequestAssumption
  <2> QED BY <2>3, <1>3 DEF Places
<1>4. CASE x \in Guests
  <2>0. PICK t \in Trips : t = Parent[x]
    BY <1>4 DEF RequestAssumption
  <2>1. PICK b \in Boats : b = Parent[t]
    BY DEF RequestAssumption
  <2>2. PICK o \in Orgs : o = Parent[b]
    BY DEF RequestAssumption
  <2>3. /\ Up[o] = {o} /\ Up[b] = {b, o} /\ Up[t] = {t, b, o} /\ Up[x] = {x, t, b, o}
        /\ x \notin Orgs /\ b \notin Orgs /\ t \notin Orgs
    BY <1>4, <2>0, <2>1, <2>2 DEF RequestAssumption
  <2> HIDE Above, RequestAssumption
  <2> QED BY <2>3, <1>4 DEF Places
<1> QED BY <1>1, <1>2, <1>3, <1>4 DEF Places

\* The trip of a guest, and of a trip; no place has two.
LEMMA OneTrip ==
  /\ \A t \in Trips : TripsAt(t) = {t}
  /\ \A g \in Guests : TripsAt(g) = {Parent[g]} /\ Parent[g] \in Trips
  /\ \A x \in Orgs \cup Boats : TripsAt(x) = {}
<1> USE Above, RequestAssumption
<1>1. \A t \in Trips : TripsAt(t) = {t}
  <2> TAKE t \in Trips
  <2>1. Up[t] = {t, Parent[t], Parent[Parent[t]]}
    OBVIOUS
  <2>2. Parent[t] \notin Trips /\ Parent[Parent[t]] \notin Trips
    BY DEF RequestAssumption
  <2> QED BY <2>1, <2>2 DEF TripsAt
<1>2. \A g \in Guests : TripsAt(g) = {Parent[g]} /\ Parent[g] \in Trips
  <2> TAKE g \in Guests
  <2>1. Up[g] = {g, Parent[g], Parent[Parent[g]], Parent[Parent[Parent[g]]]}
    OBVIOUS
  <2>2. /\ Parent[g] \in Trips /\ g \notin Trips
        /\ Parent[Parent[g]] \notin Trips /\ Parent[Parent[Parent[g]]] \notin Trips
    BY DEF RequestAssumption
  <2> QED BY <2>1, <2>2 DEF TripsAt
<1>3. \A o \in Orgs : TripsAt(o) = {}
  BY DEF RequestAssumption, TripsAt
<1>4. \A b \in Boats : TripsAt(b) = {}
  BY DEF RequestAssumption, TripsAt
<1> QED BY <1>1, <1>2, <1>3, <1>4

-----------------------------------------------------------------------------
(***************************************************************************)
(* The statement a request is at.                                           *)
(***************************************************************************)
\* Where the rows of the tables hang.
LEMMA PlacesOfTable ==
  ASSUME NEW table \in Tables
  PROVE  /\ PlacesOf[table] \subseteq Places
         /\ table \notin TablesOf.guests => PlacesOf[table] \cap Guests = {}
         /\ table \notin TablesOf.trips \cup TablesOf.guests
              => PlacesOf[table] \subseteq Orgs \cup Boats
         /\ table = "users" => PlacesOf[table] \subseteq Orgs
         /\ table \in BoatWork \cup {"boats"} => PlacesOf[table] \subseteq Boats
         /\ table \in {"trips", "trip_cruise_directors"} => PlacesOf[table] \subseteq Trips
         /\ table \in {"trip_guests", "guest_documents", "guest_folios"} => PlacesOf[table] = Guests
<1>1. \A x : x \in PlacesOf[table] <=> \/ table \in TablesOf.orgs /\ x \in Orgs
                                       \/ table \in TablesOf.boats /\ x \in Boats
                                       \/ table \in TablesOf.trips /\ x \in Trips
                                       \/ table \in TablesOf.guests /\ x \in Guests
  <2> DEFINE A == IF table \in TablesOf.orgs THEN Orgs ELSE {}
             B == IF table \in TablesOf.boats THEN Boats ELSE {}
             C == IF table \in TablesOf.trips THEN Trips ELSE {}
             D == IF table \in TablesOf.guests THEN Guests ELSE {}
  <2>1. PlacesOf[table] = UNION {A, B, C, D}
    BY DEF PlacesOf
  <2>2. UNION {A, B, C, D} = A \cup B \cup C \cup D
    OBVIOUS
  <2>3. \A x : /\ x \in A <=> table \in TablesOf.orgs /\ x \in Orgs
               /\ x \in B <=> table \in TablesOf.boats /\ x \in Boats
               /\ x \in C <=> table \in TablesOf.trips /\ x \in Trips
               /\ x \in D <=> table \in TablesOf.guests /\ x \in Guests
    OBVIOUS
  <2> HIDE DEF A, B, C, D
  <2> QED BY <2>1, <2>2, <2>3
<1>2. /\ {"users"} \cap (TablesOf.boats \cup TablesOf.trips \cup TablesOf.guests) = {}
      /\ (BoatWork \cup {"boats"})
           \cap (TablesOf.orgs \cup TablesOf.trips \cup TablesOf.guests) = {}
      /\ {"trips", "trip_cruise_directors"}
           \cap (TablesOf.orgs \cup TablesOf.boats \cup TablesOf.guests) = {}
      /\ {"trip_guests", "guest_documents", "guest_folios"}
           \cap (TablesOf.orgs \cup TablesOf.boats \cup TablesOf.trips) = {}
      /\ {"trip_guests", "guest_documents", "guest_folios"} \subseteq TablesOf.guests
  BY DEF TablesOf, BoatWork
<1>3. Guests \cap (Orgs \cup Boats \cup Trips) = {}
  BY RequestAssumption DEF RequestAssumption
<1> QED BY <1>1, <1>2, <1>3 DEF Places

\* What a column of the statement says of a row it finds.
LEMMA Columns ==
  ASSUME NEW s, NEW x \in Rows(s)
  PROVE  /\ x \in PlacesOf[s.table]
         /\ "organization_id" \in s.where => CallerOrg \in Up[x]
         /\ "boat_id" \in s.where => req.boat \in Up[x]
         /\ "boat_of_trip" \in s.where => x \in Up[req.trip]
         /\ "trip_id" \in s.where => req.trip \in Up[x]
         /\ "trip_guest_id" \in s.where => req.guest \in Up[x]
         /\ "user_id" \in s.where => HomeOf[req.director] = x
         /\ "caller" \in s.where => HomeOf[req.user] = x
         /\ "mine" \in s.where => Mine(x)
         /\ "mine_or_no_trip" \in s.where => Mine(x) \/ TripsAt(x) = {}
         /\ "shown" \in s.where => TripsAt(x) \subseteq req.found
         /\ "planned" \in s.where => OfPhase(x, {"planned"})
         /\ "active" \in s.where => OfPhase(x, {"active"})
         /\ "open" \in s.where => OfPhase(x, {"planned", "active"})
         /\ "not_revoked" \in s.where => x \notin revoked
         /\ "of_a_boat" \in s.where => x \in Boats
<1>1. x \in PlacesOf[s.table] /\ \A c \in s.where : Meets(c, x)
  BY DEF Rows
<1>2. /\ Meets("organization_id", x) => CallerOrg \in Up[x]
      /\ Meets("boat_id", x) => req.boat \in Up[x]
      /\ Meets("boat_of_trip", x) => x \in Up[req.trip]
      /\ Meets("trip_id", x) => req.trip \in Up[x]
      /\ Meets("trip_guest_id", x) => req.guest \in Up[x]
      /\ Meets("user_id", x) => HomeOf[req.director] = x
      /\ Meets("caller", x) => HomeOf[req.user] = x
      /\ Meets("mine", x) => Mine(x)
      /\ Meets("mine_or_no_trip", x) => Mine(x) \/ TripsAt(x) = {}
      /\ Meets("shown", x) => TripsAt(x) \subseteq req.found
      /\ Meets("planned", x) => OfPhase(x, {"planned"})
      /\ Meets("active", x) => OfPhase(x, {"active"})
      /\ Meets("open", x) => OfPhase(x, {"planned", "active"})
      /\ Meets("not_revoked", x) => x \notin revoked
      /\ Meets("of_a_boat", x) => x \in Boats
  BY DEF Meets
<1> QED BY <1>1, <1>2

\* The caller has one organization; a guest's is that of their trip.
LEMMA HomeOfCaller ==
  ASSUME req \in RequestRows, Begun
  PROVE  /\ Role \in Roles /\ CallerOrg \in Orgs
         /\ Role = "guest" => CallerOrg \in Up[req.guest]
<1>1. /\ req.user \in Users /\ Role \in Roles
      /\ Role # "guest" => Role \in Staff /\ HomeOf[req.user] \in Orgs
  BY RequestAssumption DEF RequestRows, RequestAssumption, Role, Roles
<1>2. CASE Role # "guest"
  BY <1>1, <1>2 DEF CallerOrg
<1>3. CASE Role = "guest"
  <2>1. req.guest \in Places
    BY <1>3 DEF Begun, GuestInTrip, Places
  <2>2. \E o \in Up[req.guest] : o \in Orgs
    BY <2>1, OneHome
  <2> QED BY <1>1, <1>3, <2>2 DEF CallerOrg
<1> QED BY <1>2, <1>3

\* What is above a place is of the organization the place is of.
LEMMA SameHome ==
  ASSUME NEW x \in Places, NEW y \in Up[x], NEW o \in Orgs
  PROVE  (o \in Up[x]) <=> (o \in Up[y])
<1>1. PICK p \in Orgs : \A z \in Up[x] : Up[z] \cap Orgs = {p}
  BY OneHome
<1>2. x \in Up[x]
  BY OneHome
<1>3. (o \in Up[x]) <=> o = p
  BY <1>1, <1>2
<1>4. (o \in Up[y]) <=> o = p
  BY <1>1
<1> QED BY <1>3, <1>4

\* No place has another trip or guest above it than its own.
LEMMA OneGuest ==
  ASSUME NEW x \in Places
  PROVE  /\ \A g \in Guests : g \in Up[x] => x = g
         /\ \A t \in Trips : t \in Up[x] => TripsAt(x) = {t}
         /\ x \in Boats => \A b \in Boats : b \in Up[x] => x = b
         /\ x \in Orgs => Up[x] = {x}
<1>1. \A g \in Guests : g \in Up[x] => x = g
  BY Above, RequestAssumption DEF RequestAssumption, Places
<1>2. \A t \in Trips : t \in Up[x] => TripsAt(x) = {t}
  <2>1. \A t \in Trips : t \in Up[x] => t \in TripsAt(x)
    BY DEF TripsAt
  <2>2. \E t : TripsAt(x) \subseteq {t}
    BY OneTrip DEF Places
  <2> QED BY <2>1, <2>2
<1>3. x \in Boats => \A b \in Boats : b \in Up[x] => x = b
  BY Above, RequestAssumption DEF RequestAssumption
<1>4. x \in Orgs => Up[x] = {x}
  BY Above
<1> QED BY <1>1, <1>2, <1>3, <1>4

\* The statement a request is at is safe, and the facts before it hold.
LEMMA NowIs ==
  ASSUME RequestInv, InFlight
  PROVE  /\ req \in RequestRows /\ Begun /\ Noted /\ FoundGood
         /\ Role \in Roles /\ CallerOrg \in Orgs
         /\ Steps = RoutesOf(Role)[req.route] /\ Steps # <<>>
         /\ DOMAIN Steps = 1..Len(Steps) /\ Len(Steps) \in Nat
         /\ req.at \in 1..Len(Steps)
         /\ \A f \in Known : Fact(f, req.done)
         /\ Safe(Role, Known, Now)
         /\ Concerns(Role, Now) => Now \in Asked(req.user, req.route)
<1>1. /\ req \in RequestRows /\ Begun /\ Noted /\ FoundGood /\ req.at \in DOMAIN Steps
      /\ \A f \in Known : Fact(f, req.done)
  BY DEF RequestInv
<1>2. Role \in Roles /\ CallerOrg \in Orgs
  BY <1>1, HomeOfCaller
<1>3. Plan[Role] = RoutesOf(Role) /\ Steps = RoutesOf(Role)[req.route]
  BY <1>2 DEF Plan, Steps
<1>4. Does(Role, Begins(Role, req.route), Steps, {})
  BY <1>1, <1>2, <1>3, RoutesSafe DEF Begun
<1>5. Safe(Role, Known, Now)
  BY <1>1, <1>4 DEF Does, Known, Now
<1>6. DOMAIN Steps = 1..Len(Steps) /\ Len(Steps) \in Nat /\ Steps # <<>>
  <2>1. PICK S : Steps \in Seq(S)
    BY <1>4 DEF Does
  <2> QED BY <2>1, <1>4, LenProperties DEF Does
<1>7. Concerns(Role, Now) => Now \in Asked(req.user, req.route)
  BY <1>1, <1>3 DEF Asked, Now, Steps, Role
<1> QED BY <1>1, <1>2, <1>3, <1>5, <1>6, <1>7

-----------------------------------------------------------------------------
(***************************************************************************)
(* What a safe statement touches.                                           *)
(***************************************************************************)
\* The facts known of the request bind the rows of the statement.
LEMMA Touched ==
  ASSUME RequestInv, InFlight, Concerns(Role, Now), Now.do \in {"show", "put", "try"}
  PROVE  /\ Now.table \in Tables
         /\ HomeBound(Known, Now)
         /\ Role = "cruise_director" => OwnBound(Known, Now)
         /\ Role = "guest" => GuestBound(Known, Now)
         /\ Now.do \in {"put", "try"} =>
              (OfRecord(Now) => OpenBound(Known, Now)) /\ SoundEffect(Known, Now)
         /\ \A x \in Rows(Now) : x \in Places /\ x \in PlacesOf[Now.table]
<1>1. Safe(Role, Known, Now) /\ \A f \in Known : Fact(f, req.done)
  BY NowIs
<1>2. "barred" \notin Known
  BY <1>1 DEF Fact
<1>3. Now.table \in Tables
  BY <1>1, <1>2 DEF Safe
<1> QED BY <1>1, <1>2, <1>3, PlacesOfTable DEF Safe, Rows

\* The rows are of the caller's organization.
LEMMA TouchedAtHome ==
  ASSUME RequestInv, InFlight, Concerns(Role, Now), Now.do \in {"show", "put", "try"},
         Now.table # "exchange_rates", NEW x \in Rows(Now)
  PROVE  CallerOrg \in Up[x]
<1>1. /\ Now.table \in Tables /\ HomeBound(Known, Now) /\ x \in Places
      /\ x \in PlacesOf[Now.table]
      /\ CallerOrg \in Orgs /\ \A f \in Known : Fact(f, req.done)
      /\ req \in RequestRows /\ Begun /\ FoundGood
  BY Touched, NowIs
<1>2. CASE "organization_id" \in Now.where
  BY <1>2, Columns
<1>3. CASE "caller" \in Now.where /\ Now.table = "users"
  <2>1. x \in Orgs /\ HomeOf[req.user] = x
    BY <1>1, <1>3, Columns, PlacesOfTable
  <2>2. Role # "guest" => CallerOrg = x
    BY <2>1 DEF CallerOrg
  <2>3. Role # "guest"
    <3>1. Role = "guest" => GuestBound(Known, Now)
      BY Touched
    <3> QED BY <1>3, <3>1 DEF GuestBound
  <2> QED BY <2>1, <2>2, <2>3, Above
<1>4. CASE "shown" \in Now.where /\ Now.table \in {"trip_cruise_directors", "trip_guests"}
  <2>1. TripsAt(x) \subseteq req.found /\ x \in Trips \cup Guests
    BY <1>1, <1>4, Columns, PlacesOfTable
  <2>2. PICK t \in TripsAt(x) : t \in req.found
    BY <2>1, OneTrip
  <2>3. t \in Up[x] /\ CallerOrg \in Up[t]
    BY <1>1, <2>2 DEF TripsAt, FoundGood
  <2> QED BY <1>1, <2>3, SameHome
<1>5. CASE "trip_id" \in Now.where /\ "trip_home" \in Known
  <2>1. req.trip \in Up[x] /\ CallerOrg \in Up[req.trip]
    BY <1>1, <1>5, Columns DEF Fact
  <2> QED BY <1>1, <2>1, SameHome
<1>6. CASE "boat_id" \in Now.where /\ "boat_home" \in Known
  <2>1. req.boat \in Up[x] /\ CallerOrg \in Up[req.boat]
    BY <1>1, <1>6, Columns DEF Fact
  <2> QED BY <1>1, <2>1, SameHome
<1>7. CASE "trip_guest_id" \in Now.where /\ "guest_home" \in Known
  <2>1. req.guest \in Up[x] /\ CallerOrg \in Up[req.guest]
    BY <1>1, <1>7, Columns DEF Fact, GuestHome
  <2> QED BY <1>1, <2>1, SameHome
<1>8. CASE "boat_of_trip" \in Now.where /\ "trip_home" \in Known /\ Now.table = "boats"
  <2>1. x \in Up[req.trip] /\ CallerOrg \in Up[req.trip] /\ req.trip \in Places
    BY <1>1, <1>8, Columns DEF Fact, Places
  <2> QED BY <1>1, <2>1, SameHome
<1> QED BY <1>1, <1>2, <1>3, <1>4, <1>5, <1>6, <1>7, <1>8 DEF HomeBound

\* A director's trips and boats.
LEMMA TouchedOwn ==
  ASSUME RequestInv, InFlight, Concerns(Role, Now), Now.do \in {"show", "put", "try"},
         Role = "cruise_director"
  PROVE  /\ Now.table \notin (IF Now.do = "show" THEN AdminTables ELSE AdminWrites)
         /\ \A x \in Rows(Now) : /\ TripsAt(x) \subseteq req.own
                                 /\ Now.table \in BoatWork => \E t \in req.own : x \in Up[t]
<1>1. /\ Now.table \in Tables /\ OwnBound(Known, Now)
      /\ \A x \in Rows(Now) : x \in Places /\ x \in PlacesOf[Now.table]
      /\ \A f \in Known : Fact(f, req.done)
      /\ req \in RequestRows /\ Begun /\ FoundGood /\ Noted
  BY Touched, NowIs
<1>2. ASSUME NEW x \in Rows(Now) PROVE TripsAt(x) \subseteq req.own
  <2>1. CASE ~OnTrips(Now)
    <3>1. x \in Orgs \cup Boats
      BY <1>1, <2>1, PlacesOfTable DEF OnTrips
    <3> QED BY <3>1, OneTrip
  <2>2. CASE Mine(x)
    <3>1. PICK t \in TripsAt(x) : <<t, req.user>> \in directs
      BY <2>2 DEF Mine
    <3>2. t \in Trips /\ t \in Up[x] /\ TripsAt(x) = {t}
      BY <1>1, <3>1, OneGuest DEF TripsAt
    <3>3. t \in OwnOf(req.user, directs, revoked)
      BY <3>1, <3>2 DEF OwnOf, DirectedBy, Role
    <3> QED BY <1>1, <3>2, <3>3 DEF Noted
  <2>3. CASE TripsAt(x) = {}
    BY <2>3
  <2>4. CASE "shown" \in Now.where
    <3>1. TripsAt(x) \subseteq req.found
      BY <2>4, Columns
    <3> QED BY <1>1, <3>1 DEF FoundGood
  <2>5. CASE "trip_id" \in Now.where /\ "trip_own" \in Known
    <3>1. req.trip \in Up[x] /\ req.trip \in req.own
      BY <1>1, <2>5, Columns DEF Fact
    <3>2. req.trip \in Trips
      BY <1>1, <3>1, OneHome, RequestAssumption DEF RequestRows, RequestAssumption
    <3> QED BY <1>1, <3>1, <3>2, OneGuest
  <2>6. CASE "trip_guest_id" \in Now.where /\ {"guest_in_trip", "trip_own"} \subseteq Known
    <3>1. /\ req.guest \in Up[x] /\ req.guest \in Guests
          /\ req.trip = Parent[req.guest] /\ req.trip \in req.own
      BY <1>1, <2>6, Columns DEF Fact, GuestInTrip
    <3>2. x = req.guest
      BY <1>1, <3>1, OneGuest
    <3> QED BY <3>1, <3>2, OneTrip
  <2>7. "mine" \in Now.where => Mine(x)
    BY Columns
  <2>8. "mine_or_no_trip" \in Now.where => Mine(x) \/ TripsAt(x) = {}
    BY Columns
  <2> QED BY <1>1, <2>1, <2>2, <2>3, <2>4, <2>5, <2>6, <2>7, <2>8 DEF OwnBound
<1>3. ASSUME NEW x \in Rows(Now), Now.table \in BoatWork PROVE \E t \in req.own : x \in Up[t]
  <2>0. x \in Boats
    BY <1>1, <1>3, PlacesOfTable
  <2>1. CASE "boat_id" \in Now.where /\ "boat_own" \in Known
    <3>1. req.boat \in Up[x] /\ \E t \in req.own : req.boat \in Up[t]
      BY <1>1, <2>1, Columns DEF Fact
    <3>2. req.boat \in Boats
      BY <1>1, <3>1, OneHome, RequestAssumption DEF RequestRows, RequestAssumption
    <3>3. x = req.boat
      BY <1>1, <2>0, <3>1, <3>2, OneGuest
    <3> QED BY <3>1, <3>3
  <2>2. CASE "boat_of_trip" \in Now.where /\ "trip_own" \in Known
    BY <1>1, <2>2, Columns DEF Fact
  <2> QED BY <1>1, <1>3, <2>1, <2>2 DEF OwnBound
<1> QED BY <1>1, <1>2, <1>3 DEF OwnBound

\* A guest's own place.
LEMMA TouchedGuest ==
  ASSUME RequestInv, InFlight, Concerns(Role, Now), Now.do \in {"show", "put", "try"},
         Role = "guest"
  PROVE  Rows(Now) \cap Guests \subseteq req.own
<1>1. /\ Now.table \in Tables /\ GuestBound(Known, Now)
      /\ \A x \in Rows(Now) : x \in Places /\ x \in PlacesOf[Now.table]
      /\ \A f \in Known : Fact(f, req.done)
      /\ Begun
  BY Touched, NowIs
<1>2. ASSUME NEW x \in Rows(Now), x \in Guests PROVE x \in req.own
  <2>1. Now.table \in TablesOf.guests
    BY <1>1, <1>2, PlacesOfTable
  <2>2. req.guest \in Up[x] /\ req.guest \in req.own
    BY <1>1, <2>1, Columns DEF GuestBound, Fact
  <2>3. req.guest \in Guests
    BY <1>1 DEF Begun, GuestInTrip
  <2> QED BY <1>1, <2>2, <2>3, OneGuest
<1> QED BY <1>2

\* Trips open when the request began.
LEMMA TouchedOpen ==
  ASSUME RequestInv, InFlight, Concerns(Role, Now), Now.do \in {"put", "try"},
         OfRecord(Now), NEW x \in Rows(Now)
  PROVE  TripsAt(x) \subseteq req.openThen
<1>1. /\ Now.table \in Tables /\ OpenBound(Known, Now)
      /\ x \in Places /\ x \in PlacesOf[Now.table]
      /\ \A f \in Known : Fact(f, req.done)
      /\ req \in RequestRows /\ Noted
  BY Touched, NowIs
<1>2. CASE ~OnTrips(Now)
  <2>1. x \in Orgs \cup Boats
    BY <1>1, <1>2, PlacesOfTable DEF OnTrips
  <2> QED BY <2>1, OneTrip
<1>3. CASE {"planned", "active", "open"} \cap Now.where # {}
  <2>1. OfPhase(x, {"planned"}) \/ OfPhase(x, {"active"}) \/ OfPhase(x, {"planned", "active"})
    BY <1>3, Columns
  <2>2. \A t \in TripsAt(x) : phase[t] # "ended"
    BY <2>1 DEF OfPhase
  <2> QED BY <1>1, <2>2 DEF Noted, OpenTrips, TripsAt
<1>4. CASE "trip_open" \in Known /\ "trip_id" \in Now.where
  <2>1. req.trip \in Up[x] /\ req.trip \in req.openThen
    BY <1>1, <1>4, Columns DEF Fact
  <2>2. req.trip \in Trips
    BY <1>1, <2>1 DEF RequestRows
  <2> QED BY <1>1, <2>1, <2>2, OneGuest
<1>5. CASE {"trip_open", "guest_in_trip"} \subseteq Known /\ "trip_guest_id" \in Now.where
  <2>1. /\ req.guest \in Up[x] /\ req.guest \in Guests
        /\ req.trip = Parent[req.guest] /\ req.trip \in req.openThen
    BY <1>1, <1>5, Columns DEF Fact, GuestInTrip
  <2>2. x = req.guest
    BY <1>1, <2>1, OneGuest
  <2> QED BY <2>1, <2>2, OneTrip
<1> QED BY <1>1, <1>2, <1>3, <1>4, <1>5 DEF OpenBound

-----------------------------------------------------------------------------
(***************************************************************************)
(* From one statement to the next.                                          *)
(***************************************************************************)
\* A fact the statement earns is true of the request, once its table is noted as done.
LEMMA Earned ==
  ASSUME RequestInv, InFlight, NEW f \in Facts, Earns(Role, Now, f),
         Now.do = "require" => Role \in Now.who,
         Now.do \in {"find", "put"} => Rows(Now) # {},
         NEW done, req.done \subseteq done,
         Now.do \in {"show", "put"} /\ Rows(Now) # {} => Now.table \in done
  PROVE  Fact(f, done)
<1> USE TableNames
<1>1. /\ req \in RequestRows /\ Begun /\ Noted /\ FoundGood
      /\ Role \in Roles /\ CallerOrg \in Orgs
  BY NowIs
<1>2. CASE Now.do = "require"
  BY <1>2 DEF Earns
<1>3. CASE Now.do = "show"
  <2>1. Role \in Now.who /\ Now.where \subseteq Guest
    BY <1>3 DEF Earns
  <2>0. Concerns(Role, Now)
    BY <2>1 DEF Concerns
  <2>2. Now.table \in Tables
    BY <1>3, <2>0, Touched
  <2>3. ASSUME Now.table \in {"guest_documents", "guest_folios"}, GuestHome, GuestInTrip
        PROVE  Now.table \in done
    <3>1. req.guest \in PlacesOf[Now.table] /\ req.guest \in Places
      BY <2>2, <2>3, PlacesOfTable DEF GuestHome, Places
    <3>2. req.guest \in Up[req.guest] /\ req.trip \in Up[req.guest] /\ CallerOrg \in Up[req.guest]
      BY <2>3, <3>1, OneHome, Above DEF GuestHome, GuestInTrip
    <3>3. \A c \in Guest : Meets(c, req.guest)
      BY <3>2 DEF Meets, Guest, Trip, Org
    <3>4. req.guest \in Rows(Now)
      BY <2>1, <3>1, <3>3 DEF Rows
    <3> QED BY <1>3, <3>4
  <2>4. CASE f = "documents_shown" /\ Now.table = "guest_documents"
    BY <2>3, <2>4 DEF Fact
  <2>5. CASE f = "folio_shown" /\ Now.table = "guest_folios"
    BY <2>3, <2>5 DEF Fact
  <2> QED BY <1>3, <2>4, <2>5 DEF Earns
<1>4. CASE Now.do \in {"find", "put"}
  <2>0. Role \in Now.who /\ Concerns(Role, Now)
    BY <1>4 DEF Earns, Concerns
  <2>1. PICK x : x \in Rows(Now)
    BY <1>4
  <2>2. Now.table \in Tables
    <3>1. Safe(Role, Known, Now) /\ "barred" \notin Known
      BY NowIs DEF Fact
    <3> QED BY <1>4, <2>0, <3>1 DEF Safe
  <2>3. x \in PlacesOf[Now.table] /\ x \in Places /\ Up[x] \subseteq Places
    BY <2>1, <2>2, Columns, PlacesOfTable, OneHome
  <2>n. /\ req.trip \in Trips \cup {Nobody} /\ req.boat \in Boats \cup {Nobody}
        /\ req.guest \in Guests \cup {Nobody} /\ Nobody \notin Places
    BY <1>1, RequestAssumption DEF RequestRows, RequestAssumption
  <2>t. "trip_id" \in Now.where
          => req.trip \in Trips /\ req.trip \in Up[x] /\ TripsAt(x) = {req.trip}
    <3>1. "trip_id" \in Now.where => req.trip \in Up[x]
      BY <2>1, Columns
    <3> QED BY <3>1, <2>n, <2>3, OneGuest
  <2>b. "boat_id" \in Now.where => req.boat \in Boats /\ req.boat \in Up[x]
    BY <2>1, <2>n, <2>3, Columns
  <2>g. "trip_guest_id" \in Now.where => req.guest \in Guests /\ x = req.guest
    <3>1. "trip_guest_id" \in Now.where => req.guest \in Up[x]
      BY <2>1, Columns
    <3> QED BY <3>1, <2>n, <2>3, OneGuest
  <2>o. "organization_id" \in Now.where => \A y \in Up[x] : CallerOrg \in Up[y]
    BY <1>1, <2>1, <2>3, Columns, SameHome
  <2>4. CASE Now.do = "put" /\ f = Now.table
    <3>1. f \in done
      BY <2>1, <2>4
    <3> QED BY <2>2, <2>4, <3>1 DEF Fact
  <2>5. CASE f = "trip_home" /\ {"organization_id", "trip_id"} \subseteq Now.where
    BY <2>5, <2>t, <2>o DEF Fact
  <2>6. CASE f = "boat_home" /\ {"organization_id", "boat_id"} \subseteq Now.where
    BY <2>6, <2>b, <2>o DEF Fact
  <2>7. CASE f = "guest_home" /\ {"organization_id", "trip_guest_id"} \subseteq Now.where
    <3>1. GuestHome
      BY <2>7, <2>g, <2>3, <2>o, OneHome DEF GuestHome
    <3> QED BY <2>7, <3>1 DEF Fact
  <2>8. CASE f = "guest_in_trip" /\ {"trip_id", "trip_guest_id"} \subseteq Now.where
    <3>1. GuestInTrip
      BY <2>8, <2>g, <2>t, OneTrip DEF GuestInTrip
    <3> QED BY <2>8, <3>1 DEF Fact
  <2>9. CASE f = "trip_open" /\ {"trip_id", "open"} \subseteq Now.where
    <3>1. OfPhase(x, {"planned", "active"})
      BY <2>1, <2>9, Columns
    <3>2. phase[req.trip] # "ended" /\ req.trip \in Trips
      BY <2>9, <2>t, <3>1 DEF OfPhase
    <3>3. req.trip \in req.openThen
      BY <1>1, <3>2 DEF Noted, OpenTrips
    <3> QED BY <2>9, <3>3 DEF Fact
  <2>10. CASE /\ f = "director_home" /\ Now.table = "users"
              /\ {"organization_id", "user_id"} \subseteq Now.where
    <3>1. x \in Orgs /\ HomeOf[req.director] = x /\ CallerOrg \in Up[x]
      BY <2>1, <2>2, <2>3, <2>10, Columns, PlacesOfTable
    <3>2. CallerOrg = x
      BY <3>1, Above
    <3>3. "user_id" \in Named(req.user, req.route)
      BY <2>0, <2>10, NowIs DEF Named
    <3>4. req.director \in Directors
      BY <1>1, <3>3 DEF Begun
    <3> QED BY <2>10, <3>1, <3>2, <3>4 DEF Fact
  <2>11. CASE /\ Role = "cruise_director" /\ Now.table = "trip_cruise_directors"
              /\ \/ f = "trip_own" /\ {"trip_id", "mine"} \subseteq Now.where
                 \/ f = "boat_own" /\ {"boat_id", "mine"} \subseteq Now.where
    <3>1. x \in Trips /\ Mine(x)
      BY <2>1, <2>2, <2>3, <2>11, Columns, PlacesOfTable
    <3>2. <<x, req.user>> \in directs
      <4>1. Role # "guest" /\ TripsAt(x) = {x}
        BY <2>11, <3>1, OneTrip
      <4> QED BY <3>1, <4>1 DEF Mine
    <3>3. x \in req.own
      BY <1>1, <2>11, <3>1, <3>2 DEF Noted, OwnOf, DirectedBy, Role
    <3>4. CASE f = "trip_own" /\ "trip_id" \in Now.where
      <4>1. req.trip = x
        BY <2>t, <3>1, <3>4, OneTrip
      <4> QED BY <3>3, <3>4, <4>1 DEF Fact
    <3>5. CASE f = "boat_own" /\ "boat_id" \in Now.where
      BY <2>b, <3>3, <3>5 DEF Fact
    <3> QED BY <2>11, <3>4, <3>5
  <2>12. CASE /\ Role = "guest" /\ Now.table = "trip_guests"
              /\ {"trip_guest_id", "mine", "not_revoked"} \subseteq Now.where
              /\ f \in {"guest_own", "guest_home", "trip_home", "guest_in_trip"}
    <3>1. req.guest \in Guests /\ x = req.guest /\ Mine(x) /\ x \notin revoked
      BY <2>1, <2>12, <2>g, Columns
    <3>2. req.guest \in req.own
      BY <1>1, <2>12, <3>1 DEF Noted, OwnOf, Mine, Role
    <3>3. GuestInTrip /\ GuestHome
      BY <1>1, <2>12, <3>1, HomeOfCaller DEF Begun, GuestHome
    <3>4. req.trip \in Trips /\ CallerOrg \in Up[req.trip]
      <4>1. req.trip \in Up[req.guest] /\ req.guest \in Places
        BY <3>1, <3>3, Above DEF GuestInTrip, Places
      <4>2. req.trip \in Trips
        BY <3>1, <3>3, OneTrip DEF GuestInTrip
      <4> QED BY <1>1, <3>3, <4>1, <4>2, SameHome DEF GuestHome
    <3> QED BY <2>12, <3>2, <3>3, <3>4 DEF Fact
  <2> QED BY <1>4, <2>4, <2>5, <2>6, <2>7, <2>8, <2>9, <2>10, <2>11, <2>12 DEF Earns
<1> QED BY <1>2, <1>3, <1>4 DEF Earns

\* What a step of the request's own leaves of it.
Kept(done, found) ==
  /\ Advance(done, found)
  /\ req.done \subseteq done /\ done \subseteq Tables
  /\ Concerns(Role, Now) /\ Now.do \in {"show", "put"} /\ Rows(Now) # {} => Now.table \in done
  /\ found \subseteq Trips
  /\ \A t \in found : CallerOrg \in Up[t] /\ (Role = "cruise_director" => t \in req.own)
  /\ Now.do = "require" => Role \in Now.who
  /\ Concerns(Role, Now) /\ Now.do \in {"find", "put"} => Rows(Now) # {}

\* A request that goes on knows what it knew and what its statement has earned.
LEMMA Onward ==
  ASSUME RequestInv, InFlight, NEW done, NEW found, Kept(done, found),
         RowsTyped', AssignmentsStayHome',
         OpenTrips' \subseteq req.openThen, OwnOf(req.user, directs', revoked') \subseteq req.own
  PROVE  RequestInv'
<1> SUFFICES ASSUME InFlight'
             PROVE  /\ req' \in RequestRows /\ Begun' /\ req'.at \in DOMAIN Steps' /\ Noted'
                    /\ FoundGood'
                    /\ \A f \in Known' : Fact(f, req.done)'
  BY DEF RequestInv
<1>1. /\ req \in RequestRows /\ Begun /\ Noted /\ FoundGood
      /\ DOMAIN Steps = 1..Len(Steps) /\ Len(Steps) \in Nat /\ req.at \in 1..Len(Steps)
      /\ \A f \in Known : Fact(f, req.done)
  BY NowIs
<1>2. req' = [req EXCEPT !.at = @ + 1, !.done = done, !.found = found] /\ req.at # Len(Steps)
  BY DEF Kept, Advance, InFlight
<1>3. /\ req'.at = req.at + 1 /\ req'.user = req.user /\ req'.route = req.route
      /\ req'.trip = req.trip
      /\ req'.boat = req.boat /\ req'.guest = req.guest /\ req'.row = req.row
      /\ req'.director = req.director /\ req'.own = req.own /\ req'.openThen = req.openThen
      /\ req'.done = done /\ req'.found = found /\ req' \in RequestRows
  <2>1. /\ done \in SUBSET Tables /\ found \in SUBSET Trips /\ req.at + 1 \in Nat \ {0}
    BY <1>1 DEF Kept
  <2> QED BY <1>1, <1>2, <2>1 DEF RequestRows
<1>4. Role' = Role /\ Steps' = Steps /\ CallerOrg' = CallerOrg
  BY <1>3 DEF Role, Steps, CallerOrg
<1>5. Begun' /\ Noted' /\ FoundGood'
  BY <1>1, <1>3, <1>4 DEF Begun, Noted, FoundGood, Kept, GuestInTrip
<1>6. req'.at \in DOMAIN Steps'
  BY <1>1, <1>2, <1>3, <1>4
<1>7. ASSUME NEW f \in Known' PROVE Fact(f, done)
  <2>1. Known' = After(Role, Begins(Role, req.route), Steps, req.at)
    BY <1>1, <1>3, <1>4 DEF Known, RequestRows
  <2>2. CASE f \in Known
    BY <1>1, <2>2 DEF Fact, Kept
  <2>3. CASE f \notin Known
    <3>1. f \in Facts /\ Earns(Role, Steps[req.at], f)
      BY <1>1, <1>7, <2>1, <2>3 DEF After, Known
    <3>2. Earns(Role, Now, f)
      BY <3>1 DEF Now
    <3>3. Now.do \in {"find", "show", "put"} => Concerns(Role, Now)
      BY <3>2 DEF Earns, Concerns
    <3> QED BY <3>1, <3>2, <3>3, Earned DEF Kept
  <2> QED BY <2>2, <2>3
<1>8. \A f : Fact(f, done) => Fact(f, req.done)'
  BY <1>3, <1>4 DEF Fact, GuestHome, GuestInTrip
<1> QED BY <1>3, <1>5, <1>6, <1>7, <1>8

\* Sending the answer leaves no request.
LEMMA Finish ==
  ASSUME RequestInv, Answer
  PROVE  RequestInv'
<1>1. ~InFlight'
  BY DEF Answer, InFlight
<1> QED BY <1>1 DEF RequestInv, RowsTyped, AssignmentsStayHome, Answer

\* Nothing is earned, and nothing changes, where a branch is passed over, a gate is
\* passed, or something is told.
LEMMA StandsStill ==
  ASSUME RequestInv, InFlight, NEW done, NEW found, Kept(done, found),
         UNCHANGED <<directs, phase, revoked>>
  PROVE  RequestInv'
<1>1. RowsTyped' /\ AssignmentsStayHome'
  BY DEF RequestInv, RowsTyped, AssignmentsStayHome
<1>2. OpenTrips' \subseteq req.openThen /\ OwnOf(req.user, directs', revoked') \subseteq req.own
  BY NowIs DEF Noted, OpenTrips
<1> QED BY <1>1, <1>2, Onward

\* The statements that write nothing.
LEMMA ReadsKeep ==
  ASSUME RequestInv, InFlight, PassOver \/ Gate \/ Look \/ Fetch \/ Report
  PROVE  RequestInv'
<1>1. req \in RequestRows /\ FoundGood
  BY NowIs
<1>2. req.done \subseteq Tables /\ req.found \subseteq Trips
  BY <1>1 DEF RequestRows
<1>3. ASSUME Advance(req.done, req.found), UNCHANGED <<directs, phase, revoked>>,
             Concerns(Role, Now) => Now.do \notin {"show", "put"},
             Concerns(Role, Now) /\ Now.do = "find" => Rows(Now) # {},
             Now.do = "require" => Role \in Now.who
      PROVE  RequestInv'
  <2>1. Kept(req.done, req.found)
    BY <1>1, <1>2, <1>3 DEF Kept, FoundGood
  <2> QED BY <1>3, <2>1, StandsStill
<1>4. CASE PassOver
  <2>1. ~Concerns(Role, Now)
    BY <1>4 DEF PassOver
  <2>2. Now.do # "require"
    BY <2>1 DEF Concerns
  <2> QED BY <1>3, <1>4, <2>1, <2>2 DEF PassOver
<1>5. CASE Gate
  BY <1>3, <1>5 DEF Gate, Doing
<1>6. CASE Look
  BY <1>3, <1>6 DEF Look, Doing
<1>7. CASE Report
  BY <1>3, <1>7 DEF Report, Doing
<1>8. CASE Fetch
  <2> DEFINE done == IF Rows(Now) = {} THEN req.done ELSE req.done \cup {Now.table}
             found == IF Now.table = "trips" THEN Rows(Now) ELSE req.found
  <2>1. Concerns(Role, Now) /\ Now.do = "show"
    BY <1>8 DEF Fetch, Doing
  <2>2. Now.table \in Tables /\ \A x \in Rows(Now) : x \in Places /\ x \in PlacesOf[Now.table]
    BY <2>1, Touched
  <2>3. found \subseteq Trips
    BY <1>2, <2>2, PlacesOfTable
  <2>4. \A t \in found : CallerOrg \in Up[t] /\ (Role = "cruise_director" => t \in req.own)
    <3>1. CASE Now.table # "trips"
      BY <1>1, <3>1 DEF FoundGood
    <3>2. CASE Now.table = "trips"
      <4>1. \A t \in Rows(Now) : CallerOrg \in Up[t]
        BY <2>1, <3>2, TouchedAtHome
      <4>2. \A t \in Rows(Now) : t \in TripsAt(t)
        BY <2>3, <3>2, OneTrip
      <4>3. Role = "cruise_director" => \A t \in Rows(Now) : TripsAt(t) \subseteq req.own
        BY <2>1, TouchedOwn
      <4> QED BY <3>2, <4>1, <4>2, <4>3
    <3> QED BY <3>1, <3>2
  <2>5. Advance(done, found) /\ UNCHANGED <<directs, phase, revoked>>
    BY <1>8 DEF Fetch
  <2>6. req.done \subseteq done /\ done \subseteq Tables /\ (Rows(Now) # {} => Now.table \in done)
    BY <1>2, <2>2
  <2> HIDE DEF done, found
  <2>7. Kept(done, found)
    BY <2>1, <2>3, <2>4, <2>5, <2>6 DEF Kept
  <2> QED BY <2>5, <2>7, StandsStill
<1> QED BY <1>4, <1>5, <1>6, <1>7, <1>8

\* A director of the organization is put on a trip of it; an open trip moves on, and a
\* guest is revoked or invited anew.
LEMMA WriteKeeps ==
  ASSUME RequestInv, InFlight, Write
  PROVE  RequestInv'
<1> DEFINE done == IF Rows(Now) = {} THEN req.done ELSE req.done \cup {Now.table}
<1>1. /\ req \in RequestRows /\ Begun /\ Noted /\ FoundGood /\ RowsTyped /\ AssignmentsStayHome
      /\ \A f \in Known : Fact(f, req.done)
  BY NowIs DEF RequestInv
<1>2. Concerns(Role, Now) /\ Now.do \in {"put", "try"} /\ (Now.do = "put" => Rows(Now) # {})
  BY DEF Write, Doing
<1>3. /\ Now.table \in Tables /\ SoundEffect(Known, Now)
      /\ \A x \in Rows(Now) : x \in Places /\ x \in PlacesOf[Now.table]
  BY <1>2, Touched
<1>4. Kept(done, req.found)
  <2>1. Advance(done, req.found)
    BY DEF Write
  <2>2. req.done \subseteq done /\ done \subseteq Tables /\ (Rows(Now) # {} => Now.table \in done)
    BY <1>1, <1>3 DEF RequestRows
  <2>3. req.found \subseteq Trips
    BY <1>1 DEF RequestRows
  <2> HIDE DEF done
  <2> QED BY <1>1, <1>2, <2>1, <2>2, <2>3 DEF Kept, FoundGood
<1>5. /\ directs' \subseteq Trips \X Directors /\ AssignmentsStayHome'
      /\ Role = "cruise_director" => DirectedBy(req.user, directs') \subseteq req.own
  <2>0. Role = "cruise_director" => DirectedBy(req.user, directs) \subseteq req.own
    BY <1>1 DEF Noted, OwnOf, Role
  <2>1. CASE Now.to = "directed"
    <3>1. directs' = directs \cup {<<t, req.director>> : t \in Rows(Now)}
      BY <2>1 DEF Write
    <3>2. Rows(Now) \subseteq Trips
      BY <1>3, <2>1, PlacesOfTable DEF SoundEffect
    <3>3. /\ req.trip \in Trips /\ CallerOrg \in Up[req.trip]
          /\ req.director \in Directors /\ HomeOf[req.director] = CallerOrg
      BY <1>1, <1>3, <2>1 DEF SoundEffect, Fact
    <3>4. \A t \in Rows(Now) : t = req.trip
      <4> TAKE t \in Rows(Now)
      <4>1. req.trip \in Up[t]
        BY <1>3, <2>1, Columns DEF SoundEffect
      <4>2. TripsAt(t) = {req.trip} /\ TripsAt(t) = {t}
        BY <1>3, <3>2, <3>3, <4>1, OneGuest, OneTrip
      <4> QED BY <4>2
    <3>5. Role = "cruise_director" => \A t \in Rows(Now) : t \in req.own
      <4>1. Role = "cruise_director" => \A t \in Rows(Now) : TripsAt(t) \subseteq req.own
        BY <1>2, TouchedOwn
      <4>2. \A t \in Rows(Now) : t \in TripsAt(t)
        BY <3>2, OneTrip
      <4> QED BY <4>1, <4>2
    <3>6. directs' \subseteq Trips \X Directors
      BY <1>1, <3>1, <3>2, <3>3 DEF RowsTyped
    <3>7. \A pair \in directs' : HomeOf[pair[2]] \in Up[pair[1]]
      BY <1>1, <3>1, <3>3, <3>4 DEF AssignmentsStayHome
    <3>8. Role = "cruise_director" => DirectedBy(req.user, directs') \subseteq req.own
      BY <2>0, <3>1, <3>5 DEF DirectedBy
    <3> QED BY <3>6, <3>7, <3>8 DEF AssignmentsStayHome
  <2>2. CASE Now.to # "directed"
    <3>1. directs' \subseteq directs
      BY <2>2 DEF Write
    <3> QED BY <1>1, <2>0, <3>1 DEF RowsTyped, AssignmentsStayHome, DirectedBy
  <2> QED BY <2>1, <2>2
<1>6. phase' \in [Trips -> {"planned", "active", "ended"}] /\ OpenTrips' \subseteq req.openThen
  <2>1. phase' = [t \in Trips |-> IF Now.to \in {"active", "ended"} /\ t \in Rows(Now)
                                  THEN Now.to ELSE phase[t]]
    BY DEF Write
  <2>2. phase' \in [Trips -> {"planned", "active", "ended"}]
    BY <1>1, <2>1 DEF RowsTyped
  <2>3. ASSUME NEW t \in Trips, phase'[t] # "ended" PROVE phase[t] # "ended"
    <3>1. CASE Now.to = "active" /\ t \in Rows(Now)
      <4>1. OfPhase(t, {"planned"})
        BY <1>3, <3>1, Columns DEF SoundEffect
      <4>2. t \in TripsAt(t)
        BY OneTrip
      <4> QED BY <4>1, <4>2 DEF OfPhase
    <3>2. CASE ~(Now.to = "active" /\ t \in Rows(Now))
      BY <2>1, <2>3, <3>2
    <3> QED BY <3>1, <3>2
  <2>4. \A t \in Trips : phase[t] # "ended" => t \in req.openThen
    BY <1>1 DEF Noted, OpenTrips
  <2>5. \A t \in OpenTrips' : t \in Trips /\ phase'[t] # "ended"
    BY DEF OpenTrips
  <2> QED BY <2>2, <2>3, <2>4, <2>5
<1>7. /\ revoked' \subseteq Guests
      /\ Role = "guest" => {g \in Guests \ revoked' : AccountOf[g] = req.user} \subseteq req.own
  <2>0. Role = "guest" => {g \in Guests \ revoked : AccountOf[g] = req.user} \subseteq req.own
    BY <1>1 DEF Noted, OwnOf, Role
  <2>1. Now.to \in {"revoked", "invited"} => Rows(Now) \subseteq Guests
    BY <1>3, PlacesOfTable DEF SoundEffect
  <2>2. Role = "guest" => Rows(Now) \cap Guests \subseteq req.own
    BY <1>2, TouchedGuest
  <2>3. \/ Now.to = "revoked" /\ revoked' = revoked \cup Rows(Now)
        \/ Now.to = "invited" /\ revoked' = revoked \ Rows(Now)
        \/ revoked' = revoked
    BY DEF Write
  <2> QED BY <1>1, <2>0, <2>1, <2>2, <2>3 DEF RowsTyped
<1>8. OwnOf(req.user, directs', revoked') \subseteq req.own
  <2>1. CASE Role = "guest"
    BY <1>7, <2>1 DEF OwnOf, Role
  <2>2. CASE Role = "cruise_director"
    BY <1>5, <2>2 DEF OwnOf, Role
  <2>3. CASE Role = "org_admin"
    <3>1. req.user \notin Directors
      BY <2>3 DEF Directors, Role
    <3>2. DirectedBy(req.user, directs') = {}
      BY <1>5, <3>1 DEF DirectedBy
    <3> QED BY <2>3, <3>2 DEF OwnOf, Role
  <2> QED BY <2>1, <2>2, <2>3, NowIs DEF Roles, Staff
<1> HIDE DEF done
<1> QED BY <1>4, <1>5, <1>6, <1>7, <1>8, Onward DEF RowsTyped

\* Other requests change nothing this one has relied on.
LEMMA OthersKeep ==
  ASSUME RequestInv, NEW pairs, NEW phases, NEW gone, Others(pairs, phases, gone),
         pairs \subseteq Trips \X Directors, phases \in [Trips -> {"planned", "active", "ended"}],
         gone \subseteq Guests,
         \A pair \in pairs : HomeOf[pair[2]] \in Up[pair[1]],
         \A t \in Trips : phases[t] # "ended" => phase[t] # "ended"
  PROVE  RequestInv'
<1>1. directs' = pairs /\ phase' = phases /\ revoked' = gone
  BY DEF Others
<1>2. RowsTyped' /\ AssignmentsStayHome'
  BY <1>1 DEF RowsTyped, AssignmentsStayHome
<1>3. CASE ~InFlight
  <2>1. ~InFlight'
    BY <1>3 DEF Others, InFlight
  <2> QED BY <1>2, <2>1 DEF RequestInv
<1>4. CASE InFlight
  <2> DEFINE own == req.own \cup OwnOf(req.user, pairs, gone)
  <2>1. /\ req \in RequestRows /\ Begun /\ Noted /\ FoundGood
        /\ req.at \in DOMAIN Steps
        /\ \A f \in Known : Fact(f, req.done)
    BY <1>4 DEF RequestInv
  <2>2. own \subseteq Places
    BY <2>1, RequestAssumption DEF RequestRows, OwnOf, DirectedBy, Places, RequestAssumption
  <2>3. req' = [req EXCEPT !.own = own]
    BY <1>4 DEF Others
  <2>4. req.own \subseteq own /\ OwnOf(req.user, pairs, gone) \subseteq own
    OBVIOUS
  <2> HIDE DEF own
  <2>5. /\ req'.at = req.at /\ req'.user = req.user /\ req'.route = req.route
        /\ req'.trip = req.trip
        /\ req'.boat = req.boat /\ req'.guest = req.guest /\ req'.row = req.row
        /\ req'.director = req.director /\ req'.own = own /\ req'.openThen = req.openThen
        /\ req'.done = req.done /\ req'.found = req.found /\ req' \in RequestRows
    BY <2>1, <2>2, <2>3 DEF RequestRows
  <2>6. Role' = Role /\ Steps' = Steps /\ CallerOrg' = CallerOrg
    BY <2>5 DEF Role, Steps, CallerOrg
  <2>7. Begun' /\ FoundGood' /\ req'.at \in DOMAIN Steps'
    BY <2>1, <2>4, <2>5, <2>6 DEF Begun, FoundGood, GuestInTrip
  <2>8. Noted'
    <3>1. OpenTrips' \subseteq OpenTrips
      BY <1>1 DEF OpenTrips
    <3> QED BY <1>1, <2>1, <2>4, <2>5, <3>1 DEF Noted
  <2>9. Known' = Known
    BY <2>5, <2>6 DEF Known
  <2>10. \A f : Fact(f, req.done) => Fact(f, req.done)'
    BY <2>4, <2>5, <2>6 DEF Fact, GuestHome, GuestInTrip
  <2> QED BY <1>2, <2>1, <2>5, <2>7, <2>8, <2>9, <2>10 DEF RequestInv
<1> QED BY <1>3, <1>4

\* A request that begins knows its role and its route.
LEMMA BeginKeeps ==
  ASSUME RequestInv, NEW u \in Callers, NEW h \in DOMAIN Plan[RoleOf[u]], Begin(u, h)
  PROVE  RequestInv'
<1> USE RequestAssumption
<1>1. RowsTyped /\ AssignmentsStayHome /\ u \in Users /\ RoleOf[u] \in Roles
  BY DEF RequestInv, RequestAssumption
<1>2. PICK guest \in Choices(u, h, "trip_guest_id", Guests),
           boat \in Choices(u, h, "boat_id", Boats),
           row0 \in Choices(u, h, "id", IdRows(u, h)),
           director \in Choices(u, h, "user_id", Directors) :
        \E trip \in IF RoleOf[u] = "guest" THEN {Parent[g] : g \in {guest} \cap Guests}
                    ELSE IF {"trip_id", "boat_of_trip"} \cap Named(u, h) # {} THEN Trips
                    ELSE {Nobody} :
          req' = [at |-> 1, user |-> u, route |-> h, trip |-> trip, boat |-> boat,
                  guest |-> guest, row |-> row0, director |-> director,
                  own |-> OwnOf(u, directs, revoked), openThen |-> OpenTrips,
                  done |-> {}, found |-> {}]
  BY DEF Begin
<1>3. PICK trip \in IF RoleOf[u] = "guest" THEN {Parent[g] : g \in {guest} \cap Guests}
                    ELSE IF {"trip_id", "boat_of_trip"} \cap Named(u, h) # {} THEN Trips
                    ELSE {Nobody} :
          req' = [at |-> 1, user |-> u, route |-> h, trip |-> trip, boat |-> boat,
                  guest |-> guest, row |-> row0, director |-> director,
                  own |-> OwnOf(u, directs, revoked), openThen |-> OpenTrips,
                  done |-> {}, found |-> {}]
  BY <1>2
<1>4. directs' = directs /\ phase' = phase /\ revoked' = revoked
  BY DEF Begin
<1>5. /\ guest \in Guests \cup {Nobody} /\ boat \in Boats \cup {Nobody}
      /\ row0 \in Places \cup {Nobody} /\ director \in Directors \cup {Nobody}
      /\ "user_id" \in Named(u, h) => director \in Directors
  BY DEF Choices, IdRows
<1>6. /\ trip \in Trips \cup {Nobody}
      /\ RoleOf[u] = "guest" => guest \in Guests /\ trip = Parent[guest]
  <2>1. RoleOf[u] = "guest" => trip \in {Parent[g] : g \in {guest} \cap Guests}
    OBVIOUS
  <2>2. RoleOf[u] # "guest" => trip \in Trips \cup {Nobody}
    OBVIOUS
  <2> QED BY <2>1, <2>2 DEF RequestAssumption
<1>7. h \in DOMAIN RoutesOf(RoleOf[u]) /\ h \in RouteNames
  <2>1. Plan[RoleOf[u]] = RoutesOf(RoleOf[u])
    BY <1>1 DEF Plan
  <2> QED BY <2>1 DEF RoutesOf, RouteNames
<1>8. OwnOf(u, directs, revoked) \subseteq Places /\ OpenTrips \subseteq Trips
  BY <1>1 DEF OwnOf, DirectedBy, Places, OpenTrips
<1>9. /\ req'.at = 1 /\ req'.user = u /\ req'.route = h /\ req'.trip = trip /\ req'.boat = boat
      /\ req'.guest = guest /\ req'.director = director /\ req'.own = OwnOf(u, directs, revoked)
      /\ req'.openThen = OpenTrips /\ req'.done = {} /\ req'.found = {}
  BY <1>3
<1>10. req' \in RequestRows
  BY <1>3, <1>5, <1>6, <1>7, <1>8 DEF RequestRows
<1>11. Role' = RoleOf[u] /\ Begun'
  BY <1>5, <1>6, <1>7, <1>9 DEF Role, Begun, GuestInTrip
<1>12. Noted' /\ FoundGood'
  BY <1>4, <1>9 DEF Noted, FoundGood, OpenTrips
<1>13. /\ Steps' = RoutesOf(RoleOf[u])[h]
       /\ Does(RoleOf[u], Begins(RoleOf[u], h), Steps', {})
  <2>1. Steps' = RoutesOf(RoleOf[u])[h]
    BY <1>1, <1>9, <1>11 DEF Steps, Plan
  <2> QED BY <1>1, <1>7, <2>1, RoutesSafe
<1>14. DOMAIN Steps' = 1..Len(Steps') /\ Len(Steps') \in Nat \ {0}
  <2>1. PICK S : Steps' \in Seq(S)
    BY <1>13 DEF Does
  <2> QED BY <1>13, <2>1, LenProperties, EmptySeq DEF Does
<1>15. Known' = Begins(RoleOf[u], h)
  BY <1>9, <1>11, <1>14 DEF Known, After
<1>16. \A f \in Known' : Fact(f, req.done)'
  <2> TAKE f \in Known'
  <2>1. \/ f \in {"trip_own", "boat_own"} /\ RoleOf[u] = "org_admin"
        \/ f = "unasked" /\ h = "handleUnassignGuestCabin"
    BY <1>15 DEF Begins, Start
  <2>2. f \notin Tables
    BY <2>1, TableNames
  <2> QED BY <1>9, <1>11, <2>1, <2>2 DEF Fact
<1>17. RowsTyped' /\ AssignmentsStayHome'
  BY <1>1, <1>4 DEF RowsTyped, AssignmentsStayHome
<1> QED BY <1>9, <1>10, <1>11, <1>12, <1>14, <1>16, <1>17 DEF RequestInv

\* The invariant of the requests holds to begin with, and after every step.
LEMMA RequestsInductive ==
  /\ RequestInit => RequestInv
  /\ RequestInv /\ [RequestNext]_requestVars => RequestInv'
<1>1. RequestInit => RequestInv
  <2> SUFFICES ASSUME RequestInit PROVE RequestInv
    OBVIOUS
  <2>1. ~InFlight
    BY DEF RequestInit, InFlight
  <2>2. RowsTyped
    BY RequestAssumption DEF RequestInit, RowsTyped, RequestAssumption
  <2>3. AssignmentsStayHome
    <3> SUFFICES ASSUME NEW p \in Assigned PROVE HomeOf[p[2]] \in Up[p[1]]
      BY DEF RequestInit, AssignmentsStayHome
    <3>1. p[1] \in Trips /\ HomeOf[p[2]] = Parent[Parent[p[1]]]
      BY RequestAssumption DEF RequestAssumption
    <3> QED BY <3>1, Above
  <2> QED BY <2>1, <2>2, <2>3 DEF RequestInv
<1>2. ASSUME RequestInv, [RequestNext]_requestVars PROVE RequestInv'
  <2>0. RowsTyped /\ AssignmentsStayHome
    BY <1>2 DEF RequestInv
  <2>1. CASE \E u \in Callers : \E h \in DOMAIN Plan[RoleOf[u]] : Begin(u, h)
    BY <1>2, <2>1, BeginKeeps
  <2>2. CASE InFlight /\ (PassOver \/ Gate \/ Look \/ Fetch \/ Report)
    BY <1>2, <2>2, ReadsKeep
  <2>3. CASE InFlight /\ Write
    BY <1>2, <2>3, WriteKeeps
  <2>4. CASE Refuse
    BY <1>2, <2>4, Finish DEF Refuse
  <2>5. ASSUME NEW t \in Changing \cap Trips, NEW d \in Directors, OthersAssign(t, d)
        PROVE  RequestInv'
    <3>1. /\ directs \cup {<<t, d>>} \subseteq Trips \X Directors
          /\ \A pair \in directs \cup {<<t, d>>} : HomeOf[pair[2]] \in Up[pair[1]]
      BY <2>0, <2>5 DEF RowsTyped, AssignmentsStayHome, OthersAssign
    <3> QED BY <1>2, <2>0, <2>5, <3>1, OthersKeep DEF OthersAssign, RowsTyped
  <2>6. ASSUME NEW t \in Changing \cap Trips, NEW d \in Directors, OthersUnassign(t, d)
        PROVE  RequestInv'
    <3>1. /\ directs \ {<<t, d>>} \subseteq Trips \X Directors
          /\ \A pair \in directs \ {<<t, d>>} : HomeOf[pair[2]] \in Up[pair[1]]
      BY <2>0 DEF RowsTyped, AssignmentsStayHome
    <3> QED BY <1>2, <2>0, <2>6, <3>1, OthersKeep DEF OthersUnassign, RowsTyped
  <2>7. ASSUME NEW t \in Changing \cap Trips, OthersMoveOn(t)
        PROVE  RequestInv'
    <3>1. PICK p \in {<<"planned", "active">>, <<"planned", "ended">>, <<"active", "ended">>} :
            phase[t] = p[1] /\ Others(directs, [phase EXCEPT ![t] = p[2]], revoked)
      BY <2>7 DEF OthersMoveOn
    <3>2. /\ [phase EXCEPT ![t] = p[2]] \in [Trips -> {"planned", "active", "ended"}]
          /\ \A x \in Trips : [phase EXCEPT ![t] = p[2]][x] # "ended" => phase[x] # "ended"
      BY <2>0, <3>1 DEF RowsTyped
    <3> QED BY <1>2, <2>0, <3>1, <3>2, OthersKeep DEF RowsTyped, AssignmentsStayHome
  <2>8. ASSUME NEW g \in Changing \cap Guests, OthersInvite(g)
        PROVE  RequestInv'
    <3>1. PICK gone \in {revoked \cup {g}, revoked \ {g}} : Others(directs, phase, gone)
      BY <2>8 DEF OthersInvite
    <3>2. gone \subseteq Guests
      BY <2>0, <3>1 DEF RowsTyped
    <3> QED BY <1>2, <2>0, <3>1, <3>2, OthersKeep DEF RowsTyped, AssignmentsStayHome
  <2>9. CASE UNCHANGED requestVars
    <3>1. /\ RowsTyped' /\ AssignmentsStayHome' /\ (InFlight' <=> InFlight)
          /\ Begun' = Begun /\ Steps' = Steps /\ Noted' = Noted /\ FoundGood' = FoundGood
          /\ Known' = Known
          /\ req' = req
      BY <2>0, <2>9
        DEF requestVars, RowsTyped, AssignmentsStayHome, InFlight, Begun, GuestInTrip, Role,
        Steps, Noted, OpenTrips, FoundGood, CallerOrg, Known
    <3>2. \A f : Fact(f, req.done)' <=> Fact(f, req.done)
      BY <2>9 DEF requestVars, Fact, GuestHome, GuestInTrip, Role, CallerOrg
    <3> QED BY <1>2, <3>1, <3>2 DEF RequestInv
  <2> QED BY <1>2, <2>1, <2>2, <2>3, <2>4, <2>5, <2>6, <2>7, <2>8, <2>9 DEF RequestNext
<1> QED BY <1>1, <1>2


-----------------------------------------------------------------------------
(***************************************************************************)
(* What is proved of requests.                                              *)
(***************************************************************************)
\* The facts a request has come by stay true of it, whatever other requests change
\* between its statements.
THEOREM RequestInvariant == RequestSpec => []RequestInv
<1>1. RequestInit => RequestInv
  BY RequestsInductive
<1>2. RequestInv /\ [RequestNext]_requestVars => RequestInv'
  BY RequestsInductive
<1> QED BY <1>1, <1>2, PTL DEF RequestSpec

\* The rows of a request, and of the three parts it is one of, are of their types.
LEMMA TypedRequests ==
  ASSUME RequestInv
  PROVE  RequestTypeOK
<1>1. RowsTyped
  BY DEF RequestInv
<1>2. InFlight => req \in RequestRows /\ req.at \in DOMAIN Steps
  BY DEF RequestInv
<1> QED BY <1>1, <1>2 DEF RequestTypeOK, RowsTyped, RequestRows

\* What a request reads for its answer and what it writes is its caller's organization's.
LEMMA HomeRequests ==
  ASSUME RequestInv
  PROVE  RowsStayHome
<1> SUFFICES ASSUME Touching, Now.table # "exchange_rates", NEW x \in Rows(Now)
             PROVE  CallerOrg \in Up[x]
  BY DEF RowsStayHome
<1>1. InFlight /\ Concerns(Role, Now) /\ Now.do \in {"show", "put", "try"}
  BY DEF Touching, Doing
<1> QED BY <1>1, TouchedAtHome

\* A director touches what is theirs, a guest their own places.
LEMMA OwnRequests ==
  ASSUME RequestInv
  PROVE  ActorsKeepToTheirOwn
<1>1. ASSUME Touching PROVE InFlight /\ Concerns(Role, Now) /\ Now.do \in {"show", "put", "try"}
  BY <1>1 DEF Touching, Doing
<1>2. Touching => (Writing <=> Now.do # "show")
  BY DEF Touching, Writing, Doing
<1>3. ASSUME Touching, Role = "cruise_director"
      PROVE  /\ Now.table \notin (IF Writing THEN AdminWrites ELSE AdminTables)
             /\ \A x \in Rows(Now) : /\ TripsAt(x) \subseteq req.own
                                     /\ Now.table \in BoatWork => \E t \in req.own : x \in Up[t]
  BY <1>1, <1>2, <1>3, TouchedOwn
<1>4. ASSUME Touching, Role = "guest" PROVE Rows(Now) \cap Guests \subseteq req.own
  BY <1>1, <1>4, TouchedGuest
<1> QED BY <1>3, <1>4 DEF ActorsKeepToTheirOwn

\* What is written of a trip's record is of trips that were open when the request began.
LEMMA OpenRequests ==
  ASSUME RequestInv
  PROVE  ClosedTripsKeepTheirRecord
<1> SUFFICES ASSUME Writing, OfRecord(Now), NEW x \in Rows(Now)
             PROVE  TripsAt(x) \subseteq req.openThen
  BY DEF ClosedTripsKeepTheirRecord
<1>1. InFlight /\ Concerns(Role, Now) /\ Now.do \in {"put", "try"}
  BY DEF Writing, Doing
<1> QED BY <1>1, TouchedOpen

\* What is told was written by this request, or sent to its client.
LEMMA ToldRequests ==
  ASSUME RequestInv
  PROVE  ToldOnlyWhatHappened
<1> SUFFICES ASSUME Doing({"tell"}), req.route # "handleUnassignGuestCabin"
             PROVE  Now.table \in req.done
  BY DEF ToldOnlyWhatHappened
<1>1. InFlight /\ Concerns(Role, Now) /\ Now.do = "tell"
  BY DEF Doing
<1>2. Safe(Role, Known, Now) /\ \A f \in Known : Fact(f, req.done)
  BY <1>1, NowIs
<1>3. "barred" \notin Known /\ "unasked" \notin Known
  BY <1>2 DEF Fact
<1>4. Told(Known, Now.table) /\ Now.table \in Tables
  BY <1>1, <1>2, <1>3 DEF Safe
<1>5. CASE Now.table \in Known
  BY <1>2, <1>4, <1>5 DEF Fact
<1>6. CASE /\ {"guest_home", "guest_in_trip"} \subseteq Known
           /\ \/ Now.table = "guest_documents" /\ "documents_shown" \in Known
              \/ Now.table = "guest_folios" /\ "folio_shown" \in Known
  <2>1. GuestHome /\ GuestInTrip
    BY <1>2, <1>6 DEF Fact
  <2> QED BY <1>2, <1>6, <2>1 DEF Fact
<1> QED BY <1>3, <1>4, <1>5, <1>6 DEF Told

\* Whatever ids a request names and whatever changes meanwhile, the rows it reads for its
\* answer and the rows it writes are its caller's organization's.
THEOREM RequestsStayHome == RequestSpec => []RowsStayHome
<1>1. RequestInv => RowsStayHome
  BY HomeRequests
<1> QED BY <1>1, RequestInvariant, PTL

\* No director is ever put on a trip of another organization.
THEOREM DirectorsStayHome == RequestSpec => []AssignmentsStayHome
<1>1. RequestInv => AssignmentsStayHome
  BY DEF RequestInv
<1> QED BY <1>1, RequestInvariant, PTL

\* A director works only where they were assigned when the request began or since, and a
\* guest only on places of their own.
THEOREM CallersKeepToTheirOwn == RequestSpec => []ActorsKeepToTheirOwn
<1>1. RequestInv => ActorsKeepToTheirOwn
  BY OwnRequests
<1> QED BY <1>1, RequestInvariant, PTL

\* Whatever the route, a trip that was over before a request began keeps its record: guests,
\* directors, registrations, documents, charges, placements, the tabs opened, and its status.
THEOREM ClosedTripsAreKept == RequestSpec => []ClosedTripsKeepTheirRecord
<1>1. RequestInv => ClosedTripsKeepTheirRecord
  BY OpenRequests
<1> QED BY <1>1, RequestInvariant, PTL

\* No audit event and no mail tells of what did not happen.
THEOREM ReportsAreTrue == RequestSpec => []ToldOnlyWhatHappened
<1>1. RequestInv => ToldOnlyWhatHappened
  BY ToldRequests
<1> QED BY <1>1, RequestInvariant, PTL

\* The rows, and the request in flight, are always of their types.
THEOREM RequestsTyped == RequestSpec => []RequestTypeOK
<1>1. RequestInv => RequestTypeOK
  BY TypedRequests
<1> QED BY <1>1, RequestInvariant, PTL

\* Requests, accounts and the cooldown of sign-ins share no state: together they behave
\* as each does alone, so that what is proved of each holds of the three.
THEOREM AccessRunsThree == AccessSpec => RequestSpec /\ AccountsSpec /\ ThrottleSpec
<1>1. AccessInit => RequestInit /\ AccountsInit /\ ThrottleInit
  BY DEF AccessInit
<1>2. [AccessNext]_accessVars
        => [RequestNext]_requestVars /\ [AccountsNext]_accountVars /\ [ThrottleNext]_throttleVars
  <2> SUFFICES ASSUME AccessNext \/ UNCHANGED accessVars
               PROVE  /\ RequestNext \/ UNCHANGED requestVars
                      /\ AccountsNext \/ UNCHANGED accountVars
                      /\ ThrottleNext \/ UNCHANGED throttleVars
    OBVIOUS
  <2>1. UNCHANGED accessVars
          => UNCHANGED requestVars /\ UNCHANGED accountVars /\ UNCHANGED throttleVars
    BY DEF accessVars
  <2> QED BY <2>1 DEF AccessNext
<1> QED BY <1>1, <1>2, PTL DEF AccessSpec, RequestSpec, AccountsSpec, ThrottleSpec

\* The rows of the three parts are always of their types.
THEOREM AccessTyped == AccessSpec => []AccessTypeOK
<1>1. RequestTypeOK /\ AccountsTypeOK /\ ThrottleTypeOK => AccessTypeOK
  BY DEF AccessTypeOK
<1> QED BY <1>1, AccessRunsThree, RequestsTyped, AccountsTyped, ThrottleTyped, PTL

===============================================================================
