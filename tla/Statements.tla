------------------------------ MODULE Statements ------------------------------
(***************************************************************************)
(* The SQL statements of internal/store as the handlers see them: which     *)
(* table, and which columns the WHERE clause (or the foreign keys and       *)
(* checks of an INSERT) ties to the request.  A handler is a sequence of    *)
(* them.  What the statements compute is the business of other modules;     *)
(* here a row is known by the place it hangs: an organization, one of its   *)
(* boats, a trip of that boat or a guest of that trip.                      *)
(***************************************************************************)
EXTENDS Naturals, Sequences

Staff == {"org_admin", "cruise_director"}
Roles == Staff \cup {"guest"}

Step(do, table, where) ==
  <<[do |-> do, table |-> table, where |-> where, who |-> Roles, to |-> ""]>>

Find(table, where) == Step("find", table, where)    \* a row must be there: else 404, 403 or 409
Show(table, where) == Step("show", table, where)    \* rows sent to the client
Put(table, where) == Step("put", table, where)      \* a row must be there, and is written
Try(table, where) == Step("try", table, where)      \* rows written if they are there
Tell(table) == Step("tell", table, {})              \* an audit event or a mail says so
TellIfDone(table) == Step("tell_if_done", table, {})
Require(roles) == <<[do |-> "require", table |-> "", where |-> {}, who |-> roles, to |-> ""]>>

\* Steps only some roles go through, and what a written row is set to.
For(roles, steps) == [i \in DOMAIN steps |-> [steps[i] EXCEPT !.who = roles]]
To(value, steps) == [i \in DOMAIN steps |-> [steps[i] EXCEPT !.to = value]]

Director(steps) == For({"cruise_director"}, steps)
Admin(steps) == For({"org_admin"}, steps)

Org == {"organization_id"}
Trip == Org \cup {"trip_id"}
Boat == Org \cup {"boat_id"}
Guest == Trip \cup {"trip_guest_id"}

-----------------------------------------------------------------------------
(***************************************************************************)
(* organizations.go, users.go, boats.go                                    *)
(***************************************************************************)
OrganizationByID == Find("organizations", Org)
UpdateOrganizationProfile == Put("organizations", Org)
DismissOrganizationOnboarding == Put("organizations", Org)
UsersForOrg == Show("users", Org)
CountActiveUsersByRole == Show("users", Org)
UpdateUserProfile == Put("users", {"caller"})
BoatByID == Find("boats", Boat)
BoatsForOrg == Show("boats", Org)
BoatCountForOrg == Show("boats", Org)
UpsertBoat == Put("boats", Org)

-----------------------------------------------------------------------------
(***************************************************************************)
(* trips.go, trip_lifecycle.go                                             *)
(***************************************************************************)
TripByID == Find("trips", Trip)
TripsForBoat == Show("trips", {"boat_id", "listed"})
ReplaceTrips == Put("trips", Boat)     \* ReplaceSpreadsheetTrips, for each boat of the file
TripsByOrgInRange == Show("trips", Org)
TripsForUser == Show("trips", Org \cup {"mine", "listed"})
TripsNeedingAttention == Show("trips", Org \cup {"planned", "listed"})
TripCountForOrg == Show("trips", Org \cup {"listed"})
CruiseDirectorAssignmentsByTrip == Show("trip_cruise_directors", {"shown"})
CruiseDirectorIDsForTrip == Show("trip_cruise_directors", {"trip_id"})

AssignCruiseDirector == To("directed", Try("trip_cruise_directors", {"trip_id", "not_directing"}))
UnassignCruiseDirector == To("undirected", Try("trip_cruise_directors", {"trip_id", "directing"}))
UserAssignedToTrip == Find("trip_cruise_directors", {"trip_id", "mine"})
UserAssignedToBoat == Find("trip_cruise_directors", Boat \cup {"mine"})
TripReadiness == TripByID \o Show("trip_guests", Trip) \o Show("guest_folios", Trip)
StartTrip == TripReadiness \o To("active", Put("trips", Trip \cup {"planned"}))
CompleteTrip == TripReadiness \o To("ended", Put("trips", Trip \cup {"active"}))
CancelTrip == To("ended", Put("trips", Trip \cup {"planned"}))

-----------------------------------------------------------------------------
(***************************************************************************)
(* cabins.go                                                               *)
(***************************************************************************)
BoatCabinLayout == BoatByID \o Show("boat_cabins", Boat) \o Show("boat_cabin_berths", Boat)
PreviewCabinLayout == BoatByID
ReplaceBoatCabinLayout ==
  PreviewCabinLayout \o Put("boat_cabins", Boat \cup {"not_in_use"}) \o BoatCabinLayout
UpdateBoatCabin == Put("boat_cabins", Boat \cup {"id"})
UpdateBoatBerth == Put("boat_cabin_berths", Boat \cup {"id"})
DeactivateBoatCabin ==
  Put("boat_cabins", Boat \cup {"id", "not_in_use"}) \o Try("boat_cabin_berths", Boat)
DeactivateBoatBerth == Put("boat_cabin_berths", Boat \cup {"id", "not_in_use"})
AssignTripGuestBerth == Put("trip_cabin_assignments", Guest \cup {"not_revoked", "laid_out"})
UnassignTripGuestBerth == To("freed", Try("trip_cabin_assignments", Guest \cup {"seated"}))
TripCabinBoard ==
  TripByID \o Show("boat_cabins", Org \cup {"boat_of_trip"})
           \o Show("trip_guests", Trip \cup {"not_revoked"})

\* What the board would say of a guest's berth; an error of it is ignored.
PreviousBerth ==
  Show("boat_cabins", Org \cup {"boat_of_trip"}) \o Show("trip_guests", Trip \cup {"not_revoked"})
BoatActiveBerthCount == Find("boat_cabin_berths", Org \cup {"boat_of_trip", "laid_out"})
BoatHasUsableLayout == BoatActiveBerthCount
UnconfiguredBoatCount == Show("boats", Org)
UnconfiguredBoats == Show("boats", Org)

-----------------------------------------------------------------------------
(***************************************************************************)
(* trip_guests.go, guest_registrations.go, guest_documents.go, audit.go     *)
(***************************************************************************)
TripManifest == Show("trip_guests", Trip)
TripManifestSummaries == Show("trip_guests", Org \cup {"shown", "not_revoked"})
TripManifestSummary == Show("trip_guests", Trip \cup {"not_revoked"})     \* of one trip
TripGuestByID == Find("trip_guests", Guest)
AssertTripGuestAccess == Find("trip_guests", {"trip_guest_id", "mine", "not_revoked"})
CreateTripGuestInvite ==
  To("invited", Put("trip_guests", Guest)) \o Put("trip_cabin_assignments", Guest \cup {"laid_out"})
ResendTripGuestInvite == To("invited", Put("trip_guests", Guest))
RevokeTripGuestInvite == To("revoked", Put("trip_guests", Guest))
MarkTripGuestInvite == Try("trip_guests", {"trip_guest_id"})     \* Sent or Failed
GuestRegistrationByTripGuest == Show("guest_trip_registrations", {"trip_guest_id"})
SaveGuestRegistration == Put("guest_trip_registrations", {"trip_guest_id"})
CreateGuestDocument == Put("guest_documents", Guest)
GuestDocumentsForTripGuest == Show("guest_documents", Guest)
GuestDocumentByID == Find("guest_documents", Guest) \o Show("guest_documents", Guest)
ArchiveGuestDocument == Put("guest_documents", Guest)
AuditEvents ==
  Admin(Show("audit_events", Org)) \o
  Director(Show("audit_events", Org \cup {"mine_or_no_trip"}))
AuditEventsForTripGuest == Show("audit_events", Guest)

-----------------------------------------------------------------------------
(***************************************************************************)
(* guest_folios.go, catalog.go, catalog_pricing.go, inventory.go            *)
(***************************************************************************)
TripConsumptionLedger ==
  TripByID \o Show("catalog_items", Org) \o Show("trip_guests", Trip \cup {"not_revoked"})
           \o Show("guest_folio_lines", Trip)
GuestFolioByTripGuest ==
  Find("guest_folios", Guest) \o Show("guest_folios", Guest) \o Show("guest_folio_lines", Guest)
OpenGuestFolio == Put("guest_folios", Guest \cup {"not_revoked"}) \o GuestFolioByTripGuest
FolioForActiveMutation == Guest \cup {"not_revoked", "active"}    \* locks the trip and the guest
AddGuestFolioLine == Put("guest_folio_lines", FolioForActiveMutation) \o GuestFolioByTripGuest
UpdateGuestFolioLine == Put("guest_folio_lines", FolioForActiveMutation) \o GuestFolioByTripGuest
DeleteGuestFolioLine == Put("guest_folio_lines", FolioForActiveMutation) \o GuestFolioByTripGuest
CloseGuestFolio ==
  To("closed", Put("guest_folios", Guest \cup {"not_revoked"})) \o GuestFolioByTripGuest
MarkGuestFolioEmail == To("mailed", Try("guest_folios", {"trip_guest_id"}))   \* Sent or Failed

CatalogCategories == Show("catalog_categories", Org)
CreateCatalogCategory == Put("catalog_categories", Org)
UpdateCatalogCategory == Put("catalog_categories", Org \cup {"id"})
CatalogItems == Show("catalog_items", Org)
CatalogItemByID == Find("catalog_items", Org \cup {"id"})
EnsureCategoryInOrg == Find("catalog_categories", Org \cup {"id"})
CreateCatalogItem == EnsureCategoryInOrg \o Put("catalog_items", Org)
UpdateCatalogItem == EnsureCategoryInOrg \o Put("catalog_items", Org \cup {"id"})
SeedDefaultCatalog == Put("catalog_categories", Org) \o Put("catalog_items", Org)

EnsureCatalogItemInOrg == Find("catalog_items", Org \cup {"id"})
ListCatalogPriceOverrides == Show("catalog_price_overrides", Org)
UpsertBoatPriceOverride ==
  EnsureCatalogItemInOrg \o BoatByID \o Put("catalog_price_overrides", Boat \cup {"of_a_boat"})
UpsertTripPriceOverride ==
  EnsureCatalogItemInOrg \o TripByID \o Put("catalog_price_overrides", Trip \cup {"of_a_trip"})
ArchiveCatalogPriceOverride == Put("catalog_price_overrides", Org \cup {"id"})

ValidateBoatAndCountedItem == BoatByID \o CatalogItemByID
BoatInventory == BoatByID \o Show("boat_inventory_items", Boat)
InventoryFleetSummary == Show("boat_inventory_items", Org)
SetBoatInventoryItem == ValidateBoatAndCountedItem \o Put("boat_inventory_items", Boat)
AdjustStock == ValidateBoatAndCountedItem \o Put("boat_inventory_items", Boat)

-----------------------------------------------------------------------------
(***************************************************************************)
(* payment_settings.go, fx.go, checkout_quotes.go, import_jobs.go,          *)
(* invitations.go                                                          *)
(***************************************************************************)
EnsurePaymentSettings == Try("organization_payment_settings", Org)
PaymentSettings == EnsurePaymentSettings \o Show("organization_payment_settings", Org)
UpdatePaymentSettings == EnsurePaymentSettings \o Put("organization_payment_settings", Org)

\* Exchange rates have no organization: what one administrator sets, all convert with.
LatestExchangeRates == Show("exchange_rates", {})
UpsertExchangeRate == Put("exchange_rates", {})
LatestExchangeRate == Find("exchange_rates", {})
CreateCheckoutQuote == CatalogItemByID \o LatestExchangeRate \o Put("checkout_quotes", Org)

CreateImportJob == Put("import_jobs", Org)
ImportJobByID == Find("import_jobs", Org \cup {"id"}) \o Show("import_jobs", Org \cup {"id"})
CreateImportPreview == Put("import_previews", Org)
ImportPreviewByID == Find("import_previews", Org \cup {"id"})
DeleteImportPreview == Try("import_previews", Org \cup {"id"})

InvitationByID == Find("invitations", Org \cup {"id"})
CreateInvitation == Put("invitations", Org)
PendingInvitationsForOrg == Show("invitations", Org)
RotateInvitationToken == Put("invitations", Org \cup {"id"})
RevokeInvitation == Put("invitations", Org \cup {"id"})

-----------------------------------------------------------------------------
(***************************************************************************)
(* reports.go, cockpit.go                                                  *)
(***************************************************************************)
SetupCompleteness ==
  OrganizationByID \o BoatCountForOrg \o TripCountForOrg \o CountActiveUsersByRole
  \o UnconfiguredBoatCount
TripStatusCounts == Show("trips", Org \cup {"listed"})
TripOperationalRows ==
  Show("trips", Org \cup {"listed"}) \o Show("trip_guests", Org \cup {"not_revoked"})
TripRevenueRows == Show("guest_folios", Org) \o Show("guest_folio_lines", Org)
AdminReports == SetupCompleteness \o TripStatusCounts \o TripOperationalRows \o TripRevenueRows

TopItemsForTrip == Show("guest_folio_lines", Trip)
LowStockForBoat == Show("boat_inventory_items", Org \cup {"boat_of_trip"})
TripDashboard ==
  TripByID \o Show("boats", {"boat_of_trip"}) \o Show("trip_guests", Trip)
  \o Show("guest_folios", Trip) \o TopItemsForTrip \o LowStockForBoat
GuestTab ==
  Find("trip_guests", {"trip_guest_id", "mine", "not_revoked"})
  \o Show("guest_folios", {"trip_guest_id"}) \o Show("guest_folio_lines", {"trip_guest_id"})
OnboardingState == OrganizationByID \o SetupCompleteness \o UnconfiguredBoats

AssignedVoyageCount == Show("trips", Org \cup {"mine", "listed"})

\* The voyages, those of a director joined to the director's assignments, and what is counted
\* of each: guests, submitted registrations, placements, directors and open tabs.
VoyageCounts(those) ==
  Show("trip_guests", those \cup {"not_revoked"}) \o Show("guest_trip_registrations", those)
  \o Show("trip_cabin_assignments", those) \o Show("trip_cruise_directors", those)
  \o Show("guest_folios", those)
CockpitVoyages ==
  Admin(Show("trips", Org \cup {"listed"}) \o VoyageCounts(Org))
  \o Director(Show("trips", Org \cup {"mine", "listed"}) \o VoyageCounts(Org \cup {"mine"}))
SupplyBlockers ==
  Show("crew_members", Org) \o Show("crew_certifications", Org) \o Show("equipment_assets", Org)

\* The voyages not started, and the directors, guests and placements counted of each.
VoyageGaps(those) ==
  Show("trips", those \cup {"planned", "listed"}) \o Show("trip_cruise_directors", those)
  \o Show("trip_guests", those) \o Show("trip_cabin_assignments", those)
CockpitBlockers ==
  Admin(VoyageGaps(Org)) \o Director(VoyageGaps(Org \cup {"mine"})) \o Admin(SupplyBlockers)
CockpitMoney ==
  Admin(Show("guest_folios", Org)) \o Director(Show("guest_folios", Org \cup {"mine"}))
  \o Admin(Show("booking_quotes", Org) \o Show("offline_payments", Org))
AdminCockpitPulse ==
  BoatCountForOrg \o TripCountForOrg \o CountActiveUsersByRole
  \o Show("leads", Org) \o Show("booking_quotes", Org) \o Show("trips", Org \cup {"listed"})
CockpitInventory == Show("boat_inventory_items", Org)
CockpitActivity == AuditEvents
Cockpit ==
  AssignedVoyageCount \o CockpitVoyages \o CockpitBlockers \o CockpitMoney
  \o Admin(SetupCompleteness \o AdminCockpitPulse \o CockpitInventory) \o CockpitActivity

=============================================================================
