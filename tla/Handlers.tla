------------------------------- MODULE Handlers -------------------------------
(***************************************************************************)
(* What each handler of internal/httpapi asks of the database, in order:    *)
(* its gates, its reads, its writes, and the audit events and mails that    *)
(* follow.  A handler stops at the first statement that finds no row, and   *)
(* writes its answer after the last.                                       *)
(***************************************************************************)
EXTENDS Statements

-----------------------------------------------------------------------------
(***************************************************************************)
(* Gates: a director must be on the trip, or on some trip of the boat.      *)
(***************************************************************************)
RequireOrgAdmin == Require({"org_admin"})
RequireStaff == Require(Staff)
RequireBoatAccess == Director(UserAssignedToBoat)

\* Mutant of AuthorizeManifestAccess: whoever works for the organization.
AuthorizeAnyStaff == TripByID

AuthorizeManifestAccess == TripByID \o Director(UserAssignedToTrip)

AuthorizeBoatLayoutAccess == BoatByID \o RequireBoatAccess
AuthorizeLifecycleTransition == AuthorizeManifestAccess

\* Mutant of EnsureTripMutable: the trip is looked up, its status is not.
EnsureTripFound == Find("trips", Trip)

EnsureTripMutable == Find("trips", Trip \cup {"open"})
RequireBoatLayoutForTrip == TripByID \o BoatHasUsableLayout
TripForOrg == Find("trips", Trip \cup {"open"})

\* Mutant of CruiseDirectorForOrg: an active director of whatever organization.
CruiseDirectorAnywhere == Find("users", {"user_id"})

CruiseDirectorForOrg == Find("users", Org \cup {"user_id"})
StaffGuestAccess == AuthorizeManifestAccess \o TripGuestByID

GuestRegistrationAccess == AssertTripGuestAccess
RecordStaffAudit(table) == Tell(table)
RecordGuestAudit(table) == Tell(table)

-----------------------------------------------------------------------------
(***************************************************************************)
(* admin.go, cruise_director.go, cruise_director_assign.go, cockpit, reports*)
(***************************************************************************)
BoatNamesForOrg == BoatsForOrg
DirectorNamesForOrg == UsersForOrg

HandleOverview ==
  SetupCompleteness \o BoatCountForOrg \o TripCountForOrg \o CountActiveUsersByRole
  \o TripsNeedingAttention \o BoatNamesForOrg
HandleListBoats == BoatsForOrg
HandleGetBoat == BoatByID
HandleListBoatTrips ==
  BoatByID \o TripsForBoat \o DirectorNamesForOrg
  \o CruiseDirectorAssignmentsByTrip \o TripManifestSummaries
HandleListTrips ==
  Admin(TripsByOrgInRange) \o Director(TripsForUser) \o BoatNamesForOrg \o DirectorNamesForOrg
  \o CruiseDirectorAssignmentsByTrip \o TripManifestSummaries
HandleListUsers == UsersForOrg
HandlePatchOrganization == UpdateOrganizationProfile

handleCruiseDirectorOverview ==
  Require({"cruise_director"}) \o OrganizationByID \o TripsForUser \o BoatsForOrg
handleCockpit == Cockpit
handleAdminReports == AdminReports
handleTripDashboard == Director(UserAssignedToTrip) \o TripDashboard
handleOrganization == OrganizationByID
handleUpdateProfile == UpdateUserProfile
handleGetOnboarding == OnboardingState

\* The audit event is recorded when the organization read first was not dismissed yet.
handleDismissOnboarding ==
  OrganizationByID \o DismissOrganizationOnboarding \o RecordStaffAudit("organizations")
  \o OnboardingState

SendTripAssignmentEmail == TellIfDone("trip_cruise_directors")
WriteTripDirectorsView == CruiseDirectorIDsForTrip

\* Mutant of handleAssignCruiseDirector: the mail goes out first.
AssignAfterMail ==
  RequireBoatLayoutForTrip \o TripForOrg \o CruiseDirectorForOrg
  \o Tell("trip_cruise_directors") \o AssignCruiseDirector \o WriteTripDirectorsView

handleAssignCruiseDirector ==
  RequireBoatLayoutForTrip \o TripForOrg \o CruiseDirectorForOrg
  \o AssignCruiseDirector \o SendTripAssignmentEmail \o WriteTripDirectorsView
handleUnassignCruiseDirector ==
  TripForOrg \o CruiseDirectorForOrg \o UnassignCruiseDirector
  \o SendTripAssignmentEmail \o WriteTripDirectorsView

-----------------------------------------------------------------------------
(***************************************************************************)
(* cabin_handlers.go                                                       *)
(***************************************************************************)
handleGetBoatCabins == AuthorizeBoatLayoutAccess \o BoatCabinLayout
handlePreviewBoatCabins == AuthorizeBoatLayoutAccess \o PreviewCabinLayout
handleReplaceBoatCabins == AuthorizeBoatLayoutAccess \o ReplaceBoatCabinLayout
handlePatchBoatCabin == AuthorizeBoatLayoutAccess \o UpdateBoatCabin
handleDeleteBoatCabin == AuthorizeBoatLayoutAccess \o DeactivateBoatCabin
handlePatchBoatBerth == AuthorizeBoatLayoutAccess \o UpdateBoatBerth
handleDeleteBoatBerth == AuthorizeBoatLayoutAccess \o DeactivateBoatBerth
handleTripCabinBoard == AuthorizeManifestAccess \o TripCabinBoard
handleAssignGuestCabin ==
  AuthorizeManifestAccess \o EnsureTripMutable \o RequireBoatLayoutForTrip
  \o AssignTripGuestBerth \o RecordStaffAudit("trip_cabin_assignments")

\* The event is recorded whether or not the guest had a berth, and the trip may be over.
handleUnassignGuestCabin ==
  AuthorizeManifestAccess \o PreviousBerth \o UnassignTripGuestBerth
  \o RecordStaffAudit("trip_cabin_assignments")

-----------------------------------------------------------------------------
(***************************************************************************)
(* guest_manifest_handlers.go, trip_lifecycle_handlers.go                  *)
(***************************************************************************)
InviteTripGuest == CreateTripGuestInvite \o Tell("trip_guests") \o MarkTripGuestInvite
ResendTripGuestInviteEmail == ResendTripGuestInvite \o Tell("trip_guests") \o MarkTripGuestInvite

handleTripManifest ==
  AuthorizeManifestAccess \o TripManifest \o TripManifestSummary \o BoatNamesForOrg
handleAddTripGuest ==
  AuthorizeManifestAccess \o EnsureTripMutable \o RequireBoatLayoutForTrip
  \o InviteTripGuest \o TripManifest \o RecordStaffAudit("trip_guests")
handleResendTripGuestInvite ==
  AuthorizeManifestAccess \o EnsureTripMutable \o ResendTripGuestInviteEmail
  \o TripGuestByID \o RecordStaffAudit("trip_guests") \o TripManifest
handleRevokeTripGuestInvite ==
  AuthorizeManifestAccess \o EnsureTripMutable \o RevokeTripGuestInvite
  \o RecordStaffAudit("trip_guests")
handleStaffGuestRegistration ==
  AuthorizeManifestAccess \o TripManifest \o Find("trip_guests", Guest)
  \o GuestRegistrationByTripGuest

\* The store writes the lifecycle's audit events, in the transition's transaction.
handleTripLifecycle == AuthorizeManifestAccess \o TripReadiness
handleLifecycleTransition(transition) == AuthorizeLifecycleTransition \o transition
handleStartTrip == RequireBoatLayoutForTrip \o handleLifecycleTransition(StartTrip)
handleCompleteTrip == handleLifecycleTransition(CompleteTrip)
handleCancelTrip == RequireOrgAdmin \o CancelTrip

-----------------------------------------------------------------------------
(***************************************************************************)
(* guest_folio_handlers.go                                                 *)
(***************************************************************************)
SendGuestFolioEmail == PaymentSettings \o Tell("guest_folios")

handleTripLedger == AuthorizeManifestAccess \o TripConsumptionLedger
handleAddTripLedgerLine ==
  AuthorizeManifestAccess \o AddGuestFolioLine \o RecordStaffAudit("guest_folio_lines")
handleGetGuestFolio == AuthorizeManifestAccess \o GuestFolioByTripGuest
handleOpenGuestFolio ==
  AuthorizeManifestAccess \o EnsureTripMutable \o OpenGuestFolio
  \o RecordStaffAudit("guest_folios")
handleAddGuestFolioLine ==
  AuthorizeManifestAccess \o EnsureTripMutable \o AddGuestFolioLine
  \o RecordStaffAudit("guest_folio_lines")
handleUpdateGuestFolioLine ==
  AuthorizeManifestAccess \o EnsureTripMutable \o UpdateGuestFolioLine
  \o RecordStaffAudit("guest_folio_lines")
handleDeleteGuestFolioLine ==
  AuthorizeManifestAccess \o EnsureTripMutable \o DeleteGuestFolioLine
  \o RecordStaffAudit("guest_folio_lines")
handleCloseGuestFolio ==
  AuthorizeManifestAccess \o CloseGuestFolio \o SendGuestFolioEmail \o MarkGuestFolioEmail
  \o GuestFolioByTripGuest \o RecordStaffAudit("guest_folios")
handleResendGuestFolioEmail ==
  AuthorizeManifestAccess \o GuestFolioByTripGuest \o SendGuestFolioEmail \o MarkGuestFolioEmail

-----------------------------------------------------------------------------
(***************************************************************************)
(* document_handlers.go, guest_registration_handlers.go                    *)
(***************************************************************************)
UploadDocument == CreateGuestDocument

handleListGuestDocuments == GuestRegistrationAccess \o GuestDocumentsForTripGuest
handleUploadGuestDocument ==
  GuestRegistrationAccess \o EnsureTripMutable \o UploadDocument
  \o RecordGuestAudit("guest_documents")
handleOpenGuestDocument ==
  GuestRegistrationAccess \o GuestDocumentByID \o RecordGuestAudit("guest_documents")
handleListStaffGuestDocuments == StaffGuestAccess \o GuestDocumentsForTripGuest
handleUploadStaffGuestDocument ==
  StaffGuestAccess \o EnsureTripMutable \o UploadDocument \o RecordStaffAudit("guest_documents")
handleOpenStaffGuestDocument ==
  StaffGuestAccess \o GuestDocumentByID \o RecordStaffAudit("guest_documents")
handleArchiveStaffGuestDocument ==
  StaffGuestAccess \o EnsureTripMutable \o ArchiveGuestDocument
  \o RecordStaffAudit("guest_documents")
handleGuestActivity == StaffGuestAccess \o AuditEventsForTripGuest
handleAuditEvents == RequireStaff \o AuditEvents

handleGetGuestRegistration ==
  GuestRegistrationAccess \o GuestRegistrationByTripGuest
handleSaveGuestRegistration ==
  GuestRegistrationAccess \o EnsureTripMutable \o SaveGuestRegistration
handleSubmitGuestRegistration == handleSaveGuestRegistration
handleGuestTab == GuestTab

-----------------------------------------------------------------------------
(***************************************************************************)
(* catalog_handlers.go, catalog_pricing_handlers.go, inventory_handlers.go, *)
(* payment_settings_handlers.go, fx_handlers.go                            *)
(***************************************************************************)
handleListCatalogCategories == RequireStaff \o CatalogCategories
handleCreateCatalogCategory == RequireStaff \o CreateCatalogCategory
handleUpdateCatalogCategory == RequireStaff \o UpdateCatalogCategory
handleListCatalogItems == RequireStaff \o CatalogItems
handleCreateCatalogItem == RequireStaff \o CreateCatalogItem
handleUpdateCatalogItem == RequireStaff \o UpdateCatalogItem
handleApplyCatalogDefaults == SeedDefaultCatalog

handleListPriceOverrides == ListCatalogPriceOverrides
handleUpsertBoatPriceOverride ==
  UpsertBoatPriceOverride \o RecordStaffAudit("catalog_price_overrides")
handleUpsertTripPriceOverride ==
  UpsertTripPriceOverride \o RecordStaffAudit("catalog_price_overrides")
handleArchivePriceOverride ==
  ArchiveCatalogPriceOverride \o RecordStaffAudit("catalog_price_overrides")

handleInventoryBoatSummary == InventoryFleetSummary
handleListBoatInventory == RequireBoatAccess \o BoatInventory
handleSetBoatInventory == RequireBoatAccess \o SetBoatInventoryItem
handleAdjustBoatInventory ==
  RequireBoatAccess \o AdjustStock \o RecordStaffAudit("boat_inventory_items")

handleGetPaymentSettings == PaymentSettings
handleUpdatePaymentSettings ==
  PaymentSettings \o UpdatePaymentSettings \o RecordStaffAudit("organization_payment_settings")
handleListFXRates == LatestExchangeRates
handleCreateFXRate == UpsertExchangeRate
handleCheckoutQuote == CreateCheckoutQuote

-----------------------------------------------------------------------------
(***************************************************************************)
(* invitation_handlers.go, import_handlers.go                              *)
(***************************************************************************)
handleListInvitations == PendingInvitationsForOrg
handleCreateInvitation == CreateInvitation \o Tell("invitations")
handleResendInvitation == InvitationByID \o RotateInvitationToken \o Tell("invitations")
handleRevokeInvitation == RevokeInvitation

handleKickLiveaboardImport == CreateImportJob
handleGetImportJob == ImportJobByID \o UnconfiguredBoats
handleSpreadsheetPreview == BoatsForOrg \o CreateImportPreview

\* Mutant of handleSpreadsheetCommit: the mapping of vessels to boats is not checked.
SpreadsheetCommitUnmapped ==
  ImportPreviewByID \o Put("trips", {"boat_id"}) \o CreateImportJob \o DeleteImportPreview

handleSpreadsheetCommit ==
  ImportPreviewByID \o BoatByID \o ReplaceTrips \o CreateImportJob \o DeleteImportPreview

-----------------------------------------------------------------------------
(***************************************************************************)
(* Server.Router: who reaches which handler.                               *)
(***************************************************************************)
StaffRoutes == [
  handleUpdateProfile |-> handleUpdateProfile,
  handleOrganization |-> handleOrganization,
  handleCheckoutQuote |-> handleCheckoutQuote,
  HandleListTrips |-> HandleListTrips,
  handleTripLifecycle |-> handleTripLifecycle,
  handleStartTrip |-> handleStartTrip,
  handleCompleteTrip |-> handleCompleteTrip,
  handleCancelTrip |-> handleCancelTrip,
  handleTripLedger |-> handleTripLedger,
  handleAddTripLedgerLine |-> handleAddTripLedgerLine,
  handleTripManifest |-> handleTripManifest,
  handleTripCabinBoard |-> handleTripCabinBoard,
  handleAddTripGuest |-> handleAddTripGuest,
  handleResendTripGuestInvite |-> handleResendTripGuestInvite,
  handleRevokeTripGuestInvite |-> handleRevokeTripGuestInvite,
  handleAssignGuestCabin |-> handleAssignGuestCabin,
  handleUnassignGuestCabin |-> handleUnassignGuestCabin,
  handleStaffGuestRegistration |-> handleStaffGuestRegistration,
  handleListStaffGuestDocuments |-> handleListStaffGuestDocuments,
  handleUploadStaffGuestDocument |-> handleUploadStaffGuestDocument,
  handleOpenStaffGuestDocument |-> handleOpenStaffGuestDocument,
  handleArchiveStaffGuestDocument |-> handleArchiveStaffGuestDocument,
  handleGuestActivity |-> handleGuestActivity,
  handleGetGuestFolio |-> handleGetGuestFolio,
  handleOpenGuestFolio |-> handleOpenGuestFolio,
  handleAddGuestFolioLine |-> handleAddGuestFolioLine,
  handleUpdateGuestFolioLine |-> handleUpdateGuestFolioLine,
  handleDeleteGuestFolioLine |-> handleDeleteGuestFolioLine,
  handleCloseGuestFolio |-> handleCloseGuestFolio,
  handleResendGuestFolioEmail |-> handleResendGuestFolioEmail,
  handleGetBoatCabins |-> handleGetBoatCabins,
  handlePreviewBoatCabins |-> handlePreviewBoatCabins,
  handleReplaceBoatCabins |-> handleReplaceBoatCabins,
  handlePatchBoatCabin |-> handlePatchBoatCabin,
  handleDeleteBoatCabin |-> handleDeleteBoatCabin,
  handlePatchBoatBerth |-> handlePatchBoatBerth,
  handleDeleteBoatBerth |-> handleDeleteBoatBerth,
  handleCockpit |-> handleCockpit,
  handleCruiseDirectorOverview |-> handleCruiseDirectorOverview,
  handleAuditEvents |-> handleAuditEvents,
  handleTripDashboard |-> handleTripDashboard,
  handleListCatalogCategories |-> handleListCatalogCategories,
  handleCreateCatalogCategory |-> handleCreateCatalogCategory,
  handleUpdateCatalogCategory |-> handleUpdateCatalogCategory,
  handleListCatalogItems |-> handleListCatalogItems,
  handleCreateCatalogItem |-> handleCreateCatalogItem,
  handleUpdateCatalogItem |-> handleUpdateCatalogItem,
  handleListBoatInventory |-> handleListBoatInventory,
  handleSetBoatInventory |-> handleSetBoatInventory,
  handleAdjustBoatInventory |-> handleAdjustBoatInventory]

AdminRoutes == [
  handleListInvitations |-> handleListInvitations,
  handleCreateInvitation |-> handleCreateInvitation,
  handleResendInvitation |-> handleResendInvitation,
  handleRevokeInvitation |-> handleRevokeInvitation,
  HandleOverview |-> HandleOverview,
  handleAdminReports |-> handleAdminReports,
  handleGetOnboarding |-> handleGetOnboarding,
  handleDismissOnboarding |-> handleDismissOnboarding,
  handleGetPaymentSettings |-> handleGetPaymentSettings,
  handleUpdatePaymentSettings |-> handleUpdatePaymentSettings,
  HandleListBoats |-> HandleListBoats,
  HandleGetBoat |-> HandleGetBoat,
  HandleListBoatTrips |-> HandleListBoatTrips,
  HandleListUsers |-> HandleListUsers,
  handleApplyCatalogDefaults |-> handleApplyCatalogDefaults,
  handleListPriceOverrides |-> handleListPriceOverrides,
  handleUpsertBoatPriceOverride |-> handleUpsertBoatPriceOverride,
  handleUpsertTripPriceOverride |-> handleUpsertTripPriceOverride,
  handleArchivePriceOverride |-> handleArchivePriceOverride,
  handleInventoryBoatSummary |-> handleInventoryBoatSummary,
  handleListFXRates |-> handleListFXRates,
  handleCreateFXRate |-> handleCreateFXRate,
  handleAssignCruiseDirector |-> handleAssignCruiseDirector,
  handleUnassignCruiseDirector |-> handleUnassignCruiseDirector,
  handleKickLiveaboardImport |-> handleKickLiveaboardImport,
  handleGetImportJob |-> handleGetImportJob,
  handleSpreadsheetPreview |-> handleSpreadsheetPreview,
  handleSpreadsheetCommit |-> handleSpreadsheetCommit,
  HandlePatchOrganization |-> HandlePatchOrganization]

GuestRoutes == [
  handleGetGuestRegistration |-> handleGetGuestRegistration,
  handleSaveGuestRegistration |-> handleSaveGuestRegistration,
  handleSubmitGuestRegistration |-> handleSubmitGuestRegistration,
  handleListGuestDocuments |-> handleListGuestDocuments,
  handleUploadGuestDocument |-> handleUploadGuestDocument,
  handleOpenGuestDocument |-> handleOpenGuestDocument,
  handleGuestTab |-> handleGuestTab]

=============================================================================
