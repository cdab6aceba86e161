\* Two guests of one voyage share a catalog item: two lines, one resendable request.
SPECIFICATION Spec
CONSTANTS
  t1 = t1
  g1 = g1
  g2 = g2
  i1 = i1
  l1 = l1
  l2 = l2
  r1 = r1
  Trips = {t1}
  Guests = {g1, g2}
  Items = {i1}
  TripOf <- MCOneTrip
  LineIds = {l1, l2}
  LegacyIds = {l1, l2}
  Requests = {r1}
  NoRequest = NoRequest
  NoItem = NoItem
  Quantities = {1, 3}
  Tips = {50}
  CatalogRows <- MCCatalogRows
  FeeRates = {300}
  Methods = {"card", "cash"}
  Deltas <- MCRestock
  MaxStock = 1
SYMMETRY MCSymmetry
INVARIANTS TypeOK ClosedFolioBalances OneTipPerFolio
PROPERTIES ImplementsStockLedger
