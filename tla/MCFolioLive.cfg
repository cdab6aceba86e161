\* Every request ends: two devices charge, tip, settle, open folios and start the voyage.
SPECIFICATION LiveSpec
CONSTANTS
  t1 = t1
  g1 = g1
  g2 = g2
  i1 = i1
  l1 = l1
  l2 = l2
  r1 = r1
  p1 = p1
  p2 = p2
  p3 = p3
  Trips = {t1}
  Guests = {g1}
  Items = {i1}
  TripOf <- MCTripOf
  LineIds = {l1, l2}
  LegacyIds = {}
  Requests = {r1}
  NoRequest = NoRequest
  NoItem = NoItem
  Quantities = {1}
  Tips = {50}
  CatalogRows <- MCTracked
  FeeRates = {300}
  Methods = {"cash"}
  Deltas <- MCNone
  MaxStock = 0
  Procs = {p1, p2}
  NoProc = NoProc
  Jobs <- MCOpening
  Nothing = Nothing
INVARIANTS OneTipPerFolio
PROPERTIES EveryRequestEnds
