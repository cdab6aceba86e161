\* The lock order the design lays down, against the order settlement takes.
SPECIFICATION TxSpec
CONSTANTS
  t1 = t1
  g1 = g1
  g2 = g2
  i1 = i1
  l1 = l1
  l2 = l2
  r1 = r1
  p1 = p1
  p2 = p2
  p3 = p3
  Trips = {t1}
  Guests = {g1}
  Items = {i1}
  TripOf <- MCTripOf
  LineIds = {l1, l2}
  LegacyIds = {l1}
  Requests = {r1}
  NoRequest = NoRequest
  NoItem = NoItem
  Quantities = {1, 3}
  Tips = {}
  CatalogRows <- MCTracked
  FeeRates = {300}
  Methods = {"card", "cash"}
  Deltas <- MCNone
  MaxStock = 1
  Procs = {p1, p2}
  NoProc = NoProc
  Jobs <- MCCharging
  Nothing = Nothing
SYMMETRY MCSymmetry
INVARIANTS WaitsFollowLockOrder
