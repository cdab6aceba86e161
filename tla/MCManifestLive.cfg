\* Requests that lock the same rows in different orders are all answered.
SPECIFICATION LiveSpec
CONSTANTS
  g1 = g1
  g2 = g2
  b1 = b1
  b2 = b2
  c1 = c1
  c2 = c2
  i1 = i1
  i2 = i2
  p1 = p1
  p2 = p2
  Guests = {g1, g2}
  Berths = {b1, b2}
  Cabins = {c1, c2}
  CabinOf <- MCCabinOf
  InviteIds = {i1, i2}
  Procs = {p1, p2}
  NoProc = NoProc
  Jobs <- MCLockJobs
  NoBerth = NoBerth
  Nothing = Nothing
PROPERTIES EveryRequestEnds
