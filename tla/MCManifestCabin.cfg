\* A cabin is deactivated and the request is cut off between its two statements.
SPECIFICATION Spec
CONSTANTS
  g1 = g1
  g2 = g2
  b1 = b1
  b2 = b2
  c1 = c1
  c2 = c2
  i1 = i1
  i2 = i2
  p1 = p1
  p2 = p2
  Guests = {g1, g2}
  Berths = {b1, b2}
  Cabins = {c1, c2}
  CabinOf <- MCCabinOf
  InviteIds = {i1, i2}
  Procs = {p1, p2}
  NoProc = NoProc
  Jobs <- MCAllJobs
  NoBerth = NoBerth
  Nothing = Nothing
INVARIANT ActiveBerthInActiveCabin
SYMMETRY MCSymmetry
