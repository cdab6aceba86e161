\* Two requests at a time change the manifest and the berths of one trip in every way; or two
\* devices send drafts and submissions of a registration, over three looks at the clock.
SPECIFICATION GuestsSpec
CONSTANTS
  g1 = g1
  g2 = g2
  b1 = b1
  b2 = b2
  c1 = c1
  c2 = c2
  i1 = i1
  i2 = i2
  p1 = p1
  p2 = p2
  Guests = {g1, g2}
  Berths = {b1, b2}
  Cabins = {c1, c2}
  CabinOf <- MCCabinOf
  InviteIds = {i1, i2}
  Procs = {p1, p2}
  NoProc = NoProc
  Jobs <- MCAllJobs
  NoBerth = NoBerth
  Nothing = Nothing
  d1 = d1
  d2 = d2
  blank = blank
  full = full
  other = other
  Devices = {d1, d2}
  Payloads = {blank, full, other}
  Complete = {full, other}
  NoPayload = NoPayload
  MaxTime = 3
INVARIANTS
  TypeOK OneGuestPerBerth OpenInvitations
  RegTypeOK SubmittedIsComplete SubmittedIsShown
PROPERTIES JoinsByInvitation InvitationsEndOnce ShownTimeStays
SYMMETRY MCGuestSymmetry
