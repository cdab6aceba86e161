CONSTANTS
  o1 = o1  o2 = o2  b1 = b1  b2 = b2  t1 = t1  t2 = t2  t3 = t3  g1 = g1  g2 = g2  g3 = g3
  admin1 = admin1  dir1 = dir1  dir2 = dir2  account1 = account1  account2 = account2
  Orgs = {o1, o2}
  Boats = {b1, b2}
  Trips = {t1, t2, t3}
  Guests = {g1, g2, g3}
  Users = {admin1, dir1, dir2, account1, account2}
  Callers = {admin1, dir1, account1}
  Changing = {t1, g1}
  Nobody = Nobody
  Parent <- MCParent
  RoleOf <- MCRoleOf
  HomeOf <- MCHomeOf
  AccountOf <- MCAccountOf
  Assigned <- MCAssigned
  a1 = a1
  AccountRows = {1, 2}
  Clients = {c1, c2}
  Links = {3, 4}
  Addresses = {a1, a2}
  MaxPasswords = 1
  MaxFlows = 5
  Founders = {1}
  FounderAddress <- MCFounderAddress
  None = None
  Attempts = {q1, q2, q3}
  Addressees = {"a"}
  LockAt = 2
  MaxFailures = 6
  Longest = 3
SPECIFICATION AccessSpec
INVARIANT ClosedTripsAreReadOnly
