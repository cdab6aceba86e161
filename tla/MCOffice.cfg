CONSTANTS
  Procs = {p1, p2}  NoProc = NoProc
  t1 = t1  t2 = t2  b1 = b1  b2 = b2
  Trips = {t1, t2}
  Boats = {b1, b2}
  BoatOf <- MCBoatOf
  SourceOf <- MCSourceOf
  Future = {t1, t2}
  Unsettled = {t1}
  PoolSize = 2
  TripJobs <- MCTripJobs
  NoTripJob = NoTripJob
  JobIds = {1, 2}
  Previews = {1}
  Uploaders = {1, 2}
  NoPreview = 0
  MaxFaults = 1
SPECIFICATION OfficeSpec
INVARIANTS
  OfficeTypeOK
  TransitionsRecorded
  SucceededMeansReplaced
PROPERTIES
  StartsReady
  ImportIsAuthoritative
  EveryTripRequestEnds
  JobsEnd
