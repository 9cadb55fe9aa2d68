SPECIFICATION FairSpec
CONSTANTS
  Visitor = {v1, v2, v3}
  Request = {r1, r2, r3}
  Window = 2
  MaxBuckets = 2
  MaxRequests = 1
  GlobalMax = 3
  Slots = 2
  DailyLimit = 1
  Timeout = 1
  TTL = 1
  MaxRuns = 2
  Faults = {"crash", "store_error"}
INVARIANTS
  TypeOK
  WithinLimits
  SlotsConserved
PROPERTIES
  RunsAreFinal
  RunsEnd
