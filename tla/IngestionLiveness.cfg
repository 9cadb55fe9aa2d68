SPECIFICATION FairSpec
CONSTANTS
  None = None
  s1 = s1
  s2 = s2
  s3 = s3
  Source <- MCSource
  Body <- MCBody
  Key = {k1, k2}
  Request = {r1, r2}
  Faults = {}
PROPERTIES
  KeysAreResolved
  ReservationsAreResolved
  DispatchesAreResolved
