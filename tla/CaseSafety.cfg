SPECIFICATION Spec
CONSTANTS
  None = None
  s1 = s1
  s2 = s2
  s3 = s3
  Signal <- MCSignal
  Original <- MCOriginal
  Key = {k1, k2, k3}
  Request = {r1, r2}
  Case = {c1, c2}
  Time = {1}
  Replay = {None}
  Verdict = {v1}
  DailyLimit = 2
  Faults = {"crash", "status_error"}
SYMMETRY Symmetry
INVARIANTS
  TypeOK
  OneOperationPerRevision
  TimelineTellsOfMembers
  ClaimsOfMembers
  AnswersMatchOperation
PROPERTIES
  ImplementsCaseLog
