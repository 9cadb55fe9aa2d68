SPECIFICATION Spec
CONSTANTS
  None = None
  s1 = s1
  s2 = s2
  s3 = s3
  Signal <- FewSignals
  Original <- FewOriginal
  Key = {k1, k2, k3}
  Request = {r1, r2}
  Case = {c1}
  Time = {1, 2, 3}
  Replay = {1, 2, 3, None}
  Verdict = {v1}
  DailyLimit = 1
  Faults = {"status_error"}
VIEW ObservationView
SYMMETRY FewSymmetry
INVARIANTS
  OutdatedIsNoticed
