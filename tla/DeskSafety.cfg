SPECIFICATION Spec
CONSTANTS
  None = None
  s1 = s1
  s2 = s2
  s3 = s3
  Source <- MCSource
  Original <- MCOriginal
  Ingest = {r1}
  Client = {d1}
  Key = {k1}
  CaseKey = {q1}
  Case = {c1}
  Verdict = {v1, v2}
  Unverified = v1
  DailyLimit = 1
  Faults = {"crash", "status_error"}
VIEW View
SYMMETRY Symmetry
INVARIANTS
  HandoffIsTrue
  MissesOnlyEarly
PROPERTIES
  UpdatesAreRecent
