SPECIFICATION Spec
CONSTANTS
  None = None
  fact = fact
  experience = experience
  e1 = e1
  e2 = e2
  Claim <- MCClaim
  Stored <- MCStored
  Checkable <- MCCheckable
  Evidence <- MCEvidence
  IntroducedAt <- MCIntroducedAt
  Body <- MCBody
  Decision <- MCDecision
  Key = {k1, k2}
  Request = {r1, r2}
  AttemptsBound = 2
  Faults = {"crash", "store_error"}
SYMMETRY Symmetry
INVARIANTS
  TypeOK
  VerdictsAreGrounded
  AnswersAreAttempts
  StoreTakesResults
PROPERTIES
  AnsweredIsDone
