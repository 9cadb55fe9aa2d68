SPECIFICATION Spec
CONSTANTS
  None = None
  p1 = p1
  p2 = p2
  p5 = p5
  p7 = p7
  Product <- MCProduct
  Stage4Products <- MCStage4Products
  Flaky <- MCFlaky
  Relation <- MCRelation
  CaseVersion <- MCCaseVersion
  Approval = {a1, a2, a3}
  Key = {k1, k2, k3}
SYMMETRY Symmetry
INVARIANTS
  TypeOK
  DelistedWasApproved
  AgentWaitsAtGate
  VersionCountsChanges
  ActionedByExecution
  OneEffectPerKey
PROPERTIES
  ActionsAreFinal
  DelistingFitsCase
