SPECIFICATION Spec
CONSTANTS
  Settings <- EveryDeployment
INVARIANTS
  TypeOK
  FailureLeavesNothing
  ContainmentIsReal
  EndsStayPrivate
  StdioIsFaithful
  PlanIsStable
