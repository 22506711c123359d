SPECIFICATION Spec
CONSTANTS
  Member = {root, kid, grandkid}
  Root = root
  MaxCalls = 2
  Settings <- EveryDeployment
INVARIANTS
  TypeOK
  OkMeansTreeDown
  NoneAbandoned
  
PROPERTIES
  CallReturns
CHECK_DEADLOCK FALSE
