SPECIFICATION Spec
CONSTANTS
  Pid <- ThreePids
  Root <- RootPid
  Settings <- EverySweep
\* the sweep has returned
CHECK_DEADLOCK FALSE
INVARIANTS
  TypeOK
  StayersAreSwept
  KillsAreAimed
  FailuresSurface
PROPERTIES
  CallMakesProgress
