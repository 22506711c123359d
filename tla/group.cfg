SPECIFICATION Spec
CONSTANTS
  Pid <- ThreePids
  Root <- RootPid
  Settings <- EveryCall
\* signal_group has returned
CHECK_DEADLOCK FALSE
INVARIANTS
  TypeOK
  OkIsHonest
  SignalsAreAimed
  RefusersWereSpared
PROPERTIES
  CallMakesProgress
