SPECIFICATION Spec
CONSTANTS
  Pid <- FourPids
  Root <- RootPid
  Settings <- EveryHost
\* hard_kill has returned
CHECK_DEADLOCK FALSE
INVARIANTS
  TypeOK
  StrangersAreKeptOut
  WalkIsClosed
  TargetsAreKilled
  HandleHitsItsTarget
PROPERTIES
  CallMakesProgress
