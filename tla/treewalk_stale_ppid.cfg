SPECIFICATION Spec
CONSTANTS
  Pid <- FourPids
  Root <- RootPid
  Settings <- StalePpids
\* hard_kill has returned
CHECK_DEADLOCK FALSE
INVARIANTS
  TargetsAreGenuine
