SPECIFICATION Spec
CONSTANTS
  Pid <- ThreePids
  Root <- RootPid
  Settings <- KillsOfExiting
\* the sweep has returned
CHECK_DEADLOCK FALSE
INVARIANTS
  OkMeansSwept
