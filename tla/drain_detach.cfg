SPECIFICATION Spec
CONSTANTS
  Pid <- TwoPids
  Thread <- OneThread
  Settings <- DetachedLeaf
\* the wait has returned and the handle was released
CHECK_DEADLOCK FALSE
PROPERTIES
  DetachedTreeRuns
