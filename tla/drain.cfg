SPECIFICATION FairSpec
CONSTANTS
  Pid <- ThreePids
  Thread <- OneThread
  Settings <- EveryCall
\* the wait has returned and the handle was released
CHECK_DEADLOCK FALSE
INVARIANTS
  TypeOK
PROPERTIES
  ImplementsDrain
  DetachedJobRuns
  DrainIsSeen
  BoundedWaitEnds
  DroppedTreeDies
