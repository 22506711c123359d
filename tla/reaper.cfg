SPECIFICATION FairSpec
CONSTANTS
  c1 = c1
  c2 = c2
  c3 = c3
  Child <- ThreeChildren
  Bound = 2
  Wedged <- OneWedged
  Refusing <- OneRefusing
  Panicky <- OnePanicky
  NoOne = NoOne
INVARIANTS
  TypeOK
  PoolIsSound
  JobsAreSound
PROPERTIES
  ReapBeforeRelease
  ImplementsService
  DropReturns
  Bulkhead
\* every handle may have been dropped and every worker be idle or wedged
CHECK_DEADLOCK FALSE
