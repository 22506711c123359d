SPECIFICATION Spec
CONSTANTS
  Settings <- HighInherit
INVARIANTS
  RefusedMutatesNothing
