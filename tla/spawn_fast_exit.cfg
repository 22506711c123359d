SPECIFICATION Spec
CONSTANTS
  Settings <- FastExit
INVARIANTS
  FallbackKillsNobody
