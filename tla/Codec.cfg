SPECIFICATION CSpec
CONSTANTS
  Base = 2
  MaxPayload = 2
  MaxFrames = 2
  TypeData = 1
  MaxLen = 18
INVARIANTS
  Canonical PageAgreesWithRelay CutsBetweenFrames
CHECK_DEADLOCK FALSE
