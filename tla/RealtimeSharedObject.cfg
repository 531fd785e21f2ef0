SPECIFICATION Spec
CONSTANTS
  Updaters = {u}
  EarlyReset = TRUE
  MaxValue = 8
  Null = Null
  Moved = Moved
INVARIANT GuardHoldsPublished
PROPERTIES HeldSlotIsStable
