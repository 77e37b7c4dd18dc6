SPECIFICATION Spec
CONSTANTS
  MaxPrompts = 1
  MaxEdits = 2
  MaxMishaps = 1
  Caps <- MCCaps
INVARIANT FenceHolds
CHECK_DEADLOCK FALSE
