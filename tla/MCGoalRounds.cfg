SPECIFICATION Spec
CONSTANTS
  MaxPrompts = 1
  MaxEdits = 2
  MaxMishaps = 1
  Caps <- MCCaps
INVARIANTS TypeOK RoundsAreValid YieldsToPeople
PROPERTIES GoalProgresses
CHECK_DEADLOCK FALSE
