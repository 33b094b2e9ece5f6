CONSTANTS
  MaxEdits = 2
  MaxHeld = 3
SPECIFICATION Spec
INVARIANTS ThresholdsRetireReports
CHECK_DEADLOCK FALSE
