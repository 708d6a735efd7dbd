CONSTANTS
  Files <- MCFiles
  Dates <- MCDates
  Infinity = 100
SPECIFICATION Spec
INVARIANTS
  AcceptedDatesIncrease
CHECK_DEADLOCK FALSE
