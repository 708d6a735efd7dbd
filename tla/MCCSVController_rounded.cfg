CONSTANTS
  Files <- MCRoundedFiles
  Dates <- MCDates
  Infinity = 100
  Starts <- MCRoundedStarts
  Tend = 16
  fl <- rounded
SPECIFICATION ControllerSpec
INVARIANTS
  CalledAgainWhileValuesRemain
CHECK_DEADLOCK FALSE
