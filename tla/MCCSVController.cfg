\* The simulation ends at Tend, or with an exception.
CONSTANTS
  Files <- MCFiles
  Dates <- MCDates
  Infinity = 100
  Starts <- MCStarts
  Tend = 6
  fl <- exact
SPECIFICATION ControllerFairSpec
INVARIANTS
  CommandsFollowTheFile
  CalledAgainWhileValuesRemain
PROPERTIES
  EveryLineIsApplied
CHECK_DEADLOCK FALSE
