\* An exception ends the simulation, and with it the reader.
CONSTANTS
  Files <- MCFiles
  Dates <- MCDates
  Infinity = 100
SPECIFICATION Spec
INVARIANTS
  TypeOK
  CurrentLineCoversTheDate
  NextDateIsTheNextLine
CHECK_DEADLOCK FALSE
