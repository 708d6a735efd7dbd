\* The search returns and stops.
CONSTANTS
  Lists <- MCLists
  Instants <- MCInstants
SPECIFICATION FairSpec
INVARIANTS
  TypeOK
  LoopInvariant
  ReturnsTheBracket
PROPERTIES
  Terminates
CHECK_DEADLOCK FALSE
