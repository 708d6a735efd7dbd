\* Any step: the shape of the window, and what it answers when the steps taken
\* divide Tmax.
CONSTANTS
  Tmax = 4
  Instants <- MCInstants
  Steps <- MCAnySteps
  Values = {v1, v2}
SPECIFICATION Spec
INVARIANTS
  TypeOK
  StrictlyIncreasing
  WindowStart
  NoSampleLost
  QueryIsFaithfulOnAGrid
  AverageTilesTheWindow
