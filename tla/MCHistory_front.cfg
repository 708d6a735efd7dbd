\* A fixed step that does not divide Tmax.
CONSTANTS
  Tmax = 3
  Instants <- MCInstants
  Steps <- MCFixedSteps
  Values = {v1, v2}
SPECIFICATION Spec
INVARIANTS
  QueryIsFaithful
