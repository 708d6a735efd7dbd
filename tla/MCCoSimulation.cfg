CONSTANTS
  States <- MCStates
  NaN = 7
  Integrated <- MCIntegrated
  dt = 40
  Requests <- MCRequests
  Commands <- MCCommands
  YamlCommands <- MCYamlCommands
SPECIFICATION Spec
INVARIANTS
  TypeOK
  ThePastIsTheAnsweredOne
PROPERTIES
  AnswersFromTheRequestAlone
  EveryCallIsAnswered
