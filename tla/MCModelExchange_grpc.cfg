CONSTANTS
  Clients = {client}
  States <- MCStates
  Requests <- MCValid
  Commands <- MCCommands
  Outputs <- MCOutputs
  YamlCommands <- MCYamlCommands
  Grpc = TRUE
  NaN = "nan"
SPECIFICATION Spec
INVARIANTS
  EvaluatedAtTheRequestedDate
