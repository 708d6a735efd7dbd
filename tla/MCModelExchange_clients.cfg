CONSTANTS
  Clients = {client1, client2}
  States <- MCStates
  Requests <- MCValid
  Commands <- MCCommands
  Outputs <- MCOutputs
  YamlCommands <- MCYamlCommands
  Grpc = TRUE
  NaN = "nan"
SPECIFICATION Spec
INVARIANTS
  ResponseIsInSyncWithRequest
