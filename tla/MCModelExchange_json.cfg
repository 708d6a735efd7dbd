CONSTANTS
  Clients = {client1, client2}
  States <- MCStates
  Requests <- MCRequests
  Commands <- MCCommands
  Outputs <- MCOutputs
  YamlCommands <- MCYamlCommands
  Grpc = FALSE
  NaN = "nan"
SPECIFICATION FairSpec
INVARIANTS
  ResponseIsInSyncWithRequest
  FailsOnlyByItsRequest
  EvaluatedAtTheRequestedDate
PROPERTIES
  AnswersFromTheRequestAlone
  EveryCallIsAnswered
