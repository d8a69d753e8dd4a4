SPECIFICATION Spec
CONSTANTS
  Scenarios <- AllScenarios
  MaxRoutes = 2
  MaxParms = 3
  StackNumbers <- OnTheStack
  Names <- AskedNames
  Default <- NoValue
  Binaries <- Bytes
  Files <- FileNames
INVARIANTS RequestTypeOK RequestAsSent EarlyOnlyByRemnant WaitsForWhatComes
  AnswersAsSent FirstRouteWins ParametersBound
