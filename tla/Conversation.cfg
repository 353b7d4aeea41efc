CONSTANTS
  Parallelism = 4
  FileAt <- MCFileAt
  Lines <- MCLines
  Variables <- MCVariables
  Arguments <- MCArguments
  RawRequests <- MCRawRequests
  MaxTokens = 3
SPECIFICATION Spec
INVARIANTS RequestsAreUnderstood AnswersAreUnderstood OrderDoesNotMatter SettingsReachRenderer CapabilitiesAreTrue
CHECK_DEADLOCK FALSE
