SPECIFICATION Spec
CONSTANTS
  MaxAdapters = 8
  MaxLosses = 2
  Envs <- MCEnvs
  HasBit <- MCHasBit
INVARIANTS TypeOK ClaimsHold FailureIsRecognised QuietDumpAnswers AllAsked RouteIsRead
PROPERTIES Terminates
