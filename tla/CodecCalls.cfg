CONSTANTS
  None = None
  Calls <- MCCalls
SPECIFICATION Spec
INVARIANTS DecodeRecoversPrefix VisitorIdSurvives PlaceholderOpens InterpreterChosen EndpointsAgree
CHECK_DEADLOCK FALSE
