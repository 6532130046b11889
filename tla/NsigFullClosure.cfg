CONSTANTS
  None = None
  Param <- MCParam
  BuiltIns <- MCBuiltIns
  Files <- MCFiles
SPECIFICATION FairSpec
INVARIANTS NoDefinitionLost
CHECK_DEADLOCK FALSE
