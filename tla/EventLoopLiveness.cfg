CONSTANTS
  None = None
  Timeout = 1
  Delays = {0, 1}
  MaxTimers = 2
  MaxIdle = 1
SPECIFICATION FairSpec
PROPERTIES PhaseReturns
