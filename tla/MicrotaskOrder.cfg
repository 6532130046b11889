CONSTANTS
  None = None
  Timeout = 1
  Delays = {0}
  MaxTimers = 2
  MaxIdle = 0
SPECIFICATION Spec
INVARIANTS MicrotasksBeforeSleep
