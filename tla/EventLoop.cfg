CONSTANTS
  None = None
  Timeout = 1
  Delays = {0, 1}
  MaxTimers = 3
  MaxIdle = 1
SPECIFICATION Spec
INVARIANTS TypeOK NothingDueIsSkipped SameDelayInOrder NeverEarly OneLatePass
PROPERTIES NeverFiresWhenDead ImplementsRunner
