CONSTANTS
  None = None
  Bindings = {video, longBinding}
  SessionIds = {visitor, longVisitor}
  StaticId = staticId
  TooLong = {longBinding, longVisitor}
  MaxClock = 2
SPECIFICATION Spec
INVARIANTS OverrideKeepsAttGet
CHECK_DEADLOCK FALSE
