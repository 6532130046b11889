CONSTANTS
  None = None
  Bindings = {video, longBinding}
  SessionIds = {visitor, longVisitor}
  StaticId = staticId
  TooLong = {longBinding, longVisitor}
  MaxClock = 2
SPECIFICATION FairSpec
INVARIANTS TypeOK ResultCoherent OneVisitor
PROPERTIES FailsClosed UsesRunner CallReturns
CHECK_DEADLOCK FALSE
