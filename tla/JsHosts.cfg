CONSTANTS
  None = None
  Calls = {c1, c2}
  Bindings = {video}
  Visitors = {visitor, longVisitor}
  Machines = {vm1, vm2}
  TooLong = {longVisitor}
SPECIFICATION FairSpec
INVARIANTS TypeOK CallCoherent
PROPERTIES CallsSettle
CHECK_DEADLOCK FALSE
