SPECIFICATION Spec
CONSTANTS
  None = None
  Files = {1, 2}
  Sessions = {1, 2}
  MaxRows = 1
  MaxAsks = 2
  MaxFaults = 1
CHECK_DEADLOCK FALSE
INVARIANT DeletedIsVerified
