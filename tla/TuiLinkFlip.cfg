SPECIFICATION Spec
CONSTANTS
  None = None
  Threads = {1, 2, 3, 4}
  Socks = {1, 2, 3}
  Flows = {"flip"}
  MaxFlows = 1
  MaxFaults = 0
  MaxRetries = 2
  Buffer = 1
CONSTRAINT TakeTurns
CHECK_DEADLOCK FALSE
INVARIANT ConnectedIsFed
