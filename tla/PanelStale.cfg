SPECIFICATION Spec
CONSTANTS
  None = None
  Pis = {1, 2}
  Keys = {"mode"}
  MaxFreq = 2
  QueueSize = 2
  MaxKeys = 1
  MaxFaults = 1
CHECK_DEADLOCK FALSE
INVARIANT SentToItsPi
