SPECIFICATION Spec
CONSTANTS
  c1 = c1  c2 = c2  None = None
  Callers = {c1}
  Calls = {"idle", "charge", "query"}
  MaxCalls = 2
  MaxFrames = 1
  Recording = TRUE
CHECK_DEADLOCK FALSE
INVARIANT OwnReply
