SPECIFICATION FairServiceSpec
CONSTANTS
  None = None  c1 = c1  c2 = c2
  Callers = {c1, c2}  Calls = {"idle", "charge", "query", "profile"}
  MaxCalls = 2  MaxFrames = 1  Recording = TRUE
  aClients = {c1}  aTimers = {c2}  aModePicks = {"charge"}  aSequencePicks = {1}
  aStepTimes = {1}  aCalls = {"auto_on"}  aDebugFets = {}
  aLevels = {"low", "mid", "high"}
  fPis = {1, 2}  fMaxCommands = 2  fMaxRepolls = 1
  fNetFails = FALSE  fRoams = FALSE  fPisMove = FALSE
  mChips = {c1, c2}  mMaxRate = 1  mMaxBurst = 1  mProfileRows = 2
CHECK_DEADLOCK FALSE
INVARIANTS ServiceTypeOK RowIsFresh StrayRepliesAreLate
PROPERTIES StreamGoesOn CallsEnd  CommandsAreSent
