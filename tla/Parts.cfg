SPECIFICATION PartsSpec
CONSTANTS
  None = None  p1 = p1
  Pis = {1, 2}  MaxCommands = 2  MaxRepolls = 0
  NetFails = TRUE  Roams = TRUE  PisMove = TRUE
  mPrograms <- MicroPrograms  mPeriods = {50}  mDirects <- MicroDirects
  wFiles <- WatchFiles  wSamples <- WatchSamples  wDebounce = 3  wMaxElapsed = 10
  nWorkers = {1, 2, 3}  nMaxFlips = 3  nMaxPresses = 5  nMaxFaults = 1
  kMinFreq = 1  kMaxFreq = 14  kNumSequences = 3  kMaxTurns = 1  kMaxPresses = 2
  lFiles = {1, 2}  lSessions = {1, 2}  lMaxRows = 2  lMaxAsks = 2  lMaxFaults = 2
  cPrime = 5  cSampleTarget = 2  cDefects <- CalDefects  cMaxRuns = 2  cMaxFaults = 1
  sPis = {p1}  sKind <- Fleet1  sSearches = {1}  sJoins = {1}  sMaxFaults = 1  sMaxScreens = 1
CHECK_DEADLOCK FALSE
INVARIANTS
  PartsTypeOK HaltedIsWhole PlanIsOnTime
   RemovedIsWhole   
  ExecutedInOrder ConfirmedIsExecuted
PROPERTIES ChangesOnEvidence  DeliversAtMostOnce
