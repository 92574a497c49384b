SPECIFICATION FairClientSpec
CONSTANTS
  None = None
  MaxLen = 3
  Programs <- MCPrograms
  Periods <- MCPeriods
  Directs <- MCDirects
  tThreads = {1, 2, 3, 4}  tSocks = {1, 2, 3}  tFlowKinds = {"reconnect", "switch", "flip"}
  tMaxFlows = 1  tMaxFaults = 1  tMaxRetries = 2  tBuffer = 1
  pPis = {1, 2}  pKeys <- AllKeys  pMaxFreq = 2  pQueueSize = 2  pMaxKeys = 2  pMaxFaults = 1
CONSTRAINT TakeTurns
CHECK_DEADLOCK FALSE
INVARIANTS ClientTypeOK DarkAfterHalt Linearized CycleLinearized 
PROPERTIES DeadSubscribersGo  ShownIsTrue
