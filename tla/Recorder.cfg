SPECIFICATION Spec
CONSTANTS
  c1 = c1  c2 = c2  None = None  Stop = Stop
  Clients = {c1, c2}
  MaxSessions = 2
  MaxFrames = 3
  MaxRates = 1
  SeqModulus = 3
  Steps = {0, 1}
  Requests <- MCRequests
  DiskFails = TRUE
  JoinTimesOut = TRUE
SYMMETRY MCSymmetry
CHECK_DEADLOCK FALSE
INVARIANTS TypeOK FileIsRecording SentinelIsLast RecordingIsContiguous GapIffLost WriterIsToldToEnd
