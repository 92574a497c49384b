SPECIFICATION FairSpec
CONSTANTS
  c1 = c1  c2 = c2  t1 = t1
  Clients = {c1}
  Timers = {t1}
  None = None
  ModePicks = {}
  SequencePicks = {1}
  StepTimes = {1}
  Calls <- TargetCalls
  DebugFets = {}
  Levels = {"low", "mid", "high"}
PROPERTY LowCurrentIsTransparent
