SPECIFICATION Spec
CONSTANTS
  c1 = c1  c2 = c2  t1 = t1
  Clients = {c1}
  Timers = {t1}
  None = None
  ModePicks = {"idle", "charge"}
  SequencePicks = {1}
  StepTimes = {1}
  Calls = {"tune"}
  DebugFets = {}
  Levels = {"low"}
INVARIANT IdleIsDark
