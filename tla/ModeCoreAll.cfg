SPECIFICATION Spec
CONSTANTS
  c1 = c1  c2 = c2  t1 = t1
  Clients = {c1, c2}
  Timers = {t1}
  None = None
  ModePicks = {"idle", "charge", "pulse_charge", "debug"}
  SequencePicks = {1}
  StepTimes = {1}
  Calls <- AllCalls
  DebugFets = {"N2"}
  Levels = {"low"}
SYMMETRY MCSymmetry
VIEW MCView
CONSTRAINT Calm
INVARIANTS
  TypeOK
  ModeMatchesBridge
  CacheIsTruth
  InterlockUnlessSeamless
  LabelIsStep
PROPERTY NeverOpensCircuit
