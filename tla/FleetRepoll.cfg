SPECIFICATION Spec
CONSTANTS
  None = None
  Pis = {1, 2}
  MaxCommands = 1
  MaxRepolls = 1
  NetFails = FALSE
  Roams = FALSE
  PisMove = FALSE
INVARIANT RepollIsNotForgotten
