\* Violation: a terminal run state is left again.
CONSTANTS
  a = a
  b = b
  c = c
  Root = Root
  MaxRuns = 1
  Package = {a, b}
  Deps <- Chain
  Recommended = {b}
  Handler = {h1}
  Reproducers = FALSE
  MaxRetries = 1
  Aimed = {a}
  MaxAttempts = 2
  Ops = {"pause", "emergency"}
SPECIFICATION Spec
PROPERTIES StoppedIsTerminal
CHECK_DEADLOCK FALSE
