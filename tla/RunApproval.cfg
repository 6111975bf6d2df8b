\* Violation: an approval that creates its run and launches no dispatcher.
CONSTANTS
  a = a
  b = b
  c = c
  Root = Root
  MaxRuns = 1
  Package = {a, b}
  Deps <- Chain
  Recommended = {a}
  Handler = {h1}
  Reproducers = FALSE
  MaxRetries = 1
  Aimed = {a}
  MaxAttempts = 2
  Ops = {"pause"}
SPECIFICATION Spec
PROPERTIES ApprovedRunIsLaunched
CHECK_DEADLOCK FALSE
