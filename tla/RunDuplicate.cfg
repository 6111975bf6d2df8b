\* Violation: two runs of one plan, approved while the first was paused, wait for
\* each other's root task after all packages have concluded.
CONSTANTS
  a = a
  b = b
  c = c
  Root = Root
  MaxRuns = 2
  Package = {a}
  Deps <- Single
  Recommended = {a}
  Handler = {h1}
  Reproducers = FALSE
  MaxRetries = 1
  Aimed = {a}
  MaxAttempts = 2
  Ops = {"pause", "resume"}
SPECIFICATION Spec
PROPERTIES ConcludedRunEnds
CHECK_DEADLOCK FALSE
