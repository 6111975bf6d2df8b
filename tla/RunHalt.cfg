\* One approval, b and c behind a, and everything that halts a run or its tasks: stop,
\* emergency stop, rejection of the plan, an analyst's
\* actions on task a and its re-run.  A run that has ended stops for good.
CONSTANTS
  a = a
  b = b
  c = c
  Root = Root
  MaxRuns = 1
  Package = {a, b, c}
  Deps <- Fork
  Recommended = {a}
  Handler = {h1, h2}
  Reproducers = FALSE
  MaxRetries = 1
  Aimed = {a}
  MaxAttempts = 2
  Ops = {"stop", "emergency", "reject", "action", "rerun"}
SPECIFICATION Spec
INVARIANTS OneTaskAfterStop
PROPERTIES EmergencyStartsNothing  ImplementsSchedule
CHECK_DEADLOCK FALSE
