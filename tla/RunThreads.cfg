\* One approval, b behind a, and the request threads that write task a and its
\* attempts meanwhile: retries, the watchdog, the reconcilers, decisions on its
\* package, which may make the approval fail halfway.
CONSTANTS
  a = a
  b = b
  c = c
  Root = Root
  MaxRuns = 1
  Package = {a, b}
  Deps <- Chain
  Recommended = {b}
  Handler = {h1}
  Reproducers = FALSE
  MaxRetries = 1
  Aimed = {a}
  MaxAttempts = 3
  Ops = {"retry", "watchdog", "reconcile", "decide"}
SPECIFICATION Spec
INVARIANTS TypeOK SettledTaskHasNoRunningAttempt
PROPERTIES AttemptHistoryImmutable
CHECK_DEADLOCK FALSE
