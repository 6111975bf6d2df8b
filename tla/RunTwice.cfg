\* Two approvals of a plan whose package b waits for a, the second while the
\* first is being paused; agents come and go, the server restarts.
CONSTANTS
  a = a
  b = b
  c = c
  Root = Root
  MaxRuns = 2
  Package = {a, b}
  Deps <- Chain
  Recommended = {a, b}
  Handler = {h1}
  Reproducers = FALSE
  MaxRetries = 1
  Aimed = {a}
  MaxAttempts = 2
  Ops = {"pause", "agents", "restart"}
SPECIFICATION Spec
INVARIANTS SoleExecutor CompletedRunIsIdle
CHECK_DEADLOCK FALSE
