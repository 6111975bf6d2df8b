\* One task that an analyst switches to another agent again and again.
CONSTANTS
  a = a
  b = b
  c = c
  s = s
  t = t
  u = u
  Task = {u}
  Agent = {a, b, c}
  Enabled = {a, b, c}
  Rank <- InOrder
  Capable <- AllSkilled
  MaxRetries = 1
  Codes = {}
  Reported = {}
  Switched = {u}
  Resumptions = {"RESUME_FROM_CHECKPOINT", "RETRY"}
  MaxRuns = 4
SPECIFICATION Spec
INVARIANTS NoDuplicateExecution
CHECK_DEADLOCK FALSE
