\* Two tasks whose agents fail side by side, with codes that mark the agent and
\* one that does not, and a third task that an analyst switches meanwhile.
CONSTANTS
  a = a
  b = b
  c = c
  s = s
  t = t
  u = u
  Task = {s, t, u}
  Agent = {a, b, c}
  Enabled = {a, b, c}
  Rank <- InOrder
  Capable <- Skills
  MaxRetries = 1
  Codes = {"QUOTA_EXHAUSTED", "AGENT_TIMEOUT", "TOOL_FAILURE"}
  Reported = {s, t}
  Switched = {u}
  Resumptions = {"RETRY"}
  MaxRuns = 3
SPECIFICATION Spec
INVARIANTS TypeOK NoAgentTwice LatestRunServes BlockedWithoutAgent RetriesCapped
PROPERTIES DurableLineage
CHECK_DEADLOCK FALSE
