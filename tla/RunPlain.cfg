\* One approval of a plan of two packages on Rust firmware: b waits for a, and
\* wave RECOMMENDED is b alone, so its approval holds a back and
\* launches no dispatcher.  Two control requests in flight: pause, resume; the
\* root task retried or gone stale, so that the watchdog blocks it and the
\* dispatcher picks it like a package.
\* A run that is left paused stops for good, so deadlock is not checked.
CONSTANTS
  a = a
  b = b
  c = c
  Root = Root
  MaxRuns = 1
  Package = {a, b}
  Deps <- Chain
  Recommended = {b}
  Handler = {h1, h2}
  Reproducers = TRUE
  MaxRetries = 2
  Aimed = {Root}
  MaxAttempts = 2
  Ops = {"pause", "resume", "retry", "watchdog"}
SPECIFICATION Spec
INVARIANTS CleanCompletion
PROPERTIES RunEnds
CHECK_DEADLOCK FALSE
