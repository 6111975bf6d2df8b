\* Two projects, two requests of a kind on their way, one of which may fail; the
\* client of the socket, which tries to reconnect twice.  The bounds bring the
\* client to rest, so deadlock is not checked.
CONSTANTS
  p1 = p1
  p2 = p2
  MaxAttempts = 2
  MaxEvents = 3
  ShownProject = {p1, p2}
  Fetch = {s1, s2}
  Load = {l1, l2}
  MaxTurns = 2
  Nothing = Nothing
SPECIFICATION Spec
INVARIANTS ConsoleTypeOK NoSilentLoss
PROPERTIES ReconnectEnds RunShownSettles
CHECK_DEADLOCK FALSE
