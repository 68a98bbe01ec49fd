SPECIFICATION Spec
CONSTANTS
  Subs = {a, b, c}
  Held = {}
  MaxSessions = 2
  MaxQr = 0
  Lookups = {}
  MaxStarts = 4
  MaxFailures = 0
INVARIANTS
  SocketsAreListed
CHECK_DEADLOCK FALSE
