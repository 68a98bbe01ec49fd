CONSTANTS
    Calls = {c1, c2}
    MaxChats = 3
    MaxBatch = 2
    MaxFailures = 1
    Clients = {a1}
    a1 = a1
    Sids = {u1, u2}
    u1 = u1
    u2 = u2
    NoSid = NoSid
    MaxSessions = 1
    IdleLimit = 1
    AgeLimit = 3
    Responses = {1, 2}
SPECIFICATION MCSpec
INVARIANTS
  DigestInv
PROPERTIES
  Completes
  StreamProtects
  SessionsEnd
