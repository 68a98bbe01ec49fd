CONSTANTS
  s1 = s1
  s2 = s2
  r1 = r1
  Subs = {s1, s2}
  MaxSessions = 1
  MaxQr = 1
  MaxStarts = 2
  MaxFailures = 1
  Held = {s1}
  Inbound <- MCInbound
  ReadCalls = {r1}
  ReadLimit = 2
  MaxReports = 2
  c1 = c1
  w1 = w1
  w2 = w2
  Calls = {c1}
  Kinds = {"direct", "group", "voice", "file", "forward", "react", "delete"}
  Workers = {w1, w2}
  None = None
  MaxAsks = 3
  MaxFaults = 2
  n1 = n1
  n2 = n2
  l1 = l1
  Notes = {n1, n2}
  KindOf <- MCKindOf
  CacheMax = 2
  KeyCacheMax = 1
  Lookups = {l1}
SPECIFICATION MCSpec
INVARIANTS
  PoolInv
  ReadsInv
  SendInv
  RetryInv
PROPERTIES
  RowsComeRight
  TicksNeverFall
  ClaimIsLetGo
CHECK_DEADLOCK FALSE
