CONSTANTS
  h1 = h1
  h2 = h2
  m1 = m1
  m2 = m2
  Msgs = {m1, m2}
  Audio = {m1}
  Mine = {m2}
  Handlers = {h1, h2}
  None = None
  MaxAttempts = 2
  MaxAuth = 2
  MaxFaults = 1
  MaxRestarts = 1
  HappeningKinds <- MCKinds
  IgHandlers = {g1}
  g1 = g1
  MaxCopies = 2
  EventKinds <- MCEventKinds
  DedupMax = 1
  MaxLinks = 2
  MaxArrivals = 3
  MaxOutages = 1
SPECIFICATION MCSpec
INVARIANTS
  IngestInv
  IgIngestInv
  BridgeInv
PROPERTIES
  HeardIsEmitted
  BridgeGoesOn
CHECK_DEADLOCK FALSE
