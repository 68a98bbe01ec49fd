CONSTANTS
  b1 = b1
  b2 = b2
  h1 = h1
  h2 = h2
  MaxPersists = 4
  MaxFailures = 2
  Texts <- MCTexts
  SyncOnLogin = FALSE
  WindowStart = 1
  BatchSize = 2
  MaxMessages = 3
  Bursts = {b1, b2}
  MaxChats = 1
  MaxBatches = 2
  Syncs = {h1, h2}
  MaxSyncs = 2
  MaxAsks = 2
SYMMETRY MCSymmetry
SPECIFICATION MCSpec
INVARIANTS
  WriteBackInv
  HistoryInv
PROPERTIES
  MirrorSpec
CHECK_DEADLOCK FALSE
