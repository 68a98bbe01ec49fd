CONSTANTS
  Sockets = {s1, s2, s3}
  None = None
  Rows <- MCRows
  Stamp <- MCStamp
  Account <- MCAccount
  Platform <- MCPlatform
  PerMs = 2
  Namespaces <- MCNamespaces
  Batch = 2
  MaxRows = 2
  Backfill = FALSE
  Since = 0
  Until = 3
  ReplayOnly = "all"
  DryRuns = {"replay"}
  MaxClock = 3
  MaxFaults = 1
SPECIFICATION MCSpec
INVARIANTS
  ConnectionInv
  BrainInv
PROPERTIES
  Recovers
  EveryRowGoes
