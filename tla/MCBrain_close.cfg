CONSTANTS
  Rows <- MCRows
  Stamp <- MCStampClose
  Account <- MCAccountClose
  Platform <- MCPlatformClose
  PerMs = 2
  Namespaces <- MCNamespaces
  Batch = 2
  MaxRows = 2
  Backfill = FALSE
  Since = 0
  Until = 4
  ReplayOnly = "all"
  DryRuns = {"replay"}
  MaxClock = 4
  MaxFaults = 0
SPECIFICATION BrainSpec
PROPERTIES
  EveryRowGoes
