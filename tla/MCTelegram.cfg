CONSTANTS
  MaxSent = 2
  BatchSize = 2
  MaxPages = 2
  Voice = {1}
  MaxFaults = 2
  MaxCrashes = 1
  Uses <- MCUses
  MaxUnread = 1
SPECIFICATION MCSpec
INVARIANTS
  SyncInv
  TelegramApiInv
PROPERTIES
  SyncGetsThere
CHECK_DEADLOCK FALSE
