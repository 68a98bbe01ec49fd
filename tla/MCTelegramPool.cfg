SPECIFICATION MCSpec
CONSTANTS
  Subs = {a, b, c}
  Held = {a}
  MaxSessions = 2
  MaxQr = 1
  Lookups = {l1, l2}
  MaxStarts = 4
  MaxFailures = 1
INVARIANTS
  TelegramPoolInv
PROPERTIES
  RowMovesOn
  HalfDoneGoes
CHECK_DEADLOCK FALSE
