CONSTANTS
  c1 = c1
  c2 = c2
  c3 = c3
  Calls = {c1, c2, c3}
  Keys = {k}
  None = None
  MaxFailures = 2
  MaxDeaths = 1
  MaxExpiries = 1
  Ids = {personal, professional}
  Personal = personal
  NoId = noId
  MaxOut = 2
SPECIFICATION MCSpec
INVARIANTS
  ToolCallsInv
  RoutingInv
CHECK_DEADLOCK FALSE
