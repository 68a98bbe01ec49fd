CONSTANTS
  MaxPersists = 4
  MaxFailures = 1
  MaxRestarts = 2
  Wirings = {"perSub", "pairing", "telegram"}
  Subs = {s1}
  Names = {"barbel", "papis", "gym"}
  Ids = {"shop", "club"}
  UserName <- MCUserName
  Labels = {"papis"}
  Asked = {"papis", "gym"}
  House = {"barbel", "papis"}
  Requests = {r1}
  Callbacks = {p1, p2}
  None = None
SPECIFICATION MCSpec
INVARIANTS
  SessionInv
  IgCredentialsInv
PROPERTIES
  OwnAccountKept
  EndedRowGoes
CHECK_DEADLOCK FALSE
