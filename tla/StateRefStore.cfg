SPECIFICATION Spec
CONSTANTS
  P1 = P1
  P2 = P2
  P3 = P3
  P4 = P4
  k1 = k1
  k2 = k2
  id1 = id1
  id2 = id2
  id3 = id3
  main = main
  p = p
  q = q
  r = r
  port = port
  item = item
  other = other
  open = open
  edit = edit
  closed = closed
  NoResource = NoResource
  NoHold = NoHold
  NoBlob = NoBlob
  AnyStore = AnyStore
  NoClaim = NoClaim
  Keys = {k1, k2}
  ClaimIds = {id1, id2, id3}
  Claimants <- MCClaimants
  Coordinators <- MCCoordinators
  AgentOf <- MCAgentOf
  Branches = {main}
  Paths = {p, q, r}
  ResourceNames = {port}
  ItemIds = {item, other}
  Blobs = {open, edit, closed}
  ClosedBlobs = {closed}
  LaneKeys = {k2}
  Processes = {P1, P2, P3, P4}
  Worktrees = {P1, P2, P3, P4}
  Scenarios <- StoreScenarios
  MaxAttempts = 3
  MaxFaults = 1
  StuckServer = FALSE
CHECK_DEADLOCK FALSE
INVARIANTS
  VerdictsAreTrue
  HistoryIsTrue
  NoFalseLineageAlarm
  NoLostItemWrite
PROPERTIES
  ImplementsLedger
