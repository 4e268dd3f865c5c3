SPECIFICATION ResetSpec
CONSTANTS
  P1 = P1
  P2 = P2
  P3 = P3
  k1 = k1
  k2 = k2
  id1 = id1
  id2 = id2
  main = main
  p = p
  here1 = here1
  here2 = here2
  there = there
  NoResource = NoResource
  NoHold = NoHold
  NoBlob = NoBlob
  AnyStore = AnyStore
  NoClaim = NoClaim
  Keys = {k1, k2}
  ClaimIds = {id1, id2}
  Claimants <- MCClaimants
  Coordinators = {}
  AgentOf <- MCAgentOf
  Branches = {main}
  Paths = {p}
  ResourceNames = {}
  ItemIds = {}
  Blobs = {}
  ClosedBlobs = {}
  LaneKeys = {k2}
  Worktrees = {here1, here2, there}
  RepositoryOf <- MCRepositoryOf
  Processes = {P1, P2, P3}
  Scenarios <- ResetScenarios
  StuckServer = FALSE
  MaxAttempts = 3
  MaxFaults = 1
CHECK_DEADLOCK FALSE
INVARIANTS
  HistoryHasOneStart
  NoLineageBreakAfterReset
PROPERTIES
  ResetLosesNothing
