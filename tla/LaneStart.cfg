SPECIFICATION MCSpec
CONSTANTS
  Keys <- MCKeys
  Branches <- MCBranches
  PrefixOf <- MCPrefixOf
  Commands <- MCCommands
  Orders <- MCOrders
  Runs = {1, 2}
  item1 = item1
  i1 = i1
  i2 = i2
  i3 = i3
  ada = ada
  abe = abe
  bob = bob
  p1 = p1
  p2 = p2
  ClaimIds = {i1, i2, i3}
  Claimants = {ada, abe, bob}
  Coordinators = {}
  Paths = {p1, p2}
  ResourceNames = {}
  ItemIds = {}
  Blobs = {}
  NoResource = NoResource
  NoHold = NoHold
  NoBlob = NoBlob
  AnyStore = AnyStore
  NoClaim = NoClaim
  Slugs = {"short", "long"}
  Prefixes = {"a", "bob"}
  UnsafePrefixes = {}
  NoSlug = NoSlug
  NoId = NoId
  NoScope = NoScope
  Malformed = Malformed
  MaxMoves = 1
  MaxFaults = 1
INVARIANTS
  ReportsItsOwnClaim
  StrangersStand
  UndisturbedStartSucceeds
CHECK_DEADLOCK FALSE
