SPECIFICATION Spec
CONSTANTS
  k1 = k1
  k2 = k2
  id1 = id1
  id2 = id2
  ada = ada
  root = root
  main = main
  p = p
  q = q
  port = port
  item = item
  b1 = b1
  b2 = b2
  NoResource = NoResource
  NoHold = NoHold
  NoBlob = NoBlob
  NoClaim = NoClaim
  AnyStore = AnyStore
  Keys = {k1, k2}
  ClaimIds = {id1, id2}
  Claimants = {ada, root}
  Coordinators = {root}
  Branches = {main}
  Paths = {p, q}
  ResourceNames = {port}
  ItemIds = {item}
  Blobs = {b1, b2}
  Operations = {op1, op2, op3, op4, op5}
  Intents <- MCIntents
SYMMETRY MCSymmetry
CHECK_DEADLOCK FALSE
INVARIANTS
  ClaimExclusive
  NeverReused
  RecordsAreComplete
  LiveClaimsAreOpened
PROPERTIES
  NoDisplacement
