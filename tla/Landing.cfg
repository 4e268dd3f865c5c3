SPECIFICATION MCSpec
CONSTANTS
  R1 = R1
  R2 = R2
  R3 = R3
  k1 = k1
  id1 = id1
  id2 = id2
  ada = ada
  bob = bob
  feature = feature
  elsewhere = elsewhere
  NoResource = NoResource
  NoHold = NoHold
  NoBlob = NoBlob
  AnyStore = AnyStore
  NoClaim = NoClaim
  NoTrailer = NoTrailer
  Keys = {k1}
  ClaimIds = {id1, id2}
  Claimants = {ada, bob}
  Coordinators = {bob}
  Branches = {feature, elsewhere}
  Paths = {}
  ResourceNames = {}
  ItemIds = {}
  Blobs = {}
  Runs = {R1, R2, R3}
  CommandOf <- MCCommandOf
  Orders <- MCOrders
  Subject = k1
  SubjectIsIssue = TRUE
  Lane = feature
  FirstId = id1
  SecondClaim <- ComeBack
  MaxCommits = 2
CHECK_DEADLOCK FALSE
INVARIANTS
  FollowUpIsSound
  MergedHeadWasChecked
  UnpushedWorkSurvives
  FaultlessLandCompletes
