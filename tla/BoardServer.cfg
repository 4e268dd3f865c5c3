SPECIFICATION FairSpec
CONSTANTS
  S1 = S1
  S2 = S2
  S3 = S3
  t1 = t1
  t2 = t2
  t3 = t3
  Nobody = Nobody
  Servers = {S1, S2, S3}
  PortOf <- MCPortOf
  NewToken = {S3}
  Threads = {t1, t2, t3}
  Lines = {1, 2}
  Storages = {"github", "state-ref"}
  Scenarios <- MCScenarios
  MaxEdits = 2
CHECK_DEADLOCK FALSE
INVARIANTS
  OneTokenServed
  ServedPageIsFresh
  NoRulingLost
PROPERTIES
  ClickNotBesideMalformed
  EveryRequestEnds
