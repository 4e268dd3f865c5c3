SPECIFICATION FairSpec
CONSTANTS
  Here = "here"
  Nothing = Nothing
  PriorityLabels <- MCLabels
  RulingOldAfter = 2
  Workers = {w1, w2}
  Worlds <- MCWorlds
  Spare = {5, 6}
  MaxMishaps = 1
INVARIANTS
  ReadersAgree
  EachItemCountsOnce
PROPERTIES
  EveryItemLands
CHECK_DEADLOCK FALSE
