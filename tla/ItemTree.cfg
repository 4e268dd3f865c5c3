SPECIFICATION Spec
CONSTANTS
  r1 = r1
  r2 = r2
  r3 = r3
  t1 = t1
  t2 = t2
  t3 = t3
  s1 = s1
  small = small
  Runs = {r1, r2, r3}
  Numbers = {1, 2, 3, 4, 5}
  Titles = {t1, t2, t3}
  Alike <- MCAlike
  Scopes = {s1}
  Sizes = {small}
  Plans <- MCPlans
  NoItem = NoItem
  NoTitle = NoTitle
  NoScope = NoScope
  NoSize = NoSize
  MaxFaults = 3
  MaxMoves = 2
INVARIANTS
  RowsBecomeChildren
  RerunFinishes
PROPERTIES
  CutTouchesItsRowOnly
CHECK_DEADLOCK FALSE
