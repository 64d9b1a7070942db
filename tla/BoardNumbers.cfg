SPECIFICATION FairSpec
CONSTANTS
  Requests = {p1, p2}
  Lineages = {l1, l2}
  Keys <- MCKeys
  MaxSeq = 3
  Erasing = {l2}
CHECK_DEADLOCK FALSE
INVARIANTS
  NumbersAreGapless
PROPERTIES
  LoserReselects
  EveryRequestEnds
