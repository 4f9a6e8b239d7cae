SPECIFICATION FairSpec
CONSTANTS
  base = base
  ours = ours
  theirs = theirs
  merge = merge
  tip = tip
  Commits = {base, ours, theirs, merge, tip}
  Histories <- MCHistories
  Specs <- MCSpecs
  maxWalk = 4
INVARIANTS TypeOK RangeIsExact NewestFirst SidesAreExact CapIsExact
PROPERTY WalkReturns
CHECK_DEADLOCK FALSE
