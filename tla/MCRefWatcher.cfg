SPECIFICATION FairSpec
CONSTANTS
  r1 = r1
  r2 = r2
  Repos = {r1, r2}
  c1 = c1
  c2 = c2
  Callbacks = {c1, c2}
  MaxChanges = 3
  QueueLimit = 2
  Namings <- MCNamings
INVARIANTS TypeOK NoChangeIsLost
PROPERTIES OnlyChangedReposAreDropped AnnouncedChangeInvalidates
CHECK_DEADLOCK FALSE
