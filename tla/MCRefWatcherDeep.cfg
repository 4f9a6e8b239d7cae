SPECIFICATION FairSpec
CONSTANTS
  r1 = r1
  Repos = {r1}
  c1 = c1
  Callbacks = {c1}
  MaxChanges = 2
  QueueLimit = 4
  Namings <- MCNamings
PROPERTY RefChangeInvalidates
CHECK_DEADLOCK FALSE
