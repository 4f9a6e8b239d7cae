SPECIFICATION Spec
CONSTANTS
  MaxName = 3
  Tools = {"search"}
  Limits = {0, 1}
  Skips = {0}
  DefaultCount = 2
  Rules <- MCRules
  Operators = {o1}
  MaxTreeEdits = 1
  MaxConfigEdits = 0
  MaxReloads = 0
  o1 = o1
INVARIANT SearchPagesAdvance
CHECK_DEADLOCK FALSE
