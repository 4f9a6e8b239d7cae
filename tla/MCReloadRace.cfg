SPECIFICATION Spec
CONSTANTS
  MaxName = 1
  Tools = {"list"}
  Limits = {0}
  Skips = {0}
  DefaultCount = 1
  Rules <- MCRules
  Operators = {o1, o2}
  MaxTreeEdits = 0
  MaxConfigEdits = 1
  MaxReloads = 2
  o1 = o1
  o2 = o2
PROPERTY ReloadsNeverGoBack
CHECK_DEADLOCK FALSE
