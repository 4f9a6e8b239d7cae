SPECIFICATION FairSpec
CONSTANTS
  MaxName = 3
  Tools = {"list", "find", "log", "reflog", "stash_list"}
  Limits = {0, 1}
  Skips = {0, 1}
  DefaultCount = 2
  Rules <- MCRules
  Operators = {o1}
  MaxTreeEdits = 2
  MaxConfigEdits = 1
  MaxReloads = 1
  o1 = o1
INVARIANTS TypeOK GrowthNeverSkips ShrinkingNeverRepeats LogGrowthNeverRepeats
PROPERTY PagesEnd
CHECK_DEADLOCK FALSE
