SPECIFICATION Spec
CONSTANTS
  r = r
  rs = rs
  q = q
  Repos = {r, rs, q}
  Hashes = {h}
  h = h
  nil = nil
  Values = {v1, v2}
  v1 = v1
  v2 = v2
  SizesOf = {1, 2, 4}
  NamedUnder <- MCNamedUnder
  maxEntries = 2
  maxMem = 3
  ttl = 1
  MaxTime = 3
INVARIANTS TypeOK Coherent ListIsInOrderOfUse
PROPERTIES InsertionFitsMemory AnswersAsExpiringMap
CHECK_DEADLOCK FALSE
