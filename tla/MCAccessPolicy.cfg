SPECIFICATION Spec
CONSTANTS
  this = this
  that = that
  link = link
  file = file
  upper = upper
  secret = secret
  repo = repo
  gone = gone
  nil = nil
  NameOrder <- MCNameOrder
  Trees <- MCTrees
  Lower <- MCLower
  RepoName <- MCRepoName
  SecretNames <- MCSecretNames
  Configs <- MCConfigs
  PathDirs <- MCPathDirs
  cwd <- MCCwd
  Requests <- MCRequests
  maxLinks = 4
  maxLoads = 2
  maxEdits = 1
INVARIANTS TypeOK QuietRulesMeanWhatTheySay
PROPERTY RulesComeFromOneFile
CHECK_DEADLOCK FALSE
