SPECIFICATION FairSpec
CONSTANTS
  dir = dir
  sub = sub
  plain = plain
  link = link
  other = other
  Contents <- MCContents
  PathOrder <- MCPathOrder
  Trees <- MCTrees
  NewNodes <- MCNewNodes
  Changing <- MCChanging
  Denied <- MCDenied
  CatCalls <- MCCatCalls
  maxToken = 3
  maxWrites = 2
  here = here
  there = there
  inner = inner
  file = file
  shut = shut
  topic = topic
  repo = repo
  lost = lost
  GitDirs <- MCGitDirs
  NamedRepos <- MCNamedRepos
  gitCwd <- MCCwd
  DeniedDirs <- MCDeniedDirs
  RevCalls <- MCRevCalls
  Files <- MCFiles
  RefusedFiles <- MCRefusedFiles
  FileContents <- MCFileContents
  ToolCalls <- MCToolCalls
  noText = noText
  nil = nil
  maxLine = 3
  hexdumpDefaultLength = 3
  hexdumpMaxLength = 4
  hexdumpBytesPerLine = 2
  maxToolWrites = 1
  HookCalls <- MCHookCalls
  HookTexts <- MCHookTexts
  ConfigTrees <- MCConfigTrees
  ConfigCalls <- MCConfigCalls
  SystemFile = "system"
  GlobalFiles <- MCGlobalFiles
  LocalFile = "local"
  WorktreeFile = "worktree"
  Patterns <- MCPatterns
  gitDir <- MCGitDir
  home <- MCHome
  Lower <- MCLower
  Sensitive <- MCSensitive
  redacted = redacted
  maxIncludeDepth = 3
  DirNames <- MCDirNames
  DirFiles <- MCDirFiles
  DeniedFiles <- MCDeniedFiles
  Environment <- MCEnvironment
  LookupCalls <- MCLookupCalls
  SortCalls <- MCSortCalls
  maxNumber = 10
PROPERTY DiffReturns
CHECK_DEADLOCK FALSE
