CONSTANTS
  old = old
  lint = lint
  test = test
  final = final
  shared = shared
  Hook = {old, lint, test, final, shared}
  OldHook = old
  DirOf <- DirsAll
  Batch <- BatchesAll
  NumDirs = 2
  RepoIgnored = {}
  UserIgnored <- NothingOrFirst
  Content = {c1}
  Runner = {r1}
  Threads = 2
  QueueSize = 1
  Cli = {}
  MaxRuns = 1
  MaxEdits = 1
  Settings <- Enabled
  Absent = Absent
SPECIFICATION FairSpec
CHECK_DEADLOCK FALSE
INVARIANTS BatchBarrier NothingRunsUndecided SuccessMeansAllRan
PROPERTIES RunEnds
