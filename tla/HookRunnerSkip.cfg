CONSTANTS
  old = old
  lint = lint
  test = test
  final = final
  shared = shared
  Hook = {old, lint}
  OldHook = old
  DirOf <- DirsOne
  Batch <- BatchesOne
  NumDirs = 1
  RepoIgnored = {}
  UserIgnored <- Nothing
  Content = {c1}
  Runner = {r1}
  Threads = 1
  QueueSize = 1
  Cli = {}
  MaxRuns = 1
  MaxEdits = 0
  Settings <- Interactive
  Absent = Absent
SPECIFICATION Spec
CHECK_DEADLOCK FALSE
PROPERTIES SkipUntrustedCoversOldHook
