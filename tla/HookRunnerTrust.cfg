CONSTANTS
  old = old
  lint = lint
  test = test
  final = final
  shared = shared
  Hook = {old, lint}
  OldHook = old
  DirOf <- DirsOne
  Batch <- BatchesOne
  NumDirs = 1
  RepoIgnored = {}
  UserIgnored <- Nothing
  Content = {c1, c2}
  Runner = {r1}
  Threads = 1
  QueueSize = 1
  Cli = {u1}
  MaxRuns = 2
  MaxEdits = 1
  Settings <- Alike
  Absent = Absent
SPECIFICATION Spec
CHECK_DEADLOCK FALSE
INVARIANTS TypeOK OnlyApprovedRuns AnswersAreStored DisabledStaysDisabled
