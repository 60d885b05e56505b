\* Up to four runs, and two operations that fail or kills.
SPECIFICATION Spec
CONSTANTS
  commit = commit
  push = push
  lint = lint
  build = build
  check = check
  large = large
  Hook = {commit, push}
  LfsHook = {push}
  UserHook = {lint, build, check, large}
  CallsLfs = {large}
  Place <- MCPlace
  MaxRuns = 4
  MaxFaults = 2
CHECK_DEADLOCK FALSE
INVARIANTS TypeOK NothingLost InstallRepairs UninstallRestores
