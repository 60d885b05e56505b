\* One edit of any kind, before, during or between two runs of the hook runner,
\* each from configurations that were written before.
SPECIFICATION Spec
CONSTANTS
  Keys <- MCKeys
  Values <- MCValues
  Included <- MCIncluded
  Env <- MCEnv
  EnvOf <- MCEnvOf
  Marked <- MCMarked
  Initial <- MCInitial
  OtherEdits <- MCOtherEdits
  MaxEdits = 1
  MaxRuns = 1
CHECK_DEADLOCK FALSE
INVARIANTS TypeOK ReadsAgree
PROPERTIES ImplementsPreferences UninstallForgets
