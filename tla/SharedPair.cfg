\* Two commands at a time.
SPECIFICATION Spec
CONSTANTS
  Proc = {p1, p2}
  Url = {u1, u2}
  Kinds <- AllKinds
  Configs <- Two
  MaxLength = 1
  LastCommit = 2
  MaxRuns = 2
  MaxFaults = 2
SYMMETRY Symmetry
CHECK_DEADLOCK FALSE
INVARIANTS TypeOK RunUsesAll UpdateIsCurrent IdleIsClean
