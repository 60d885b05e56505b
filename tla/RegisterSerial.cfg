\* One command after the other, with one kill and one failure.
SPECIFICATION Spec
CONSTANTS
  Proc = {p1}
  Repo = {r1, r2, r3}
  Kinds <- AllKinds
  KeepAnswers = {FALSE}
  MaxCrashes = 1
  MaxFailures = 1
SYMMETRY Symmetry
INVARIANTS TypeOK FlaggedIsListed ListedIsWrapped FlaggedIsWrapped
