\* See MCReleaseUpdate.
SPECIFICATION Spec
CONSTANTS
  Proc = {p1, p2}
  Kinds = {"auto", "update", "install", "bootstrap"}
  PreChoices = {FALSE}
  LastCommit = 2
  Release <- PlainRelease
  Prerelease = {}
  NoSkip = {}
  MajorOf <- PlainMajorOf
  Repairs = {"clone", "lock"}
  MaxCrashes = 0
  MaxFailures = 1
SYMMETRY Symmetry
INVARIANT LockReleased
INVARIANT HeadReturns
