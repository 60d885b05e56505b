\* See MCReleaseUpdate.
SPECIFICATION Spec
CONSTANTS
  Proc = {p1}
  Kinds = {"auto", "update", "install", "upgrade"}
  PreChoices = {TRUE, FALSE}
  LastCommit = 5
  Release <- MCRelease
  Prerelease <- MCPrerelease
  NoSkip <- MCNoSkip
  MajorOf <- MCMajorOf
  Repairs = {"clone", "lock"}
  MaxCrashes = 1
  MaxFailures = 1
INVARIANT TypeOK
INVARIANT TagFound
PROPERTY DryRunIsDry
PROPERTY AutoMajorNeedsConsent
PROPERTY FollowsTrack
