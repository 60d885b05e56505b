\* One user, two repositories, searches that may not end.  The program ends,
\* and waits for the user: no deadlock check.
SPECIFICATION Spec
CONSTANTS
  Name <- MCName
  LowerCase <- MCLowerCase
  DotName <- MCDotName
  Lines <- MCLines
  Dirs <- MCDirs
  Home <- MCHome
  Repo <- MCRepo
  Heads <- MCHeads
  Samples <- MCSamples
  First <- MCFirst
  Second <- MCSecond
  InstallTemplates <- MCInstallTemplates
  Starts <- MCStarts
  Urls <- MCUrls
  MaxEntries = 2
INVARIANTS TypeOK VisitsAsAsked
PROPERTIES SharedAsEntered SearchEnds
CHECK_DEADLOCK FALSE
