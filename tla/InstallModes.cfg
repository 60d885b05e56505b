\* Any three commands, two edits by the user, one failure or kill.
SPECIFICATION Spec
CONSTANTS
  Dir = {"own", "default", "install"}
  InstallTemplates = "install"
  DefaultDir = "default"
  EnvDirs = {"no directory", "own"}
  Repo = {"bare"}
  Bare = {"bare"}
  ManagedHookNames <- MCHook
  ManagedServerHookNames <- MCServer
  Specs <- MCSpecs
  Installs <- MCInstalls
  Homes = {"no repository"}
  Edits <- MCEdits
  Initial <- MCInitial
  MaxCommands = 3
  MaxEdits = 2
  MaxFaults = 1
CHECK_DEADLOCK FALSE
INVARIANTS TypeOK WrapperHasRunner InstalledIsUsed ModeLasts
