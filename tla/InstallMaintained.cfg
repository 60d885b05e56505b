\* Three commands, without edits or failures.
SPECIFICATION Spec
CONSTANTS
  Dir = {"own", "default", "install"}
  InstallTemplates = "install"
  DefaultDir = "default"
  EnvDirs = {"no directory", "own"}
  Repo = {"work"}
  Bare = {}
  ManagedHookNames <- MCHook
  ManagedServerHookNames <- MCServer
  Specs <- MCSpecs
  Installs <- MCInstalls
  Homes = {"no repository"}
  Edits <- MCEdits
  Initial <- MCInitial
  MaxCommands = 3
  MaxEdits = 0
  MaxFaults = 0
CHECK_DEADLOCK FALSE
INVARIANT OwnSelectionKept
