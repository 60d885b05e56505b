----------------------------- MODULE InstallMode -----------------------------
(***************************************************************************)
(* Where Githooks puts its run-wrappers: installer and uninstaller in the  *)
(* three install modes, `git hooks install|uninstall`, and Git, which      *)
(* copies a template directory into a new repository or takes the hooks of *)
(* core.hooksPath.                                                         *)
(*                                                                         *)
(* A directory stands for a template directory and for its subfolder       *)
(* `hooks`, which holds the run-wrappers and is what core.hooksPath names. *)
(* Writing or removing the run-wrappers of one directory is one step       *)
(* (RunWrappers has the details); so is each setting and each file         *)
(* operation on an executable.  One installer or uninstaller runs at a     *)
(* time; Git, users and hooks act between its steps.  How repositories are *)
(* found is modelled in RepoSearch, their register in RepoRegister.        *)
(***************************************************************************)
EXTENDS Naturals, Sequences, Functions

CONSTANTS
  Dir,              \* template directories
  InstallTemplates, \* `<installDir>/templates`
  DefaultDir,       \* the default template directory of Git
  EnvDirs,          \* possible values of GIT_TEMPLATE_DIR
  Repo, Bare,       \* places for repositories, those which are bare
  ManagedHookNames, ManagedServerHookNames,
  Specs,            \* selections of hooks, see Word
  Installs,         \* arguments of installers, see Arguments
  Homes,            \* where installers may be started
  Edits,            \* <<key, value>> which users set
  Initial,          \* Git configurations and directories before Githooks
  MaxCommands, MaxEdits, MaxFaults   \* bounds

NoDir == "no directory"
NoRepo == "no repository"
None == "none"
Mode == {"template-dir", "core-hooks-path", "manual", None}

(* One word of a selection: `<name>` or `!<name>`.  <<>> is no selection. *)
Word == [name : ManagedHookNames \cup {"all", "server", "unknown"}, minus : BOOLEAN]

CheckHookNames(names) == \A i \in DOMAIN names : names[i].name # "unknown"

(* `maintained` is <<>> if not given, `existing` is false with             *)
(* --skip-install-into-existing and in an automatic update.  validateArgs  *)
(* has checked the names. *)
Arguments == [mode : Mode \ {None}, update : BOOLEAN, templateDir : Dir \cup {NoDir},
              maintained : {names \in Specs : CheckHookNames(names)},
              existing : BOOLEAN, nonInteractive : BOOLEAN]

(* The global Git configuration. *)
Config == [useManual : {"", "true", "false"}, useCoreHooksPath : {"", "true", "false"},
           manualTemplateDir : Dir \cup {NoDir}, templateDir : Dir \cup {NoDir},
           hooksPath : Dir \cup {NoDir}, pathForUseCoreHooksPath : Dir \cup {NoDir},
           maintained : Specs, alias : BOOLEAN, runner : BOOLEAN]

ASSUME InstallAssumption ==
  /\ {InstallTemplates, DefaultDir} \subseteq Dir
  /\ EnvDirs \subseteq Dir \cup {NoDir}
  /\ Bare \subseteq Repo
  /\ ManagedServerHookNames \subseteq ManagedHookNames
  /\ ManagedHookNames \cap {"all", "server", "unknown"} = {}
  /\ NoDir \notin Dir \cup Repo /\ NoRepo \notin Repo
  /\ <<>> \in Specs /\ <<[name |-> "all", minus |-> FALSE]>> \in Specs
  /\ Specs \subseteq Seq(Word)
  /\ Installs \subseteq Arguments /\ Installs # {}
  /\ Homes \subseteq Repo \cup {NoRepo}
  /\ Edits \subseteq ({"hooksPath", "templateDir"} \X (Dir \cup {NoDir}))
                      \cup ({"maintained"} \X Specs)
  /\ Initial \subseteq [conf : Config, present : SUBSET Dir]
  /\ MaxCommands \in Nat /\ MaxEdits \in Nat /\ MaxFaults \in Nat

VARIABLES
  conf,        \* the global Git configuration
  envDir,      \* GIT_TEMPLATE_DIR of the user, NoDir if not set
  present,     \* directories which exist and are writable
  wrappers,    \* hooks with a run-wrapper in each directory
  bin,         \* installed executables
  repos,       \* existing repositories
  inRepo,      \* hooks with a run-wrapper in each repository
  own,         \* each repository's own githooks.maintainedHooks
  registered,  \* repositories in the register file
  pc,          \* next step of the installer or uninstaller
  job,         \* what it carries along
  outcome,     \* history: how the last command ended, if nothing happened since
  settled,     \* history: the mode of the last complete installation
  torn,        \* history: an exchange of executables was interrupted
  missed,      \* history: what the uninstaller does not find or failed to clean
  commands, edits, faults

git == <<conf, envDir, present>>
disk == <<wrappers, bin, repos, inRepo, own, registered>>
history == <<outcome, settled, torn, missed>>
counts == <<commands, edits, faults>>
vars == <<git, disk, pc, job, history, counts>>

Binaries == <<"cli", "runner", "dialog">>

InstallSteps == {"mode", "settings", "binaries", "alias", "templates", "maintained",
                 "existing", "registered", "store"}
UninstallSteps == {"drop existing", "drop registered", "clean template",
                   "clean binaries", "clean register", "clean hooksPath", "clean keys"}

(* args, home: arguments, working directory; dir: the directory chosen;    *)
(* todo: settings to write or keys to clear; copy: executables to install; *)
(* register: the register in memory; visit, done: repositories.            *)
NoJob == [args |-> CHOOSE a \in Installs : TRUE, home |-> NoRepo, mode |-> None,
          dir |-> NoDir, todo |-> <<>>, copy |-> <<>>,
          register |-> {}, visit |-> {}, done |-> {}]

-----------------------------------------------------------------------------
(* Selections of hooks. *)

HooksOf(name) ==
  CASE name = "all" -> ManagedHookNames
    [] name = "server" -> ManagedServerHookNames
    [] OTHER -> {name} \cap ManagedHookNames

Apply(hooks, word) ==
  IF word.minus THEN hooks \ HooksOf(word.name) ELSE hooks \cup HooksOf(word.name)

(* Mutant: a selection starts with nothing. *)
UnwrapFromNothing(names) ==
  IF names = <<>> THEN ManagedHookNames
  ELSE LET hooks[n \in 0 .. Len(names)] ==
             IF n = 0 THEN {} ELSE Apply(hooks[n - 1], names[n])
       IN  hooks[Len(names)]

(* The words add and subtract in turn, from all hooks on, or from none if  *)
(* the first word is `all` or `server`. *)
UnwrapHookNames(names) ==
  IF names = <<>> THEN ManagedHookNames
  ELSE LET hooks[n \in 0 .. Len(names)] ==
             IF n = 0
             THEN IF names[1].name \in {"all", "server"} /\ ~names[1].minus
                  THEN {} ELSE ManagedHookNames
             ELSE Apply(hooks[n - 1], names[n])
       IN  hooks[Len(names)]

(* A value that is empty or not valid stands for all hooks. *)
Valid(names) ==
  IF names = <<>> \/ ~CheckHookNames(names)
  THEN <<[name |-> "all", minus |-> FALSE]>> ELSE names

(* The value Git finds in a directory, its scopes in their order. *)
GetMaintainedHooks(home) ==
  Valid(IF home # NoRepo /\ own[home] # <<>> THEN own[home] ELSE conf.maintained)

(* Only server hooks make sense in a bare repository. *)
Relevant(r, hookNames) ==
  IF r \in Bare THEN hookNames \cap ManagedServerHookNames ELSE hookNames

-----------------------------------------------------------------------------
(* Modes and directories. *)

GetInstallMode ==
  CASE conf.useManual = "true" -> "manual"
    [] conf.useManual # "true" /\ conf.useCoreHooksPath = "true" -> "core-hooks-path"
    [] conf.useManual # "true" /\ conf.useCoreHooksPath = "false" -> "template-dir"
    [] OTHER -> None

CheckTemplateDir(d) == IF d \in present THEN d ELSE NoDir

FirstDir(dirs) ==
  IF \E i \in DOMAIN dirs : dirs[i] # NoDir
  THEN dirs[CHOOSE i \in DOMAIN dirs : dirs[i] # NoDir /\ \A j \in 1..i - 1 : dirs[j] = NoDir]
  ELSE NoDir

FindHookTemplateDir(mode) ==
  CASE mode = "manual" -> CheckTemplateDir(conf.manualTemplateDir)
    [] mode = "core-hooks-path" -> CheckTemplateDir(conf.hooksPath)
    [] OTHER -> FirstDir(<<CheckTemplateDir(envDir), CheckTemplateDir(conf.templateDir),
                           CheckTemplateDir(DefaultDir)>>)

(* Without a directory, one is searched or entered, or it is the one of    *)
(* the installation; an installation has to have one. *)
FindOrChoose(args, mode) ==
  IF FindHookTemplateDir(mode) # NoDir THEN {FindHookTemplateDir(mode)}
  ELSE IF GetInstallMode # None THEN {}
  ELSE IF args.nonInteractive \/ mode \in {"core-hooks-path", "manual"} THEN {InstallTemplates}
  ELSE Dir

HookTemplateDirs(args, mode) ==
  IF args.templateDir # NoDir THEN {args.templateDir} \cap present
  ELSE FindOrChoose(args, mode)

(* The directory which the uninstaller cleans, and one which it would have *)
(* cleaned before this step and will not find any more. *)
Found == FindHookTemplateDir(GetInstallMode)

Abandoned == {d \in {Found} \ {NoDir, Found'} : wrappers[d] # {}}

(* What setDirectoryForInstallMode writes, in this order. *)
SettingsFor(mode, dir) ==
  CASE mode = "core-hooks-path" ->
         << <<"useCoreHooksPath", "true">>, <<"useManual", "false">>,
            <<"pathForUseCoreHooksPath", dir>>, <<"hooksPath", dir>> >>
    [] mode = "template-dir" ->
         << <<"useCoreHooksPath", "false">>, <<"useManual", "false">>,
            <<"templateDir", dir>> >>
    [] mode = "manual" ->
         << <<"useCoreHooksPath", "false">>, <<"useManual", "true">>,
            <<"manualTemplateDir", dir>> >>

Unset == [useManual |-> "", useCoreHooksPath |-> "", manualTemplateDir |-> NoDir,
          templateDir |-> NoDir, hooksPath |-> NoDir, pathForUseCoreHooksPath |-> NoDir,
          maintained |-> <<>>, alias |-> FALSE, runner |-> FALSE]

(* The keys of these that the uninstaller clears, in this order. *)
GetGlobalGitConfigKeys ==
  <<"runner", "maintained", "useManual", "manualTemplateDir", "useCoreHooksPath",
    "pathForUseCoreHooksPath", "alias">>

(* The directory Git copies into a new repository. *)
TemplateOfGit == FirstDir(<<CheckTemplateDir(envDir), CheckTemplateDir(conf.templateDir),
                            CheckTemplateDir(DefaultDir)>>)

(* The warning of runner and CLI that core.hooksPath is not as configured. *)
CheckGithooksSetup == (conf.hooksPath # NoDir) <=> (conf.useCoreHooksPath = "true")

-----------------------------------------------------------------------------
Init ==
  /\ \E i \in Initial : conf = i.conf /\ present = i.present
  /\ envDir \in EnvDirs
  /\ wrappers = [d \in Dir |-> {}]
  /\ bin = {}
  /\ repos = {} /\ registered = {}
  /\ inRepo = [r \in Repo |-> {}]
  /\ own = [r \in Repo |-> <<>>]
  /\ pc = "idle" /\ job = NoJob
  /\ outcome = None /\ settled = None
  /\ torn = FALSE /\ missed = {}
  /\ commands = 0 /\ edits = 0 /\ faults = 0

Goto(step, j) == pc' = step /\ job' = j

Ends(how) == pc' = "idle" /\ job' = [job EXCEPT !.visit = {}, !.todo = <<>>, !.copy = <<>>] /\ outcome' = how

Begin == pc = "idle" /\ commands < MaxCommands /\ commands' = commands + 1

(* An installer which has found a newer version takes the mode there is,   *)
(* whatever it was asked for; another one's has to agree with it. *)
ModeOf(args, newer) ==
  IF ~newer THEN args.mode
  ELSE IF GetInstallMode = None THEN "template-dir" ELSE GetInstallMode

(* Mutant: an installation in another mode is no obstacle. *)
AnyMode(args, newer) == TRUE

Accepted(args, newer) == newer \/ GetInstallMode \in {None, args.mode}

CliWorks == conf.alias /\ "cli" \in bin

(* An installer starts; an update is started by the installed CLI. *)
determineInstallMode ==
  /\ Begin
  /\ \E a \in Installs, h \in Homes, newer \in BOOLEAN :
       /\ a.update => CliWorks /\ newer
       /\ h \in repos \cup {NoRepo}
       /\ Accepted(a, newer)
       /\ Goto("mode", [NoJob EXCEPT !.args = a, !.home = h, !.mode = ModeOf(a, newer),
                                     !.register = registered \cap repos])
  /\ outcome' = None
  /\ UNCHANGED <<git, disk, settled, torn, missed, edits, faults>>

(* Mutant: the directory has to exist. *)
NoMkdir(d) == present

MkdirAll(d) == present \cup {d}

setupInstallMode ==
  /\ pc = "mode"
  /\ LET dirs == HookTemplateDirs(job.args, job.mode)
     IN  \/ \E d \in dirs :
              /\ present' = MkdirAll(d)
              /\ Goto("settings", [job EXCEPT !.dir = d, !.todo = SettingsFor(job.mode, d)])
              /\ UNCHANGED outcome
         \/ /\ dirs = {} \/ (job.args.templateDir = NoDir /\ dirs = Dir)
            /\ Ends("broken")
            /\ UNCHANGED present
  /\ UNCHANGED <<conf, envDir, disk, settled, torn, missed, counts>>

setDirectoryForInstallMode ==
  /\ pc = "settings"
  /\ conf' = [conf EXCEPT ![job.todo[1][1]] = job.todo[1][2]]
  /\ Goto(IF Len(job.todo) = 1 THEN "binaries" ELSE "settings",
          [job EXCEPT !.todo = Tail(job.todo), !.copy = Binaries])
  /\ UNCHANGED <<envDir, present, disk, outcome, settled, torn, counts>>
  /\ missed' = missed \cup Abandoned

(* CopyFileWithBackup: the installed executable is moved away and the new  *)
(* one copied to its place. *)
BackupBinary ==
  /\ pc = "binaries" /\ job.copy[1] \in bin
  /\ bin' = bin \ {job.copy[1]}
  /\ UNCHANGED <<git, wrappers, repos, inRepo, own, registered, pc, job, history, counts>>

(* ... or, if none was installed, copied at once. *)
installBinaries ==
  /\ pc = "binaries" /\ job.copy[1] \notin bin
  /\ bin' = bin \cup {job.copy[1]}
  /\ IF Len(job.copy) = 1
     THEN Goto("alias", [job EXCEPT !.copy = <<>>, !.todo = <<"alias", "runner">>])
     ELSE Goto("binaries", [job EXCEPT !.copy = Tail(job.copy)])
  /\ UNCHANGED <<git, wrappers, repos, inRepo, own, registered, history, counts>>

(* `git hooks` first, then what the run-wrappers start. *)
SetRunnerExecutableAlias ==
  /\ pc = "alias"
  /\ conf' = [conf EXCEPT ![job.todo[1]] = TRUE]
  /\ Goto(IF Len(job.todo) = 1 THEN "templates" ELSE "alias",
          [job EXCEPT !.todo = Tail(job.todo)])
  /\ UNCHANGED <<envDir, present, disk, history, counts>>

Selected == IF job.args.maintained # <<>> THEN job.args.maintained
            ELSE Valid(conf.maintained)

setupHookTemplates ==
  /\ pc = "templates"
  /\ wrappers' = [wrappers EXCEPT ![job.dir] = UnwrapHookNames(Selected)]
  /\ missed' = missed \cup ({job.dir} \ {Found})
  /\ Goto("maintained", job)
  /\ UNCHANGED <<git, bin, repos, inRepo, own, registered, outcome, settled, torn, counts>>

(* The setting follows the run-wrappers.  Then existing repositories are   *)
(* searched, as far as the user wants. *)
SetMaintainedHooks ==
  /\ pc = "maintained"
  /\ conf' = [conf EXCEPT !.maintained = Selected]
  /\ \E found \in IF job.args.existing /\ job.args.mode # "core-hooks-path"
                  THEN SUBSET repos ELSE {{}} :
       Goto("existing", [job EXCEPT !.visit = found])
  /\ UNCHANGED <<envDir, present, disk, history, counts>>

(* The hooks of the working directory are taken, not those of r. *)
InstallIntoRepo(r) ==
  /\ pc \in {"existing", "registered"} /\ r \in job.visit
  /\ inRepo' = [inRepo EXCEPT ![r] =
                  Relevant(r, UnwrapHookNames(GetMaintainedHooks(job.home)))]
  /\ Goto(pc, [job EXCEPT !.visit = job.visit \ {r}, !.done = job.done \cup {r},
                          !.register = job.register \cup {r}])
  /\ UNCHANGED <<git, wrappers, bin, repos, own, registered, history, counts>>

installIntoRegisteredRepos ==
  /\ pc = "existing" /\ job.visit = {}
  /\ \E visit \in IF job.args.mode = "core-hooks-path" THEN {{}}
                  ELSE {job.register \ job.done}
                         \cup IF job.args.nonInteractive THEN {} ELSE {{}} :
       Goto("registered", [job EXCEPT !.visit = visit])
  /\ UNCHANGED <<git, disk, history, counts>>

storeSettings ==
  /\ pc = "registered" /\ job.visit = {}
  /\ registered' = job.register
  /\ Ends("installed")
  /\ settled' = job.mode
  /\ UNCHANGED <<git, wrappers, bin, repos, inRepo, own, torn, missed, counts>>

-----------------------------------------------------------------------------
(* The uninstaller.  The user may decline either group of repositories. *)
runUninstall ==
  /\ Begin
  /\ \E found \in SUBSET repos :
       Goto("drop existing", [NoJob EXCEPT !.visit = found, !.register = registered \cap repos])
  /\ outcome' = None /\ settled' = None
  /\ UNCHANGED <<git, disk, torn, missed, edits, faults>>

UninstallFromRepo(r) ==
  /\ pc \in {"drop existing", "drop registered"} /\ r \in job.visit
  /\ inRepo' = [inRepo EXCEPT ![r] = {}]
  /\ own' = [own EXCEPT ![r] = <<>>]
  /\ Goto(pc, [job EXCEPT !.visit = job.visit \ {r}, !.done = job.done \cup {r}])
  /\ UNCHANGED <<git, wrappers, bin, repos, registered, history, counts>>

uninstallFromRegisteredRepos ==
  /\ pc = "drop existing" /\ job.visit = {}
  /\ \E visit \in {job.register \ job.done, {}} :
       Goto("drop registered", [job EXCEPT !.visit = visit])
  /\ UNCHANGED <<git, disk, history, counts>>

uninstalledRepos ==
  /\ pc = "drop registered" /\ job.visit = {}
  /\ Goto("clean template", job)
  /\ UNCHANGED <<git, disk, history, counts>>

Wrapped == {r \in repos : inRepo[r] # {}}

(* Mutant: the template directory is looked for as in template-dir mode. *)
cleanDefaultTemplateDir ==
  /\ pc = "clean template"
  /\ LET d == FindHookTemplateDir("template-dir")
     IN  wrappers' = IF d = NoDir THEN wrappers ELSE [wrappers EXCEPT ![d] = {}]
  /\ missed' = missed \cup Wrapped
  /\ Goto("clean binaries", job)
  /\ UNCHANGED <<git, bin, repos, inRepo, own, registered, outcome, settled, torn, counts>>

(* Without a directory there is only a message. *)
cleanTemplateDir ==
  /\ pc = "clean template"
  /\ wrappers' = IF Found = NoDir THEN wrappers ELSE [wrappers EXCEPT ![Found] = {}]
  /\ missed' = missed \cup Wrapped
  /\ Goto("clean binaries", job)
  /\ UNCHANGED <<git, bin, repos, inRepo, own, registered, outcome, settled, torn, counts>>

(* ... as when run-wrappers cannot be removed. *)
cleanTemplateDirFails ==
  /\ pc = "clean template" /\ faults < MaxFaults
  /\ faults' = faults + 1
  /\ missed' = missed \cup Wrapped \cup ({Found} \ {NoDir})
  /\ Goto("clean binaries", job)
  /\ UNCHANGED <<git, disk, outcome, settled, torn, commands, edits>>

cleanBinaries ==
  /\ pc = "clean binaries"
  /\ bin' = {}
  /\ Goto("clean register", job)
  /\ UNCHANGED <<git, wrappers, repos, inRepo, own, registered, history, counts>>

cleanRegister ==
  /\ pc = "clean register"
  /\ registered' = {}
  /\ Goto("clean hooksPath", job)
  /\ UNCHANGED <<git, wrappers, bin, repos, inRepo, own, history, counts>>

(* core.hooksPath is removed if it is what the installer has set. *)
cleanHooksPath ==
  /\ pc = "clean hooksPath"
  /\ conf' = IF conf.hooksPath = conf.pathForUseCoreHooksPath
             THEN [conf EXCEPT !.hooksPath = NoDir] ELSE conf
  /\ Goto("clean keys", [job EXCEPT !.todo = GetGlobalGitConfigKeys])
  /\ UNCHANGED <<envDir, present, disk, history, counts>>

cleanGitConfig ==
  /\ pc = "clean keys"
  /\ conf' = [conf EXCEPT ![job.todo[1]] = Unset[job.todo[1]]]
  /\ IF Len(job.todo) = 1 THEN Ends("uninstalled")
     ELSE Goto(pc, [job EXCEPT !.todo = Tail(job.todo)]) /\ UNCHANGED outcome
  /\ UNCHANGED <<envDir, present, disk, settled, torn, missed, counts>>

-----------------------------------------------------------------------------
(* `git hooks install [--maintained-hooks ...]` and `git hooks uninstall`. *)
Here(r) ==
  /\ pc = "idle" /\ r \in repos /\ CliWorks
  /\ commands < MaxCommands /\ commands' = commands + 1
  /\ outcome' = None
  /\ UNCHANGED <<git, wrappers, bin, repos, pc, job, settled, torn, missed, edits, faults>>

runInstallIntoRepo(r) ==
  /\ Here(r)
  /\ conf.hooksPath = NoDir /\ conf.useCoreHooksPath # "true"
  /\ \E names \in {s \in Specs : CheckHookNames(s)} :
       /\ own' = IF names = <<>> THEN own ELSE [own EXCEPT ![r] = names]
       /\ inRepo' = [inRepo EXCEPT ![r] = Relevant(r, UnwrapHookNames(
                       IF names # <<>> THEN names ELSE GetMaintainedHooks(r)))]
  /\ registered' = registered \cup {r}

runUninstallFromRepo(r) ==
  /\ Here(r)
  /\ inRepo' = [inRepo EXCEPT ![r] = {}]
  /\ registered' = registered \ {r}
  /\ UNCHANGED own

(* Git creates a repository from its template directory. *)
GitInit(r) ==
  /\ r \notin repos
  /\ repos' = repos \cup {r}
  /\ inRepo' = [inRepo EXCEPT ![r] = IF TemplateOfGit = NoDir THEN {} ELSE wrappers[TemplateOfGit]]
  /\ missed' = missed \cup IF TemplateOfGit \in missed THEN {r} ELSE {}
  /\ UNCHANGED <<git, wrappers, bin, own, registered, pc, job, outcome, settled, torn, counts>>

(* A first hook run registers the repository (assertRegistered). *)
HookRun(r) ==
  /\ r \in Wrapped \ registered
  /\ conf.runner /\ "runner" \in bin /\ conf.hooksPath = NoDir
  /\ registered' = registered \cup {r}
  /\ UNCHANGED <<git, wrappers, bin, repos, inRepo, own, pc, job, history, counts>>

(* The user changes the configuration. *)
Edit ==
  /\ pc = "idle" /\ edits < MaxEdits
  /\ edits' = edits + 1
  /\ \E e \in Edits : conf' = [conf EXCEPT ![e[1]] = e[2]]
  /\ outcome' = None
  /\ UNCHANGED <<envDir, present, disk, pc, job, settled, torn, commands, faults>>
  /\ missed' = missed \cup Abandoned

(* The installer panics or is killed, the uninstaller is killed.  What     *)
(* CopyFileWithBackup has moved away stays away. *)
Fail ==
  /\ pc # "idle" /\ faults < MaxFaults
  /\ faults' = faults + 1
  /\ torn' = (torn \/ pc = "alias" \/ (pc = "binaries" /\ job.copy[1] \notin bin))
  /\ Ends("broken")
  /\ UNCHANGED <<git, disk, settled, missed, commands, edits>>

Next ==
  \/ determineInstallMode \/ setupInstallMode \/ setDirectoryForInstallMode
  \/ BackupBinary \/ installBinaries \/ SetRunnerExecutableAlias
  \/ setupHookTemplates \/ SetMaintainedHooks
  \/ installIntoRegisteredRepos \/ storeSettings
  \/ runUninstall \/ uninstallFromRegisteredRepos \/ uninstalledRepos
  \/ cleanTemplateDir \/ cleanTemplateDirFails \/ cleanBinaries
  \/ cleanRegister \/ cleanHooksPath \/ cleanGitConfig
  \/ \E r \in Repo : \/ InstallIntoRepo(r) \/ UninstallFromRepo(r)
                     \/ runInstallIntoRepo(r) \/ runUninstallFromRepo(r)
                     \/ GitInit(r) \/ HookRun(r)
  \/ Edit \/ Fail

Spec == Init /\ [][Next]_vars

-----------------------------------------------------------------------------
(* Properties. *)

(* The shapes of the variables; only the steps that need them have         *)
(* settings, executables or repositories left to do. *)
TypeOK ==
  /\ conf \in Config /\ envDir \in EnvDirs /\ present \subseteq Dir
  /\ wrappers \in [Dir -> SUBSET ManagedHookNames]
  /\ bin \subseteq Range(Binaries)
  /\ repos \subseteq Repo /\ registered \subseteq repos
  /\ inRepo \in [Repo -> SUBSET ManagedHookNames] /\ own \in [Repo -> Specs]
  /\ pc \in {"idle"} \cup InstallSteps \cup UninstallSteps
  /\ job.args \in Arguments /\ job.home \in repos \cup {NoRepo} /\ job.mode \in Mode
  /\ pc \in InstallSteps \ {"mode"} => job.dir \in present
  /\ pc \in {"settings", "alias", "clean keys"} <=> job.todo # <<>>
  /\ pc = "binaries" => job.copy # <<>>
  /\ job.register \subseteq repos /\ job.visit \subseteq repos /\ job.done \subseteq repos
  /\ outcome \in {None, "installed", "uninstalled", "broken"} /\ settled \in Mode
  /\ torn \in BOOLEAN /\ missed \subseteq Dir \cup Repo
  /\ commands \in 0..MaxCommands /\ edits \in 0..MaxEdits /\ faults \in 0..MaxFaults

RunnerWorks == conf.runner /\ "runner" \in bin

(* Where Git takes the hooks of a repository from. *)
HooksOfGit(r) == IF conf.hooksPath # NoDir THEN wrappers[conf.hooksPath] ELSE inRepo[r]

(* A run-wrapper without a runner fails, and with it the Git command.      *)
(* Between commands, wherever one stopped, Git comes upon none, in any     *)
(* repository and for any new one; but for an executable whose exchange    *)
(* was interrupted, and for what the uninstaller was told to leave or      *)
(* could not remove, or cannot find since the user or another installation *)
(* has named another directory.                                            *)
WrapperHasRunner ==
  (pc = "idle" /\ ~torn /\ ~RunnerWorks) =>
    /\ \A r \in repos : HooksOfGit(r) # {} => {r, conf.hooksPath} \cap missed # {}
    /\ TemplateOfGit # NoDir /\ wrappers[TemplateOfGit] # {} => TemplateOfGit \in missed

(* What a selection says: the last word on a hook decides, and a selection *)
(* that begins with anything but `all` or `server` is one of all hooks     *)
(* (MaintainedHooksDesc). *)
Concerns(w, h) == h \in HooksOf(w.name)

Denoted(names) ==
  {h \in ManagedHookNames :
     LET words == {i \in DOMAIN names : Concerns(names[i], h)}
     IN  IF words = {} THEN names = <<>> \/ names[1].name # "server" \/ names[1].minus
         ELSE \E i \in words : ~names[i].minus /\ \A j \in words : j <= i}

(* After an installation without errors, the mode and its directory are    *)
(* what a later update or the uninstaller will find.  GIT_TEMPLATE_DIR     *)
(* takes precedence over --template-dir later and is left out.             *)
InstalledIsFound ==
  (outcome = "installed" /\ envDir \in {NoDir, job.dir}) =>
    /\ GetInstallMode = job.mode
    /\ Found = job.dir
    /\ job.mode = "template-dir" => TemplateOfGit = job.dir
    /\ job.mode = "core-hooks-path" => conf.hooksPath = job.dir /\ CheckGithooksSetup

(* And Git finds there, or in the repositories visited, run-wrappers for   *)
(* the hooks the user has selected, those asked for now if there were any. *)
(* The repositories are treated by the settings of the working directory:  *)
(* those with others are left out.                                         *)
InstalledIsUsed ==
  /\ InstalledIsFound
  /\ (outcome = "installed" /\ envDir \in {NoDir, job.dir}) =>
       /\ job.args.maintained # <<>> => conf.maintained = job.args.maintained
       /\ wrappers[job.dir] = Denoted(Valid(conf.maintained))
       /\ \A r \in job.done :
            (own[r] = <<>> /\ job.home \in {r, NoRepo}) =>
              inRepo[r] = Relevant(r, Denoted(Valid(conf.maintained)))

(* The mode of a complete installation lasts until the uninstaller is      *)
(* called, through updates and interrupted installations. *)
ModeLasts == (pc = "idle" /\ settled # None) => GetInstallMode = settled

(* `git hooks install --maintained-hooks`: "A set of hook names which are  *)
(* maintained in this repository" - also when Githooks is updated.         *)
OwnSelectionKept ==
  outcome = "installed" =>
    \A r \in job.done : own[r] # <<>> => inRepo[r] = Relevant(r, Denoted(own[r]))
=============================================================================
