------------------------------- MODULE Settings -------------------------------
(***************************************************************************)
(* The settings of Githooks in Git's configuration: the commands           *)
(* `git hooks config ...` and `git hooks disable` that write them, the     *)
(* hook runner, which reads them once into a cache and writes some beside  *)
(* and some through it, the update it starts, and the uninstaller.         *)
(*                                                                         *)
(* There is one repository and one run at a time; what other runs do to    *)
(* the configuration are edits like those of the user.  A run reads its    *)
(* settings in stages: the cache is its own, so the reads of one stage are *)
(* one step.  Commands run inside the repository, with options their       *)
(* checks accept (SetOptions.AssertOptions); `--print` changes nothing.    *)
(***************************************************************************)
EXTENDS GitConfig

CONSTANTS
  Env,          \* the environments in which hooks run
  EnvOf,        \* what the environment's variables say of each preference
  Marked,       \* the environments in which the repository has a trust marker
  Initial,      \* configurations before the first run
  OtherEdits,   \* <<scope, key, values>> that others write
  MaxEdits,     \* bound: commands and edits of others
  MaxRuns       \* bound: runs of the hook runner

Pref == {"disable", "nonInteractive", "skipMissing", "skipUntrusted",
         "trustAll", "containerized", "autoUpdate", "sharedUpdateDisabled"}

(* What the installer of an update writes in every install mode, where it  *)
(* writes the directory of the mode (hooksPath and initTemplateDir are     *)
(* Git's own core.hooksPath and init.templateDir), and after building.     *)
InstallKey == {"cloneUrl", "cloneBranch", "installDir", "runner", "dialog", "alias",
               "useManual", "useCoreHooksPath", "maintainedHooks"}
ModeKeys == {{"pathForUseCoreHooksPath", "hooksPath"}, {"initTemplateDir"},
             {"manualTemplateDir"}}
UpdateKey == InstallKey \cup (UNION ModeKeys) \cup {"buildFromSource"}

(* The keys a run reads that are no preferences. *)
OtherKey == {"registered", "timestamp", "usePrerelease", "shared",
             "sharedTriggers", "numThreads", "searchDir", "lfsAnswer"}

Word == {"on", "off", "unsaid"}
EditScopes == {"local", "global"}

ASSUME SettingsAssumption ==
  /\ Pref \cup UpdateKey \cup OtherKey \subseteq Keys
  /\ {"true", "false", "y", "n", "Y", "", "arg", "now"} \subseteq Values
  /\ Env # {}
  /\ EnvOf \in [Env -> [Pref -> Word]]
  /\ Initial \subseteq Config
  /\ OtherEdits \subseteq Scopes \X Keys \X Seq(Values)
  /\ \A s \in Scopes, k \in Keys :
        \A i \in 1..Len(Included[s][k]) : Included[s][k][i] # ""
  /\ MaxEdits \in Nat /\ MaxRuns \in Nat

VARIABLES
  file,      \* the configuration files of all scopes
  cache,     \* the configuration as the run read it
  pc,        \* what the run does next
  env,       \* its environment
  acts,      \* what it acts on, "open" where it has not decided
  pending,   \* <<scope, key, value>> set in the cache, `git config` to follow
  apart,     \* history: what changed beside the cache since it was filled
  own,       \* history: what of that the run and its update changed
  stale,     \* history: what of that the run has read since
  edits, runs

run == <<cache, pc, env, acts, pending, apart, own, stale>>
counts == <<edits, runs>>
vars == <<file, run, counts>>

Nothing == <<>>

(***************************************************************************)
(* The commands.  Each is an edit of one key.  A command that panics is    *)
(* one whose scope is None, and left out below.                            *)
(***************************************************************************)
None == "none"

(* `--set`, `--enable`, ... / `--unset`, `--disable`, ... / `--reset` of a  *)
(* key with two values. *)
Switch(op, s, k, on, off) ==
  CASE op = "set"   -> [do |-> "set", scope |-> s, key |-> k, value |-> on]
    [] op = "unset" -> [do |-> "set", scope |-> s, key |-> k, value |-> off]
    [] op = "reset" -> [do |-> "unset", scope |-> s, key |-> k, value |-> off]

(* Exactly one of `--local` and `--global` must be given or implied. *)
wrapToGitScope(flags) ==
  IF flags = {"local"} THEN "local" ELSE IF flags = {"global"} THEN "global" ELSE None

Flags == SUBSET EditScopes
OrLocal(flags) == IF flags = {} THEN {"local"} ELSE flags
OrGlobal(flags) == IF flags = {} THEN {"global"} ELSE flags

(* `--global` wins over `--local` here, and both are accepted. *)
RunDisable(op, flags) ==
  Switch(op, IF "global" \in OrLocal(flags) THEN "global" ELSE "local",
         "disable", "true", "true")

runContainerizedHooksEnable(op, flags) ==
  Switch(op, wrapToGitScope(flags), "containerized", "true", "true")

runSearchDir(op) == Switch(op, "global", "searchDir", "arg", "arg")

SetCloneURL(op) == Switch(op, "global", "cloneUrl", "arg", "arg")

SetCloneBranch(op) == Switch(op, "global", "cloneBranch", "arg", "arg")

ResetUpdateCheckTimestamp(op) == Switch(op, "global", "timestamp", "now", "now")

SetTrustAllSetting(op) == Switch(op, "local", "trustAll", "true", "false")

SetAutomaticUpdateCheckSettings(op) == Switch(op, "global", "autoUpdate", "true", "false")

(* `--add` adds to the values there are. *)
runSharedRepos(op, flags) ==
  [do |-> IF op = "set" THEN "add" ELSE "unset",
   scope |-> wrapToGitScope(flags), key |-> "shared", value |-> "arg"]

SetSkipNonExistingSharedHooks(op, flags) ==
  Switch(op, wrapToGitScope(flags), "skipMissing", "true", "false")

SetDisableSharedHooksUpdate(op, flags) ==
  Switch(op, wrapToGitScope(flags), "sharedUpdateDisabled", "true", "false")

SetSkipUntrustedHooks(op, flags) ==
  Switch(op, wrapToGitScope(flags), "skipUntrusted", "true", "false")

SetRunnerNonInteractive(op, flags) ==
  Switch(op, wrapToGitScope(flags), "nonInteractive", "true", "false")

runDeleteDetectedLFSHooks(op) == Switch(op, "global", "lfsAnswer", "y", "n")

(* What each command accepts and implies. *)
SetReset == {"set", "reset"}
SetUnsetReset == {"set", "unset", "reset"}

configDisableCmd == {RunDisable(op, f) : op \in SetReset, f \in Flags}
configContainerizedHooksEnabledCmd ==
  {runContainerizedHooksEnable(op, OrLocal(f)) : op \in SetReset, f \in Flags}
configSearchDirCmd == {runSearchDir(op) : op \in SetReset}
configCloneURLCmd == {SetCloneURL("set")}
configCloneBranchCmd == {SetCloneBranch(op) : op \in SetReset}
configTrustAllHooksCmd == {SetTrustAllSetting(op) : op \in SetUnsetReset}
configUpdateCmd == {SetAutomaticUpdateCheckSettings(op) : op \in SetUnsetReset}
configUpdateTimeCmd == {ResetUpdateCheckTimestamp("reset")}
configSharedCmd == {runSharedRepos(op, OrGlobal(f)) : op \in SetReset, f \in Flags}
configSkipNonExistingSharedHooks ==
  {SetSkipNonExistingSharedHooks(op, OrLocal(f)) : op \in SetUnsetReset, f \in Flags}
configDisableSharedHooksUpdate ==
  {SetDisableSharedHooksUpdate(op, OrLocal(f)) : op \in SetUnsetReset, f \in Flags}
configFailUntrustedHooks ==
  {SetSkipUntrustedHooks(op, OrLocal(f)) : op \in SetUnsetReset, f \in Flags}
(* No scope is implied here: without one it panics. *)
configNonInteractiveRunner ==
  {SetRunnerNonInteractive(op, f) : op \in SetUnsetReset, f \in Flags}
configDetectedLFSCmd == {runDeleteDetectedLFSHooks(op) : op \in SetUnsetReset}

(* All that `git hooks config` and `git hooks disable` can do. *)
Commands ==
  {e \in UNION {configDisableCmd, configContainerizedHooksEnabledCmd, configSearchDirCmd,
                configCloneURLCmd, configCloneBranchCmd, configTrustAllHooksCmd,
                configUpdateCmd, configUpdateTimeCmd, configSharedCmd,
                configSkipNonExistingSharedHooks, configDisableSharedHooksUpdate,
                configFailUntrustedHooks, configNonInteractiveRunner,
                configDetectedLFSCmd} : e.scope # None}

(***************************************************************************)
(* What the uninstaller removes.                                           *)
(***************************************************************************)
GetGlobalGitConfigKeys ==
  {"installDir", "runner", "dialog", "disable", "maintainedHooks", "searchDir",
   "autoUpdate", "timestamp", "usePrerelease", "cloneBranch", "cloneUrl",
   "lfsAnswer", "useManual", "manualTemplateDir", "useCoreHooksPath",
   "pathForUseCoreHooksPath", "buildFromSource", "numThreads", "alias", "shared",
   "sharedTriggers",
   "sharedUpdateDisabled", "skipMissing", "skipUntrusted", "nonInteractive",
   "containerized"}

\* Mutant: a key that became local as well is missing.
LocalKeysIncomplete ==
  {"registered", "trustAll", "maintainedHooks", "shared", "sharedTriggers",
   "sharedUpdateDisabled", "skipMissing", "skipUntrusted", "containerized"}

GetLocalGitConfigKeys ==
  {"registered", "trustAll", "maintainedHooks", "shared", "sharedTriggers",
   "sharedUpdateDisabled", "skipMissing", "skipUntrusted", "nonInteractive",
   "containerized"}

(***************************************************************************)
(* What the runner makes of the configuration.                             *)
(***************************************************************************)
IsTrue(v) == v = "true"

OnOff(b) == IF b THEN "on" ELSE "off"

(* A variable that says "off" does not enable hooks somebody disabled. *)
IsGithooksDisabled(c, e) ==
  \/ EnvOf[e]["disable"] = "on"
  \/ Get(c, "disable", Traverse) \in {"true", "y", "Y"}

IsContainerizedHooksEnabled(c, e) ==
  \/ EnvOf[e]["containerized"] = "on"
  \/ IsTrue(Get(c, "containerized", Traverse))

IsRunnerNonInteractive(c) == IsTrue(Get(c, "nonInteractive", Traverse))

SkipNonExistingSharedHooks(c, e) ==
  IF EnvOf[e]["skipMissing"] # "unsaid" THEN EnvOf[e]["skipMissing"] = "on"
  ELSE IsTrue(Get(c, "skipMissing", Traverse))

\* Mutant: the setting of a repository is not considered.
SkipUntrustedGlobally(c, e) ==
  IF EnvOf[e]["skipUntrusted"] # "unsaid" THEN EnvOf[e]["skipUntrusted"] = "on"
  ELSE IsTrue(Get(c, "skipUntrusted", "global"))

SkipUntrustedHooks(c, e) ==
  IF EnvOf[e]["skipUntrusted"] # "unsaid" THEN EnvOf[e]["skipUntrusted"] = "on"
  ELSE IsTrue(Get(c, "skipUntrusted", Traverse))

TrustAllIsSet(c) == Get(c, "trustAll", "local") \notin {NoValue, ""}

IsRepoTrusted(c, e) == e \in Marked /\ IsTrue(Get(c, "trustAll", "local"))

GetAutomaticUpdateCheckSettings(c) == IsTrue(Get(c, "autoUpdate", "global"))

IsSharedHooksUpdateDisabled(c) == IsTrue(Get(c, "sharedUpdateDisabled", Traverse))

(***************************************************************************)
(* The specification.                                                      *)
(***************************************************************************)
Init ==
  /\ file \in Initial
  /\ cache = Listing(file)
  /\ pc = "idle"
  /\ env = CHOOSE e \in Env : TRUE
  /\ acts = [p \in Pref |-> "open"]
  /\ pending = Nothing
  /\ apart = {} /\ own = {} /\ stale = {}
  /\ edits = 0 /\ runs = 0

(* Somebody else than the run changes key k of scope s. *)
Foreign(s, k) ==
  /\ edits < MaxEdits
  /\ edits' = edits + 1
  /\ apart' = apart \cup {<<s, k>>}
  /\ UNCHANGED <<cache, pc, env, acts, pending, own, stale, runs>>

(* A command of the user; it panics when Git fails. *)
ConfigCommand ==
  \E e \in Commands :
    /\ Foreign(e.scope, e.key)
    /\ \/ /\ e.do = "set" /\ CanGitSet(file, e.scope, e.key)
          /\ file' = GitSet(file, e.scope, e.key, e.value)
       \/ /\ e.do = "add"
          /\ file' = GitAdd(file, e.scope, e.key, e.value)
       \/ /\ e.do = "unset"
          /\ file' = GitUnset(file, e.scope, e.key)

(* The user edits a file, or another program does. *)
OtherEdit ==
  \E x \in OtherEdits :
    /\ Foreign(x[1], x[2])
    /\ file' = Put(file, x[1], x[2], x[3])

(* The uninstaller cleans the configuration of the registered repository   *)
(* and then the global one; it logs what fails.  core.hooksPath stays when *)
(* it is not the one Githooks set.                                         *)
cleanGitConfigInRepo ==
  /\ edits < MaxEdits
  /\ file' = [file EXCEPT !["local"] =
               [k \in Keys |-> IF k \in GetLocalGitConfigKeys THEN <<>> ELSE file["local"][k]]]
  /\ edits' = edits + 1
  /\ apart' = apart \cup ({"local"} \X GetLocalGitConfigKeys)
  /\ UNCHANGED <<cache, pc, env, acts, pending, own, stale, runs>>

cleanGitConfig ==
  LET c == Listing(file)
      ours == Get(c, "hooksPath", "global") = Get(c, "pathForUseCoreHooksPath", "global")
      gone == GetGlobalGitConfigKeys \cup IF ours THEN {"hooksPath"} ELSE {}
  IN  /\ edits < MaxEdits
      /\ file' = [file EXCEPT !["global"] =
                   [k \in Keys |-> IF k \in gone THEN <<>> ELSE file["global"][k]]]
      /\ edits' = edits + 1
      /\ apart' = apart \cup ({"global"} \X gone)
      /\ UNCHANGED <<cache, pc, env, acts, pending, own, stale, runs>>

(* The keys of K in the scopes S are read from the cache. *)
Reading(S, K) == stale' = stale \cup ((S \X K) \cap own)

(* A run begins: it fills its cache. *)
InitConfigCache ==
  /\ pc = "idle" /\ runs < MaxRuns
  /\ runs' = runs + 1
  /\ env' \in Env
  /\ cache' = Listing(file)
  /\ acts' = [p \in Pref |-> "open"]
  /\ apart' = {} /\ own' = {}
  /\ pc' = "settings"
  /\ UNCHANGED <<file, pending, stale, edits>>

setupSettings ==
  LET is == [disable        |-> IsGithooksDisabled(cache, env),
             nonInteractive |-> IsRunnerNonInteractive(cache),
             skipMissing    |-> SkipNonExistingSharedHooks(cache, env),
             skipUntrusted  |-> SkipUntrustedHooks(cache, env),
             containerized  |-> IsContainerizedHooksEnabled(cache, env),
             trustAll       |-> IsRepoTrusted(cache, env)]
      prompt == /\ env \in Marked /\ ~TrustAllIsSet(cache)
                /\ ~is.nonInteractive /\ ~is.disable
      decided == DOMAIN is \ IF prompt THEN {"trustAll"} ELSE {}
  IN  /\ pc = "settings"
      /\ acts' = [p \in Pref |-> IF p \in decided THEN OnOff(is[p]) ELSE acts[p]]
      /\ pc' = IF prompt THEN "prompt" ELSE "register"
      /\ Reading(Scopes, DOMAIN is)
      /\ UNCHANGED <<file, cache, env, pending, apart, own, counts>>

(* The first half of SetConfig: the cache is changed.  It panics, and the  *)
(* run with it, when the key has several values. *)
CacheThenGit(s, k, v, next) ==
  /\ CanCachedSet(cache, s, k)
  /\ cache' = CachedSet(cache, s, k, v)
  /\ pending' = <<s, k, v>>
  /\ pc' = next
  /\ UNCHANGED <<file, env, acts, apart, own, stale, counts>>

(* The second half; what Git fails to set is logged, and stays in the cache. *)
SetPending(next) ==
  /\ \/ /\ CanGitSet(file, pending[1], pending[2])
        /\ file' = GitSet(file, pending[1], pending[2], pending[3])
        /\ apart' = apart
     \/ /\ file' = file
        /\ apart' = apart \cup {<<pending[1], pending[2]>>}
  /\ pending' = Nothing
  /\ pc' = next
  /\ UNCHANGED <<cache, env, acts, own, stale, counts>>

\* Mutant: the answer itself is stored.
storePlainAnswer ==
  /\ pc = "prompt"
  /\ \E v \in {"y", "n"} : CacheThenGit("local", "trustAll", v, "store trust")

(* The answer of the user to the trust prompt is stored. *)
showTrustRepoPrompt ==
  /\ pc = "prompt"
  /\ \E v \in {"true", "false"} : CacheThenGit("local", "trustAll", v, "store trust")

storeTrust == pc = "store trust" /\ SetPending("trust")

(* ... and acted on, even if it could not be stored.  When the prompt       *)
(* failed there is no answer, and no trust.                                *)
trustAnswer ==
  /\ pc \in {"prompt", "trust"}
  /\ acts' = [acts EXCEPT !["trustAll"] =
               OnOff(pc = "trust" /\ IsTrue(Get(cache, "trustAll", "local")))]
  /\ pc' = "register"
  /\ UNCHANGED <<file, cache, env, pending, apart, own, stale, counts>>

(* The repository is entered into the register (see RepoRegister) and      *)
(* marked, unless it is or core.hooksPath is in use.                       *)
isRegistered ==
  \/ IsSet(cache, "registered", "local")
  \/ IsSet(cache, "hooksPath", Traverse)

MarkRepoRegistered ==
  /\ pc = "register" /\ ~isRegistered
  /\ CacheThenGit("local", "registered", "true", "store mark")

storeMark == pc = "store mark" /\ SetPending("update")

assertRegistered ==
  /\ pc = "register" /\ isRegistered
  /\ pc' = "update"
  /\ Reading(Scopes, {"registered", "hooksPath"})
  /\ UNCHANGED <<file, cache, env, acts, pending, apart, own, counts>>

(* Disabled, the run goes on to what is left to do without settings. *)
disabledRun ==
  /\ pc = "update" /\ acts["disable"] = "on"
  /\ pc' = "idle"
  /\ UNCHANGED <<file, cache, env, acts, pending, apart, own, stale, counts>>

(* Any hook but post-commit skips the update. *)
skipUpdate ==
  /\ pc = "update" /\ acts["disable"] # "on"
  /\ pc' = "shared"
  /\ UNCHANGED <<file, cache, env, acts, pending, apart, own, stale, counts>>

(* Without a time of the last check it is due; otherwise it may be. *)
shouldRunUpdateCheck ==
  /\ pc = "update" /\ acts["disable"] # "on"
  /\ LET is == GetAutomaticUpdateCheckSettings(cache)
     IN  /\ acts' = [acts EXCEPT !["autoUpdate"] = OnOff(is)]
         /\ \/ is /\ pc' = "check"
            \/ (is => IsSet(cache, "timestamp", "global")) /\ pc' = "shared"
  /\ Reading({"global"}, {"autoUpdate", "timestamp", "usePrerelease"})
  /\ UNCHANGED <<file, cache, env, pending, apart, own, counts>>

(* The run, and the installer it starts, write keys K beside the cache. *)
Beside(K, f) ==
  /\ file' = f
  /\ apart' = apart \cup ({"global"} \X K)
  /\ own' = own \cup ({"global"} \X K)
  /\ UNCHANGED <<cache, env, acts, pending, stale, counts>>

(* The check is recorded; when that fails there is no update. *)
RecordUpdateCheckTimestamp ==
  /\ pc = "check"
  /\ \/ /\ CanGitSet(file, "global", "timestamp")
        /\ Beside({"timestamp"}, GitSet(file, "global", "timestamp", "now"))
        /\ pc' = "installer"
     \/ /\ Beside({}, file)
        /\ pc' = "shared"

(* What the update writes: the clone's URL and branch, and the installer's *)
(* settings when there is an update and the user accepts it.               *)
Installed == {InstallKey \cup mode \cup built : mode \in ModeKeys,
                                               built \in {{}, {"buildFromSource"}}}

runUpdate ==
  /\ pc = "installer"
  /\ \E K \in {{}, {"cloneUrl", "cloneBranch"}} \cup Installed :
       Beside(K, [file EXCEPT !["global"] =
                   [k \in Keys |-> IF k \in K THEN <<"arg">> ELSE file["global"][k]]])
  /\ pc' = "shared"

(* The shared hooks are updated or not, and the hooks executed. *)
updateSharedHooks ==
  /\ pc = "shared"
  /\ acts' = [acts EXCEPT !["sharedUpdateDisabled"] =
               OnOff(IsSharedHooksUpdateDisabled(cache))]
  /\ pc' = "idle"
  /\ Reading(Scopes, {"sharedUpdateDisabled", "sharedTriggers", "shared", "numThreads"})
  /\ UNCHANGED <<file, cache, env, pending, apart, own, counts>>

(* The run panics or is killed. *)
RunDies ==
  /\ pc # "idle"
  /\ pc' = "idle" /\ pending' = Nothing
  /\ apart' = apart \cup IF pending = Nothing THEN {} ELSE {<<pending[1], pending[2]>>}
  /\ UNCHANGED <<file, cache, env, acts, own, stale, counts>>

Next ==
  \/ ConfigCommand \/ OtherEdit
  \/ cleanGitConfigInRepo \/ cleanGitConfig
  \/ InitConfigCache \/ setupSettings
  \/ showTrustRepoPrompt \/ storeTrust \/ trustAnswer
  \/ assertRegistered \/ MarkRepoRegistered \/ storeMark
  \/ disabledRun \/ skipUpdate \/ shouldRunUpdateCheck
  \/ RecordUpdateCheckTimestamp \/ runUpdate
  \/ updateSharedHooks
  \/ RunDies

Spec == Init /\ [][Next]_vars

(***************************************************************************)
(* Properties.                                                             *)
(***************************************************************************)
Steps == {"idle", "settings", "prompt", "store trust", "trust", "register",
          "store mark", "update", "check", "installer", "shared"}

(* Types; a value is on its way to Git exactly in the steps that store it. *)
TypeOK ==
  /\ file \in Config /\ cache \in Config
  /\ pc \in Steps
  /\ env \in Env
  /\ acts \in [Pref -> {"on", "off", "open"}]
  /\ IF pc \in {"store trust", "store mark"}
     THEN pending \in {"local"} \X {"trustAll", "registered"} \X {"true", "false"}
     ELSE pending = Nothing
  /\ apart \subseteq Scopes \X Keys
  /\ own \subseteq apart
  /\ stale \subseteq own
  /\ edits \in 0..MaxEdits /\ runs \in 0..MaxRuns

(* What the runner has in its cache of a key that nobody changed beside it *)
(* is what Git lists: the cache overwrites as `git config` does, included   *)
(* files or not (ConfigCache.Set against Context.SetConfig).               *)
CacheAgrees ==
  \A s \in Scopes, k \in Keys :
    (<<s, k>> \notin apart /\ (pending = Nothing \/ <<s, k>> # <<pending[1], pending[2]>>))
      => cache[s][k] = file[s][k] \o Included[s][k]

(* The runner never reads from its cache what it, or the installer it      *)
(* started, has changed beside the cache in the same run.                  *)
NoStaleRead == stale = {}

(* Together: a run reads what Git lists, unless somebody else has changed  *)
(* the configuration since the run has read it.                            *)
ReadsAgree == CacheAgrees /\ NoStaleRead

(* A run acts on what the scopes said when it began, the most specific     *)
(* first, on its environment, and on the answer it was given: commands,    *)
(* cache and the functions that read settings agree on keys, values and    *)
(* scopes. *)
Meaning(p, vals) ==
  IF vals = <<>> \/ (p = "trustAll" /\ Last(vals) = "") THEN "unsaid"
  ELSE OnOff(IsTrue(Last(vals)) \/ (p = "disable" /\ Last(vals) \in {"y", "Y"}))

Said == [s \in Scopes |-> [p \in Pref |-> Meaning(p, file[s][p] \o Included[s][p])]]
Known == [s \in Scopes |-> [p \in Pref |-> Meaning(p, cache[s][p])]]

ScopesOf ==
  [p \in Pref |-> CASE p = "trustAll" -> <<"local">>
                    [] p = "autoUpdate" -> <<"global">>
                    [] OTHER -> Precedence]

(* Of the variables, those of `disable` and `containerized` can only turn   *)
(* on, and those of the shared and the untrusted hooks either; no          *)
(* repository without a marker is trusted.                                 *)
Overrides ==
  [e \in Env |-> [p \in Pref |->
    CASE p \in {"disable", "containerized"} -> IF EnvOf[e][p] = "on" THEN "on" ELSE "unsaid"
      [] p \in {"skipMissing", "skipUntrusted"} -> EnvOf[e][p]
      [] p = "trustAll" -> IF e \in Marked THEN "unsaid" ELSE "off"
      [] OTHER -> "unsaid"]]

P == INSTANCE Preferences WITH said <- Said, known <- Known, EnvOf <- Overrides

ImplementsPreferences == P!Spec

(* What the commands, runs, updates and `git hooks install` write. *)
KeysWritten(s) ==
  {e.key : e \in {c \in Commands : c.scope = s}}
    \cup IF s = "global" THEN {"timestamp"} \cup UpdateKey
                         ELSE {"registered", "maintainedHooks"}

(* What is in no list of the uninstaller and survives it: a repository's   *)
(* githooks.disable, and the global init.templateDir which the installer   *)
(* set in the mode with a template directory.                              *)
Survivors(s) == IF s = "global" THEN {"initTemplateDir"} ELSE {"disable"}

(* core.hooksPath is unset unless somebody has changed it since. *)
Kept(c) == IF Get(c, "hooksPath", "global") = Get(c, "pathForUseCoreHooksPath", "global")
           THEN {} ELSE {"hooksPath"}

(* No other setting which a command, the runner or the installer has       *)
(* written outlives the cleaning of its scope: what they write and the     *)
(* uninstaller's lists of keys (hooks/gitconfig.go) belong together, but   *)
(* for the survivors.                                                      *)
UninstallForgets ==
  [][/\ cleanGitConfigInRepo =>
          \A k \in KeysWritten("local") \ Survivors("local") : file'["local"][k] = <<>>
     /\ cleanGitConfig =>
          \A k \in KeysWritten("global") \ (Survivors("global") \cup Kept(Listing(file))) :
             file'["global"][k] = <<>>]_vars
=============================================================================
