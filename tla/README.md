# Githooks: specifications, model checking, proofs

Githooks replaces the hooks of Git repositories by *run-wrappers*, which start
one executable, the *runner*. The runner collects hooks from the repository and
from shared hook repositories, asks the user whether to trust them, runs them in
parallel and keeps the user's decisions. A command line interface (`git hooks
...`, the *CLI*) installs, updates, configures and uninstalls all this. There is
no server: the system is a set of short-lived processes, started by Git and by
the user at any time, that share files and Git configuration.

This directory holds TLA+ models of that system, the TLC runs which check them
on small instances and proofs for all instances. Paths below are relative to
`githooks/` in the repository.

## 1. Inventory

| Component | State it keeps | Operations | Where it is modelled |
|---|---|---|---|
| Hook runner `apps/runner` | UI answers, batches, results (in memory) | `mainRun`: trust prompt, LFS, replaced hook, collect, execute, `storePendingData` | `HookRunner` |
| Hook collection, parallel execution `hooks/hooks.go`, `hooks/runner.go` | batches, thread pool | `GetAllHooksIn`, `ExecuteHooksParallel` | `HookRunner` (run configurations, namespaces, containers: no) |
| Trust store `hooks/trusted.go`, `cmd/trust` | `.githooks.checksums`, `trust-all` marker, `githooks.trustAll` | `IsTrusted`, `SyncChecksumAdd`, `git hooks trust` | `HookRunner` |
| Ignore patterns `hooks/ignores.go`, `cmd/ignore` | `.githooks.ignore.yaml`, patterns in `.githooks` | load, match, store, `git hooks ignore` | `HookRunner` (as sets of hooks; matching: no) |
| Shared hook repositories `hooks/shared.go`, `cmd/shared` | URL lists (file, local and global config), clones | add, remove, clear, update, purge, check | `SharedHooks` (local paths, URL parsing: no) |
| Release updates `updates/updates.go`, `cmd/update` | release clone, time of the last check | `RunUpdate`, `FetchUpdates`, `MergeUpdates` | `ReleaseUpdate`, `ReleaseTrack` |
| Installer `cmd/installer` | lock file, executables, settings | dispatch, choose mode and directory, exchange executables, ask, install into repositories | `ReleaseUpdate`, `InstallMode`, `RepoSearch`, `RepoRegister` (build from source, dry run: no) |
| Repository register `hooks/register.go`, `cmd/install` | `registered.yaml`, `githooks.registered` | load, insert, remove, store, mark | `RepoRegister` |
| Run-wrappers `hooks/wrapper.go` | `.git/hooks/*`, `*.replaced.githook`, `*.disabled.githooks` | install, uninstall, put Git LFS hooks back | `RunWrappers` |
| Uninstaller `cmd/uninstaller` | all of the above | remove wrappers, register, executables, settings | `RepoRegister`, `RunWrappers`, `InstallMode`, `RepoSearch` (clones: no) |
| Install modes, hook names `hooks/hook-names.go`, `cmd/common/install` | `githooks.useCoreHooksPath`, `githooks.useManual` and the directories that go with them, `init.templateDir`, `core.hooksPath`, `githooks.maintainedHooks` | choose and check the mode, find the template directory, select hooks | `InstallMode` |
| Git configuration cache `git/gitconfig-cache.go`, `git/git.go` | cached scopes | parse, get, set, add, unset | `GitConfig`, `Settings` |
| Git access `git/` | - | commands, clone URLs | the commands are steps of `ReleaseUpdate` |
| Prompts `prompt/`, `cmd/common/install/install-prompts.go` | the prompt shown, tries | ask on the terminal or in a dialog, validate, default | `RepoSearch`; `HookRunner` takes the possible answers |
| Background tasks, interrupts `common/background.go`, `common/signals.go` | goroutine and channels of a task, exit handlers | run a task with a timeout, run handlers | `RepoSearch`; exit handlers in `ReleaseUpdate` |
| Container images `hooks/images.go`, `container/` | images | pull, build | not modelled: Docker I/O |
| Downloads `updates/download` | - | fetch, verify, extract | one step of `ReleaseUpdate` that may fail |
| Configuration commands `cmd/config`, `cmd/disable`, `updates/autoupdate.go` | Git configuration values | set, print, reset | `Settings` |
| `list`, `readme`, logging, dialog application, build tools | - | print, draw, build | not modelled: no behaviour over time |

How they interact: Git starts a run-wrapper, which starts the runner. On the
first run in a repository the runner registers it. After a commit, once a day,
it runs the update check, which works on the release clone and then starts the
installer of the installed CLI. The installer fetches (or trusts the clone, for
an automatic update), downloads the executables of the new version and hands
over to them; these exchange the installed executables, install run-wrappers
into the registered repositories and merge the clone. The CLI writes the same
files as the runner. Only the installer takes a lock, and only against other
installers.

What is hard: concurrent read-change-write of files, decisions taken on state
that was read earlier (hashes, ignore patterns, the update's status), processes
killed or failing between two file operations, and the long way of a version
through clone, prompt, dispatch and exchange. `hazards` in `PROJECT.json` lists
these places one by one.

What makes each part correct:

* runner: only what the user approved is run; a batch starts after all those before
  have succeeded; success means that every active hook ran; answers are not forgotten;
  every run ends;
* updates: the version moves forward along the released versions, without
  jumping over one that must not be skipped, across a major version only with
  consent; the release clone remains usable; the lock is released;
* register: what is flagged is listed and has run-wrappers, as has what is listed;
* run-wrappers: no user hook is lost, and a later run repairs an interrupted one;
* shared repositories: a run uses every listed one, complete, or fails;
  an update makes them current; racing updates leave nothing broken;
* settings: the cache returns what Git would return, no run reads what it has
  itself outdated, the commands and the readers agree on key, value and scope,
  the uninstaller forgets all of it but two keys;
* install modes: what one installation chose is what Git, the next installation
  and the uninstaller find; run-wrappers never stay without their runner;
* prompts: repositories are visited as the user answered, a search never blocks
  the program, entered lists are taken when they are complete.

## 2. Modules

| Module | Contents |
|---|---|
| `HookRunner` | runners of one worktree, users and CLI around them |
| `HookRunner_proofs` | its inductive invariant is preserved; seven theorems |
| `ReleaseTrack` | abstract: which versions may follow one another |
| `ReleaseUpdate` | update check, update command, installer, bootstrap, concurrently |
| `ReleaseUpdate_proofs` | types, lock and branch for any processes; tags, consent and track for one; nine theorems |
| `RepoRegister` | register, flags and run-wrappers of all repositories |
| `RepoRegister_proofs` | types for any processes, three theorems for serial commands |
| `RunWrappers` | one hooks directory, one file operation a step |
| `RunWrappers_proofs` | its inductive invariant is preserved; four theorems |
| `SharedHooks` | lists of shared repositories, their clones, updates and hook runs |
| `SharedHooks_proofs` | types, and what runs and updates leave; four theorems |
| `GitConfig` | operators: the configuration cache, and Git's own commands |
| `Preferences` | abstract: a run acts on what was said before it began |
| `Settings` | configuration commands, runner, installer and uninstaller on one configuration |
| `Settings_proofs` | cache and Git agree; `Settings` implements `Preferences` |
| `InstallMode` | installer, uninstaller, Git in template-dir, core.hooksPath and manual mode |
| `InstallMode_proofs` | what names select; wrappers have a runner; a mode lasts, is found and used; six theorems |
| `RepoSearch` | questions of installer and uninstaller, their background searches |
| `RepoSearch_proofs` | answers, search results and visits belong together; three theorems |
| `MC*` | constants for TLC |

The modules share no variables. They meet at narrow places: `RepoRegister` sees
a repository's run-wrappers as present or absent, which is what `RunWrappers`
describes in detail; `HookRunner` starts after registration and update check,
which touch none of its files.

### HookRunner

`content` is what each hook file holds (its SHA1 hash stands for it), `store`
the checksum directory, `ignoreFile` the user's ignore file as the set of hooks
it matches, `trustMarker` and `trustAll` the repository's trust, `available` the
shared directories which exist with the right remote URL. `pc[r]` is the
position of runner `r` in `mainRun`; its other variables are the fields of
`HookSettings`, `UISettings` and the results: `seen[r][h]` is the content that
was hashed when `h` was collected.

Steps follow the code: `Start` (`setupSettings`), `AnswerTrustRepo`, `Load` (the
ignore patterns, once), `RunLFS`, `CollectOld`/`AnswerOld`/`RunOld`
(`executeOldHook`), for each directory `WalkDir` or `SkipDir` and then one
`Decide*` for each active, untrusted hook, then the loop of `ExecuteHooksParallel`:
`NextBatch` makes the job group of the next batch (`group`, from `todo`), `AddJob` puts
a hook into the queue of the pool, which blocks while `QueueSize` jobs wait, `StartHook`
is a free thread taking one out, `FinishHook` its end, and `LogHookResults` follows the
wait for all of the group and panics if one has failed. No guard of these steps looks at
other batches: that a batch waits for those before is what `BatchBarrier` has to show.
`storePendingData` is `TruncateIgnores`, `WriteIgnores`, `SyncChecksum`, `Exit`;
`StoreFails` and `SyncFails` are its errors, which are logged only. `Panic` goes to
`storePendingData` as the deferred function does; `Kill` skips it. Around the
runners a user edits or deletes hooks, other processes purge and clone shared
repositories, and `git hooks trust` changes the store. `git hooks ignore` is a process
of its own (`cli[u]`): it loads the file (`IgnoreAdd`, `IgnoreRemove`), truncates it
(`IgnoreTruncate`), writes what it has loaded with its change (`IgnoreWrite`) and may be
killed or fail anywhere (`IgnoreEnds`). `overlapped` notes that a file was written while
another process held what it had read, or that a write was broken off.

Abstracted: walking a directory is one step. The order of prompts is left
open. Not modelled: updating container images on a trigger, duplicates of a hook in
one run, the hook `reference-transaction`, for which failures are not fatal.

### ReleaseUpdate and ReleaseTrack

Commits of the release branch are numbered; `Release`, `Prerelease`, `NoSkip` and
`MajorOf` say what their tags mean. The clone is `head` (the branch that is
checked out), `main`, `origin` (the remote tracking branch) and `side` (the
dry-run branches); `cli` and `runner` are the installed executables. Each Git
command or file operation is a step. `job[p]` is what process `p` carries along:
the version of its executable (`build`, which is `build.BuildTag` in the code),
the status it last computed, and what the user agreed to. Five commands are
started: `auto` (the runner's check), `update` (`git hooks update`), `install`
and `upgrade` (`git hooks installer [--update]`) and `bootstrap` (the install
script with a released installer). `Check` to `UpdateRef` are `FetchUpdates`,
`Accept` to `DryAbort` are `RunUpdate`, `LockCheck` to `FinalMerge` the
installer with its dispatch. `Fail` ends a process with its exit handlers,
`Crash` without.

`ReleaseTrack` is what the documentation promises: the installed version moves
forward only, to the first version that must not be skipped or else to the
newest one known. `ImplementsTrack` says that `ReleaseUpdate` implements it, with
`cli` as the installed version, while nothing is killed and nothing fails.
`FollowsTrack` says the same of every step at which CLI and runner have one version,
whatever has been killed or has failed before: they differ only from a kill between
the exchanges of the two executables until the next complete one.

Not modelled: another clone URL or branch, a dirty clone, builds from source.

### RepoRegister

`file` is `registered.yaml`, `flagged` the repositories with
`githooks.registered`, `wrapped` those with run-wrappers. The commands are a
first hook run (`assertRegistered`), `git hooks install|uninstall`, installer
and uninstaller, each with its load, change in memory, truncate, write and mark.
`UninstallFromRepo` is two steps, since it removes the run-wrappers (`UninstallFrom`) and
then unsets the flag (`Unregister`); each may fail and is only logged then. A process
that ends in between, or cannot unset the flag, leaves a repository with the flag and
without run-wrappers: `halfway` notes it until an installation or uninstallation visits
the repository again.
Git copies run-wrappers into a new clone (the template directory mode).

### RunWrappers

`hook`, `replaced` and `disabled` are the files `<hook>`,
`<hook>.replaced.githook` and `<hook>.disabled.githooks`. `InstallRunWrappers`
for any set of maintained hooks and `UninstallRunWrappers` are `Start`, `Drop`
and `Restore` (`uninstallRunWrappers`), `ReinstallLfs`, `Move`
(`moveExistingHooks`), `Create` and `Write` (`WriteRunWrapper`). A file operation of
`uninstallRunWrappers` that fails is noted and the loop goes on (`GoOn`); such a run ends
as "incomplete", and so does one that finds no place for a Git LFS hook. Other failures and
kills end the run (`Stop`). Between runs the user writes hooks and Git LFS
installs its own. A file operation is a step, except for the copy of a Git LFS
hook and for making a file executable. The branch for Windows, where a hook
file can be open, is left out.

### SharedHooks

`list` are the URLs in `.githooks/.shared.yaml` and in the local and global Git
configuration; `state`, `at` and `cloning` describe the clone directory of each
URL: "missing", "junk" (no Git repository), "partial" (its Git directory and
remote URL, but not all files) or "complete" with the commit that is checked
out. Commands: hook runs (post-merge, post-checkout, any other), `git hooks
shared add|remove|clear|update|purge`, and the installer's setup. `Load`, `Look`
to `Updated` are `UpdateSharedHooks` with `PullOrClone`; `Check` is
`checkSharedHook`; `Empty` and `WriteBack` are the change of a list, which is
unset and written back URL by URL. A hook run reads the local and the global list from
the configuration cache that was filled at its start (`cached`), the list of the
repository when it comes to it. `git clone` is two steps, since its directory
is visible before its files are; `git pull` is one. A process may be killed at any
step; `git clone` itself may be killed as long as it is the one that writes the
directory (`cloning`), and a `git pull` that is killed may leave the files of a clone
incomplete. `HookRunner` starts where
this module ends: it takes the clones a run has collected as `available`.

Not modelled: local paths, two URLs with one directory, images, the hook
`reference-transaction`.

### GitConfig, Settings and Preferences

`GitConfig` has the cache of `gitconfig-cache.go` and the commands of `git.go` as
operators on one type, scope to key to sequence of values: `Listing` is what
`git config --list` prints and the cache parses, `CachedSet` and `GitSet` are the
two halves of `SetConfig`. `Settings` is a run of the runner with such a cache
(`setupSettings`, trust prompt, `assertRegistered`, the update with its installer,
shared hooks) among the commands of `git hooks config` and `git hooks disable`, the
user's own edits and the uninstaller. `Included` are values that come from included
files, which a command cannot change. An installation or update writes the keys of its
mode (`UpdateKeys`), the global `init.templateDir` among them. `Preferences` is the promise: a run acts on
the settings as they were when it began, the most specific scope first, and on the
answer it got. `ImplementsPreferences` shows it, with what the configuration says
(`Said`, `Known`) as the refinement mapping: it fails as soon as a command writes a
key, value or scope which the reading function does not expect.

Not modelled: a listing that fails (Git older than 2.26, while the README asks for
2.28), empty values in included files, `--print`, which changes nothing, options
whose values other modules keep.

### InstallMode

`conf` is the global Git configuration, `envDir` the user's `GIT_TEMPLATE_DIR`,
`present` the directories that exist, `wrappers[d]` and `inRepo[r]` the hooks that
have a run-wrapper there, `bin` the installed executables, `own` each repository's
own selection of hooks. The installer's steps are `determineInstallMode` (which
takes the installed mode and ignores the arguments when it finds a newer version,
`newer`, however it was started), `findHookTemplateDir`, one step for each setting (`setDirectoryForInstallMode`), one
for each executable, the alias, the run-wrappers of the template directory
(`setupHookTemplates`), the visits of repositories and `storeSettings`; the
uninstaller's are the visits, `cleanTemplateDir`, executables, register,
`core.hooksPath` and one for each key. `Kill` and failures may come in
between; Git creates repositories, hooks run in them, users edit the settings, `git
hooks install|uninstall` works in one repository. A directory stands for a template
directory and its subfolder `hooks`. `missed` notes what no later uninstaller will
clean: repositories it does not find, and directories with run-wrappers that a changed
setting makes it lose (`Abandoned`).

It composes with its neighbours by what it leaves open: it takes any set of found
repositories, which `RepoSearch` determines, writes the wrappers of a directory in
one step, which `RunWrappers` takes apart, and keeps the register as a set, which
`RepoRegister` writes to a file.

### RepoSearch

`setup` is how the program was started, `pc` the question or search it is at, `ask`
the prompt: shown on the terminal or in a dialog, with its tries, or answered with
the answer and whether it failed. `Show` is the choice between terminal, dialog and
none, `ReadLine` one turn of `showEntryLoopTerminal`, `Dialog` one of
`showPromptLoop`, `EndOfInput` and `DialogFails` the ways to the default answer.
`tasks` are the background tasks: `StartTask` and `RunTask` are the goroutine,
`Result` and `Timeout` the two cases of the `select` that end
`RunTaskWithProgress`; `clone` says whether the captured variable `taskOut` still
holds the task, which is why a goroutine that starts after the timeout dies of nil.
The other actions are `findHookTemplateDir` with `searchPreCommitFile`,
`setupAutomaticUpdate`, `PromptExistingRepos` with `FindGitDirs`,
`PromptRegisteredRepos` and `setupSharedRepositories` with `showEntryMulti`.

Texts and paths are sequences of names, so that `strings.ToLower`, `~` and hidden
directories are operators on them. Abstracted: a directory that cannot be read is
left out of the search; the answer to a visit is success or failure. Not modelled:
the dialog for a text (only automatic updates use dialogs, and they ask no text),
messages, the spinner.

## 3. Runs

| Run | Checks | Instance | What it shows |
|---|---|---|---|
| `hook_batches` | `BatchBarrier` `NothingRunsUndecided` `SuccessMeansAllRan` `RunEnds` | 4 hooks in 2 directories and 3 batches, the replaced hook, 2 threads, a queue of 1 job, at most one skip setting with any of the others, an ignore file or none, 1 interference | batches are barriers, decisions come first, success is complete, runs end |
| `hook_trust` | `TypeOK` `OnlyApprovedRuns` `AnswersAreStored` `DisabledStaysDisabled` | 2 runs, 2 contents, both skip settings on or off with any of the others, 1 interference or ignore command, errors of the store | only approved contents are launched, accepted checksums and disabled hooks are kept |
| `hook_skip_untrusted` | `SkipUntrustedCoversOldHook` (violated) | 1 runner | the replaced hook is judged by the wrong setting (`runner.go:488`) |
| `update_serial` | `TypeOK` `TagFound` `DryRunIsDry` `AutoMajorNeedsConsent` `FollowsTrack` | 1 process at a time, any sequence of 4 commands, 5 commits with an untagged, a no-skip, a prerelease and a major one, 1 kill, 1 failure, clone and lock deleted by the user | updates follow the track |
| `update_concurrent` | `LockReleased` `HeadReturns` | 2 processes, 3 versions, 1 failure | lock and clone are given back |
| `register_serial` | `TypeOK` `FlaggedIsListed` `ListedIsWrapped` `FlaggedIsWrapped` | 3 repositories, all commands one after the other, 1 kill, 1 failure of register, wrappers or flag | register, flags, wrappers agree |
| `wrapper_faults` | `TypeOK` `NothingLost` `InstallRepairs` `UninstallRestores` | 2 hooks (one with Git LFS), 4 user hooks, 4 runs, 2 failures or kills | hooks survive, runs repair |
| `shared_pair` | `TypeOK` `RunUsesAll` `UpdateIsCurrent` `IdleIsClean` | 2 processes, 2 URLs, any lists of at most 1 URL, 2 commits, strict settings with every trigger and lenient ones without updates, 2 commands, 2 failures or kills | runs are complete, updates current, races clean |
| `settings` | `TypeOK` `ReadsAgree` `ImplementsPreferences` `UninstallForgets` | 1 run, 1 change before or during it, all commands, four environments, several values, an included file, a key Git refuses to set | cache and Git agree, runs act on what was said |
| `install_modes` | `TypeOK` `WrapperHasRunner` `InstalledIsUsed` `ModeLasts` | 3 commands of installers in all modes, updates, uninstallers, 1 repository, 2 edits, 1 failure or kill | modes last, wrappers have a runner and are found |
| `install_maintained` | `OwnSelectionKept` (violated) | a work tree with its own selection, an update | the selection is read in the wrong directory (`hook-names.go:150`) |
| `repo_search` | `TypeOK` `VisitsAsAsked` `SharedAsEntered` `SearchEnds` | 11 ways to start, 3 Git directories, 2 template directories, every kind of answer, searches that fail or never end, 2 entries | visits follow the answers, no search blocks |

Bounds. `MaxRuns`, `MaxEdits`, `MaxCrashes`, `MaxFailures`, `MaxFaults` and
`LastCommit` bound counters. Two directories and two batches in the first one
are what a barrier across and within directories needs; two threads with two
hooks in a batch make the pool full and let one hook fail while the other runs; a
queue of one job makes adding the second block until a thread has taken the first.
Two contents make a change of a trusted file visible; two runs make one run see
what another stored. Two processes are enough for every race found, since each
race is one process acting between two steps of another. Five commits hold one
version of every kind in the order in which the search for updates can go wrong.
Three repositories give one that is visited, one that is listed only, one that
is neither. Four runs of `RunWrappers` let two interrupted runs be followed by an
installation and an uninstallation. Two commands of `shared_pair` are either a
race or a command and what is left for the next one; the lists of three scopes
repeat a URL, and two commands adding it at once double it in one (1,224,500 states). One change is
enough in `settings`: it may fall before the run, between any two of its steps or
after it, it may be any command, edit or cleaning, and the initial configurations
hold what earlier ones leave (83,681 states). Three commands of `install_modes` are
an installation in one mode, a second one in another or an update, and an
uninstallation (2,645,089 states); two edits change the
directory and the selection in between. Two entries in `repo_search` are a directory that
is taken and one that is not; each way to start asks other questions (47,414
states).

Deadlock is not checked in the `hook_*` runs: runners stop at `MaxRuns`. The
other models always have a step left, or their bound is in `Start` while the
environment continues; where all counters are used up (`wrapper_faults`,
`shared_pair`, `settings`, `install_*`) or the program has ended (`repo_search`)
the configuration says so.

Fairness is assumed in two places. `FairSpec` of `HookRunner` has weak fairness
for the steps of each runner, which `RunEnds` needs. A runner is one process
that the operating system schedules; a prompt is answered or fails (a closed
terminal is an error answer); each hook it started ends; the threads of the pool are among these steps. A hook that never ends
blocks its run: the code has no timeout for hooks. Nothing is assumed of the
environment or of kills. `Spec` of `RepoSearch` has weak fairness for the main
goroutine (`Main`), its timer included, which `SearchEnds` needs: the program goes
on when it can. Neither the user needs to answer nor a search to end.

### Where code and documents disagree

The two violated runs above are listed as `findings`. Conditions in the other
properties mark further limits of the code, each refuted by TLC without the
condition; definitions that no run checks are kept in the modules for the reader:

* `DisabledStaysDisabled` (`HookRunner`): two runners, or a runner and `git hooks
  ignore`, overwrite each other's ignore file (`runner.go:1100`, `ignore.go:99`), and a
  kill or failure while writing leaves it empty (`yaml.go:32`); the history variable
  `overlapped` notes both. `AnswersAreStored`: errors of the store are logged only, and
  the first one gives up the remaining checksums (`runner.go:1111`).
  `IgnoredOldHookNeverRuns`: a pattern in the repository hides the user's for the
  replaced hook (`runner.go:447`).
* `OneInstaller` (`ReleaseUpdate`): both installers may pass the look for the lock
  file (`installer.go:1424`). `OncePerDay`: two checks on one day
  (`runner.go:386`). `ImplementsTrack`: after a kill between the exchanges of CLI and
  runner, the check of the older runner takes the CLI back to the version it finds
  next to its own (`installer.go:965`); hence `cli = runner` in `FollowsTrack`.
  `NeverSkips`: a second process that clones anew during a dry
  run. `InstallAnyTime`: a downloaded installer newer than the clone is refused
  (`updates.go:260`). `UpdateAnyTime`: after a kill between exchanging the
  executables and merging the clone, later checks do not find the tag of the
  installed version in the clone. `MajorNeedsConsent`: the installer that `git hooks
  update` starts fetches again, so a major version published after the question is
  installed unasked (`cmd/update/update.go:37`).
  `LockReleased` needs `crashes = 0`, and Ctrl-C is a kill
  because the signal handler is stopped when it is installed (`cli.go:19`).
* `FlaggedIsListed` (`RepoRegister`) with two processes: each writes the register it
  loaded before, and one entry is lost while its flag stays (`register.go:23`). With
  one: a kill between truncating and writing
  (`~torn`), a failed operation, or a user who keeps Githooks in registered
  repositories while uninstalling (`KeepAnswers`, `uninstaller.go:326`).
  `FlaggedIsWrapped`: a kill between removing the run-wrappers and the flag, or a flag
  that cannot be unset (`halfway`, `wrappers.go:132` and `:140`).
* `NothingLost` (`RunWrappers`): a kill between creating and writing a wrapper
  (`~torn`, `wrapper.go:38`), or a second user hook at the same place
  (`wrapper.go:137`). `BackupKept`: an uninstallation followed by an installation
  overwrites the backup of a hook that calls Git LFS (`wrapper.go:89`).
* `RunUsesAll` (`SharedHooks`): another process at work (`alone`), or a killed
  `git clone` or `git pull` (`~broken`): what it leaves passes the check of the remote URL and
  is used without its hooks until a purge (`gitcommon.go:342`). `UpdatedAfterMerge`:
  a post-merge run updates only the clones of the repository's list: the local and
  the global list are collected without `updateSharedHooks` (`runner.go:607`, `625`).
* `UninstallForgets` (`Settings`) names what survives (`Survivors`): a repository's
  `githooks.disable`, although `hooks/gitconfig.go:112` promises "all local git config
  keys", and the global `init.templateDir`, which an installation in the template-dir
  mode sets (`installer.go:854`) and which then names a directory without run-wrappers.
  `Overrides`: a variable `GITHOOKS_DISABLE=off` does not enable disabled hooks
  (`githooks.go:283`). Without the assumption on `Included`, an empty value in an
  included file makes the answer to the trust prompt disappear. A key with several
  values makes the cache panic where Git only fails. `git hooks config` without a
  scope panics for `non-interactive-runner`; `disable` takes `--global` when both
  are given.
* `WrapperHasRunner`, `InstalledIsUsed` (`InstallMode`): a copy of an executable that
  fails is not rolled back, as `backupFile` is shadowed (`path.go:261`, `torn`);
  `GIT_TEMPLATE_DIR` beats `--template-dir`, and who changes it leaves the old
  directory behind (`envDir`); repositories that are declined, not found or fail
  keep their run-wrappers when executables are removed, and so does a directory which
  a new setting makes the uninstaller lose (`missed`). An installation
  that is interrupted may leave a mode its repetition refuses (`installer.go:817`).
  An installer older than the newest release ignores the flags for the mode: it hands
  over an update (`installer.go:496`), which takes the installed mode (`:1267`) or, on a
  machine without Githooks, the template-dir mode.
* `DefaultIsTaken` (`RepoSearch`): answers on the terminal are lowercased, the default
  among them (`show-impl.go:187`), so that a path with capital letters is never
  accepted. A dialog that is closed, and an input that ends, mean the default, which
  is "yes" for some questions (`show-gui-impl.go:66`). `searchPreCommitFile` goes on
  with the next place after it was successful (`installer.go:658`). A search never
  reads `exitCh`; one that starts after the timeout dies of nil (`background.go:84`).

## 4. Proofs

TLC checks the instances above; the theorems hold for every value of the
constants, under the named assumptions `HookAssumption`, `IgnoreAssumption`, `UpdateAssumption`,
`SharedAssumption`, `RegisterAssumption`, `WrapperAssumption`, `ConfigAssumption`,
`SettingsAssumption`, `InstallAssumption` and `SearchAssumption`: sets have the shapes
declared, the hooks are finite, there is at least one directory and one thread,
`Absent` is no content, process names differ from branch names, included files have no
empty values, `NoDir` is no directory, lower case is lower case of itself and `n` and
`y` are those of `N` and `Y`, the repositories with a `pre-commit.sample` are finitely
many.

`HookRunner_proofs`. The inductive invariant `IndInv` is `TypeOK`, `TrustOrigin`
(everything in the checksum store was approved, `trustAll` was consented to), the
safety properties, and for each runner `InOrder` (batches behind the loop have
succeeded, those ahead are untouched, the job group is one batch), `Phase` (what is still empty at which point),
`Hashed` (a hook has a hash before anything is decided about it), `Selected` (a hashed
hook is in exactly one of plan, pending, disabled), `Executed` (only planned hooks
have a status) and `Remembered` (an accepted content is pending, stored, revoked or given up after an error).
The strengthening is needed because `SuccessMeansAllRan` speaks about the end of a run
only: its truth is prepared when a directory is walked (`Selected`) and kept through
the decisions. `OnlyApprovedRuns` with several runners needs `TrustOrigin`, since one
runner trusts what another one stored. `BatchBarrier` follows from `InOrder`, which is
inductive because the wait and the panic of `LogHookResults` come between two batches.
`DisabledStaysDisabled` speaks about the file only; it needs `ReadIsCurrent`: a runner or
an ignore command that has read the file and may still write it has, while nobody else
writes, read what the user wants now. There is
one lemma for each part, with a step for each action, and `Invariance` joins them.

| Theorem | Property |
|---|---|
| `TypeCorrect` | `TypeOK` |
| `RunsOnlyApproved` | `OnlyApprovedRuns` |
| `BatchesSynchronise` | `BatchBarrier` |
| `SuccessIsComplete` | `SuccessMeansAllRan` |
| `DecidedBeforeRun` | `NothingRunsUndecided` |
| `AcceptedIsStored` | `AnswersAreStored` |
| `DisabledIsKept` | `DisabledStaysDisabled` |

`ReleaseUpdate_proofs`. `IndInv` is `TypeOK`, `LockOwned` (while nothing was
killed, a lock file has a living owner, and idle processes own nothing),
`BuildReleased` (what is about to be installed is a released version; `TypeOK`
of `cli` needs it) and `HeadReturns`. Processes, branch and faults are arbitrary.

With one process (`OneProcess`), `SerialInv` says in addition how the versions the
process carries along relate to clone, executables and each other. `OnSide`: a dry run
merges on its own branch. `Agreement`: what the user of an automatic update agreed to
is still the newest version when the installer looks again. `Serial` is `Bounded`
(nothing is newer than the server), `Fetched` (a fetch works on the release branch),
and while CLI and runner have one version `Running` (the process has it as well),
`ClonedAt` (the clone is reset to it) and `Aimed` (the target is what the track says
follows it); without faults they always have (`Intact`). What `installBinaries` writes
was decided by `getNewUpdateCommit` many steps before, for automatic updates twice.
What that function chooses is a maximum over the versions in between, taken by the
least-number principle (`OfferedVersion`, `NoSkipKept`). `TrackStep` maps each step to
one of the track or to a stutter.

| Theorem | Property |
|---|---|
| `TypeCorrect` | `TypeOK` |
| `LockIsReleased` | `LockReleased` |
| `HeadIsReturned` | `HeadReturns` |
| `SerialDryRunIsDry` | `DryRunIsDry`, for one process |
| `TagIsFound` | `TagFound`, for one process |
| `MajorNeedsConsentSerially` | `AutoMajorNeedsConsent`, for one process |
| `TrackIsFollowed` | `FollowsTrack`, for one process without the install script (`bootstrap`), any kills and failures |
| `TrackIsImplemented` | `ImplementsTrack`, for the same without kills and failures |
| `NoSkipKept` | what `getNewUpdateCommit` chooses leaves no no-skip version behind |

`SharedHooks_proofs`. `IndInv` is `TypeOK` and `Located` (a process that walks the
lists has one left; one that works on a URL has one). `Located` is
needed for the types: without it `Load` could look for a fourth list and `Pull` for
the head of an empty one. Every step gives its process another job (`OneJob` and
the lemmas on it), so that the actions are split once for the jobs, the clones, the
lists and what is collected.

`UseInv` is about the clones. `Writer`: who is said to write a directory is cloning it.
`Remains`: an incomplete clone is being written or was left by a kill, junk by a
failure or a kill. `AloneIsAlone`: beside a process that counts as alone all others are
idle. A hook run that is alone has the current lists in its cache (`Cached`).
For it, `RunInv` says that each URL of the lists it has
passed is collected and complete, or was missing and skipped, and that it deletes and
clones nothing after it has collected something; for an update that is alone and met
no error, `UpdateInv` says that each clone it has passed is complete and not older than
the server when it began. Both are inductive only together with `Remains`: a step of
the run itself could otherwise find a clone that is complete to the check and not on
the disk.

| Theorem | Property |
|---|---|
| `TypeCorrect` | `TypeOK` |
| `CleanWhenIdle` | `IdleIsClean`, any number of processes |
| `RunUsesEverything` | `RunUsesAll` |
| `UpdatesAreCurrent` | `UpdateIsCurrent` |

`RepoRegister_proofs`. `TypeInv` says which commands reach which step and that what
they visit are repositories; it holds for any number of processes. With one command
at a time (`Serial`) three more invariants say for the command under way, and for none,
what its property becomes when it ends: `WrapAt` (it works on repositories whose
wrappers it has just written or removed; a flag without wrappers is either that of the
repository it is uninstalling or in `halfway`), `FlagAt` (what it has loaded and not yet
written back contains all flagged repositories but the one at hand) and `ListAt`.
Several processes refute `FlaggedIsListed`, so that `Serial` cannot be dropped.

| Theorem | Property |
|---|---|
| `TypeCorrect` | `TypeOK` |
| `FlaggedHasWrappers` | `FlaggedIsWrapped`, serial |
| `FlaggedStaysListed` | `FlaggedIsListed`, serial, uninstallers that visit what is registered |
| `ListedHasWrappers` | `ListedIsWrapped`, serial |

`RunWrappers_proofs`. `IndInv` is `TypeInv`, `Between` (between two file operations
the place of the current hook is free or empty), `Placed` (a user's hook stands at
its place or aside, an empty file only while a wrapper is written), `Progress` (what
the loops have done so far, hook by hook, whatever they found and unless a failure was
noted) and `Aside` (without
faults a hook is aside only behind another file). `Progress` is why an installation
repairs: it says nothing about the state the run began in.

| Theorem | Property |
|---|---|
| `TypeCorrect` | `TypeOK` |
| `NoHookLost` | `NothingLost` |
| `InstallationRepairs` | `InstallRepairs` |
| `UninstallationRestores` | `UninstallRestores` |

`Settings_proofs`. `IndInv` is `TypeInv`, `OwnOK` (the run has written beside its cache
only what it does not read afterwards), `IncludedOK` (values of included files are in
the cache), `SettingOK` (a key is set only where no included file has a value, so that
overwriting it in cache and file comes to the same), `OpenOK` (what is still to be
decided) and `CacheAgrees`. That no included value can be in the way is a consequence
of the questions asked before: a run asks about trust, or marks the repository, only
if nothing was listed. The refinement needs that `Get` finds the first scope that says
something (`Traversed`), and one lemma for each kind of preference that the function
which reads it computes what counts (`EffectiveTraversed`, `TrustEffective`,
`AutoEffective`); then every action maps to `Say`, `Begin`, `Ask`, `Act` or a stutter.

| Theorem | Property |
|---|---|
| `TypeCorrect` | `TypeOK` |
| `ReadsAreCurrent` | `ReadsAgree`, from the next two |
| `CacheIsCurrent` | `CacheAgrees` |
| `ReadsNothingStale` | `NoStaleRead` |
| `Forgets` | `UninstallForgets` |
| `Implements` | `ImplementsPreferences` |

`InstallMode_proofs`. `IndInv` says which of the settings of the mode are written while
the installer writes them one by one (`Writing`), that they name the mode and the
directory afterwards (`Configured`), and that who installs over a complete
installation does so in its mode (`Kept`); that is what keeps `ModeLasts` when an
installer is interrupted between two settings.

`TypeInv` adds what is on disk, what each command visits and which steps it can be at.
It needs to know what hooks' names select: `UnwrapHookNames` is a recursive function on
the length of the list, and that it is what its equation says is proved with the
least-number principle; `UnwrapDenoted` then gives its meaning without the order of
computation: a hook is selected if the last word on it selects it.

`RunnerInv` is for `WrapperHasRunner`. While no copy was torn, the executables are all
there or all gone but for those being exchanged (`Executables`), and the alias comes
with the runner (`Aliased`); every directory with run-wrappers is the one the
uninstaller will find, or in `missed` (`Findable`); and whenever the runner is
incomplete, no run-wrappers are left outside `missed` (`Unreached`). The uninstaller
removes wrappers before executables, which is safe only because of `Findable`.
`UsedInv` follows the selection of an installation from the options over the
directory's wrappers to the repositories visited (`job.done`).

| Theorem | Property |
|---|---|
| `ModeIsKept` | `ModeLasts` |
| `InstallationIsFound` | `InstalledIsFound`, the part of `InstalledIsUsed` on mode and directory |
| `TypesAreKept` | `TypeOK` |
| `NoWrapperAlone` | `WrapperHasRunner` |
| `InstallationIsUsed` | `InstalledIsUsed` |
| `UnwrapDenoted` | what a selection of names and groups denotes |

`RepoSearch_proofs`. `IndInv` orders the steps (`Unvisited`), follows a refusal from
the key to the stage it passes over (`Obeyed`), says that what is still to visit and
what was comes from the last task, which ended in time (`Found`), and that the program
takes an empty answer for the end of the list only if the user gave it (`Ended`). The
lemma `TaskSteps` carries the weight: a task that goes on after its timeout changes
no other task and none that has sent its result. `TextInv` adds the data: what has
been typed is in lower case and not empty where a key is asked for, what a search sends
are repositories of its own kind, sent at its end only (`MatchesOK`), and the match
asked about is one of those still left (`ResultOK`).

| Theorem | Property |
|---|---|
| `TypeCorrect` | `TypeOK` |
| `VisitsWhatWasAsked` | `VisitsAsAsked` |
| `SharedWhenEntered` | `SharedAsEntered` |

Model-checked only: `RunEnds` and `SearchEnds`, since liveness under fairness is
beyond the prover. Every other property of the passing runs is a theorem, under the
restriction its table names. `AnswersAreStored` and `DisabledStaysDisabled` are
checked with one runner and one ignore command at a time and proved for any number; `ReadsAgree` and
`ImplementsPreferences` are checked with one change and proved for any.

## 5. What is left

Not modelled:

* matching of ignore patterns: one call of a glob library per pattern, of which the
  models need the result only (`ignoreFile` as the set of hooks it matches);
* run configurations, namespaces and containers of a hook: data of one process,
  without an effect on order or trust;
* container images, downloads, dialog application: their behaviour is that of Docker,
  an HTTP server and a window system; they enter as steps that may fail;
* `git hooks list`, `readme`, logging, build tools: they print what other components
  keep.

Worth proving next: the part of `FollowsTrack` that holds for several processes, and an
abstract specification of `RunWrappers` (where a user's hook is, whatever is installed)
with the refinement.

Runs are few by intention: a new module takes over the slots of runs whose
question it subsumes.
