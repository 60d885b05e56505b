---------------------------- MODULE ReleaseUpdate ---------------------------
(***************************************************************************)
(* Updating Githooks: githooks/updates/updates.go, the dispatching half of *)
(* githooks/cmd/installer/installer.go, the update command and the         *)
(* update check of the runner.                                             *)
(*                                                                         *)
(* Shared state: the release clone `<installDir>/release`, the installed   *)
(* executables, the lock file in the temporary directory and the time      *)
(* stamp of the last check in the global Git config.  Several processes    *)
(* work on it without further coordination: every post-commit hook may run *)
(* an update check, users run `git hooks update` and the installer.        *)
(*                                                                         *)
(* A step is one Git command or one file operation: that is where other    *)
(* processes interleave.  Git commands are atomic, the branch is linear    *)
(* and never rewritten, and commits are numbered 1, 2, ... from the root.  *)
(* Not modelled: changing the clone URL or branch, a dirty clone, and what *)
(* the installer does beside exchanging executables and clone.             *)
(***************************************************************************)
EXTENDS Naturals, FiniteSets

CONSTANTS
  Proc,          \* slots for concurrently running processes
  Kinds,         \* the commands that are started, a subset of AllKinds
  PreChoices,    \* values of `usePreRelease`, a subset of BOOLEAN
  LastCommit,    \* bound: commits of the release branch
  Release,       \* commits with a version tag
  Prerelease,    \* releases whose version has a prerelease part
  NoSkip,        \* releases whose tag says `Update-NoSkip: true`
  MajorOf,       \* major number of each release
  Repairs,       \* repairs users make, a subset of {"clone", "lock"}
  MaxCrashes,    \* bound: processes killed
  MaxFailures    \* bound: commands, downloads, ... that fail

Commits == 1 .. LastCommit
None == 0
AllKinds == {"auto", "update", "install", "upgrade", "bootstrap"}

ASSUME UpdateAssumption ==
  /\ LastCommit \in Nat
  /\ Release \subseteq Commits
  /\ Prerelease \subseteq Release
  /\ NoSkip \subseteq Release
  /\ MajorOf \in [Release -> Nat]
  /\ Kinds \subseteq AllKinds
  /\ PreChoices \subseteq BOOLEAN
  /\ Repairs \subseteq {"clone", "lock"}
  /\ MaxCrashes \in Nat
  /\ MaxFailures \in Nat
  /\ Proc \cap {"main", "none"} = {}

VARIABLES
  tip,       \* newest commit of the branch on the server
  head,      \* branch HEAD of the clone is on: "main", the dry-run branch
             \* of a process, or "none" when there is no clone
  main,      \* commit of the release branch in the clone
  side,      \* commit of the dry-run branch of each process
  origin,    \* commit of the remote tracking branch
  cli,       \* version of the installed CLI (it contains the installer)
  runner,    \* version of the installed runner
  lock,      \* does the lock file exist?
  due,       \* is the last update check older than a day?
  pc,        \* next step of each process
  job,       \* local state of each process
  crashes, failures

clone == <<head, main, side, origin>>
binaries == <<cli, runner>>
faults == <<crashes, failures>>
vars == <<tip, clone, binaries, lock, due, pc, job, faults>>

(* A process: the command, its answer mode, `usePreRelease`, the version   *)
(* of the running executable, the phase (RunUpdate or the installer), the  *)
(* status it last computed, the version the user accepted and whether it   *)
(* will remove the lock file at exit.                                      *)
NoJob == [kind |-> "none", mode |-> "none", pre |-> FALSE, build |-> None,
          stage |-> "none", local |-> None, target |-> None,
          agreed |-> None, holds |-> FALSE]

Steps == {"idle", "record", "check", "clone", "fetch", "reach", "reset",
          "status", "ref", "accept", "dry", "branch", "mergeDry", "close",
          "abort", "lock", "touch", "getStatus", "download", "cli",
          "runner", "final", "merge"}

Modes(kind) == CASE kind = "auto"   -> {"prompt", "none"}
                 [] kind = "update" -> {"prompt", "none", "minor", "all"}
                 [] OTHER           -> {"all"}

Larger(a, b) == IF a < b THEN b ELSE a

(* The commit HEAD of the clone points to. *)
HeadCommit == IF head = "main" THEN main ELSE side[head]

(* The installer updates to the new version only when asked to. *)
Updating(j) == j.kind # "install" /\ j.kind # "bootstrap"

Init == /\ cli \in Release
        /\ runner = cli
        /\ tip = cli
        /\ head = "main"
        /\ main = cli
        /\ origin = cli
        /\ side = [p \in Proc |-> None]
        /\ lock = FALSE
        /\ due = TRUE
        /\ pc = [p \in Proc |-> "idle"]
        /\ job = [p \in Proc |-> NoJob]
        /\ crashes = 0
        /\ failures = 0

-----------------------------------------------------------------------------
(* getNewUpdateCommit: the loop over the commits after `local` up to       *)
(* `remote`, oldest first.  It visits the releases it may offer until it   *)
(* has met one that must not be skipped; the last one visited is taken.    *)
Offered(local, remote, pre) ==
  {c \in Release : local < c /\ c <= remote /\ (pre \/ c \notin Prerelease)}

(* Mutant: the loop goes on after a version that must not be skipped. *)
VisitedWithoutStop(local, remote, pre) == Offered(local, remote, pre)

Visited(local, remote, pre) ==
  LET offered == Offered(local, remote, pre)
  IN  {c \in offered : \A d \in offered : d < c => d \notin NoSkip}

GetNewUpdateCommit(local, remote, pre) ==
  LET visited == Visited(local, remote, pre)
      newest == {c \in visited : \A d \in visited : d <= c}
  IN  IF newest = {} THEN None ELSE CHOOSE c \in newest : TRUE

Goto(p, step) == pc' = [pc EXCEPT ![p] = step]

(* Mutant: the lock file is not removed. *)
ExitKeepingLock(p) == /\ Goto(p, "idle")
                      /\ job' = [job EXCEPT ![p] = NoJob]
                      /\ UNCHANGED lock

(* The process ends: the handler registered with the lock file runs. *)
Exit(p) == /\ Goto(p, "idle")
           /\ job' = [job EXCEPT ![p] = NoJob]
           /\ lock' = (lock /\ ~job[p].holds)

-----------------------------------------------------------------------------
(* The server and the user. *)
Publish == /\ tip < LastCommit
           /\ tip' = tip + 1
           /\ UNCHANGED <<clone, binaries, lock, due, pc, job, faults>>

DayPasses == /\ ~due
             /\ due' = TRUE
             /\ UNCHANGED <<tip, clone, binaries, lock, pc, job, faults>>

Quiet == \A p \in Proc : pc[p] = "idle"

(* The repairs the error messages ask the user for. *)
DeleteClone == /\ Quiet
               /\ "clone" \in Repairs
               /\ head # "none"
               /\ head' = "none"
               /\ main' = None
               /\ origin' = None
               /\ side' = [p \in Proc |-> None]
               /\ UNCHANGED <<tip, binaries, lock, due, pc, job, faults>>

DeleteLock == /\ Quiet
              /\ "lock" \in Repairs
              /\ lock
              /\ lock' = FALSE
              /\ UNCHANGED <<tip, clone, binaries, due, pc, job, faults>>

(* A post-commit hook runs (only if a check is due), or the user runs      *)
(* `git hooks update`, `git hooks installer [--update]` or the bootstrap   *)
(* script, which runs the installer of a released version of his choice.   *)
Start(p) ==
  /\ pc[p] = "idle"
  /\ \E kind \in Kinds, pre \in PreChoices :
       \E mode \in Modes(kind) :
       \E build \in CASE kind = "auto"      -> {runner}
                      [] kind = "bootstrap" -> {c \in Release : c <= tip}
                      [] OTHER              -> {cli} :
         LET checks == kind \in {"auto", "update"}
         IN  /\ kind = "auto" => due
             /\ job' = [job EXCEPT ![p] =
                  [NoJob EXCEPT !.kind = kind, !.mode = mode, !.pre = pre,
                     !.build = build,
                     !.stage = IF checks THEN "update" ELSE "install"]]
             /\ Goto(p, IF checks THEN "record" ELSE "lock")
  /\ UNCHANGED <<tip, clone, binaries, lock, due, faults>>

-----------------------------------------------------------------------------
(* RunUpdate, first statement: RecordUpdateCheckTimestamp. *)
Record(p) == /\ pc[p] = "record"
             /\ due' = FALSE
             /\ Goto(p, "check")
             /\ UNCHANGED <<tip, clone, binaries, lock, job, faults>>

(* FetchUpdates, used by both phases.  The check before the fetch: a clone *)
(* that is on another branch is an error in RunUpdate and makes the        *)
(* installer clone again.                                                  *)
Check(p) ==
  /\ pc[p] = "check"
  /\ \/ /\ head = "main"
        /\ Goto(p, "fetch")
        /\ UNCHANGED <<job, lock>>
     \/ /\ head # "main"
        /\ head = "none" \/ job[p].stage = "install"
        /\ Goto(p, "clone")
        /\ UNCHANGED <<job, lock>>
     \/ /\ head \in Proc
        /\ job[p].stage = "update"
        /\ Exit(p)
  /\ UNCHANGED <<tip, clone, binaries, due, faults>>

(* The directory is removed and cloned. *)
Clone(p) == /\ pc[p] = "clone"
            /\ head' = "main"
            /\ main' = tip
            /\ origin' = tip
            /\ side' = [q \in Proc |-> None]
            /\ Goto(p, "fetch")
            /\ UNCHANGED <<tip, binaries, lock, due, job, faults>>

(* FetchBranch: forces the remote tracking branch to the server's tip. *)
Fetch(p) == /\ pc[p] = "fetch"
            /\ origin' = tip
            /\ Goto(p, "reach")
            /\ UNCHANGED <<tip, head, main, side, binaries, lock, due, job, faults>>

(* IsRefReachable: the tag of the running executable must be an ancestor   *)
(* of HEAD.                                                                *)
Reach(p) == /\ pc[p] = "reach"
            /\ IF job[p].build <= HeadCommit
               THEN Goto(p, "reset") /\ UNCHANGED <<job, lock>>
               ELSE Exit(p)
            /\ UNCHANGED <<tip, clone, binaries, due, faults>>

(* Mutant: a new clone stays at the tip of the branch. *)
ResetForgotten(p) == /\ pc[p] = "reset"
                     /\ Goto(p, "status")
                     /\ UNCHANGED <<tip, clone, binaries, lock, due, job, faults>>

(* reset --hard <tag>, on whatever branch HEAD is. *)
Reset(p) == /\ pc[p] = "reset"
            /\ IF head = "main"
               THEN main' = job[p].build /\ UNCHANGED side
               ELSE side' = [side EXCEPT ![head] = job[p].build] /\ UNCHANGED main
            /\ Goto(p, "status")
            /\ UNCHANGED <<tip, head, origin, binaries, lock, due, job, faults>>

(* getStatus on the release branch and its remote tracking branch. *)
StatusOf(j) == [j EXCEPT !.local = main,
                         !.target = GetNewUpdateCommit(main, origin, j.pre)]

Status(p) ==
  LET j == StatusOf(job[p])
  IN  /\ pc[p] = "status"
      /\ \/ /\ j.target # None
            /\ job' = [job EXCEPT ![p] = j]
            /\ Goto(p, "ref")
            /\ UNCHANGED lock
         \/ /\ j.target = None
            /\ j.stage = "install"
            /\ job' = [job EXCEPT ![p] = j]
            /\ Goto(p, "download")
            /\ UNCHANGED lock
         \/ /\ j.target = None
            /\ j.stage = "update"
            /\ Exit(p)
      /\ UNCHANGED <<tip, clone, binaries, due, faults>>

(* update-ref: the remote tracking branch becomes the chosen version. *)
UpdateRef(p) == /\ pc[p] = "ref"
                /\ origin' = job[p].target
                /\ Goto(p, IF job[p].stage = "update" THEN "accept" ELSE "download")
                /\ UNCHANGED <<tip, head, main, side, binaries, lock, due, job, faults>>

-----------------------------------------------------------------------------
(* RunUpdate: the callback and the dry run of the merge. *)
IsMajorUpdate(j) == MajorOf[j.build] < MajorOf[j.target]

Answers(j) == CASE j.mode = "prompt" -> BOOLEAN
                [] j.mode = "none"   -> {FALSE}
                [] j.mode = "minor"  -> {~IsMajorUpdate(j)}
                [] j.mode = "all"    -> {TRUE}

Accept(p) ==
  /\ pc[p] = "accept"
  /\ \E yes \in Answers(job[p]) :
       IF yes THEN /\ job' = [job EXCEPT ![p].agreed = job[p].target]
                   /\ Goto(p, "dry")
                   /\ UNCHANGED lock
              ELSE Exit(p)
  /\ UNCHANGED <<tip, clone, binaries, due, faults>>

(* MergeUpdates: the safety check that HEAD is on the release branch. *)
DryCheck(p) == /\ pc[p] = "dry"
               /\ IF head = "main"
                  THEN Goto(p, "branch") /\ UNCHANGED <<job, lock>>
                  ELSE Exit(p)
               /\ UNCHANGED <<tip, clone, binaries, due, faults>>

(* Mutant: the temporary branch is created but not checked out. *)
DryBranchStays(p) == /\ pc[p] = "branch"
                     /\ side' = [side EXCEPT ![p] = main]
                     /\ Goto(p, "mergeDry")
                     /\ UNCHANGED <<tip, head, main, origin, binaries, lock, due, job, faults>>

(* branch + checkout of the temporary branch. *)
DryBranch(p) == /\ pc[p] = "branch"
                /\ side' = [side EXCEPT ![p] = main]
                /\ head' = p
                /\ Goto(p, "mergeDry")
                /\ UNCHANGED <<tip, main, origin, binaries, lock, due, job, faults>>

(* merge --ff-only: HEAD's branch moves forward, or is up to date. *)
FastForward == /\ IF head = "main"
                  THEN main' = Larger(main, origin) /\ UNCHANGED side
                  ELSE /\ side' = [side EXCEPT ![head] = Larger(side[head], origin)]
                       /\ UNCHANGED main
               /\ UNCHANGED <<head, origin>>

DryMerge(p) == /\ pc[p] = "mergeDry"
               /\ FastForward
               /\ Goto(p, "close")
               /\ UNCHANGED <<tip, binaries, lock, due, job, faults>>

(* Mutant: the temporary branch stays checked out. *)
DryLeaveStays(p) == UNCHANGED clone

(* The deferred functions: back to the release branch, the temporary one   *)
(* is deleted.                                                             *)
DryLeave(p) == /\ head' = "main"
               /\ side' = [side EXCEPT ![p] = None]
               /\ UNCHANGED <<main, origin>>

(* The installer is run: by the runner as a new process of the installed   *)
(* CLI, by `git hooks update` inside the running one.                      *)
ForInstaller(j) ==
  [j EXCEPT !.stage = "install", !.local = None, !.target = None,
            !.build = IF j.kind = "auto" THEN cli ELSE j.build]

DryClose(p) ==
  /\ pc[p] = "close"
  /\ DryLeave(p)
  /\ job' = [job EXCEPT ![p] = ForInstaller(job[p])]
  /\ Goto(p, "lock")
  /\ UNCHANGED <<tip, binaries, lock, due, faults>>

DryAbort(p) == /\ pc[p] = "abort"
               /\ DryLeave(p)
               /\ Exit(p)
               /\ UNCHANGED <<tip, binaries, due, faults>>

-----------------------------------------------------------------------------
(* The installer before the dispatch: assertOneInstallerRunning looks for  *)
(* the lock file, then creates it.                                         *)
LockCheck(p) == /\ pc[p] = "lock"
                /\ IF lock THEN Exit(p)
                           ELSE Goto(p, "touch") /\ UNCHANGED <<job, lock>>
                /\ UNCHANGED <<tip, clone, binaries, due, faults>>

LockTouch(p) == /\ pc[p] = "touch"
                /\ lock' = TRUE
                /\ job' = [job EXCEPT ![p].holds = TRUE]
                /\ Goto(p, IF job[p].kind = "auto" THEN "getStatus" ELSE "check")
                /\ UNCHANGED <<tip, clone, binaries, due, faults>>

(* Mutant: the automatic update fetches once more. *)
GetStatusFetching(p) ==
  LET target == GetNewUpdateCommit(main, tip, job[p].pre)
  IN  /\ pc[p] = "getStatus"
      /\ IF head = "main" /\ target # None
         THEN /\ job' = [job EXCEPT ![p].local = main, ![p].target = target]
              /\ Goto(p, "download")
              /\ UNCHANGED lock
         ELSE Exit(p)
      /\ UNCHANGED <<tip, clone, binaries, due, faults>>

(* An automatic update trusts the clone as the runner left it: GetStatus   *)
(* instead of FetchUpdates.                                                *)
GetStatus(p) ==
  LET j == StatusOf(job[p])
  IN  /\ pc[p] = "getStatus"
      /\ IF head = "main" /\ j.target # None
         THEN /\ job' = [job EXCEPT ![p] = j]
              /\ Goto(p, "download")
              /\ UNCHANGED lock
         ELSE Exit(p)
      /\ UNCHANGED <<tip, clone, binaries, due, faults>>

(* The executables of the chosen tag are downloaded or built and take over *)
(* as the dispatched installer.                                            *)
Chosen(j) == IF j.target # None /\ Updating(j) THEN j.target ELSE j.local

Download(p) ==
  /\ pc[p] = "download"
  /\ IF Chosen(job[p]) \in Release
     THEN /\ job' = [job EXCEPT ![p].build = Chosen(job[p])]
          /\ Goto(p, "cli")
          /\ UNCHANGED lock
     ELSE Exit(p)
  /\ UNCHANGED <<tip, clone, binaries, due, faults>>

(* Mutant: the version to update to is installed even if there is none. *)
InstallTarget(p) == /\ pc[p] = "cli"
                    /\ cli' = job[p].target
                    /\ Goto(p, "runner")
                    /\ UNCHANGED <<tip, clone, runner, lock, due, job, faults>>

(* The dispatched installer: installBinaries copies one file after the     *)
(* other, updateClone brings the clone to the new version at the end.      *)
InstallCli(p) == /\ pc[p] = "cli"
                 /\ cli' = job[p].build
                 /\ Goto(p, "runner")
                 /\ UNCHANGED <<tip, clone, runner, lock, due, job, faults>>

InstallRunner(p) ==
  /\ pc[p] = "runner"
  /\ runner' = job[p].build
  /\ IF job[p].target = None THEN Exit(p)
                             ELSE Goto(p, "final") /\ UNCHANGED <<job, lock>>
  /\ UNCHANGED <<tip, clone, cli, due, faults>>

FinalCheck(p) == /\ pc[p] = "final"
                 /\ IF head = "main"
                    THEN Goto(p, "merge") /\ UNCHANGED <<job, lock>>
                    ELSE Exit(p)
                 /\ UNCHANGED <<tip, clone, binaries, due, faults>>

(* Mutant: the clone is not brought to the installed version. *)
FinalMergeForgotten(p) == /\ pc[p] = "merge"
                          /\ Exit(p)
                          /\ UNCHANGED <<tip, clone, binaries, due, faults>>

FinalMerge(p) == /\ pc[p] = "merge"
                 /\ FastForward
                 /\ Exit(p)
                 /\ UNCHANGED <<tip, binaries, due, faults>>

-----------------------------------------------------------------------------
(* A command, a download or a prompt fails: the process reports and ends.  *)
(* A failed dry-run merge still runs the deferred functions.               *)
Fail(p) == /\ pc[p] # "idle"
           /\ failures < MaxFailures
           /\ failures' = failures + 1
           /\ IF pc[p] = "mergeDry" THEN Goto(p, "abort") /\ UNCHANGED <<job, lock>>
                                    ELSE Exit(p)
           /\ UNCHANGED <<tip, clone, binaries, due, crashes>>

(* The process is killed: no handler runs. *)
Crash(p) == /\ pc[p] # "idle"
            /\ crashes < MaxCrashes
            /\ crashes' = crashes + 1
            /\ Goto(p, "idle")
            /\ job' = [job EXCEPT ![p] = NoJob]
            /\ UNCHANGED <<tip, clone, binaries, lock, due, failures>>

FetchStep(p) == \/ Check(p) \/ Clone(p) \/ Fetch(p) \/ Reach(p)
                \/ Reset(p) \/ Status(p) \/ UpdateRef(p)

UpdateStep(p) == \/ Record(p) \/ Accept(p) \/ DryCheck(p) \/ DryBranch(p)
                 \/ DryMerge(p) \/ DryClose(p) \/ DryAbort(p)

InstallerStep(p) == \/ LockCheck(p) \/ LockTouch(p) \/ GetStatus(p)
                    \/ Download(p) \/ InstallCli(p) \/ InstallRunner(p)
                    \/ FinalCheck(p) \/ FinalMerge(p)

Environment == Publish \/ DayPasses \/ DeleteClone \/ DeleteLock

Next == \/ Environment
        \/ \E p \in Proc : \/ Start(p) \/ FetchStep(p) \/ UpdateStep(p)
                           \/ InstallerStep(p) \/ Fail(p) \/ Crash(p)

Spec == Init /\ [][Next]_vars
-----------------------------------------------------------------------------
(* Properties. *)

JobType == [kind : AllKinds \cup {"none"}, mode : {"prompt", "none", "minor", "all"},
            pre : BOOLEAN, build : Commits \cup {None},
            stage : {"none", "update", "install"},
            local : Commits \cup {None}, target : Commits \cup {None},
            agreed : Commits \cup {None}, holds : BOOLEAN]

(* The clone, the executables and the processes have the shapes the code   *)
(* gives them.                                                             *)
TypeOK == /\ tip \in Commits
          /\ head \in Proc \cup {"main", "none"}
          /\ main \in Commits \cup {None}
          /\ side \in [Proc -> Commits \cup {None}]
          /\ origin \in Commits \cup {None}
          /\ cli \in Release
          /\ runner \in Release
          /\ lock \in BOOLEAN
          /\ due \in BOOLEAN
          /\ pc \in [Proc -> Steps]
          /\ job \in [Proc -> JobType]
          /\ crashes \in 0 .. MaxCrashes
          /\ failures \in 0 .. MaxFailures

(* Whatever processes meet, the lock file does not outlive the installers: *)
(* when nothing runs and nothing was killed, the next installer can start, *)
(* also when installers failed (assertOneInstallerRunning: "Remove the     *)
(* lock on any exit").                                                     *)
LockReleased == Quiet /\ crashes = 0 => ~lock

(* A dry run gives the clone back: HEAD is on the temporary branch of a    *)
(* process only while that process is in its dry run, so that the next     *)
(* update finds the release branch checked out.                            *)
HeadReturns ==
  head \in Proc /\ crashes = 0 /\ failures = 0 => pc[head] \in {"mergeDry", "close"}

(* Without kills and failures no sequence of updates, reinstallations and  *)
(* deleted clones makes FetchUpdates refuse the tag of the running         *)
(* executable ("could not be found on branch").                            *)
TagFound == crashes = 0 /\ failures = 0 =>
              \A p \in Proc : pc[p] = "reach" => job[p].build <= HeadCommit

(* README: automatic updates are checked for "once a day after a           *)
(* successful commit": a hook runs a check only while one is due.          *)
OncePerDay == [][\A p \in Proc :
                   job[p].kind = "auto" /\ pc[p] = "record" /\ pc'[p] = "check"
                     => due]_vars

(* A dry run of the merge never moves the release branch of the clone.     *)
DryRunIsDry == [][\A q \in Proc : pc[q] = "mergeDry" /\ pc'[q] = "close"
                    => main' = main]_vars

Installs(p) == pc[p] = "cli" /\ pc'[p] = "runner"

Unasked(p) == Installs(p) /\ MajorOf[cli'] > MajorOf[cli]
                          /\ ~(job[p].agreed # None
                               /\ MajorOf[cli'] <= MajorOf[job[p].agreed])

(* An update the runner starts raises the major version only to the        *)
(* version the user was asked about.                                       *)
AutoMajorNeedsConsent ==
  [][\A p \in Proc : job[p].kind = "auto" => ~Unasked(p)]_vars

(* README: "Major version updates are never automatically installed": also *)
(* `git hooks update --yes` accepts only minor versions.                   *)
MajorNeedsConsent ==
  [][\A p \in Proc : job[p].kind = "update" /\ job[p].mode # "all" => ~Unasked(p)]_vars

(* README: a version with `Update-NoSkip: true` "will not be skipped":     *)
(* without prereleases, no installation jumps over one.                    *)
NeverSkips ==
  [][\A c \in NoSkip \ Prerelease : ~(cli < c /\ c < cli')]_vars

(* "Only one Githooks installer can run at the same time." *)
OneInstaller == \A p, q \in Proc : job[p].holds /\ job[q].holds => p = q

(* README: "You can also check for updates at any time": when nothing runs *)
(* and the clone is on its branch, an update check will find the tag of    *)
(* the installed version in the clone.                                     *)
UpdateAnyTime == Quiet /\ head = "main" => cli <= main

(* README: "You can update the Githooks any time by running one of the     *)
(* install commands": the installer a user downloaded is not refused.      *)
InstallAnyTime ==
  \A p \in Proc : pc[p] = "reach" /\ job[p].kind = "bootstrap"
                    => job[p].build <= HeadCommit

(* The inductive strengthening of TypeOK, LockReleased and HeadReturns:    *)
(* the lock file has an owner among the running processes, and only what   *)
(* was downloaded is installed.                                            *)
LockOwned == /\ lock /\ crashes = 0 => \E p \in Proc : job[p].holds
             /\ \A p \in Proc : pc[p] = "idle" => ~job[p].holds

BuildReleased == \A p \in Proc : pc[p] \in {"cli", "runner"} => job[p].build \in Release

IndInv == TypeOK /\ LockOwned /\ BuildReleased /\ HeadReturns

(* What the README promises about the sequence of installed versions.      *)
Track == INSTANCE ReleaseTrack WITH installed <- cli

ImplementsTrack == Track!Spec

(* The same with kills and failures, as long as CLI and runner have one    *)
(* version: a kill while the executables are exchanged leaves an older     *)
(* runner, whose update check may take the CLI back (installBinaries).     *)
FollowsTrack == Track!Init /\ [][cli = runner => Track!Next]_(Track!track)
=============================================================================
