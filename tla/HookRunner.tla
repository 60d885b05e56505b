------------------------------ MODULE HookRunner ------------------------------
(***************************************************************************)
(* The Githooks runner (apps/runner/runner.go) as it is started by the     *)
(* run-wrappers of one worktree for one hook name: it asks for trust,      *)
(* collects the hooks of every hooks directory, executes them batch by     *)
(* batch over a thread pool and finally stores what the user decided.      *)
(* Several runners and the CLI work on the same files at the same time.    *)
(*                                                                         *)
(* Abstractions: a hook file is one of a few contents and its SHA1 hash    *)
(* stands for the content; the ignore file is the set of hooks it matches; *)
(* the hooks directories (the repository's own, then every repository,     *)
(* local and global shared one) are numbered in their execution order.     *)
(* Walking one directory is one step; every prompt, hook execution and     *)
(* file operation is a step of its own.                                    *)
(***************************************************************************)
EXTENDS Naturals, FiniteSets

CONSTANTS
  Runner,       \* the runner processes of this worktree
  Hook,         \* the hook files
  OldHook,      \* the replaced hook `<hookName>.replaced.githook`
  DirOf,        \* DirOf[h]: number of the hooks directory of h
  Batch,        \* Batch[h]: position of the batch name of h in its directory
  NumDirs,      \* hooks directories 1..NumDirs, 1 is the repository's own
  RepoIgnored,  \* hooks matched by the ignore files checked into `.githooks`
  Content,      \* the contents a hook file can have
  Absent,       \* "content" of a hook file which does not exist
  UserIgnored,  \* what the user's ignore file may hold at first
  Settings,     \* the combinations of settings considered, a subset of Conf
  Threads,      \* size of the thread pool (`githooks.numThreads`)
  QueueSize,    \* jobs which the queue of the thread pool holds
  Cli,          \* the `git hooks ignore` commands of this worktree
  MaxRuns,      \* bound: how often each runner is started
  MaxEdits      \* bound: how often files, directories or the CLI interfere

\* The hooks which are collected, i.e. all but the replaced one.
NewHook == Hook \ {OldHook}

\* The settings a runner reads from the Git configuration and environment.
Conf == [nonInteractive: BOOLEAN, skipUntrusted: BOOLEAN,
         skipNonExistingShared: BOOLEAN, disabled: BOOLEAN]

ASSUME HookAssumption ==
  /\ IsFiniteSet(Hook)
  /\ OldHook \in Hook
  /\ NumDirs \in Nat \ {0}
  /\ DirOf \in [Hook \ {OldHook} -> 1..NumDirs]
  /\ Batch \in [Hook \ {OldHook} -> Nat]
  /\ RepoIgnored \subseteq Hook
  /\ Absent \notin Content
  /\ Threads \in Nat \ {0}
  /\ QueueSize \in Nat \ {0}
  /\ MaxRuns \in Nat
  /\ MaxEdits \in Nat
  /\ Settings \subseteq Conf

ASSUME IgnoreAssumption == UserIgnored \subseteq SUBSET Hook

VARIABLES
  conf,         \* the settings
  content,      \* content[h]: what the hook file holds now
  available,    \* the shared directories which exist with the right url
  store,        \* `.githooks.checksums`: the contents trusted on disk
  ignoreFile,   \* `.githooks.ignore.yaml`: the hooks the user ignores
  trustMarker,  \* the file `.githooks/trust-all` exists
  trustAll,     \* `githooks.trustAll` in the local Git config
  edits,        \* number of interferences so far
  cli           \* cli[u]: what ignore command u does next, what it has read
                \* and what it changes

env == <<conf, content, available, store, ignoreFile, trustMarker, trustAll,
         edits, cli>>

VARIABLES
  pc,           \* pc[r]: what runner r does next
  runs,         \* runs[r]: how often r was started
  repoTrusted,  \* settings.IsRepoTrusted
  ignores,      \* ignores.User, read once at the start
  acceptAll,    \* uiSettings.AcceptAllChanges
  accepted,     \* contents in uiSettings.TrustedHooks (and checksums.checksums)
  toSync,       \* contents of TrustedHooks not stored yet
  unstored,     \* contents of TrustedHooks given up after an I/O error
  disabled,     \* hooks in uiSettings.DisabledHooks
  dir,          \* the directory which is collected next
  seen,         \* seen[r][h]: the content hashed when h was collected
  pending,      \* active, untrusted hooks of the directory still to decide
  plan,         \* the active, trusted hooks collected for execution
  todo,         \* planned hooks of the batches not reached yet
  group,        \* hooks of the batch whose jobs are in the pool
  status,       \* status[r][h]: state of the execution of h
  exit          \* how the run ends

later == <<todo, group, unstored>>

local == <<pc, runs, repoTrusted, ignores, acceptAll, accepted, toSync, disabled,
           dir, seen, pending, plan, later, status, exit>>

VARIABLES       \* history, read by no action
  approved,     \* contents the user ever approved (or that were trusted before)
  revoked,      \* contents whose trust was ever reset
  consented,    \* the user has ever accepted to trust the whole repository
  userIgnored,  \* hooks the user disabled or ignored and did not reactivate
  overlapped    \* the ignore file was written while another process had read it and
                \* might still write it, or its writing was broken off

history == <<approved, revoked, consented, userIgnored, overlapped>>

vars == <<env, local, history>>

PC == {"idle", "trustPrompt", "load", "lfs", "old", "oldPrompt", "oldRun",
       "collect", "decide", "exec", "store", "write", "sums"}

Status == {"none", "queued", "running", "ok", "failed"}

TypeOK ==
  /\ conf \in Conf
  /\ content \in [Hook -> Content \cup {Absent}]
  /\ available \subseteq 2..NumDirs
  /\ store \subseteq Content
  /\ ignoreFile \subseteq Hook
  /\ trustMarker \in BOOLEAN
  /\ trustAll \in {"unset", "yes", "no"}
  /\ edits \in 0..MaxEdits
  /\ cli \in [Cli -> [pc: {"idle", "store", "write"}, read: SUBSET Hook,
                      op: {"add", "remove"}, hook: Hook]]
  /\ pc \in [Runner -> PC]
  /\ runs \in [Runner -> 0..MaxRuns]
  /\ repoTrusted \in [Runner -> BOOLEAN]
  /\ ignores \in [Runner -> SUBSET Hook]
  /\ acceptAll \in [Runner -> BOOLEAN]
  /\ accepted \in [Runner -> SUBSET Content]
  /\ toSync \in [Runner -> SUBSET Content]
  /\ unstored \in [Runner -> SUBSET Content]
  /\ disabled \in [Runner -> SUBSET Hook]
  /\ dir \in [Runner -> 1..(NumDirs + 1)]
  /\ seen \in [Runner -> [Hook -> Content \cup {Absent}]]
  /\ pending \in [Runner -> SUBSET NewHook]
  /\ plan \in [Runner -> SUBSET NewHook]
  /\ todo \in [Runner -> SUBSET NewHook]
  /\ group \in [Runner -> SUBSET NewHook]
  /\ status \in [Runner -> [Hook -> Status]]
  /\ exit \in [Runner -> {"none", "ok", "failed", "killed"}]
  /\ approved \subseteq Content
  /\ revoked \subseteq Content
  /\ consented \in BOOLEAN
  /\ userIgnored \subseteq Hook
  /\ overlapped \in BOOLEAN

Init ==
  /\ conf \in Settings
  /\ content \in [Hook -> Content]
  /\ available = 2..NumDirs
  /\ store \in SUBSET Content
  /\ ignoreFile \in UserIgnored
  /\ trustMarker \in BOOLEAN
  /\ trustAll = "unset"
  /\ edits = 0
  /\ cli = [u \in Cli |-> [pc |-> "idle", read |-> {}, op |-> "add", hook |-> OldHook]]
  /\ pc = [r \in Runner |-> "idle"]
  /\ runs = [r \in Runner |-> 0]
  /\ repoTrusted = [r \in Runner |-> FALSE]
  /\ ignores = [r \in Runner |-> {}]
  /\ acceptAll = [r \in Runner |-> FALSE]
  /\ accepted = [r \in Runner |-> {}]
  /\ toSync = [r \in Runner |-> {}]
  /\ unstored = [r \in Runner |-> {}]
  /\ disabled = [r \in Runner |-> {}]
  /\ dir = [r \in Runner |-> 1]
  /\ seen = [r \in Runner |-> [h \in Hook |-> Absent]]
  /\ pending = [r \in Runner |-> {}]
  /\ plan = [r \in Runner |-> {}]
  /\ todo = [r \in Runner |-> {}]
  /\ group = [r \in Runner |-> {}]
  /\ status = [r \in Runner |-> [h \in Hook |-> "none"]]
  /\ exit = [r \in Runner |-> "none"]
  /\ approved = store
  /\ revoked = {}
  /\ consented = FALSE
  /\ userIgnored = ignoreFile
  /\ overlapped = FALSE

-------------------------------------------------------------------------------
\* Setting up a run.

Goto(r, label) == pc' = [pc EXCEPT ![r] = label]

\* Mutant of Panic: the cleanup handler is not run.
PanicWithoutCleanup(r) ==
  /\ Goto(r, "idle")
  /\ exit' = [exit EXCEPT ![r] = "failed"]

\* The runner panics: the deferred `storePendingData` still runs.
Panic(r) ==
  /\ Goto(r, "store")
  /\ exit' = [exit EXCEPT ![r] = "failed"]

\* setupSettings: a new process with empty UI settings reads whether the
\* repository is trusted; an unanswered marker file leads to the trust prompt.
Start(r) ==
  /\ pc[r] = "idle"
  /\ runs[r] < MaxRuns
  /\ runs' = [runs EXCEPT ![r] = @ + 1]
  /\ repoTrusted' = [repoTrusted EXCEPT ![r] = trustMarker /\ trustAll = "yes"]
  /\ acceptAll' = [acceptAll EXCEPT ![r] = FALSE]
  /\ accepted' = [accepted EXCEPT ![r] = {}]
  /\ toSync' = [toSync EXCEPT ![r] = {}]
  /\ unstored' = [unstored EXCEPT ![r] = {}]
  /\ disabled' = [disabled EXCEPT ![r] = {}]
  /\ dir' = [dir EXCEPT ![r] = 1]
  /\ seen' = [seen EXCEPT ![r] = [h \in Hook |-> Absent]]
  /\ pending' = [pending EXCEPT ![r] = {}]
  /\ plan' = [plan EXCEPT ![r] = {}]
  /\ todo' = [todo EXCEPT ![r] = {}]
  /\ group' = [group EXCEPT ![r] = {}]
  /\ status' = [status EXCEPT ![r] = [h \in Hook |-> "none"]]
  /\ exit' = [exit EXCEPT ![r] = "none"]
  /\ Goto(r, IF /\ trustMarker
                /\ trustAll = "unset"
                /\ ~conf.nonInteractive
                /\ ~conf.disabled
             THEN "trustPrompt" ELSE "load")
  /\ UNCHANGED <<env, ignores, history>>

\* showTrustRepoPrompt: the answer is stored in the local Git config; without
\* an answer the repository stays untrusted for this run.
AnswerTrustRepo(r, answer) ==
  /\ pc[r] = "trustPrompt"
  /\ Goto(r, "load")
  /\ repoTrusted' = [repoTrusted EXCEPT ![r] = (answer = "y")]
  /\ trustAll' = CASE answer = "y" -> "yes"
                   [] answer = "n" -> "no"
                   [] OTHER -> trustAll
  /\ consented' = (consented \/ answer = "y")
  /\ UNCHANGED <<conf, content, available, store, ignoreFile, trustMarker, edits,
                 cli, runs, ignores, acceptAll, accepted, toSync, disabled, dir,
                 seen, pending, plan, later, status, exit, approved, revoked,
                 userIgnored, overlapped>>

\* The runners and commands which have read the ignore file and may still write it.
Holding(r) == pc[r] \notin {"idle", "trustPrompt", "load", "sums"}

CliHolding(u) == cli[u].pc # "idle"

\* GetIgnorePatterns: the user's ignore file is read once per run.
Load(r) ==
  /\ pc[r] = "load"
  /\ Goto(r, "lfs")
  /\ ignores' = [ignores EXCEPT ![r] = ignoreFile]
  /\ UNCHANGED <<env, runs, repoTrusted, acceptAll, accepted, toSync, disabled, dir,
                 seen, pending, plan, later, status, exit, history>>

\* executeLFSHooks: a failing or missing Git LFS is fatal.
RunLFS(r) ==
  /\ pc[r] = "lfs"
  /\ \/ Goto(r, "old") /\ UNCHANGED exit
     \/ Panic(r)
  /\ UNCHANGED <<env, runs, repoTrusted, ignores, acceptAll, accepted, toSync,
                 disabled, dir, seen, pending, plan, later, status, history>>

-------------------------------------------------------------------------------
\* Trust decisions.

\* checksums.IsTrusted (or a trusted repository) for a hook with content c.
IsTrusted(r, c) == repoTrusted[r] \/ c \in store \/ c \in accepted[r]

\* What the user can make of a trust prompt: "error" is a prompt that could not
\* be shown or answered.
Answers == {"y", "a", "n", "d", "error"}

\* showTrustPrompt accepts: the content is trusted from now on in this run and
\* remembered for `storePendingData`.
Accept(r, h) ==
  /\ accepted' = [accepted EXCEPT ![r] = @ \cup {seen[r][h]}]
  /\ toSync' = [toSync EXCEPT ![r] = @ \cup {seen[r][h]}]
  /\ approved' = approved \cup {seen[r][h]}

\* The updates of the UI settings by showTrustPrompt for hook h.
ApplyAnswer(r, h, answer) ==
  /\ acceptAll' = [acceptAll EXCEPT ![r] = @ \/ answer = "a"]
  /\ IF answer \in {"y", "a"}
     THEN Accept(r, h) /\ UNCHANGED disabled
     ELSE /\ disabled' = IF answer = "d"
                         THEN [disabled EXCEPT ![r] = @ \cup {h}]
                         ELSE disabled
          /\ UNCHANGED <<accepted, toSync, approved>>

-------------------------------------------------------------------------------
\* The replaced hook, run first and also if Githooks is disabled.

AfterOld == IF conf.disabled THEN "store" ELSE "collect"

ExitAfterOld == IF conf.disabled THEN "ok" ELSE "none"

\* failOrWarnOnActiveUntrusted, with the setting executeOldHook passes to it.
SkipUntrustedOld == conf.skipNonExistingShared

\* Leave executeOldHook without running the hook.
SkipOld(r) ==
  /\ Goto(r, AfterOld)
  /\ exit' = [exit EXCEPT ![r] = ExitAfterOld]

\* Mutant of FailOrWarnOld: the hook runs after the warning.
WarnAndRunOld(r) ==
  IF SkipUntrustedOld THEN Goto(r, "oldRun") /\ UNCHANGED exit ELSE Panic(r)

FailOrWarnOld(r) == IF SkipUntrustedOld THEN SkipOld(r) ELSE Panic(r)

\* isIgnored of executeOldHook: only a match by the user's patterns counts, and
\* IsIgnored reports the repository's patterns first.
OldIgnored(r) == OldHook \in ignores[r] /\ OldHook \notin RepoIgnored

\* executeOldHook up to the prompt.
CollectOld(r) ==
  /\ pc[r] = "old"
  /\ seen' = [seen EXCEPT ![r][OldHook] = content[OldHook]]
  /\ \/ /\ content[OldHook] = Absent \/ OldIgnored(r)
        /\ SkipOld(r)
     \/ /\ content[OldHook] # Absent /\ ~OldIgnored(r)
        /\ IsTrusted(r, content[OldHook])
        /\ Goto(r, "oldRun")
        /\ UNCHANGED exit
     \/ /\ content[OldHook] # Absent /\ ~OldIgnored(r)
        /\ ~IsTrusted(r, content[OldHook])
        /\ IF conf.nonInteractive
           THEN FailOrWarnOld(r)
           ELSE Goto(r, "oldPrompt") /\ UNCHANGED exit
  /\ UNCHANGED <<env, runs, repoTrusted, ignores, acceptAll, accepted, toSync,
                 disabled, dir, pending, plan, later, status, history>>

\* The user answers the trust prompt for the replaced hook.
AnswerOld(r, answer) ==
  /\ pc[r] = "oldPrompt"
  /\ ApplyAnswer(r, OldHook, answer)
  /\ CASE answer \in {"y", "a"} -> Goto(r, "oldRun") /\ UNCHANGED exit
       [] answer = "d" -> SkipOld(r)
       [] OTHER -> FailOrWarnOld(r)
  /\ UNCHANGED <<env, runs, repoTrusted, ignores, dir, seen, pending, plan, later,
                 status, revoked, consented, userIgnored, overlapped>>

\* The replaced hook executes and ends; a failure is fatal.
RunOld(r) ==
  /\ pc[r] = "oldRun"
  /\ \/ /\ content[OldHook] # Absent
        /\ status' = [status EXCEPT ![r][OldHook] = "ok"]
        /\ SkipOld(r)
     \/ /\ status' = [status EXCEPT ![r][OldHook] = "failed"]
        /\ Panic(r)
  /\ UNCHANGED <<env, runs, repoTrusted, ignores, acceptAll, accepted, toSync,
                 disabled, dir, seen, pending, plan, later, history>>

-------------------------------------------------------------------------------
\* Collecting the hooks.

\* Mutant of HooksIn: directory entries which are gone are collected.
AllEntriesIn(d) == {h \in NewHook : DirOf[h] = d}

HooksIn(d) == {h \in NewHook : DirOf[h] = d /\ content[h] # Absent}

\* Mutant of Active: the user's patterns are not considered.
ActiveForRepo(r, d) == {h \in HooksIn(d) : h \notin RepoIgnored}

\* isIgnored of getHooksIn: repository and user patterns.
Active(r, d) == {h \in HooksIn(d) : h \notin RepoIgnored \cup ignores[r]}

Untrusted(r, d) == {h \in Active(r, d) : ~IsTrusted(r, content[h])}

\* The repository's own directory is always walked, a shared one only if its clone
\* exists and has the right url.
Walkable(r) == dir[r] = 1 \/ dir[r] \in available

\* collectHooks walks the next directory: every active hook is hashed and looked up
\* before the first prompt is shown.
WalkDir(r) ==
  /\ pc[r] = "collect"
  /\ dir[r] <= NumDirs
  /\ Walkable(r)
  /\ seen' = [seen EXCEPT ![r] =
       [h \in Hook |-> IF h \in Active(r, dir[r]) THEN content[h] ELSE @[h]]]
  /\ plan' = [plan EXCEPT ![r] = @ \cup (Active(r, dir[r]) \ Untrusted(r, dir[r]))]
  /\ pending' = [pending EXCEPT ![r] = Untrusted(r, dir[r])]
  /\ Goto(r, "decide")
  /\ UNCHANGED <<env, runs, repoTrusted, ignores, acceptAll, accepted, toSync,
                 disabled, dir, later, status, exit, history>>

\* checkSharedHook: a shared repository which is missing or has a wrong url is
\* skipped or fatal.
SkipDir(r) ==
  /\ pc[r] = "collect"
  /\ dir[r] <= NumDirs
  /\ ~Walkable(r)
  /\ IF conf.skipNonExistingShared
     THEN dir' = [dir EXCEPT ![r] = @ + 1] /\ UNCHANGED <<pc, exit>>
     ELSE Panic(r) /\ UNCHANGED dir
  /\ UNCHANGED <<env, runs, repoTrusted, ignores, acceptAll, accepted, toSync,
                 disabled, seen, pending, plan, later, status, history>>

\* The next hook of the sorted directory which needs a decision.
NextPending(r) ==
  {h \in pending[r] : \A k \in pending[r] : Batch[h] <= Batch[k]}

\* Mutant of FailOrWarn: every untrusted hook is only warned about.
OnlyWarn(r) == UNCHANGED <<pc, exit>>

\* failOrWarnOnActiveUntrusted for a collected hook.
FailOrWarn(r) ==
  IF conf.skipUntrusted THEN UNCHANGED <<pc, exit>> ELSE Panic(r)

\* An active, untrusted hook of a non-interactive runner.
DecideNonInteractive(r) ==
  /\ pc[r] = "decide"
  /\ conf.nonInteractive
  /\ \E h \in NextPending(r) :
       pending' = [pending EXCEPT ![r] = @ \ {h}]
  /\ FailOrWarn(r)
  /\ UNCHANGED <<env, runs, repoTrusted, ignores, acceptAll, accepted, toSync,
                 disabled, dir, seen, plan, later, status, history>>

\* showTrustPrompt after the answer "all": the hook is accepted unasked.
DecideAccepted(r) ==
  /\ pc[r] = "decide"
  /\ ~conf.nonInteractive
  /\ acceptAll[r]
  /\ \E h \in NextPending(r) :
       /\ pending' = [pending EXCEPT ![r] = @ \ {h}]
       /\ plan' = [plan EXCEPT ![r] = @ \cup {h}]
       /\ Accept(r, h)
  /\ UNCHANGED <<env, runs, repoTrusted, ignores, acceptAll, disabled, dir, seen,
                 later, status, pc, exit, revoked, consented, userIgnored,
                 overlapped>>

\* The user answers the trust prompt for the next hook.
Decide(r, answer) ==
  /\ pc[r] = "decide"
  /\ ~conf.nonInteractive
  /\ ~acceptAll[r]
  /\ \E h \in NextPending(r) :
       /\ pending' = [pending EXCEPT ![r] = @ \ {h}]
       /\ plan' = IF answer \in {"y", "a"}
                  THEN [plan EXCEPT ![r] = @ \cup {h}] ELSE plan
       /\ ApplyAnswer(r, h, answer)
  /\ IF answer \in {"n", "error"} THEN FailOrWarn(r) ELSE UNCHANGED <<pc, exit>>
  /\ UNCHANGED <<env, runs, repoTrusted, ignores, dir, seen, later, status, revoked,
                 consented, userIgnored, overlapped>>

\* All hooks of the directory are decided.
NextDir(r) ==
  /\ pc[r] = "decide"
  /\ pending[r] = {}
  /\ dir' = [dir EXCEPT ![r] = @ + 1]
  /\ Goto(r, "collect")
  /\ UNCHANGED <<env, runs, repoTrusted, ignores, acceptAll, accepted, toSync,
                 disabled, seen, pending, plan, later, status, exit, history>>

CollectDone(r) ==
  /\ pc[r] = "collect"
  /\ dir[r] > NumDirs
  /\ todo' = [todo EXCEPT ![r] = plan[r]]
  /\ Goto(r, "exec")
  /\ UNCHANGED <<env, runs, repoTrusted, ignores, acceptAll, accepted, toSync,
                 disabled, dir, seen, pending, plan, group, unstored, status,
                 exit, history>>

-------------------------------------------------------------------------------
\* Executing the hooks.

Before(h, k) == \/ DirOf[h] < DirOf[k]
                \/ DirOf[h] = DirOf[k] /\ Batch[h] < Batch[k]

\* The next batch of the loop over the sorted batches of all directories.
FirstBatch(s) == {h \in s : \A k \in s : ~Before(k, h)}

InState(r, s) == {h \in group[r] : status[r][h] = s}

\* NewJobGroup: the loop reaches its next batch.
NextBatch(r) ==
  /\ pc[r] = "exec"
  /\ group[r] = {} /\ todo[r] # {}
  /\ group' = [group EXCEPT ![r] = FirstBatch(todo[r])]
  /\ todo' = [todo EXCEPT ![r] = @ \ FirstBatch(@)]
  /\ UNCHANGED <<env, pc, runs, repoTrusted, ignores, acceptAll, accepted, toSync,
                 unstored, disabled, dir, seen, pending, plan, status, exit, history>>

\* AddRangeJob: a hook of the batch enters the queue of the pool, which blocks
\* while the queue is full.
AddJob(r, h) ==
  /\ pc[r] = "exec"
  /\ h \in InState(r, "none")
  /\ Cardinality(InState(r, "queued")) < QueueSize
  /\ status' = [status EXCEPT ![r][h] = "queued"]
  /\ UNCHANGED <<env, pc, runs, repoTrusted, ignores, acceptAll, accepted, toSync,
                 disabled, dir, seen, pending, plan, later, exit, history>>

\* Mutant of StartHook: the threads are only started when all jobs are queued.
StartAfterAddRange(r, h) ==
  /\ pc[r] = "exec"
  /\ InState(r, "none") = {}
  /\ h \in InState(r, "queued")
  /\ Cardinality(InState(r, "running")) < Threads
  /\ status' = [status EXCEPT ![r][h] = "running"]
  /\ UNCHANGED <<env, pc, runs, repoTrusted, ignores, acceptAll, accepted, toSync,
                 disabled, dir, seen, pending, plan, later, exit, history>>

\* A free thread of the pool takes a job from the queue and executes the hook.
StartHook(r, h) ==
  /\ pc[r] = "exec"
  /\ h \in InState(r, "queued")
  /\ Cardinality(InState(r, "running")) < Threads
  /\ status' = [status EXCEPT ![r][h] = "running"]
  /\ UNCHANGED <<env, pc, runs, repoTrusted, ignores, acceptAll, accepted, toSync,
                 disabled, dir, seen, pending, plan, later, exit, history>>

\* The hook ends; a file which is gone cannot be launched.
FinishHook(r, h) ==
  /\ pc[r] = "exec"
  /\ h \in InState(r, "running")
  /\ \E result \in IF content[h] = Absent THEN {"failed"} ELSE {"ok", "failed"} :
       status' = [status EXCEPT ![r][h] = result]
  /\ UNCHANGED <<env, pc, runs, repoTrusted, ignores, acceptAll, accepted, toSync,
                 disabled, dir, seen, pending, plan, later, exit, history>>

\* Mutant of Awaited: the jobs have been taken from the queue, not finished.
Drained(r) == InState(r, "none") \cup InState(r, "queued") = {}

\* pool.Wait returns: every job of the group has ended.
Awaited(r) == group[r] \subseteq InState(r, "ok") \cup InState(r, "failed")

\* logHookResults gets the results of the awaited batch and panics if some hook
\* failed; otherwise the loop goes on.
LogHookResults(r) ==
  /\ pc[r] = "exec"
  /\ group[r] # {} /\ Awaited(r)
  /\ IF InState(r, "failed") = {}
     THEN group' = [group EXCEPT ![r] = {}] /\ UNCHANGED <<pc, exit>>
     ELSE Panic(r) /\ UNCHANGED group
  /\ UNCHANGED <<env, runs, repoTrusted, ignores, acceptAll, accepted, toSync,
                 unstored, disabled, dir, seen, pending, plan, todo, status, history>>

\* All batches of all directories are through.
ExecDone(r) ==
  /\ pc[r] = "exec"
  /\ group[r] = {} /\ todo[r] = {}
  /\ Goto(r, "store")
  /\ exit' = [exit EXCEPT ![r] = "ok"]
  /\ UNCHANGED <<env, runs, repoTrusted, ignores, acceptAll, accepted, toSync,
                 disabled, dir, seen, pending, plan, later, status, history>>

-------------------------------------------------------------------------------
\* storePendingData, which runs after success and after a panic.

\* StoreYAML opens the ignore file with O_TRUNC ...
TruncateIgnores(r) ==
  /\ pc[r] = "store"
  /\ disabled[r] # {}
  /\ ignoreFile' = {}
  /\ Goto(r, "write")
  /\ UNCHANGED <<conf, content, available, store, trustMarker, trustAll, edits, cli,
                 runs, repoTrusted, ignores, acceptAll, accepted, toSync, disabled,
                 dir, seen, pending, plan, later, status, exit, history>>

\* Mutant of WriteIgnores: only what was disabled in this run is written.
WriteDisabled(r) ==
  /\ pc[r] = "write"
  /\ ignores' = [ignores EXCEPT ![r] = disabled[r]]
  /\ ignoreFile' = ignores'[r]
  /\ userIgnored' = userIgnored \cup disabled[r]
  /\ overlapped' = (overlapped \/ (\E q \in Runner \ {r} : Holding(q))
                               \/ (\E u \in Cli : CliHolding(u)))
  /\ Goto(r, "sums")
  /\ UNCHANGED <<conf, content, available, store, trustMarker, trustAll, edits, cli,
                 runs, repoTrusted, acceptAll, accepted, toSync, disabled, dir,
                 seen, pending, plan, later, status, exit, approved, revoked,
                 consented>>

\* ... and writes the patterns read at the start plus the disabled hooks.
WriteIgnores(r) ==
  /\ pc[r] = "write"
  /\ ignores' = [ignores EXCEPT ![r] = @ \cup disabled[r]]
  /\ ignoreFile' = ignores'[r]
  /\ userIgnored' = userIgnored \cup disabled[r]
  /\ overlapped' = (overlapped \/ (\E q \in Runner \ {r} : Holding(q))
                               \/ (\E u \in Cli : CliHolding(u)))
  /\ Goto(r, "sums")
  /\ UNCHANGED <<conf, content, available, store, trustMarker, trustAll, edits, cli,
                 runs, repoTrusted, acceptAll, accepted, toSync, disabled, dir,
                 seen, pending, plan, later, status, exit, approved, revoked,
                 consented>>

\* A failure to open or to write the file is logged and the run goes on.
StoreFails(r) ==
  /\ \/ pc[r] = "store" /\ disabled[r] # {}
     \/ pc[r] = "write"
  /\ overlapped' = (overlapped \/ pc[r] = "write")
  /\ Goto(r, "sums")
  /\ UNCHANGED <<env, runs, repoTrusted, ignores, acceptAll, accepted, toSync,
                 disabled, dir, seen, pending, plan, later, status, exit, approved,
                 revoked, consented, userIgnored>>

NothingDisabled(r) ==
  /\ pc[r] = "store"
  /\ disabled[r] = {}
  /\ Goto(r, "sums")
  /\ UNCHANGED <<env, runs, repoTrusted, ignores, acceptAll, accepted, toSync,
                 disabled, dir, seen, pending, plan, later, status, exit, history>>

\* SyncChecksumAdd: one file per checksum.
SyncChecksum(r, c) ==
  /\ pc[r] = "sums"
  /\ c \in toSync[r]
  /\ toSync' = [toSync EXCEPT ![r] = @ \ {c}]
  /\ store' = store \cup {c}
  /\ UNCHANGED <<conf, content, available, ignoreFile, trustMarker, trustAll, edits,
                 cli, pc, runs, repoTrusted, ignores, acceptAll, accepted, disabled,
                 dir, seen, pending, plan, later, status, exit, history>>

\* SyncChecksumAdd returns at its first error, which is logged.
SyncFails(r) ==
  /\ pc[r] = "sums"
  /\ toSync[r] # {}
  /\ unstored' = [unstored EXCEPT ![r] = @ \cup toSync[r]]
  /\ toSync' = [toSync EXCEPT ![r] = {}]
  /\ UNCHANGED <<env, pc, runs, repoTrusted, ignores, acceptAll, accepted, disabled,
                 dir, seen, pending, plan, todo, group, status, exit, history>>

\* The process ends with its exit code.
Exit(r) ==
  /\ pc[r] = "sums"
  /\ toSync[r] = {}
  /\ Goto(r, "idle")
  /\ UNCHANGED <<env, runs, repoTrusted, ignores, acceptAll, accepted, toSync,
                 disabled, dir, seen, pending, plan, later, status, exit, history>>

\* The runner is killed (Ctrl-C has its default effect): nothing is stored.
Kill(r) ==
  /\ pc[r] # "idle"
  /\ Goto(r, "idle")
  /\ exit' = [exit EXCEPT ![r] = "killed"]
  /\ overlapped' = (overlapped \/ pc[r] = "write")
  /\ UNCHANGED <<env, runs, repoTrusted, ignores, acceptAll, accepted, toSync,
                 disabled, dir, seen, pending, plan, later, status, approved,
                 revoked, consented, userIgnored>>

-------------------------------------------------------------------------------
\* What happens around the runners: users edit hooks, other processes update or
\* purge shared repositories, and the CLI changes trust and ignores.

Interfere == edits < MaxEdits /\ edits' = edits + 1

EditHook(h, c) ==
  /\ Interfere
  /\ c # content[h]
  /\ content' = [content EXCEPT ![h] = c]
  /\ UNCHANGED <<conf, available, store, ignoreFile, trustMarker, trustAll, cli,
                 local, history>>

\* A shared repository disappears (`shared purge`) or is cloned again.
ToggleShared(d) ==
  /\ Interfere
  /\ available' = IF d \in available THEN available \ {d} ELSE available \cup {d}
  /\ UNCHANGED <<conf, content, store, ignoreFile, trustMarker, trustAll, cli,
                 local, history>>

\* `git hooks trust hooks --path ...` for hook h.
TrustHook(h) ==
  /\ Interfere
  /\ content[h] # Absent
  /\ store' = store \cup {content[h]}
  /\ approved' = approved \cup {content[h]}
  /\ UNCHANGED <<conf, content, available, ignoreFile, trustMarker, trustAll, cli,
                 local, revoked, consented, userIgnored, overlapped>>

\* `git hooks trust hooks --reset --path ...` for hook h.
ResetHook(h) ==
  /\ Interfere
  /\ content[h] # Absent
  /\ store' = store \ {content[h]}
  /\ revoked' = revoked \cup {content[h]}
  /\ UNCHANGED <<conf, content, available, ignoreFile, trustMarker, trustAll, cli,
                 local, approved, consented, userIgnored, overlapped>>

\* runIgnoreAddPattern of command u: the file is loaded and a pattern is added or
\* removed in memory; `remove` stops at an empty file.
IgnoreAdd(u, h) ==
  /\ Interfere
  /\ cli[u].pc = "idle"
  /\ cli' = [cli EXCEPT ![u] =
       [pc |-> "store", read |-> ignoreFile, op |-> "add", hook |-> h]]
  /\ UNCHANGED <<conf, content, available, store, ignoreFile, trustMarker, trustAll,
                 local, history>>

IgnoreRemove(u, h) ==
  /\ Interfere
  /\ cli[u].pc = "idle"
  /\ ignoreFile # {}
  /\ cli' = [cli EXCEPT ![u] =
       [pc |-> "store", read |-> ignoreFile, op |-> "remove", hook |-> h]]
  /\ UNCHANGED <<conf, content, available, store, ignoreFile, trustMarker, trustAll,
                 local, history>>

\* The change which command u makes to a set of ignored hooks.
Change(u, s) == IF cli[u].op = "add" THEN s \cup {cli[u].hook} ELSE s \ {cli[u].hook}

\* StoreIgnorePatterns of command u: StoreYAML truncates the file ...
IgnoreTruncate(u) ==
  /\ cli[u].pc = "store"
  /\ ignoreFile' = {}
  /\ cli' = [cli EXCEPT ![u].pc = "write"]
  /\ UNCHANGED <<conf, content, available, store, trustMarker, trustAll, edits, local,
                 history>>

\* ... and writes what was loaded with the change.
IgnoreWrite(u) ==
  /\ cli[u].pc = "write"
  /\ ignoreFile' = Change(u, cli[u].read)
  /\ userIgnored' = Change(u, userIgnored)
  /\ overlapped' = (overlapped \/ (\E r \in Runner : Holding(r))
                               \/ (\E v \in Cli \ {u} : CliHolding(v)))
  /\ cli' = [cli EXCEPT ![u].pc = "idle"]
  /\ UNCHANGED <<conf, content, available, store, trustMarker, trustAll, edits, local,
                 approved, revoked, consented>>

\* Command u is killed, or fails to open or to write the file, which is fatal.
IgnoreEnds(u) ==
  /\ cli[u].pc # "idle"
  /\ overlapped' = (overlapped \/ cli[u].pc = "write")
  /\ cli' = [cli EXCEPT ![u].pc = "idle"]
  /\ UNCHANGED <<conf, content, available, store, ignoreFile, trustMarker, trustAll,
                 edits, local, approved, revoked, consented, userIgnored>>

\* `git hooks trust [forget | revoke | delete]`.
TrustRepo(option) ==
  /\ Interfere
  /\ trustAll' = CASE option = "add" -> "yes"
                   [] option = "forget" -> "unset"
                   [] OTHER -> "no"
  /\ trustMarker' = CASE option = "add" -> TRUE
                      [] option = "delete" -> FALSE
                      [] OTHER -> trustMarker
  /\ consented' = (consented \/ option = "add")
  /\ UNCHANGED <<conf, content, available, store, ignoreFile, cli, local, approved,
                 revoked, userIgnored, overlapped>>

-------------------------------------------------------------------------------
\* The steps of one runner.
RunnerStep(r) ==
  \/ Start(r) \/ Load(r) \/ RunLFS(r)
  \/ \E answer \in {"y", "n", "error"} : AnswerTrustRepo(r, answer)
  \/ CollectOld(r) \/ RunOld(r)
  \/ \E answer \in Answers : AnswerOld(r, answer) \/ Decide(r, answer)
  \/ WalkDir(r) \/ SkipDir(r)
  \/ DecideNonInteractive(r) \/ DecideAccepted(r)
  \/ NextDir(r) \/ CollectDone(r)
  \/ NextBatch(r) \/ LogHookResults(r) \/ ExecDone(r)
  \/ \E h \in NewHook : AddJob(r, h) \/ StartHook(r, h) \/ FinishHook(r, h)
  \/ TruncateIgnores(r) \/ WriteIgnores(r) \/ StoreFails(r) \/ NothingDisabled(r)
  \/ \E c \in Content : SyncChecksum(r, c)
  \/ SyncFails(r) \/ Exit(r)

\* The steps of one ignore command.
CliStep(u) ==
  \/ \E h \in Hook : IgnoreAdd(u, h) \/ IgnoreRemove(u, h)
  \/ IgnoreTruncate(u) \/ IgnoreWrite(u) \/ IgnoreEnds(u)

Environment ==
  \/ \E h \in Hook : \/ \E c \in Content \cup {Absent} : EditHook(h, c)
                     \/ TrustHook(h) \/ ResetHook(h)
  \/ \E u \in Cli : CliStep(u)
  \/ \E d \in 2..NumDirs : ToggleShared(d)
  \/ \E option \in {"add", "forget", "revoke", "delete"} : TrustRepo(option)

Next ==
  \/ \E r \in Runner : RunnerStep(r) \/ Kill(r)
  \/ Environment

Spec == Init /\ [][Next]_vars

\* A started runner keeps running, its hooks end and its prompts are answered or
\* fail; a terminal that is closed answers with an error.
FairSpec == Spec /\ \A r \in Runner : WF_vars(RunnerStep(r))

-------------------------------------------------------------------------------
\* Properties.

\* Hooks whose execution was started or is imminent in run r.
Launched(r) ==
  plan[r] \cup {h \in Hook : status[r][h] # "none"}
          \cup {h \in {OldHook} : pc[r] = "oldRun"}

\* IsTrusted, showTrustPrompt, IsRepoTrusted: whatever a runner executes had,
\* when it was collected, a content the user approved at some time, or the user
\* had consented to trust everything in this repository.
OnlyApprovedRuns ==
  \A r \in Runner :
    /\ repoTrusted[r] => consented
    /\ \A h \in Launched(r) : repoTrusted[r] \/ seen[r][h] \in approved

\* ExecuteHooksParallel: "Each batch is a synchronisation point and starts after
\* the one before has finished" (README.md:269), across all directories: once a job
\* of a batch is queued, every hook of every batch before has ended with success.
\* It rests on the order of the loop, on pool.Wait and on the panic of
\* logHookResults together.
BatchBarrier ==
  \A r \in Runner : \A h, k \in plan[r] :
    Before(k, h) /\ status[r][h] # "none" => status[r][k] = "ok"

\* collectHooks completes before executeHooks starts: no collected hook executes
\* while some hook of some directory still awaits its decision, and none which
\* the repository or the user ignored or which was disabled in the prompt.
NothingRunsUndecided ==
  \A r \in Runner : \A h \in NewHook :
    status[r][h] # "none" =>
      /\ dir[r] > NumDirs /\ pending[r] = {}
      /\ h \notin RepoIgnored \cup disabled[r]
      /\ h \notin ignores[r]

\* "This is useful to be sure that all hooks get executed" (README.md:580):
\* unless untrusted hooks are skipped by configuration, a run which succeeds has
\* executed every active hook it collected with success, except those the user
\* disabled in this run.
SuccessMeansAllRan ==
  \A r \in Runner :
    exit[r] = "ok" /\ ~conf.skipUntrusted =>
      \A h \in NewHook : \/ seen[r][h] = Absent
                         \/ status[r][h] = "ok"
                         \/ h \in disabled[r]

\* storePendingData runs on success and on panic: what the user accepted is in
\* the checksum store when the runner has exited, unless it was reset meanwhile or
\* an error of the store was logged.
AnswersAreStored ==
  \A r \in Runner :
    pc[r] = "idle" /\ exit[r] \in {"ok", "failed"} =>
      accepted[r] \subseteq store \cup revoked \cup unstored[r]

\* Nobody is between truncating and writing the ignore file.
NotWriting == /\ \A r \in Runner : pc[r] # "write"
              /\ \A u \in Cli : cli[u].pc # "write"

\* "you can also disable specific hooks to skip running them until you decide
\* otherwise" (README.md:575): over any number of runs and ignore commands the file
\* holds what was disabled and not reactivated, and no more, but while it is
\* written. It fails once something has overlapped: storePendingData and
\* runIgnoreAddPattern write back what they have read long before, and StoreYAML
\* leaves an empty file when it is broken off.
DisabledStaysDisabled == ~overlapped /\ NotWriting => ignoreFile = userIgnored

-------------------------------------------------------------------------------
\* The inductive invariant behind the properties above, in named parts.

Early == {"trustPrompt", "load", "lfs", "old", "oldPrompt", "oldRun"}

\* What is still empty at which point of the program.
Phase(r) ==
  /\ pc[r] \in Early =>
       /\ plan[r] = {} /\ pending[r] = {} /\ dir[r] = 1
       /\ \A h \in NewHook : seen[r][h] = Absent /\ h \notin disabled[r]
       /\ \A h \in Hook : status[r][h] = "none"
  /\ pc[r] \in {"collect", "decide"} => \A h \in NewHook : status[r][h] = "none"
  /\ pc[r] \in Early \cup {"collect", "decide", "exec"} => exit[r] = "none"
  /\ pc[r] \in Early \cup {"collect", "decide"} => todo[r] = {} /\ group[r] = {}
  /\ pc[r] \in {"collect", "exec"} => pending[r] = {}
  /\ pc[r] = "decide" => dir[r] <= NumDirs
  /\ pc[r] = "exec" => dir[r] > NumDirs

\* A hook is hashed when its directory is walked and before anything is decided.
Hashed(r) ==
  /\ pc[r] = "oldPrompt" => seen[r][OldHook] \in Content
  /\ \A h \in plan[r] \cup pending[r] \cup (disabled[r] \cap NewHook) :
       seen[r][h] \in Content
  /\ \A h \in NewHook : seen[r][h] # Absent =>
       /\ DirOf[h] <= dir[r]
       /\ pc[r] = "collect" => DirOf[h] < dir[r]

\* Every hashed hook is selected, undecided or disabled, never two of these, and
\* ignored hooks are none of them.
Selected(r) ==
  /\ plan[r] \cap pending[r] = {}
  /\ (plan[r] \cup pending[r]) \cap (RepoIgnored \cup ignores[r] \cup disabled[r]) = {}
  /\ exit[r] = "none" /\ ~conf.skipUntrusted =>
       \A h \in NewHook : seen[r][h] # Absent =>
         h \in plan[r] \cup pending[r] \cup disabled[r]

\* Only collected hooks execute, and only after every decision.
Executed(r) ==
  \A h \in NewHook : status[r][h] # "none" =>
    h \in plan[r] /\ dir[r] > NumDirs /\ pending[r] = {}

\* The batches in their order: those behind the loop have succeeded, those before it
\* are untouched, and the job group is one batch.
InOrder(r) ==
  /\ todo[r] \subseteq plan[r] \ group[r] /\ group[r] \subseteq plan[r]
  /\ \A h \in todo[r] : status[r][h] = "none"
  /\ pc[r] = "exec" => \A h \in plan[r] \ (todo[r] \cup group[r]) : status[r][h] = "ok"
  /\ \A h \in todo[r], k \in plan[r] \ todo[r] : ~Before(h, k)
  /\ \A h, k \in group[r] : ~Before(h, k)

\* Trust comes from the user, and an answer is never forgotten.
Remembered(r) ==
  /\ accepted[r] \cup toSync[r] \subseteq approved
  /\ accepted[r] \subseteq toSync[r] \cup store \cup revoked \cup unstored[r]
  /\ pc[r] = "idle" /\ exit[r] \in {"ok", "failed"} => toSync[r] = {}

TrustOrigin ==
  /\ store \subseteq approved
  /\ trustAll = "yes" => consented

\* Nobody else writes: what a runner or a command has read, it may write back.
ReadIsCurrent ==
  ~overlapped =>
    /\ \A r \in Runner :
         /\ Holding(r)
         /\ \A q \in Runner \ {r} : pc[q] # "write"
         /\ \A u \in Cli : cli[u].pc # "write"
         => ignores[r] = userIgnored
    /\ \A u \in Cli :
         /\ CliHolding(u)
         /\ \A r \in Runner : pc[r] # "write"
         /\ \A v \in Cli \ {u} : cli[v].pc # "write"
         => cli[u].read = userIgnored

IndInv ==
  /\ TypeOK
  /\ TrustOrigin
  /\ DisabledStaysDisabled /\ ReadIsCurrent
  /\ OnlyApprovedRuns
  /\ BatchBarrier
  /\ SuccessMeansAllRan
  /\ \A r \in Runner : /\ Phase(r) /\ Hashed(r) /\ Selected(r) /\ Executed(r)
                       /\ InOrder(r) /\ Remembered(r)

-------------------------------------------------------------------------------
\* Every run ends.
RunEnds == \A r \in Runner : pc[r] # "idle" ~> pc[r] = "idle"

\* "However, you can disabled this behavior by skipping active, untrusted hooks"
\* (README.md:581): with skip-untrusted-hooks no untrusted replaced hook fails
\* the run.
SkipUntrustedCoversOldHook ==
  [][\A r \in Runner :
       conf.skipUntrusted /\ pc[r] \in {"old", "oldPrompt"} /\ exit[r] = "none"
         => exit'[r] \notin {"failed"}]_vars

\* "Old hook can only be ignored by user ignores..." (runner.go:447): a replaced
\* hook the user ignores is not executed.
IgnoredOldHookNeverRuns ==
  \A r \in Runner : pc[r] = "oldRun" => OldHook \notin ignores[r]
===============================================================================
