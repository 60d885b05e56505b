----------------------------- MODULE SharedHooks -----------------------------
(***************************************************************************)
(* Shared hook repositories (hooks/shared.go, cmd/shared/shared.go): three *)
(* lists of URLs, clones below `<installDir>/shared`, and the processes    *)
(* that change, update and use them: hook runs, `git hooks shared ...` and *)
(* the installer.                                                          *)
(*                                                                         *)
(* All URLs are clone URLs, so that a directory belongs to one URL; a URL  *)
(* which is a local path is used in place and never updated.  A branch is  *)
(* never rewritten and its commits are numbered.  Container images are not *)
(* modelled, nor the hook `reference-transaction`.                         *)
(***************************************************************************)
EXTENDS Naturals, Sequences

CONSTANTS
  Proc,         \* slots for concurrently running processes
  Url,          \* clone URLs
  Kinds,        \* the commands that are started, a subset of AllKinds
  Configs,      \* settings considered, a subset of Config
  MaxLength,    \* bound: length of a list
  LastCommit,   \* bound: commits of a shared repository
  MaxRuns,      \* bound: commands started
  MaxFaults     \* bound: operations that fail and processes that are killed

HookKinds == {"merge", "checkout", "commit"}
AllKinds == HookKinds \cup {"update", "purge", "add", "remove", "clear", "setup"}

\* skip-non-existing-shared-hooks, disable-shared-hooks-update, and whether
\* `githooks.sharedHooksUpdateTriggers` names the hook of a "commit" run.
Config == [skip: BOOLEAN, noUpdate: BOOLEAN, trigger: BOOLEAN]

ASSUME SharedAssumption ==
  /\ Kinds \subseteq AllKinds
  /\ Configs \subseteq Config
  /\ MaxLength \in Nat
  /\ LastCommit \in Nat \ {0}
  /\ MaxRuns \in Nat
  /\ MaxFaults \in Nat
  /\ "none" \notin Proc

VARIABLES
  conf,       \* the settings
  list,       \* list[s]: URLs in `.shared.yaml`, the local and global config
  state,      \* state[u]: what the clone directory of u holds
  at,         \* at[u]: the commit that is checked out in a complete clone
  cloning,    \* cloning[u]: the process whose `git clone` writes the directory
  tip,        \* tip[u]: newest commit on the server
  cloneDone,  \* `.githooks-shared-update-on-clone-done` exists
  pc,         \* next step of each process
  job,        \* local state of each process
  broken,     \* history: a directory may be left over from a killed process
  runs, failures, crashes

clones == <<state, at, cloning>>
counts == <<runs, failures, crashes>>
vars == <<conf, list, clones, tip, cloneDone, pc, job, broken, counts>>

Scopes == <<"repo", "local", "global">>
Scope == {"repo", "local", "global"}

\* "junk" is no Git repository (any more); "partial" has its Git directory and
\* its remote URL, but not all of its files.
States == {"missing", "junk", "partial", "complete"}

Steps == {"idle", "load", "update", "pull", "delete", "clone", "cloning",
          "check", "purge", "edit", "back", "done"}

Elements(s) == {s[i] : i \in 1 .. Len(s)}

BoundedLists == UNION {[1 .. n -> Url] : n \in 0 .. MaxLength}

\* A process: its command, the position in Scopes, the URLs it loaded and those
\* still to do, the clones whose hooks it collected, and the scope which it edits
\* or starts with; what a hook run has in its cache of the Git configuration.
\* History: `since`, the newest commits when an update started, and `alone`, no other
\* process has been running since.
NoJob == [kind |-> "none", pos |-> 1, urls |-> <<>>, todo |-> <<>>, added |-> <<>>,
          errors |-> FALSE, scope |-> "repo", cached |-> [s \in Scope |-> <<>>],
          since |-> [u \in Url |-> 0], alone |-> FALSE]

Init ==
  /\ conf \in Configs
  /\ list \in [Scope -> BoundedLists]
  /\ state = [u \in Url |-> "missing"]
  /\ at = [u \in Url |-> 0]
  /\ cloning = [u \in Url |-> "none"]
  /\ tip = [u \in Url |-> 1]
  /\ cloneDone = FALSE
  /\ pc = [p \in Proc |-> "idle"]
  /\ job = [p \in Proc |-> NoJob]
  /\ broken = FALSE
  /\ runs = 0
  /\ failures = 0
  /\ crashes = 0

Goto(p, step) == pc' = [pc EXCEPT ![p] = step]

Exit(p) == Goto(p, "idle") /\ job' = [job EXCEPT ![p] = NoJob]

Quiet == \A p \in Proc : pc[p] = "idle"

-------------------------------------------------------------------------------
\* The server.  A push is considered once the newest commit has been fetched: until
\* then, another one makes no difference to what is cloned or pulled.
Push(u) ==
  /\ at[u] = tip[u]
  /\ tip[u] < LastCommit
  /\ tip' = [tip EXCEPT ![u] = @ + 1]
  /\ UNCHANGED <<conf, list, clones, cloneDone, pc, job, broken, counts>>

\* AppendUnique, Remove, and what `clear` and the installer leave of a list.
Edited(kind, urls, u) ==
  CASE kind = "add"    -> IF u \in Elements(urls) THEN urls ELSE Append(urls, u)
    [] kind = "remove" -> SelectSeq(urls, LAMBDA v : v # u)
    [] kind = "clear"  -> <<>>
    [] kind = "setup"  -> <<u>>

\* The commands for which `since` and `errors` are kept.
Tracked(kind) == kind \in {"update", "merge"}

Begin(p, new) ==
  job' = [q \in Proc |-> IF q = p THEN [new EXCEPT !.alone = Quiet]
                                  ELSE [job[q] EXCEPT !.alone = FALSE]]

\* Add, remove and clear work on one list; the installer sets up the global one.
\* The list is read at once.
StartEdit(p, kind) ==
  \E s \in IF kind = "setup" THEN {"global"} ELSE Scope, u \in Url :
    /\ Edited(kind, list[s], u) \in BoundedLists
    /\ Begin(p, [NoJob EXCEPT !.kind = kind, !.scope = s,
                              !.urls = Edited(kind, list[s], u)])
    /\ Goto(p, "edit")

\* A hook run or an update begins with the repository's list, or, outside of a
\* repository, with the global one.  A hook run reads the Git configuration now.
StartUse(p, kind) ==
  \E pos \in IF kind = "update" THEN {1, 3} ELSE {1} :
    /\ Begin(p, [NoJob EXCEPT !.kind = kind, !.pos = pos, !.scope = Scopes[pos],
                              !.since = IF Tracked(kind) THEN tip ELSE @,
                              !.cached = IF kind \in HookKinds
                                         THEN [list EXCEPT !["repo"] = <<>>] ELSE @])
    /\ Goto(p, IF kind = "purge" THEN "purge" ELSE "load")

Start(p) ==
  /\ pc[p] = "idle"
  /\ runs < MaxRuns
  /\ runs' = runs + 1
  /\ \E kind \in Kinds : IF kind \in HookKinds \cup {"update", "purge"}
                         THEN StartUse(p, kind)
                         ELSE StartEdit(p, kind)
  /\ UNCHANGED <<conf, list, clones, tip, cloneDone, broken, failures, crashes>>

-------------------------------------------------------------------------------
\* Changing a list: the file is truncated and written; the Git configuration is
\* unset and every URL added back.

Empty(p) ==
  /\ pc[p] = "edit"
  /\ list' = [list EXCEPT ![job[p].scope] = <<>>]
  /\ job' = [job EXCEPT ![p].todo = job[p].urls]
  /\ Goto(p, "back")
  /\ UNCHANGED <<conf, clones, tip, cloneDone, broken, counts>>

WriteBack(p) ==
  /\ pc[p] = "back"
  /\ job[p].todo # <<>>
  /\ IF job[p].scope = "repo"
     THEN /\ list' = [list EXCEPT !["repo"] = job[p].urls]
          /\ job' = [job EXCEPT ![p].todo = <<>>]
     ELSE /\ list' = [list EXCEPT ![job[p].scope] = Append(@, Head(job[p].todo))]
          /\ job' = [job EXCEPT ![p].todo = Tail(@)]
  /\ UNCHANGED <<conf, clones, tip, cloneDone, pc, broken, counts>>

\* The installer goes on with an update of the global list.
Edit(p) ==
  /\ pc[p] = "back"
  /\ job[p].todo = <<>>
  /\ job' = [job EXCEPT ![p] = [job[p] EXCEPT !.pos = 3, !.urls = <<>>]]
  /\ Goto(p, IF job[p].kind = "setup" THEN "load" ELSE "done")
  /\ UNCHANGED <<conf, list, clones, tip, cloneDone, broken, counts>>

-------------------------------------------------------------------------------
\* Walking the lists: LoadRepoSharedHooks, LoadConfigSharedHooks.

IsHook(p) == job[p].kind \in HookKinds

\* updateSharedHooks of the runner.
UpdateOnClone(p) == job[p].kind = "checkout" /\ ~cloneDone

Triggered(p) == \/ job[p].kind = "merge"
                \/ UpdateOnClone(p)
                \/ job[p].kind = "commit" /\ conf.trigger

\* getRepoSharedHooks updates before it collects, getConfigSharedHooks does not.
Updates(p) == \/ ~IsHook(p)
              \/ job[p].pos = 1 /\ Triggered(p) /\ ~conf.noUpdate

\* The next list.  MakeUnique, which loadConfigSharedHooks applies, keeps duplicates.
NextList(p) ==
  /\ job' = [job EXCEPT ![p] = [job[p] EXCEPT !.pos = @ + 1, !.urls = <<>>]]
  /\ Goto(p, IF job[p].pos = 3 THEN "done" ELSE "load")

\* Only `.shared.yaml` is read anew by a hook run.
Load(p) ==
  /\ pc[p] = "load"
  /\ LET s == Scopes[job[p].pos]
         urls == IF IsHook(p) /\ s # "repo" THEN job[p].cached[s] ELSE list[s]
     IN  job' = [job EXCEPT ![p] = [job[p] EXCEPT !.urls = urls, !.todo = urls]]
  /\ Goto(p, IF Updates(p) THEN "update" ELSE "check")
  /\ UNCHANGED <<conf, list, clones, tip, cloneDone, broken, counts>>

-------------------------------------------------------------------------------
\* UpdateSharedHooks: PullOrClone for one URL after the other.  What fails is
\* reported and the next URL is tried.

Current(p) == Head(job[p].todo)

NextUrl(p, ok) ==
  /\ job' = [job EXCEPT ![p] = [job[p] EXCEPT !.todo = Tail(@),
                                        !.errors = @ \/ (~ok /\ Tracked(job[p].kind))]]
  /\ Goto(p, "update")

\* Mutant: what is there is not updated.
LookOnly(p) ==
  /\ pc[p] = "update"
  /\ job[p].todo # <<>>
  /\ IF state[Current(p)] \in {"partial", "complete"}
     THEN NextUrl(p, TRUE)
     ELSE Goto(p, "delete") /\ UNCHANGED job
  /\ UNCHANGED <<conf, list, clones, tip, cloneDone, broken, counts>>

\* IsGitRepo.
Look(p) ==
  /\ pc[p] = "update"
  /\ job[p].todo # <<>>
  /\ Goto(p, IF state[Current(p)] \in {"partial", "complete"} THEN "pull" ELSE "delete")
  /\ UNCHANGED <<conf, list, clones, tip, cloneDone, job, broken, counts>>

\* `git pull origin`.  In an incomplete clone it may fail, find nothing to do, or,
\* if nobody works on the clone, complete it; a directory which is gone is an error.
Pull(p) ==
  LET u == Current(p)
  IN  /\ pc[p] = "pull"
      /\ \/ /\ \/ state[u] = "complete"
               \/ state[u] = "partial" /\ cloning[u] = "none"
            /\ state' = [state EXCEPT ![u] = "complete"]
            /\ at' = [at EXCEPT ![u] = tip[u]]
            /\ NextUrl(p, TRUE)
         \/ /\ state[u] # "complete"
            /\ \E ok \in {FALSE, state[u] = "partial"} : NextUrl(p, ok)
            /\ UNCHANGED <<state, at>>
      /\ UNCHANGED <<conf, list, cloning, tip, cloneDone, broken, counts>>

\* Mutant: the content of the directory is removed and the directory stays.
DeleteContent(p) ==
  LET u == Current(p)
  IN  /\ pc[p] = "delete"
      /\ state' = [state EXCEPT ![u] = IF @ = "missing" THEN @ ELSE "junk"]
      /\ at' = [at EXCEPT ![u] = 0]
      /\ cloning' = [cloning EXCEPT ![u] = "none"]
      /\ Goto(p, "clone")
      /\ UNCHANGED <<conf, list, tip, cloneDone, job, broken, counts>>

\* os.RemoveAll of the clone directory.
Delete(p) ==
  LET u == Current(p)
  IN  /\ pc[p] = "delete"
      /\ state' = [state EXCEPT ![u] = "missing"]
      /\ at' = [at EXCEPT ![u] = 0]
      /\ cloning' = [cloning EXCEPT ![u] = "none"]
      /\ Goto(p, "clone")
      /\ UNCHANGED <<conf, list, tip, cloneDone, job, broken, counts>>

\* Mutant: whatever is there is cloned over.
CloneOver(p) ==
  /\ pc[p] = "clone"
  /\ state' = [state EXCEPT ![Current(p)] = "partial"]
  /\ cloning' = [cloning EXCEPT ![Current(p)] = p]
  /\ Goto(p, "cloning")
  /\ UNCHANGED <<conf, list, at, tip, cloneDone, job, broken, counts>>

\* `git clone` creates the directory with its configuration, unless it exists.
Clone(p) ==
  LET u == Current(p)
  IN  /\ pc[p] = "clone"
      /\ \/ /\ state[u] = "missing"
            /\ state' = [state EXCEPT ![u] = "partial"]
            /\ cloning' = [cloning EXCEPT ![u] = p]
            /\ Goto(p, "cloning")
            /\ UNCHANGED job
         \/ /\ state[u] # "missing"
            /\ NextUrl(p, FALSE)
            /\ UNCHANGED <<state, cloning>>
      /\ UNCHANGED <<conf, list, at, tip, cloneDone, broken, counts>>

\* It fetches and checks out.  If the directory was removed meanwhile, it fails and
\* may remove what another process put in its place.
Cloned(p) ==
  LET u == Current(p)
  IN  /\ pc[p] = "cloning"
      /\ \/ /\ cloning[u] = p
            /\ state' = [state EXCEPT ![u] = "complete"]
            /\ at' = [at EXCEPT ![u] = tip[u]]
            /\ cloning' = [cloning EXCEPT ![u] = "none"]
            /\ NextUrl(p, TRUE)
         \/ /\ cloning[u] # p
            /\ \/ /\ state' = [state EXCEPT ![u] = "missing"]
                  /\ at' = [at EXCEPT ![u] = 0]
                  /\ cloning' = [cloning EXCEPT ![u] = "none"]
               \/ UNCHANGED clones
            /\ NextUrl(p, FALSE)
      /\ UNCHANGED <<conf, list, tip, cloneDone, broken, counts>>

\* After the last URL the runner leaves its mark, also if updates failed, and goes
\* on to collect; the other commands take the next list.
Updated(p) ==
  /\ pc[p] = "update"
  /\ job[p].todo = <<>>
  /\ cloneDone' = (cloneDone \/ UpdateOnClone(p))
  /\ IF IsHook(p)
     THEN /\ job' = [job EXCEPT ![p].todo = job[p].urls]
          /\ Goto(p, "check")
     ELSE NextList(p)
  /\ UNCHANGED <<conf, list, clones, tip, broken, counts>>

-------------------------------------------------------------------------------
\* checkSharedHook.

Collect(p) ==
  job' = [job EXCEPT ![p] = [job[p] EXCEPT !.added = Append(@, Current(p)), !.todo = Tail(@)]]

Leave(p) == job' = [job EXCEPT ![p].todo = Tail(@)]

\* Mutant: a missing clone is always skipped.
CheckLeniently(p) ==
  /\ pc[p] = "check"
  /\ job[p].todo # <<>>
  /\ IF \/ Current(p) \in Elements(job[p].added)
        \/ state[Current(p)] \in {"missing", "junk"}
     THEN Leave(p)
     ELSE Collect(p)
  /\ UNCHANGED <<conf, list, clones, tip, cloneDone, pc, broken, counts>>

\* What is collected already is skipped.  The directory has to exist and to have
\* the remote URL, else the run fails or skips it.
Check(p) ==
  /\ pc[p] = "check"
  /\ job[p].todo # <<>>
  /\ \/ /\ Current(p) \in Elements(job[p].added)
        /\ Leave(p)
        /\ UNCHANGED pc
     \/ /\ Current(p) \notin Elements(job[p].added)
        /\ state[Current(p)] \in {"partial", "complete"}
        /\ Collect(p)
        /\ UNCHANGED pc
     \/ /\ Current(p) \notin Elements(job[p].added)
        /\ state[Current(p)] \in {"missing", "junk"}
        /\ IF conf.skip THEN Leave(p) /\ UNCHANGED pc
                        ELSE Exit(p)
  /\ UNCHANGED <<conf, list, clones, tip, cloneDone, broken, counts>>

Checked(p) ==
  /\ pc[p] = "check"
  /\ job[p].todo = <<>>
  /\ NextList(p)
  /\ UNCHANGED <<conf, list, clones, tip, cloneDone, broken, counts>>

-------------------------------------------------------------------------------
\* `git hooks shared purge`: os.RemoveAll of all clones.
Purge(p) ==
  /\ pc[p] = "purge"
  /\ \E u \in Url :
       /\ state[u] # "missing"
       /\ state' = [state EXCEPT ![u] = "missing"]
       /\ at' = [at EXCEPT ![u] = 0]
       /\ cloning' = [cloning EXCEPT ![u] = "none"]
  /\ UNCHANGED <<conf, list, tip, cloneDone, pc, job, broken, counts>>

Purged(p) ==
  /\ pc[p] = "purge"
  /\ \A u \in Url : state[u] = "missing"
  /\ broken' = FALSE
  /\ Goto(p, "done")
  /\ UNCHANGED <<conf, list, clones, tip, cloneDone, job, counts>>

Done(p) ==
  /\ pc[p] = "done"
  /\ Exit(p)
  /\ UNCHANGED <<conf, list, clones, tip, cloneDone, broken, counts>>

-------------------------------------------------------------------------------
\* A Git or file operation fails.  A directory which could not be removed
\* completely is junk, a failed `git clone` removes its directory; the next URL
\* follows.  Failing to change a list ends the command.
Fail(p) ==
  /\ failures + crashes < MaxFaults
  /\ failures' = failures + 1
  /\ \/ /\ pc[p] \in {"pull", "clone"}
        /\ NextUrl(p, FALSE)
        /\ UNCHANGED clones
     \/ /\ pc[p] = "delete" /\ state[Current(p)] # "missing"
        /\ NextUrl(p, FALSE)
        /\ state' = [state EXCEPT ![Current(p)] = "junk"]
        /\ at' = [at EXCEPT ![Current(p)] = 0]
        /\ cloning' = [cloning EXCEPT ![Current(p)] = "none"]
     \/ /\ pc[p] = "cloning"
        /\ NextUrl(p, FALSE)
        /\ state' = [state EXCEPT ![Current(p)] = "missing"]
        /\ at' = [at EXCEPT ![Current(p)] = 0]
        /\ cloning' = [cloning EXCEPT ![Current(p)] = "none"]
     \/ /\ pc[p] \in {"edit", "back"}
        /\ Exit(p)
        /\ UNCHANGED clones
  /\ UNCHANGED <<conf, list, tip, cloneDone, broken, runs, crashes>>

\* The process and its Git command are killed, perhaps while a directory is
\* removed or cloned, or its files are exchanged by a pull.
Crash(p) ==
  /\ pc[p] # "idle"
  /\ failures + crashes < MaxFaults
  /\ crashes' = crashes + 1
  /\ Exit(p)
  /\ \/ /\ pc[p] = "cloning" => cloning[Current(p)] # p
        /\ UNCHANGED clones
     \/ \E u \in Url :
          /\ \/ pc[p] = "purge"
             \/ pc[p] \in {"delete", "cloning"} /\ u = Current(p)
          /\ state[u] # "missing"
          /\ state' = [state EXCEPT ![u] = "junk"]
          /\ at' = [at EXCEPT ![u] = 0]
          /\ cloning' = [cloning EXCEPT ![u] = "none"]
     \/ /\ pc[p] = "cloning" /\ cloning[Current(p)] = p
        /\ cloning' = [cloning EXCEPT ![Current(p)] = "none"]
        /\ UNCHANGED <<state, at>>
     \/ /\ pc[p] = "pull" /\ state[Current(p)] = "complete"
        /\ state' = [state EXCEPT ![Current(p)] = "partial"]
        /\ at' = [at EXCEPT ![Current(p)] = 0]
        /\ UNCHANGED cloning
  /\ broken' = (broken \/ pc[p] \in {"pull", "delete", "cloning", "purge"})
  /\ UNCHANGED <<conf, list, tip, cloneDone, runs, failures>>

EditStep(p) == Empty(p) \/ WriteBack(p) \/ Edit(p)

UpdateStep(p) == \/ Look(p) \/ Pull(p) \/ Delete(p) \/ Clone(p) \/ Cloned(p)
                 \/ Updated(p)

UseStep(p) == Load(p) \/ Check(p) \/ Checked(p) \/ Done(p)

Next ==
  \/ \E u \in Url : Push(u)
  \/ \E p \in Proc : \/ Start(p) \/ EditStep(p) \/ UpdateStep(p) \/ UseStep(p)
                     \/ Purge(p) \/ Purged(p) \/ Fail(p) \/ Crash(p)

Spec == Init /\ [][Next]_vars
-------------------------------------------------------------------------------
\* Properties.

JobType == [kind: AllKinds \cup {"none"}, pos: 1 .. 4, urls: Seq(Url), todo: Seq(Url),
            added: Seq(Url), errors: BOOLEAN, scope: Scope, cached: [Scope -> Seq(Url)],
            since: [Url -> 0 .. LastCommit], alone: BOOLEAN]

\* Types; a complete clone has a commit, and only a partial one is being cloned.
TypeOK ==
  /\ conf \in Config
  /\ list \in [Scope -> Seq(Url)]
  /\ state \in [Url -> States]
  /\ at \in [Url -> 0 .. LastCommit]
  /\ cloning \in [Url -> Proc \cup {"none"}]
  /\ tip \in [Url -> 1 .. LastCommit]
  /\ cloneDone \in BOOLEAN
  /\ pc \in [Proc -> Steps]
  /\ job \in [Proc -> JobType]
  /\ broken \in BOOLEAN
  /\ runs \in 0 .. MaxRuns
  /\ failures \in 0 .. MaxFaults
  /\ crashes \in 0 .. MaxFaults
  /\ \A u \in Url : /\ state[u] = "complete" <=> at[u] # 0
                    /\ cloning[u] # "none" => state[u] = "partial"

Listed == UNION {Elements(list[s]) : s \in Scope}

\* README.md:454: "By default, Githooks will fail if any configured shared hooks are
\* not available": a run which gets through has collected the complete clone of
\* every listed repository; with skip-non-existing-shared-hooks all but those that
\* are not there.  It needs that no other process ran, and, after one was killed,
\* a purge.
RunUsesAll ==
  \A p \in Proc : pc[p] = "done" /\ IsHook(p) /\ job[p].alone =>
    /\ \A u \in Listed : \/ u \in Elements(job[p].added)
                         \/ conf.skip /\ state[u] \in {"missing", "junk"}
    /\ ~broken => \A u \in Elements(job[p].added) : state[u] = "complete"

\* `git hooks shared update` without errors leaves complete clones of all listed
\* repositories, as new as the server was when it started, also after failures of
\* earlier updates; with the same reservations.
UpdateIsCurrent ==
  \A p \in Proc : pc[p] = "done" /\ job[p].kind = "update" /\ job[p].alone
                    /\ ~job[p].errors /\ ~broken =>
    \A u \in IF job[p].scope = "repo" THEN Listed ELSE Elements(list["global"]) :
      state[u] = "complete" /\ at[u] >= job[p].since[u]

\* Two processes that clone, remove or pull the same directory may both fail, but
\* when all have ended the directory is a complete clone or it is not there, unless
\* one was killed or could not remove a directory.
IdleIsClean ==
  Quiet /\ ~broken /\ failures = 0 => \A u \in Url : state[u] \in {"missing", "complete"}

\* README.md:441: shared repositories "are updated automatically after a
\* `post-merge` event": a post-merge run in which no update failed leaves every
\* clone of the lists as new as the server was when it started.
UpdatedAfterMerge ==
  \A p \in Proc : pc[p] = "done" /\ job[p].kind = "merge" /\ ~job[p].errors /\ ~conf.noUpdate =>
    \A u \in Listed : state[u] = "complete" => at[u] >= job[p].since[u]
===============================================================================
