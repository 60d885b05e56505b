----------------------------- MODULE RepoRegister ----------------------------
(***************************************************************************)
(* The register of repositories which use Githooks (hooks/register.go) and *)
(* the commands that maintain it: every hook run (assertRegistered), `git  *)
(* hooks install|uninstall`, the installer and the uninstaller.            *)
(*                                                                         *)
(* The file `<installDir>/registered.yaml` is read, changed in memory and  *)
(* written back by processes that do not know of each other.  A hook run   *)
(* looks only at the flag `githooks.registered` of its own repository.     *)
(* Later installers update, and the uninstaller cleans, what is listed.    *)
(*                                                                         *)
(* Modelled is the install mode with a template directory: Git copies the  *)
(* run-wrappers into a new clone.  Repositories disappear only while no    *)
(* command runs; writing or removing the run-wrappers of one repository is *)
(* one step, and unsetting its flag another.                               *)
(***************************************************************************)
EXTENDS Naturals

CONSTANTS
  Proc,         \* slots for concurrently running processes
  Repo,         \* places for repositories
  Kinds,        \* the commands that are started, a subset of AllKinds
  KeepAnswers,  \* does the user keep Githooks in registered repositories
                \* when uninstalling it? a subset of BOOLEAN
  MaxCrashes,   \* bound: processes killed
  MaxFailures   \* bound: failing operations on register, wrappers and flag

AllKinds == {"hook", "install", "uninstall", "installer", "uninstaller"}

ASSUME RegisterAssumption ==
  /\ Kinds \subseteq AllKinds
  /\ KeepAnswers \subseteq BOOLEAN
  /\ MaxCrashes \in Nat
  /\ MaxFailures \in Nat

VARIABLES
  installed,   \* are runner, CLI and templates installed?
  repos,       \* existing repositories
  wrapped,     \* repositories with run-wrappers in `.git/hooks`
  flagged,     \* repositories with `githooks.registered` in their Git config
  file,        \* repositories listed in registered.yaml, {} if it is missing
  pc,          \* next step of each process
  job,         \* local state of each process
  torn,        \* history: a process ended between opening and writing the file
  halfway,     \* history: repositories whose uninstallation ended or failed between
               \* run-wrappers and flag, and which nothing has visited since
  crashes, failures

onDisk == <<installed, repos, wrapped, flagged, file>>
faults == <<torn, halfway, crashes, failures>>
vars == <<onDisk, pc, job, faults>>

Steps == {"idle", "wrap", "load", "unwrap", "existing", "registered",
          "truncate", "write", "mark", "clean", "remove"}

(* A process: its command, the repository it runs in, the register it has  *)
(* in memory, the repositories it still has to visit and has visited, and  *)
(* the one whose run-wrappers it has just removed.                         *)
JobType == [kind : AllKinds \cup {"none"}, repo : SUBSET Repo, mem : SUBSET Repo,
            todo : SUBSET Repo, done : SUBSET Repo, bare : SUBSET Repo]

NoJob == [kind |-> "none", repo |-> {}, mem |-> {}, todo |-> {}, done |-> {},
          bare |-> {}]

Init == /\ installed = TRUE
        /\ repos = {}
        /\ wrapped = {}
        /\ flagged = {}
        /\ file = {}
        /\ pc = [p \in Proc |-> "idle"]
        /\ job = [p \in Proc |-> NoJob]
        /\ torn = FALSE
        /\ halfway = {}
        /\ crashes = 0
        /\ failures = 0

Goto(p, step) == pc' = [pc EXCEPT ![p] = step]

Exit(p) == Goto(p, "idle") /\ job' = [job EXCEPT ![p] = NoJob]

Quiet == \A p \in Proc : pc[p] = "idle"

-----------------------------------------------------------------------------
(* The user clones and deletes repositories. *)
CloneRepo(r) == /\ r \notin repos
                /\ repos' = repos \cup {r}
                /\ wrapped' = IF installed THEN wrapped \cup {r} ELSE wrapped
                /\ UNCHANGED <<installed, flagged, file, pc, job, faults>>

DeleteRepo(r) == /\ Quiet
                 /\ r \in repos
                 /\ repos' = repos \ {r}
                 /\ wrapped' = wrapped \ {r}
                 /\ flagged' = flagged \ {r}
                 /\ halfway' = halfway \ {r}
                 /\ UNCHANGED <<installed, file, pc, job, torn, crashes, failures>>

(* A hook runs in a repository which has not the flag, or the user gives a *)
(* command.                                                                *)
StartIn(p, r) ==
  \E kind \in Kinds \cap {"hook", "install", "uninstall"} :
    /\ installed
    /\ r \in repos
    /\ kind = "hook" => r \in wrapped \ flagged
    /\ job' = [job EXCEPT ![p] = [NoJob EXCEPT !.kind = kind, !.repo = {r}]]
    /\ Goto(p, IF kind = "install" THEN "wrap" ELSE "load")

StartGlobal(p) ==
  \E kind \in Kinds \cap {"installer", "uninstaller"} :
    /\ kind = "uninstaller" => installed
    /\ job' = [job EXCEPT ![p] = [NoJob EXCEPT !.kind = kind]]
    /\ Goto(p, "load")

Start(p) == /\ pc[p] = "idle"
            /\ StartGlobal(p) \/ \E r \in Repo : StartIn(p, r)
            /\ UNCHANGED <<onDisk, faults>>

-----------------------------------------------------------------------------
(* `git hooks install`: InstallIntoRepo. *)
Wrap(p) == /\ pc[p] = "wrap"
           /\ wrapped' = wrapped \cup job[p].repo
           /\ halfway' = halfway \ job[p].repo
           /\ Goto(p, "load")
           /\ UNCHANGED <<installed, repos, flagged, file, job, torn, crashes, failures>>

(* Mutant: Load does not filter for existing repositories. *)
LoadedUnfiltered(p) == file

(* RegisterRepos.Load: only `git hooks install` does not filter for        *)
(* existing repositories. *)
Loaded(p) == IF job[p].kind = "install" THEN file ELSE file \cap repos

(* RegisterRepo loads and inserts. *)
LoadInsert(p) == /\ pc[p] = "load"
                 /\ job[p].kind \in {"hook", "install"}
                 /\ job' = [job EXCEPT ![p] = [job[p] EXCEPT !.mem = Loaded(p) \cup job[p].repo]]
                 /\ Goto(p, "truncate")
                 /\ UNCHANGED <<onDisk, faults>>

LoadUninstall(p) == /\ pc[p] = "load"
                    /\ job[p].kind = "uninstall"
                    /\ job' = [job EXCEPT ![p] = [job[p] EXCEPT !.mem = Loaded(p),
                                                            !.todo = job[p].repo]]
                    /\ Goto(p, "unwrap")
                    /\ UNCHANGED <<onDisk, faults>>

(* The installer (which then installs the executables) and the uninstaller *)
(* search for existing repositories below a directory, or do not search.   *)
LoadGlobal(p) ==
  /\ pc[p] = "load"
  /\ job[p].kind \in {"installer", "uninstaller"}
  /\ \E found \in SUBSET repos :
       job' = [job EXCEPT ![p] = [job[p] EXCEPT !.mem = Loaded(p), !.todo = found]]
  /\ installed' = (installed \/ job[p].kind = "installer")
  /\ Goto(p, "existing")
  /\ UNCHANGED <<repos, wrapped, flagged, file, faults>>

Visiting(p, r) == pc[p] \in {"existing", "registered"} /\ r \in job[p].todo

(* The installer's callback: InstallIntoRepo, Insert. *)
InstallInto(p, r) ==
  /\ Visiting(p, r)
  /\ job[p].kind = "installer"
  /\ wrapped' = wrapped \cup {r}
  /\ halfway' = halfway \ {r}
  /\ job' = [job EXCEPT ![p] = [job[p] EXCEPT !.mem = @ \cup {r}, !.todo = @ \ {r},
                                          !.done = @ \cup {r}]]
  /\ UNCHANGED <<installed, repos, flagged, file, pc, torn, crashes, failures>>

(* The repositories `git hooks uninstall` and the uninstaller visit. *)
Uninstalling(p, r) ==
  /\ pc[p] \in {"unwrap", "existing", "registered"}
  /\ job[p].kind # "installer"
  /\ r \in job[p].todo

(* UninstallFromRepo removes the run-wrappers, or logs that this failed ... *)
UninstallFrom(p, r) ==
  /\ Uninstalling(p, r)
  /\ job[p].bare = {}
  /\ \/ wrapped' = wrapped \ {r} /\ UNCHANGED failures
     \/ /\ failures < MaxFailures
        /\ failures' = failures + 1
        /\ UNCHANGED wrapped
  /\ job' = [job EXCEPT ![p] = [job[p] EXCEPT !.bare = {r}]]
  /\ UNCHANGED <<installed, repos, flagged, file, pc, torn, halfway, crashes>>

(* Mutant: the repository is not unregistered. *)
KeepFlag(p, r) == r \in job[p].bare /\ UNCHANGED <<flagged, halfway, failures>>

(* ... and calls unregisterRepo, which unsets the flag or logs a failure.  *)
UnregisterRepo(p, r) ==
  /\ r \in job[p].bare
  /\ \/ /\ flagged' = flagged \ {r}
        /\ halfway' = halfway \ {r}
        /\ UNCHANGED failures
     \/ /\ failures < MaxFailures
        /\ failures' = failures + 1
        /\ halfway' = halfway \cup {r}
        /\ UNCHANGED flagged

(* The command stores the register next, the uninstaller visits on.        *)
AfterVisit(p) == IF pc[p] = "unwrap" THEN Goto(p, "truncate") ELSE UNCHANGED pc

(* Mutant: the repository stays in the register of `git hooks uninstall`. *)
UnregisterWithoutRemove(p, r) ==
  /\ UnregisterRepo(p, r)
  /\ job' = [job EXCEPT ![p] = [job[p] EXCEPT
               !.mem = IF pc[p] = "unwrap" THEN @ ELSE @ \ {r},
               !.todo = @ \ {r}, !.done = @ \cup {r}, !.bare = {}]]
  /\ AfterVisit(p)
  /\ UNCHANGED <<installed, repos, wrapped, file, torn, crashes>>

(* The repository is removed from the register in memory. *)
Unregister(p, r) ==
  /\ UnregisterRepo(p, r)
  /\ job' = [job EXCEPT ![p] = [job[p] EXCEPT !.mem = @ \ {r}, !.todo = @ \ {r},
                                          !.done = @ \cup {r}, !.bare = {}]]
  /\ AfterVisit(p)
  /\ UNCHANGED <<installed, repos, wrapped, file, torn, crashes>>

(* The answers to "install into / uninstall from registered repositories?" *)
Keeps(kind) == IF kind = "installer" THEN BOOLEAN ELSE KeepAnswers

(* PromptRegisteredRepos: the listed repositories that were not visited. *)
AskRegistered(p) ==
  /\ pc[p] = "existing"
  /\ job[p].todo = {}
  /\ \E keep \in Keeps(job[p].kind) :
       job' = [job EXCEPT ![p] = [job[p] EXCEPT !.todo =
                                    IF keep THEN {} ELSE job[p].mem \ job[p].done]]
  /\ Goto(p, "registered")
  /\ UNCHANGED <<onDisk, faults>>

Visited(p) == /\ pc[p] = "registered"
              /\ job[p].todo = {}
              /\ Goto(p, IF job[p].kind = "installer" THEN "truncate" ELSE "clean")
              /\ UNCHANGED <<onDisk, job, faults>>

(* StoreYAML opens the file with O_TRUNC, then writes it.  The installer   *)
(* marks no repository when this succeeds.                                 *)
Truncate(p) == /\ pc[p] = "truncate"
               /\ file' = {}
               /\ Goto(p, "write")
               /\ UNCHANGED <<installed, repos, wrapped, flagged, job, faults>>

(* Mutant: only the repository itself is written. *)
WriteSelf(p) == /\ pc[p] = "write"
                /\ file' = job[p].mem \cap (job[p].repo \cup job[p].done)
                /\ IF job[p].kind \in {"hook", "install"}
                   THEN Goto(p, "mark") /\ UNCHANGED job
                   ELSE Exit(p)
                /\ UNCHANGED <<installed, repos, wrapped, flagged, faults>>

Write(p) == /\ pc[p] = "write"
            /\ file' = job[p].mem
            /\ IF job[p].kind \in {"hook", "install"}
               THEN Goto(p, "mark") /\ UNCHANGED job
               ELSE Exit(p)
            /\ UNCHANGED <<installed, repos, wrapped, flagged, faults>>

(* MarkRepoRegistered. *)
Mark(p) == /\ pc[p] = "mark"
           /\ flagged' = flagged \cup job[p].repo
           /\ Exit(p)
           /\ UNCHANGED <<installed, repos, wrapped, file, faults>>

(* The uninstaller: cleanTemplateDir and cleanBinaries, then cleanRegister. *)
Clean(p) == /\ pc[p] = "clean"
            /\ installed' = FALSE
            /\ Goto(p, "remove")
            /\ UNCHANGED <<repos, wrapped, flagged, file, job, faults>>

CleanRegister(p) == /\ pc[p] = "remove"
                    /\ file' = {}
                    /\ Exit(p)
                    /\ UNCHANGED <<installed, repos, wrapped, flagged, faults>>

-----------------------------------------------------------------------------
(* An operation on the register file fails, or setting the flag.  The hook *)
(* run and `git hooks install` report it and set the flag all the same;    *)
(* storeSettings of the installer marks what it installed exactly when     *)
(* storing has failed; the others end.                                     *)
Fail(p) ==
  /\ pc[p] \in {"load", "truncate", "write", "mark"}
  /\ failures < MaxFailures
  /\ failures' = failures + 1
  /\ torn' = (torn \/ pc[p] = "write")
  /\ IF job[p].kind \in {"hook", "install"} /\ pc[p] # "mark"
     THEN Goto(p, "mark") /\ UNCHANGED job
     ELSE Exit(p)
  /\ flagged' = IF job[p].kind = "installer" /\ pc[p] # "load"
                THEN flagged \cup job[p].done ELSE flagged
  /\ UNCHANGED <<installed, repos, wrapped, file, halfway, crashes>>

(* The process is killed. *)
Crash(p) == /\ pc[p] # "idle"
            /\ crashes < MaxCrashes
            /\ crashes' = crashes + 1
            /\ torn' = (torn \/ pc[p] = "write")
            /\ halfway' = halfway \cup job[p].bare
            /\ Exit(p)
            /\ UNCHANGED <<onDisk, failures>>

InRepo(p) == Wrap(p) \/ LoadInsert(p) \/ LoadUninstall(p) \/ Mark(p)

Global(p) == \/ LoadGlobal(p) \/ AskRegistered(p) \/ Visited(p) \/ Clean(p)
             \/ CleanRegister(p)
             \/ \E r \in Repo : InstallInto(p, r)

Uninstall(p) == \E r \in Repo : UninstallFrom(p, r) \/ Unregister(p, r)

Store(p) == Truncate(p) \/ Write(p)

Next == \/ \E r \in Repo : CloneRepo(r) \/ DeleteRepo(r)
        \/ \E p \in Proc : \/ Start(p) \/ InRepo(p) \/ Global(p) \/ Uninstall(p)
                           \/ Store(p) \/ Fail(p) \/ Crash(p)

Spec == Init /\ [][Next]_vars
-----------------------------------------------------------------------------
(* Properties. *)

(* The shapes of the variables; what has wrappers or a flag exists. *)
TypeOK == /\ installed \in BOOLEAN
          /\ repos \subseteq Repo
          /\ wrapped \subseteq repos
          /\ flagged \subseteq repos
          /\ file \subseteq Repo
          /\ pc \in [Proc -> Steps]
          /\ job \in [Proc -> JobType]
          /\ torn \in BOOLEAN
          /\ halfway \subseteq repos
          /\ crashes \in 0 .. MaxCrashes
          /\ failures \in 0 .. MaxFailures

(* A repository with the flag is listed: otherwise no hook run registers   *)
(* it again and no later update or uninstallation reaches it.  Killed      *)
(* processes do no harm unless they had just truncated the file.           *)
FlaggedIsListed == Quiet /\ failures = 0 /\ ~torn => flagged \subseteq file

(* What is listed has run-wrappers: `git hooks uninstall` is not undone by *)
(* the next update, which installs into what is listed.                    *)
ListedIsWrapped ==
  Quiet /\ failures = 0 /\ crashes = 0 => file \cap repos \subseteq wrapped

(* A repository without run-wrappers has no flag, so that it is registered *)
(* when Githooks comes back; also after faults, unless its uninstallation  *)
(* ended or failed between UninstallRunWrappers and unregisterRepo.  The   *)
(* next installation, update or uninstallation which visits it repairs it. *)
FlaggedIsWrapped == Quiet => flagged \subseteq wrapped \cup halfway
=============================================================================
