-------------------------- MODULE RepoRegister_proofs --------------------------
(***************************************************************************)
(* Proofs about RepoRegister for any number of repositories and faults:    *)
(* the types for any number of processes, the agreement of register, flags *)
(* and run-wrappers for commands given one after the other.                *)
(***************************************************************************)
EXTENDS RepoRegister, TLAPS

USE RegisterAssumption DEF RegisterAssumption, AllKinds

InRepoKinds == {"hook", "install"}
GlobalKinds == {"installer", "uninstaller"}

\* Which commands reach a step, and that what a process works on exists.
JobOK(step, j) ==
  /\ step = "idle" => j = NoJob
  /\ step = "wrap" => j.kind = "install"
  /\ step \in {"wrap", "load"} => j.done = {}
  /\ step = "unwrap" => j.kind = "uninstall"
  /\ j.bare # {} => /\ step \in {"unwrap", "existing", "registered"}
                    /\ j.kind # "installer"
  /\ step \in {"existing", "registered"} => j.kind \in GlobalKinds
  /\ step \in {"clean", "remove"} => j.kind = "uninstaller"
  /\ step \in {"truncate", "write"} => j.kind # "uninstaller"
  /\ step = "mark" => j.kind \in InRepoKinds
  /\ j.repo \subseteq repos /\ j.todo \subseteq repos /\ j.done \subseteq repos
  /\ j.bare \subseteq j.todo /\ \A r \in j.bare : j.bare = {r}
  /\ j.kind \in GlobalKinds => j.mem \subseteq repos

JobsOK == /\ pc \in [Proc -> Steps]
          /\ job \in [Proc -> JobType]
          /\ \A p \in Proc : JobOK(pc[p], job[p])

DiskOK == /\ installed \in BOOLEAN
          /\ repos \subseteq Repo
          /\ wrapped \subseteq repos
          /\ flagged \subseteq repos
          /\ file \subseteq Repo
          /\ halfway \subseteq repos

CountsOK == /\ torn \in BOOLEAN
            /\ crashes \in 0 .. MaxCrashes
            /\ failures \in 0 .. MaxFailures

TypeInv == JobsOK /\ DiskOK /\ CountsOK

LEMMA TypeParts == TypeInv => TypeOK
BY DEF TypeInv, JobsOK, DiskOK, CountsOK, TypeOK

LEMMA NoJobType == NoJob \in JobType /\ JobOK("idle", NoJob)
BY DEF NoJob, JobType, JobOK, GlobalKinds

LEMMA InitType == Init => TypeInv
<1> SUFFICES ASSUME Init PROVE TypeInv
  OBVIOUS
<1>1. JobOK("idle", NoJob) /\ NoJob \in JobType /\ "idle" \in Steps
  BY NoJobType DEF Steps
<1>2. JobsOK
  BY <1>1 DEF Init, JobsOK
<1>3. DiskOK
  BY DEF Init, DiskOK
<1>4. crashes \in 0 .. MaxCrashes /\ failures \in 0 .. MaxFailures
  BY DEF Init
<1>5. CountsOK
  BY <1>4 DEF Init, CountsOK
<1> QED
  BY <1>2, <1>3, <1>5 DEF TypeInv

-------------------------------------------------------------------------------
\* A process gets a job and a step.
LEMMA OneJob ==
  ASSUME JobsOK, NEW p \in Proc, NEW j \in JobType, NEW step \in Steps,
         job' = [job EXCEPT ![p] = j], pc' = [pc EXCEPT ![p] = step],
         repos' = repos, JobOK(step, j)
  PROVE  JobsOK'
<1>1. pc' \in [Proc -> Steps] /\ job' \in [Proc -> JobType]
  BY DEF JobsOK
<1>2. ASSUME NEW q \in Proc
      PROVE  JobOK(pc[q], job[q])'
  <2>1. CASE q = p
    BY <2>1 DEF JobsOK, JobOK
  <2>2. CASE q # p
    BY <2>2 DEF JobsOK, JobOK
  <2> QED
    BY <2>1, <2>2
<1> QED
  BY <1>1, <1>2 DEF JobsOK

LEMMA JobFacts ==
  ASSUME JobsOK, NEW p \in Proc
  PROVE  /\ job[p] \in JobType
         /\ pc[p] \in Steps
         /\ JobOK(pc[p], job[p])
         /\ job = [job EXCEPT ![p] = job[p]]
BY DEF JobsOK

LEMMA StartJobs ==
  ASSUME JobsOK, DiskOK, NEW p \in Proc, Start(p)
  PROVE  JobsOK'
<1>0. repos' = repos
  BY DEF Start, onDisk
<1>1. ASSUME StartGlobal(p)
      PROVE  JobsOK'
  <2>1. PICK kind \in Kinds \cap GlobalKinds :
               /\ job' = [job EXCEPT ![p] = [NoJob EXCEPT !.kind = kind]]
               /\ pc' = [pc EXCEPT ![p] = "load"]
    BY <1>1 DEF StartGlobal, Goto, GlobalKinds
  <2>2. [NoJob EXCEPT !.kind = kind] \in JobType
    BY DEF NoJob, JobType
  <2>3. "load" \in Steps /\ JobOK("load", [NoJob EXCEPT !.kind = kind])
    BY DEF Steps, JobOK, NoJob
  <2> QED
    BY <1>0, <2>1, <2>2, <2>3, OneJob
<1>2. ASSUME NEW r \in Repo, StartIn(p, r)
      PROVE  JobsOK'
  <2>1. PICK kind \in Kinds \cap {"hook", "install", "uninstall"} :
               /\ r \in repos
               /\ job' = [job EXCEPT ![p] = [NoJob EXCEPT !.kind = kind, !.repo = {r}]]
               /\ pc' = [pc EXCEPT ![p] = IF kind = "install" THEN "wrap" ELSE "load"]
    BY <1>2 DEF StartIn, Goto
  <2> DEFINE j == [NoJob EXCEPT !.kind = kind, !.repo = {r}]
             step == IF kind = "install" THEN "wrap" ELSE "load"
  <2>2. j \in JobType
    BY <2>1 DEF NoJob, JobType
  <2>3. step \in Steps /\ JobOK(step, j)
    BY <2>1 DEF Steps, JobOK, NoJob, GlobalKinds
  <2> HIDE DEF j, step
  <2> QED
    BY <1>0, <2>1, <2>2, <2>3, OneJob DEF j, step
<1> QED
  BY <1>1, <1>2 DEF Start

LEMMA ExitJobs ==
  ASSUME JobsOK, NEW p \in Proc, Exit(p), repos' = repos
  PROVE  JobsOK'
<1>1. "idle" \in Steps
  BY DEF Steps
<1> QED
  BY <1>1, NoJobType, OneJob DEF Exit, Goto

\* The job remains, its process goes on.
LEMMA GotoJobs ==
  ASSUME JobsOK, NEW p \in Proc, NEW step \in Steps, Goto(p, step), job' = job,
         repos' = repos, JobOK(step, job[p])
  PROVE  JobsOK'
BY JobFacts, OneJob DEF Goto


LEMMA InRepoJobs ==
  ASSUME JobsOK, DiskOK, NEW p \in Proc, InRepo(p)
  PROVE  JobsOK'
<1>0. job[p] \in JobType /\ JobOK(pc[p], job[p]) /\ pc[p] \in Steps
  BY JobFacts
<1>1. CASE Wrap(p)
  <2>1. repos' = repos /\ Goto(p, "load") /\ job' = job
    BY <1>1 DEF Wrap
  <2>2. "load" \in Steps /\ JobOK("load", job[p])
    BY <1>0, <1>1 DEF Steps, JobOK, Wrap
  <2> QED
    BY <2>1, <2>2, GotoJobs
<1>2. CASE LoadInsert(p)
  <2> DEFINE j == [job[p] EXCEPT !.mem = Loaded(p) \cup job[p].repo]
  <2>1. repos' = repos /\ Goto(p, "truncate") /\ job' = [job EXCEPT ![p] = j]
    BY <1>2 DEF LoadInsert, onDisk
  <2>2. j \in JobType
    BY <1>0 DEF JobType, Loaded, DiskOK
  <2>3. "truncate" \in Steps /\ JobOK("truncate", j)
    BY <1>0, <1>2 DEF Steps, JobOK, JobType, LoadInsert, GlobalKinds
  <2> HIDE DEF j
  <2> QED
    BY <2>1, <2>2, <2>3, OneJob DEF Goto
<1>3. CASE LoadUninstall(p)
  <2> DEFINE j == [job[p] EXCEPT !.mem = Loaded(p), !.todo = job[p].repo]
  <2>1. repos' = repos /\ Goto(p, "unwrap") /\ job' = [job EXCEPT ![p] = j]
    BY <1>3 DEF LoadUninstall, onDisk
  <2>2. j \in JobType
    BY <1>0 DEF JobType, Loaded, DiskOK
  <2>3. "unwrap" \in Steps /\ JobOK("unwrap", j)
    BY <1>0, <1>3 DEF Steps, JobOK, JobType, LoadUninstall, GlobalKinds
  <2> HIDE DEF j
  <2> QED
    BY <2>1, <2>2, <2>3, OneJob DEF Goto
<1>5. CASE Mark(p)
  BY <1>5, ExitJobs DEF Mark
<1> QED
  BY <1>1, <1>2, <1>3, <1>5 DEF InRepo

LEMMA GlobalJobs ==
  ASSUME JobsOK, DiskOK, NEW p \in Proc, Global(p)
  PROVE  JobsOK'
<1>0. job[p] \in JobType /\ JobOK(pc[p], job[p]) /\ pc[p] \in Steps
  BY JobFacts
<1>1. CASE LoadGlobal(p)
  <2>1. PICK found \in SUBSET repos :
          job' = [job EXCEPT ![p] = [job[p] EXCEPT !.mem = Loaded(p), !.todo = found]]
    BY <1>1 DEF LoadGlobal
  <2> DEFINE j == [job[p] EXCEPT !.mem = Loaded(p), !.todo = found]
  <2>2. j \in JobType
    BY <1>0 DEF JobType, Loaded, DiskOK
  <2>3. "existing" \in Steps /\ JobOK("existing", j)
    BY <1>0, <1>1 DEF Steps, JobOK, JobType, Loaded, LoadGlobal, GlobalKinds
  <2> HIDE DEF j
  <2> QED
    BY <1>1, <2>1, <2>2, <2>3, OneJob DEF LoadGlobal, Goto, j
<1>2. CASE AskRegistered(p)
  <2>1. PICK keep \in Keeps(job[p].kind) :
          job' = [job EXCEPT ![p] = [job[p] EXCEPT !.todo =
                                      IF keep THEN {} ELSE job[p].mem \ job[p].done]]
    BY <1>2 DEF AskRegistered
  <2> DEFINE j == [job[p] EXCEPT !.todo = IF keep THEN {} ELSE job[p].mem \ job[p].done]
  <2>2. j \in JobType
    BY <1>0 DEF JobType
  <2>3. "registered" \in Steps /\ JobOK("registered", j)
    BY <1>0, <1>2 DEF Steps, JobOK, JobType, AskRegistered, GlobalKinds
  <2> HIDE DEF j
  <2> QED
    BY <1>2, <2>1, <2>2, <2>3, OneJob DEF AskRegistered, Goto, onDisk, j
<1>3. CASE Visited(p)
  <2> DEFINE step == IF job[p].kind = "installer" THEN "truncate" ELSE "clean"
  <2>1. repos' = repos /\ Goto(p, step) /\ job' = job
    BY <1>3 DEF Visited, onDisk
  <2>2. step \in Steps /\ JobOK(step, job[p])
    BY <1>0, <1>3 DEF Steps, JobOK, Visited, GlobalKinds
  <2> HIDE DEF step
  <2> QED
    BY <2>1, <2>2, GotoJobs
<1>4. CASE Clean(p)
  <2>1. repos' = repos /\ Goto(p, "remove") /\ job' = job
    BY <1>4 DEF Clean
  <2>2. "remove" \in Steps /\ JobOK("remove", job[p])
    BY <1>0, <1>4 DEF Steps, JobOK, Clean
  <2> QED
    BY <2>1, <2>2, GotoJobs
<1>5. CASE CleanRegister(p)
  BY <1>5, ExitJobs DEF CleanRegister
<1>6. ASSUME NEW r \in Repo, InstallInto(p, r)
      PROVE  JobsOK'
  <2> DEFINE j == [job[p] EXCEPT !.mem = @ \cup {r}, !.todo = @ \ {r}, !.done = @ \cup {r}]
  <2>1. /\ repos' = repos /\ pc' = [pc EXCEPT ![p] = pc[p]]
        /\ job' = [job EXCEPT ![p] = j]
    BY <1>6 DEF InstallInto, JobsOK
  <2>2. j \in JobType
    BY <1>0 DEF JobType
  <2>3. JobOK(pc[p], j)
    BY <1>0, <1>6 DEF JobOK, JobType, InstallInto, Visiting
  <2> HIDE DEF j
  <2> QED
    BY <1>0, <2>1, <2>2, <2>3, OneJob
<1> QED
  BY <1>1, <1>2, <1>3, <1>4, <1>5, <1>6 DEF Global

LEMMA UninstallJobs ==
  ASSUME JobsOK, DiskOK, NEW p \in Proc, Uninstall(p)
  PROVE  JobsOK'
<1>0. job[p] \in JobType /\ JobOK(pc[p], job[p]) /\ pc[p] \in Steps
  BY JobFacts
<1>1. ASSUME NEW r \in Repo, UninstallFrom(p, r)
      PROVE  JobsOK'
  <2> DEFINE j == [job[p] EXCEPT !.bare = {r}]
  <2>1. /\ repos' = repos /\ pc' = [pc EXCEPT ![p] = pc[p]]
        /\ job' = [job EXCEPT ![p] = j]
    BY <1>1 DEF UninstallFrom, JobsOK
  <2>2. j \in JobType
    BY <1>0 DEF JobType
  <2>3. JobOK(pc[p], j)
    BY <1>0, <1>1 DEF JobOK, JobType, UninstallFrom, Uninstalling
  <2> HIDE DEF j
  <2> QED
    BY <1>0, <2>1, <2>2, <2>3, OneJob
<1>2. ASSUME NEW r \in Repo, Unregister(p, r)
      PROVE  JobsOK'
  <2> DEFINE j == [job[p] EXCEPT !.mem = @ \ {r}, !.todo = @ \ {r}, !.done = @ \cup {r},
                                 !.bare = {}]
             step == IF pc[p] = "unwrap" THEN "truncate" ELSE pc[p]
  <2>1. /\ repos' = repos /\ pc' = [pc EXCEPT ![p] = step]
        /\ job' = [job EXCEPT ![p] = j]
    BY <1>2 DEF Unregister, AfterVisit, Goto, JobsOK
  <2>2. j \in JobType
    BY <1>0 DEF JobType
  <2>3. r \in job[p].bare
    BY <1>2 DEF Unregister, UnregisterRepo
  <2>4. step \in Steps /\ JobOK(step, j)
    BY <1>0, <2>3 DEF JobOK, JobType, Steps
  <2> HIDE DEF j, step
  <2> QED
    BY <2>1, <2>2, <2>4, OneJob
<1> QED
  BY <1>1, <1>2 DEF Uninstall

LEMMA StoreJobs ==
  ASSUME JobsOK, NEW p \in Proc, Store(p) \/ Fail(p) \/ Crash(p)
  PROVE  JobsOK'
<1>0. job[p] \in JobType /\ JobOK(pc[p], job[p]) /\ pc[p] \in Steps
  BY JobFacts
<1>1. repos' = repos
  BY DEF Store, Truncate, Write, Fail, Crash, onDisk
<1>2. CASE Goto(p, "write") /\ job' = job /\ pc[p] = "truncate"
  <2>1. "write" \in Steps /\ JobOK("write", job[p])
    BY <1>0, <1>2 DEF Steps, JobOK
  <2> QED
    BY <1>1, <1>2, <2>1, GotoJobs
<1>3. CASE /\ pc[p] \in {"load", "write", "truncate"} /\ job[p].kind \in InRepoKinds
           /\ Goto(p, "mark") /\ job' = job
  <2>1. "mark" \in Steps /\ JobOK("mark", job[p])
    BY <1>0, <1>3 DEF Steps, JobOK
  <2> QED
    BY <1>1, <1>3, <2>1, GotoJobs
<1>4. CASE Exit(p)
  BY <1>1, <1>4, ExitJobs
<1> QED
  BY <1>2, <1>3, <1>4 DEF Store, Truncate, Write, Fail, Crash, InRepoKinds

LEMMA UserJobs ==
  ASSUME JobsOK, NEW r \in Repo, CloneRepo(r) \/ DeleteRepo(r)
  PROVE  JobsOK'
<1>1. pc' = pc /\ job' = job
  BY DEF CloneRepo, DeleteRepo
<1>2. CASE CloneRepo(r)
  <2>1. repos \subseteq repos'
    BY <1>2 DEF CloneRepo
  <2> QED
    BY <1>1, <2>1 DEF JobsOK, JobOK
<1>3. CASE DeleteRepo(r)
  <2>1. \A p \in Proc : pc[p] = "idle" /\ job[p] = NoJob
    BY <1>3 DEF DeleteRepo, Quiet, JobsOK, JobOK
  <2>2. JobOK("idle", NoJob)'
    BY DEF JobOK, NoJob, GlobalKinds
  <2> QED
    BY <1>1, <2>1, <2>2 DEF JobsOK
<1> QED
  BY <1>2, <1>3

LEMMA NextJobs == JobsOK /\ DiskOK /\ [Next]_vars => JobsOK'
<1> SUFFICES ASSUME JobsOK, DiskOK, [Next]_vars PROVE JobsOK'
  OBVIOUS
<1>1. CASE UNCHANGED vars
  BY <1>1 DEF vars, onDisk, JobsOK, JobOK
<1> QED
  BY <1>1, UserJobs, StartJobs, InRepoJobs, GlobalJobs, UninstallJobs, StoreJobs DEF Next

-------------------------------------------------------------------------------
\* Registers, flags and run-wrappers name existing repositories only.
LEMMA NextDisk == JobsOK /\ DiskOK /\ [Next]_vars => DiskOK'
<1> SUFFICES ASSUME JobsOK, DiskOK, [Next]_vars PROVE DiskOK'
  OBVIOUS
<1>1. CASE UNCHANGED vars
  BY <1>1 DEF vars, onDisk, faults, DiskOK
<1>2. ASSUME NEW r \in Repo, CloneRepo(r) \/ DeleteRepo(r)
      PROVE  DiskOK'
  BY <1>2 DEF CloneRepo, DeleteRepo, faults, DiskOK
<1>3. ASSUME NEW p \in Proc, \/ Start(p) \/ InRepo(p) \/ Global(p) \/ Uninstall(p)
                             \/ Store(p) \/ Fail(p) \/ Crash(p)
      PROVE  DiskOK'
  <2>0. job[p] \in JobType /\ JobOK(pc[p], job[p])
    BY JobFacts
  <2>1. CASE Start(p) \/ Crash(p)
    BY <2>0, <2>1 DEF Start, Crash, onDisk, faults, DiskOK, JobOK
  <2>2. CASE InRepo(p)
    BY <2>0, <2>2 DEF InRepo, Wrap, LoadInsert, LoadUninstall, Mark, onDisk, faults,
                      DiskOK, JobOK, JobType
  <2>3. CASE Global(p)
    <3>1. CASE LoadGlobal(p) \/ Clean(p)
      <4>1. installed' \in BOOLEAN
        BY <3>1 DEF LoadGlobal, Clean, DiskOK
      <4> QED
        BY <3>1, <4>1 DEF LoadGlobal, Clean, faults, DiskOK
    <3>2. CASE AskRegistered(p) \/ Visited(p) \/ CleanRegister(p)
      BY <3>2 DEF AskRegistered, Visited, CleanRegister, onDisk, faults, DiskOK
    <3>3. ASSUME NEW r \in Repo, InstallInto(p, r)
          PROVE  DiskOK'
      BY <2>0, <3>3 DEF InstallInto, Visiting, DiskOK, JobOK
    <3> QED
      BY <2>3, <3>1, <3>2, <3>3 DEF Global
  <2>4. CASE Store(p)
    BY <2>0, <2>4 DEF Store, Truncate, Write, faults, DiskOK, JobType
  <2>5. CASE Fail(p)
    BY <2>0, <2>5 DEF Fail, DiskOK, JobOK
  <2>6. CASE Uninstall(p)
    <3>1. ASSUME NEW r \in Repo, UninstallFrom(p, r)
          PROVE  DiskOK'
      BY <3>1 DEF UninstallFrom, DiskOK
    <3>2. ASSUME NEW r \in Repo, Unregister(p, r)
          PROVE  DiskOK'
      BY <2>0, <3>2 DEF Unregister, UnregisterRepo, DiskOK, JobOK
    <3> QED
      BY <2>6, <3>1, <3>2 DEF Uninstall
  <2> QED
    BY <1>3, <2>1, <2>2, <2>3, <2>4, <2>5, <2>6
<1> QED
  BY <1>1, <1>2, <1>3 DEF Next

LEMMA NextCounts == CountsOK /\ [Next]_vars => CountsOK'
<1> SUFFICES ASSUME CountsOK, [Next]_vars PROVE CountsOK'
  OBVIOUS
<1>1. CASE UNCHANGED <<torn, crashes, failures>>
  BY <1>1 DEF CountsOK
<1>2. ASSUME NEW p \in Proc, Fail(p) \/ Crash(p)
      PROVE  CountsOK'
  <2>1. crashes' \in 0 .. MaxCrashes /\ failures' \in 0 .. MaxFailures
    BY <1>2 DEF CountsOK, Fail, Crash
  <2>2. torn' \in BOOLEAN
    BY <1>2 DEF CountsOK, Fail, Crash
  <2> QED
    BY <2>1, <2>2 DEF CountsOK
<1>3. ASSUME NEW p \in Proc, Uninstall(p)
      PROVE  CountsOK'
  <2>1. /\ UNCHANGED <<torn, crashes>>
        /\ UNCHANGED failures \/ (failures < MaxFailures /\ failures' = failures + 1)
    BY <1>3 DEF Uninstall, UninstallFrom, Unregister, UnregisterRepo
  <2> QED
    BY <2>1 DEF CountsOK
<1>4. ASSUME NEW p \in Proc, Start(p) \/ InRepo(p) \/ Global(p) \/ Store(p)
      PROVE  UNCHANGED <<torn, crashes, failures>>
  BY <1>4 DEF Start, InRepo, Wrap, LoadInsert, LoadUninstall, Mark, Global,
              LoadGlobal, AskRegistered, Visited, Clean, CleanRegister, InstallInto,
              Store, Truncate, Write, faults
<1>5. ASSUME NEW r \in Repo, CloneRepo(r) \/ DeleteRepo(r)
      PROVE  UNCHANGED <<torn, crashes, failures>>
  BY <1>5 DEF CloneRepo, DeleteRepo, faults
<1> QED
  BY <1>1, <1>2, <1>3, <1>4, <1>5 DEF Next, vars, faults

LEMMA NextType == TypeInv /\ [Next]_vars => TypeInv'
BY NextJobs, NextDisk, NextCounts DEF TypeInv

-------------------------------------------------------------------------------
\* One command at a time.
Serial == \A p, q \in Proc : p = q

\* While nothing failed in between: what is flagged is in the file, or in the
\* register that is about to be written.
FlagAt(step, j) ==
  /\ step # "write" => flagged \subseteq file
  /\ step \in {"unwrap", "existing", "registered", "truncate", "write"} =>
       flagged \subseteq j.mem
  /\ step \in {"truncate", "write"} /\ j.kind \in InRepoKinds => j.repo \subseteq j.mem
  /\ step = "mark" => j.repo \subseteq file
  /\ step = "existing" /\ j.kind = "uninstaller" => j.mem \cap j.done = {}
  /\ step = "registered" /\ j.kind = "uninstaller" => j.mem \subseteq j.todo
  /\ step \in {"clean", "remove"} => flagged = {}

FlagInv == failures = 0 /\ ~torn => \A p \in Proc : FlagAt(pc[p], job[p])

\* What will be flagged, or marked after a failure, has run-wrappers, and so has
\* what is flagged, but in the middle of its uninstallation.
WrapAt(step, j) ==
  /\ j.kind = "hook" => j.repo \subseteq wrapped
  /\ j.kind = "install" /\ step # "wrap" => j.repo \subseteq wrapped
  /\ j.kind = "installer" => j.done \subseteq wrapped
  /\ flagged \subseteq wrapped \cup halfway \cup j.bare

WrapInv == \A p \in Proc : WrapAt(pc[p], job[p])

\* While nothing failed or was killed: what is in the file, or will be, has
\* run-wrappers, unless Githooks is gone and the file with it.
ListAt(step, j) ==
  /\ step \in {"idle", "wrap", "load", "mark"} => file \cap repos \subseteq wrapped
  /\ step \in {"unwrap", "existing", "registered", "truncate", "write"} =>
       (j.mem \ j.bare) \cap repos \subseteq wrapped
  /\ ~installed => \/ step = "remove"
                   \/ step = "idle" /\ file = {}
                   \/ step = "load" /\ file = {} /\ j.kind = "installer"

ListInv == failures = 0 /\ crashes = 0 => \A p \in Proc : ListAt(pc[p], job[p])

LEMMA InitFlag == Init => FlagInv
BY DEF Init, FlagInv, FlagAt

LEMMA InitList == Init => ListInv
BY DEF Init, ListInv, ListAt

LEMMA InitWrap == Init => WrapInv
<1> SUFFICES ASSUME Init, NEW p \in Proc PROVE WrapAt(pc[p], job[p])
  BY DEF WrapInv
<1>1. job[p] = NoJob /\ flagged = {}
  BY DEF Init
<1> QED
  BY <1>1 DEF WrapAt, NoJob

\* One step at a time, too: it concerns one process.
LEMMA Only ==
  ASSUME Serial, NEW p \in Proc
  PROVE  /\ FlagAt(pc[p], job[p])' => FlagInv'
         /\ ListAt(pc[p], job[p])' => ListInv'
         /\ WrapAt(pc[p], job[p])' => WrapInv'
BY DEF Serial, FlagInv, ListInv, WrapInv

\* What a step of p leaves in pc[p] and job[p].
LEMMA Here ==
  ASSUME JobsOK, NEW p \in Proc
  PROVE  /\ \A step : Goto(p, step) => pc'[p] = step
         /\ \A j : job' = [job EXCEPT ![p] = j] => job'[p] = j
         /\ Exit(p) => pc'[p] = "idle" /\ job'[p] = NoJob
BY DEF JobsOK, Goto, Exit

LEMMA UserSteps ==
  ASSUME JobsOK, DiskOK, NEW r \in Repo, CloneRepo(r) \/ DeleteRepo(r)
  PROVE  /\ FlagInv => FlagInv'
         /\ WrapInv => WrapInv'
         /\ ListInv => ListInv'
<1>1. CASE CloneRepo(r)
  <2>1. FlagInv => FlagInv'
    BY <1>1 DEF CloneRepo, faults, FlagInv, FlagAt
  <2>2. WrapInv => WrapInv'
    BY <1>1 DEF CloneRepo, faults, WrapInv, WrapAt
  <2>3. ASSUME NEW p \in Proc, ListAt(pc[p], job[p])
        PROVE  ListAt(pc[p], job[p])'
    <3>1. CASE installed
      BY <1>1, <2>3, <3>1 DEF CloneRepo, ListAt
    <3>2. CASE ~installed
      BY <1>1, <2>3, <3>2 DEF CloneRepo, ListAt
    <3> QED
      BY <3>1, <3>2
  <2>4. ListInv => ListInv'
    BY <1>1, <2>3 DEF CloneRepo, faults, ListInv
  <2> QED
    BY <2>1, <2>2, <2>4
<1>2. CASE DeleteRepo(r)
  <2>1. \A p \in Proc : pc[p] = "idle" /\ job[p] = NoJob
    BY <1>2 DEF DeleteRepo, Quiet, JobsOK, JobOK
  <2>2. UNCHANGED <<file, pc, job, torn, crashes, failures>> /\ flagged' = flagged \ {r}
        /\ halfway' = halfway \ {r}
        /\ wrapped' = wrapped \ {r} /\ repos' = repos \ {r} /\ installed' = installed
    BY <1>2 DEF DeleteRepo
  <2>3. FlagInv => FlagInv'
    BY <2>1, <2>2 DEF faults, FlagInv, FlagAt
  <2>4. WrapInv => WrapInv'
    BY <2>1, <2>2 DEF WrapInv, WrapAt, NoJob
  <2>5. ListInv => ListInv'
    BY <2>1, <2>2 DEF faults, ListInv, ListAt
  <2> QED
    BY <2>3, <2>4, <2>5
<1> QED
  BY <1>1, <1>2

LEMMA FlagStep ==
  ASSUME JobsOK, DiskOK, CountsOK, Serial, TRUE \notin KeepAnswers, FlagInv,
         NEW p \in Proc, failures' = 0, ~torn',
         \/ Start(p) \/ InRepo(p) \/ Global(p) \/ Uninstall(p)
         \/ Store(p) \/ Fail(p) \/ Crash(p)
  PROVE  FlagAt(pc[p], job[p])'
<1>0. job[p] \in JobType /\ JobOK(pc[p], job[p])
  BY JobFacts
<1>a. FlagAt(pc[p], job[p])
  <2>1. CASE Start(p) \/ InRepo(p) \/ Global(p) \/ Store(p)
    BY <2>1 DEF Start, InRepo, Wrap, LoadInsert, LoadUninstall, Mark, Global,
                LoadGlobal, AskRegistered, Visited, Clean, CleanRegister, InstallInto,
                Store, Truncate, Write, faults, FlagInv
  <2>2. CASE Fail(p)
    BY <2>2 DEF Fail, CountsOK
  <2>3. CASE Crash(p)
    BY <2>3 DEF Crash, FlagInv
  <2>4. CASE Uninstall(p)
    <3>1. torn' = torn /\ (failures' = failures \/ failures' = failures + 1)
      BY <2>4 DEF Uninstall, UninstallFrom, Unregister, UnregisterRepo
    <3> QED
      BY <3>1 DEF CountsOK, FlagInv
  <2> QED
    BY <2>1, <2>2, <2>3, <2>4
<1>b. pc[p] = "load" => job[p].done = {}
  BY <1>0 DEF JobOK
<1>1. CASE Start(p)
  <2>1. pc'[p] \in {"wrap", "load"} /\ UNCHANGED <<file, flagged>> /\ pc[p] = "idle"
    BY <1>1, Here DEF Start, StartGlobal, StartIn, onDisk
  <2> QED
    BY <1>a, <2>1 DEF FlagAt
<1>2. CASE InRepo(p)
  <2>1. CASE Wrap(p)
    BY <1>a, <2>1, Here DEF Wrap, FlagAt
  <2>2. CASE LoadInsert(p)
    <3>1. /\ job'[p] = [job[p] EXCEPT !.mem = Loaded(p) \cup job[p].repo]
          /\ pc'[p] = "truncate" /\ UNCHANGED <<file, flagged>>
      BY <2>2, Here DEF LoadInsert, onDisk
    <3>2. flagged \subseteq Loaded(p)
      BY <1>a, <2>2 DEF LoadInsert, Loaded, FlagAt, DiskOK
    <3> QED
      BY <1>0, <1>a, <2>2, <3>1, <3>2 DEF LoadInsert, FlagAt, JobType
  <2>3. CASE LoadUninstall(p)
    <3>1. /\ job'[p] = [job[p] EXCEPT !.mem = Loaded(p), !.todo = job[p].repo]
          /\ pc'[p] = "unwrap" /\ UNCHANGED <<file, flagged>>
      BY <2>3, Here DEF LoadUninstall, onDisk
    <3>2. flagged \subseteq Loaded(p) /\ flagged \subseteq file
      BY <1>a, <2>3 DEF LoadUninstall, Loaded, FlagAt, DiskOK
    <3>3. job'[p].mem = Loaded(p)
      BY <1>0, <3>1 DEF JobType
    <3> QED
      BY <3>1, <3>2, <3>3 DEF FlagAt
  <2>5. CASE Mark(p)
    BY <1>0, <1>a, <2>5, Here DEF Mark, FlagAt
  <2> QED
    BY <1>2, <2>1, <2>2, <2>3, <2>5 DEF InRepo
<1>3. CASE Global(p)
  <2>1. CASE LoadGlobal(p)
    <3>1. /\ job'[p].mem = Loaded(p) /\ job'[p].done = job[p].done
          /\ pc'[p] = "existing" /\ UNCHANGED <<file, flagged>>
      <4>1. PICK found \in SUBSET repos :
              job' = [job EXCEPT ![p] = [job[p] EXCEPT !.mem = Loaded(p), !.todo = found]]
        BY <2>1 DEF LoadGlobal
      <4>2. job'[p] = [job[p] EXCEPT !.mem = Loaded(p), !.todo = found]
        BY <4>1, Here
      <4> QED
        BY <1>0, <2>1, <4>2, Here DEF LoadGlobal, JobType
    <3>2. flagged \subseteq Loaded(p)
      BY <1>a, <2>1 DEF LoadGlobal, Loaded, FlagAt, DiskOK
    <3>3. job[p].done = {}
      BY <1>b, <2>1 DEF LoadGlobal
    <3> QED
      BY <1>a, <2>1, <3>1, <3>2, <3>3 DEF LoadGlobal, FlagAt
  <2>2. CASE AskRegistered(p)
    <3>1. PICK keep \in Keeps(job[p].kind) :
            job' = [job EXCEPT ![p] = [job[p] EXCEPT !.todo =
                                        IF keep THEN {} ELSE job[p].mem \ job[p].done]]
      BY <2>2 DEF AskRegistered
    <3>2. /\ job'[p] = [job[p] EXCEPT !.todo =
                          IF keep THEN {} ELSE job[p].mem \ job[p].done]
          /\ pc'[p] = "registered" /\ UNCHANGED <<file, flagged>> /\ pc[p] = "existing"
      BY <2>2, <3>1, Here DEF AskRegistered, onDisk
    <3>3. job[p].kind = "uninstaller" => keep = FALSE
      BY <3>1 DEF Keeps
    <3> QED
      BY <1>0, <1>a, <3>2, <3>3 DEF FlagAt, JobType
  <2>3. CASE Visited(p)
    BY <1>0, <1>a, <2>3, Here DEF Visited, onDisk, FlagAt, JobOK, GlobalKinds, InRepoKinds
  <2>4. CASE Clean(p) \/ CleanRegister(p)
    BY <1>0, <1>a, <2>4, Here DEF Clean, CleanRegister, FlagAt
  <2>5. ASSUME NEW r \in Repo, InstallInto(p, r)
        PROVE  FlagAt(pc[p], job[p])'
    BY <1>0, <1>a, <2>5, Here DEF InstallInto, Visiting, FlagAt, JobType
  <2> QED
    BY <1>3, <2>1, <2>2, <2>3, <2>4, <2>5 DEF Global
<1>4. CASE Store(p)
  BY <1>0, <1>a, <1>4, Here DEF Store, Truncate, Write, FlagAt, JobOK, InRepoKinds
<1>5. CASE Fail(p)
  BY <1>5 DEF Fail, CountsOK
<1>6. CASE Crash(p)
  BY <1>a, <1>6, Here DEF Crash, onDisk, FlagAt
<1>7. ASSUME NEW r \in Repo, UninstallFrom(p, r)
      PROVE  FlagAt(pc[p], job[p])'
  <2>1. /\ job'[p] = [job[p] EXCEPT !.bare = {r}] /\ UNCHANGED <<pc, file, flagged>>
    BY <1>7, Here DEF UninstallFrom
  <2> QED
    BY <1>0, <1>a, <2>1 DEF FlagAt, JobType
<1>8. ASSUME NEW r \in Repo, Unregister(p, r)
      PROVE  FlagAt(pc[p], job[p])'
  <2>1. /\ job'[p] = [job[p] EXCEPT !.mem = @ \ {r}, !.todo = @ \ {r},
                                    !.done = @ \cup {r}, !.bare = {}]
        /\ pc'[p] = IF pc[p] = "unwrap" THEN "truncate" ELSE pc[p]
        /\ file' = file
    BY <1>8, Here DEF Unregister, AfterVisit
  <2>2. flagged' = flagged \ {r}
    BY <1>8 DEF Unregister, UnregisterRepo, CountsOK
  <2>3. pc[p] \in {"unwrap", "existing", "registered"} /\ job[p].kind # "installer"
    BY <1>0, <1>8 DEF Unregister, UnregisterRepo, JobOK
  <2>4. pc[p] = "unwrap" => job[p].kind \notin InRepoKinds
    BY <1>0 DEF JobOK, InRepoKinds
  <2> QED
    BY <1>0, <1>a, <2>1, <2>2, <2>3, <2>4 DEF FlagAt, JobType
<1> QED
  BY <1>1, <1>2, <1>3, <1>4, <1>5, <1>6, <1>7, <1>8 DEF Uninstall

LEMMA WrapStep ==
  ASSUME JobsOK, DiskOK, Serial, WrapInv, NEW p \in Proc,
         \/ Start(p) \/ InRepo(p) \/ Global(p) \/ Uninstall(p)
         \/ Store(p) \/ Fail(p) \/ Crash(p)
  PROVE  WrapAt(pc[p], job[p])'
<1>0. job[p] \in JobType /\ JobOK(pc[p], job[p])
  BY JobFacts
<1>a. WrapAt(pc[p], job[p])
  BY DEF WrapInv
<1>b. pc[p] \notin {"unwrap", "existing", "registered"} => job[p].bare = {}
  BY <1>0 DEF JobOK
<1>c. NoJob.kind = "none" /\ NoJob.bare = {}
  BY DEF NoJob
<1>1. CASE Start(p)
  <2>1. UNCHANGED <<wrapped, flagged, halfway>> /\ job[p].bare = {}
    BY <1>1, <1>b DEF Start, onDisk, faults
  <2>2. CASE StartGlobal(p)
    <3>1. PICK kind \in Kinds \cap {"installer", "uninstaller"} :
            job' = [job EXCEPT ![p] = [NoJob EXCEPT !.kind = kind]]
      BY <2>2 DEF StartGlobal
    <3>2. job'[p] = [NoJob EXCEPT !.kind = kind]
      BY <3>1, Here
    <3>3. job'[p].kind = kind /\ job'[p].done = {} /\ job'[p].bare = {}
      BY <3>2 DEF NoJob
    <3> QED
      BY <1>a, <2>1, <3>1, <3>3 DEF WrapAt
  <2>3. ASSUME NEW r \in Repo, StartIn(p, r)
        PROVE  WrapAt(pc[p], job[p])'
    <3>1. PICK kind \in Kinds \cap {"hook", "install", "uninstall"} :
             /\ kind = "hook" => r \in wrapped
             /\ job' = [job EXCEPT ![p] = [NoJob EXCEPT !.kind = kind, !.repo = {r}]]
             /\ Goto(p, IF kind = "install" THEN "wrap" ELSE "load")
      BY <2>3 DEF StartIn
    <3>2. job'[p] = [NoJob EXCEPT !.kind = kind, !.repo = {r}]
          /\ (kind = "install" => pc'[p] = "wrap")
      BY <3>1, Here
    <3>3. job'[p].kind = kind /\ job'[p].repo = {r} /\ job'[p].bare = {}
      BY <3>2 DEF NoJob
    <3> QED
      BY <1>a, <2>1, <3>1, <3>2, <3>3 DEF WrapAt
  <2> QED
    BY <1>1, <2>2, <2>3 DEF Start
<1>2. CASE InRepo(p)
  <2>1. CASE Wrap(p)
    BY <1>0, <1>a, <2>1, Here DEF Wrap, WrapAt, JobOK
  <2>2. CASE LoadInsert(p) \/ LoadUninstall(p)
    <3>1. UNCHANGED <<wrapped, flagged, halfway>> /\ pc[p] = "load"
      BY <2>2 DEF LoadInsert, LoadUninstall, onDisk, faults
    <3>0. \/ job'[p] = [job[p] EXCEPT !.mem = Loaded(p) \cup job[p].repo]
          \/ job'[p] = [job[p] EXCEPT !.mem = Loaded(p), !.todo = job[p].repo]
      BY <2>2, Here DEF LoadInsert, LoadUninstall
    <3>2. /\ job'[p].kind = job[p].kind /\ job'[p].repo = job[p].repo
          /\ job'[p].done = job[p].done /\ job'[p].bare = job[p].bare
      BY <1>0, <3>0 DEF JobType
    <3> QED
      BY <1>a, <3>1, <3>2 DEF WrapAt
  <2>5. CASE Mark(p)
    <3>1. /\ flagged' = flagged \cup job[p].repo /\ job'[p] = NoJob
          /\ UNCHANGED <<wrapped, halfway>> /\ job[p].bare = {} /\ pc[p] = "mark"
      BY <1>b, <2>5, Here DEF Mark, faults
    <3>2. job[p].repo \subseteq wrapped
      BY <1>0, <1>a, <3>1 DEF WrapAt, JobOK, InRepoKinds
    <3> QED
      BY <1>a, <1>c, <3>1, <3>2 DEF WrapAt
  <2> QED
    BY <1>2, <2>1, <2>2, <2>5 DEF InRepo
<1>3. CASE Global(p)
  <2>1. CASE LoadGlobal(p)
    <3>1. PICK found \in SUBSET repos :
            job'[p] = [job[p] EXCEPT !.mem = Loaded(p), !.todo = found]
      BY <2>1, Here DEF LoadGlobal
    <3>2. /\ job'[p].kind = job[p].kind /\ job'[p].done = job[p].done
          /\ job'[p].bare = job[p].bare
      BY <1>0, <3>1 DEF JobType
    <3>3. job[p].kind \notin {"hook", "install"} /\ UNCHANGED <<wrapped, flagged, halfway>>
      BY <2>1 DEF LoadGlobal, faults
    <3> QED
      BY <1>a, <3>2, <3>3 DEF WrapAt
  <2>2. CASE AskRegistered(p)
    <3>1. \E todo1 : job'[p] = [job[p] EXCEPT !.todo = todo1]
      BY <2>2, Here DEF AskRegistered
    <3>2. /\ job'[p].kind = job[p].kind /\ job'[p].repo = job[p].repo
          /\ job'[p].done = job[p].done /\ job'[p].bare = job[p].bare
      BY <1>0, <3>1 DEF JobType
    <3>3. UNCHANGED <<wrapped, flagged, halfway>> /\ pc[p] = "existing"
      BY <2>2 DEF AskRegistered, onDisk, faults
    <3> QED
      BY <1>a, <3>2, <3>3 DEF WrapAt
  <2>3. CASE Visited(p) \/ Clean(p)
    <3>1. UNCHANGED <<wrapped, flagged, halfway, job>>
      BY <2>3 DEF Visited, Clean, onDisk, faults
    <3>2. pc[p] # "wrap"
      BY <2>3 DEF Visited, Clean
    <3> QED
      BY <1>a, <3>1, <3>2 DEF WrapAt
  <2>4. CASE CleanRegister(p)
    <3>1. /\ UNCHANGED <<wrapped, flagged, halfway>> /\ job'[p] = NoJob
          /\ job[p].bare = {}
      BY <1>b, <2>4, Here DEF CleanRegister, faults
    <3> QED
      BY <1>a, <1>c, <3>1 DEF WrapAt
  <2>5. ASSUME NEW r \in Repo, InstallInto(p, r)
        PROVE  WrapAt(pc[p], job[p])'
    <3>1. job'[p] = [job[p] EXCEPT !.mem = @ \cup {r}, !.todo = @ \ {r}, !.done = @ \cup {r}]
      BY <2>5, Here DEF InstallInto
    <3>4. job[p].kind = "installer"
      BY <2>5 DEF InstallInto
    <3>2. /\ job'[p].kind = "installer" /\ job'[p].done = job[p].done \cup {r}
          /\ job'[p].bare = job[p].bare
      BY <1>0, <3>1, <3>4 DEF JobType
    <3>3. /\ flagged' = flagged /\ wrapped' = wrapped \cup {r}
          /\ halfway' = halfway \ {r}
      BY <2>5 DEF InstallInto
    <3> QED
      BY <1>a, <3>2, <3>3, <3>4 DEF WrapAt
  <2> QED
    BY <1>3, <2>1, <2>2, <2>3, <2>4, <2>5 DEF Global
<1>4. CASE Store(p)
  <2>1. UNCHANGED <<wrapped, flagged, halfway>> /\ pc[p] \in {"truncate", "write"}
    BY <1>4 DEF Store, Truncate, Write, faults
  <2>2. job' = job \/ job'[p] = NoJob
    BY <1>4, Here DEF Store, Truncate, Write
  <2> QED
    BY <1>a, <1>b, <1>c, <2>1, <2>2 DEF WrapAt
<1>5. CASE Fail(p)
  <2>1. /\ UNCHANGED <<wrapped, halfway>>
        /\ pc[p] \in {"load", "truncate", "write", "mark"}
    BY <1>5 DEF Fail
  <2>2. job' = job \/ job'[p] = NoJob
    BY <1>5, Here DEF Fail
  <2>3. \/ flagged' = flagged
        \/ flagged' = flagged \cup job[p].done /\ job[p].kind = "installer"
    BY <1>5 DEF Fail
  <2> QED
    BY <1>a, <1>b, <1>c, <2>1, <2>2, <2>3 DEF WrapAt
<1>6. CASE Crash(p)
  BY <1>a, <1>6, Here DEF Crash, onDisk, WrapAt, NoJob
<1>7. ASSUME NEW r \in Repo, UninstallFrom(p, r)
      PROVE  WrapAt(pc[p], job[p])'
  <2>1. /\ job'[p] = [job[p] EXCEPT !.bare = {r}] /\ UNCHANGED <<pc, flagged, halfway>>
        /\ wrapped \ {r} \subseteq wrapped'
        /\ job[p].bare = {} /\ pc[p] \in {"unwrap", "existing", "registered"}
        /\ job[p].kind # "installer"
    BY <1>7, Here DEF UninstallFrom, Uninstalling
  <2>2. job[p].kind \notin {"hook", "install", "installer"}
    BY <1>0, <2>1 DEF JobOK, GlobalKinds
  <2> QED
    BY <1>0, <1>a, <2>1, <2>2 DEF WrapAt, JobType
<1>8. ASSUME NEW r \in Repo, Unregister(p, r)
      PROVE  WrapAt(pc[p], job[p])'
  <2>1. /\ job'[p] = [job[p] EXCEPT !.mem = @ \ {r}, !.todo = @ \ {r},
                                    !.done = @ \cup {r}, !.bare = {}]
        /\ wrapped' = wrapped /\ r \in job[p].bare
    BY <1>8, Here DEF Unregister, UnregisterRepo
  <2>2. \/ flagged' = flagged \ {r} /\ halfway' = halfway \ {r}
        \/ flagged' = flagged /\ halfway' = halfway \cup {r}
    BY <1>8 DEF Unregister, UnregisterRepo
  <2>3. /\ pc[p] \in {"unwrap", "existing", "registered"} /\ job[p].kind # "installer"
        /\ job[p].bare = {r}
    BY <1>0, <2>1 DEF JobOK
  <2>4. job[p].kind \notin {"hook", "install", "installer"}
    BY <1>0, <2>3 DEF JobOK, GlobalKinds
  <2> QED
    BY <1>0, <1>a, <2>1, <2>2, <2>3, <2>4 DEF WrapAt, JobType
<1> QED
  BY <1>1, <1>2, <1>3, <1>4, <1>5, <1>6, <1>7, <1>8 DEF Uninstall

LEMMA ListStep ==
  ASSUME JobsOK, DiskOK, CountsOK, Serial, WrapInv, ListInv,
         NEW p \in Proc, failures' = 0, crashes' = 0,
         \/ Start(p) \/ InRepo(p) \/ Global(p) \/ Uninstall(p)
         \/ Store(p) \/ Fail(p) \/ Crash(p)
  PROVE  ListAt(pc[p], job[p])'
<1>0. job[p] \in JobType /\ JobOK(pc[p], job[p])
  BY JobFacts
<1>a. ListAt(pc[p], job[p])
  <2>1. CASE Start(p) \/ InRepo(p) \/ Global(p) \/ Store(p)
    BY <2>1 DEF Start, InRepo, Wrap, LoadInsert, LoadUninstall, Mark, Global,
                LoadGlobal, AskRegistered, Visited, Clean, CleanRegister, InstallInto,
                Store, Truncate, Write, faults, ListInv
  <2>2. CASE Fail(p)
    BY <2>2 DEF Fail, CountsOK
  <2>3. CASE Crash(p)
    BY <2>3 DEF Crash, CountsOK
  <2>4. CASE Uninstall(p)
    <3>1. crashes' = crashes /\ (failures' = failures \/ failures' = failures + 1)
      BY <2>4 DEF Uninstall, UninstallFrom, Unregister, UnregisterRepo
    <3> QED
      BY <3>1 DEF CountsOK, ListInv
  <2> QED
    BY <2>1, <2>2, <2>3, <2>4
<1>b. WrapAt(pc[p], job[p])
  BY DEF WrapInv
<1>1. CASE Start(p)
  <2>1. UNCHANGED <<installed, repos, wrapped, file>> /\ pc[p] = "idle"
    BY <1>1 DEF Start, onDisk
  <2>2. CASE StartGlobal(p)
    <3>1. PICK kind \in Kinds \cap {"installer", "uninstaller"} :
            /\ kind = "uninstaller" => installed
            /\ job' = [job EXCEPT ![p] = [NoJob EXCEPT !.kind = kind]]
            /\ Goto(p, "load")
      BY <2>2 DEF StartGlobal
    <3>2. job'[p] = [NoJob EXCEPT !.kind = kind] /\ pc'[p] = "load"
      BY <3>1, Here
    <3>3. job'[p].kind = kind
      BY <3>2 DEF NoJob
    <3> QED
      BY <1>a, <2>1, <3>1, <3>2, <3>3 DEF ListAt, InRepoKinds
  <2>3. ASSUME NEW r \in Repo, StartIn(p, r)
        PROVE  ListAt(pc[p], job[p])'
    <3>1. installed /\ pc'[p] \in {"wrap", "load"}
      BY <2>3, Here DEF StartIn
    <3> QED
      BY <1>a, <2>1, <3>1 DEF ListAt
  <2> QED
    BY <1>1, <2>2, <2>3 DEF Start
<1>2. CASE InRepo(p)
  <2>1. CASE Wrap(p)
    BY <1>a, <2>1, Here DEF Wrap, ListAt
  <2>2. CASE LoadInsert(p)
    <3>1. /\ job'[p] = [job[p] EXCEPT !.mem = Loaded(p) \cup job[p].repo]
          /\ pc'[p] = "truncate" /\ UNCHANGED <<installed, repos, wrapped>>
      BY <2>2, Here DEF LoadInsert, onDisk
    <3>2. job[p].repo \subseteq wrapped /\ Loaded(p) \cap repos \subseteq wrapped
      BY <1>a, <1>b, <2>2 DEF LoadInsert, Loaded, ListAt, WrapAt
    <3>3. installed
      BY <1>a, <2>2 DEF LoadInsert, ListAt, InRepoKinds
    <3> QED
      BY <1>0, <3>1, <3>2, <3>3 DEF ListAt, JobType
  <2>3. CASE LoadUninstall(p)
    <3>1. /\ job'[p] = [job[p] EXCEPT !.mem = Loaded(p), !.todo = job[p].repo]
          /\ pc'[p] = "unwrap" /\ UNCHANGED <<installed, repos, wrapped>>
      BY <2>3, Here DEF LoadUninstall, onDisk
    <3>2. Loaded(p) \cap repos \subseteq wrapped
      BY <1>a, <2>3 DEF LoadUninstall, Loaded, ListAt
    <3>3. installed
      BY <1>a, <2>3 DEF LoadUninstall, ListAt, InRepoKinds
    <3> QED
      BY <1>0, <3>1, <3>2, <3>3 DEF ListAt, JobType
  <2>5. CASE Mark(p)
    BY <1>a, <2>5, Here DEF Mark, ListAt
  <2> QED
    BY <1>2, <2>1, <2>2, <2>3, <2>5 DEF InRepo
<1>3. CASE Global(p)
  <2>1. CASE LoadGlobal(p)
    <3>1. PICK found \in SUBSET repos :
            job' = [job EXCEPT ![p] = [job[p] EXCEPT !.mem = Loaded(p), !.todo = found]]
      BY <2>1 DEF LoadGlobal
    <3>2. /\ job'[p] = [job[p] EXCEPT !.mem = Loaded(p), !.todo = found]
          /\ pc'[p] = "existing" /\ UNCHANGED <<repos, wrapped>> /\ pc[p] = "load"
      BY <2>1, <3>1, Here DEF LoadGlobal
    <3>3. Loaded(p) \cap repos \subseteq wrapped
      BY <1>a, <3>2 DEF Loaded, ListAt
    <3>4. installed'
      BY <1>a, <2>1 DEF LoadGlobal, ListAt, InRepoKinds
    <3> QED
      BY <1>0, <3>2, <3>3, <3>4 DEF ListAt, JobType
  <2>2. CASE AskRegistered(p)
    <3>1. PICK keep \in Keeps(job[p].kind) :
            job' = [job EXCEPT ![p] = [job[p] EXCEPT !.todo =
                                        IF keep THEN {} ELSE job[p].mem \ job[p].done]]
      BY <2>2 DEF AskRegistered
    <3>2. job'[p].mem = job[p].mem /\ job'[p].bare = job[p].bare
      BY <1>0, <3>1, Here DEF JobType
    <3>3. /\ pc'[p] = "registered" /\ UNCHANGED <<installed, repos, wrapped>>
          /\ pc[p] = "existing"
      BY <2>2, Here DEF AskRegistered, onDisk
    <3> QED
      BY <1>a, <3>2, <3>3 DEF ListAt
  <2>3. CASE Visited(p)
    BY <1>a, <2>3, Here DEF Visited, onDisk, ListAt
  <2>4. CASE Clean(p) \/ CleanRegister(p)
    BY <1>a, <2>4, Here DEF Clean, CleanRegister, ListAt
  <2>5. ASSUME NEW r \in Repo, InstallInto(p, r)
        PROVE  ListAt(pc[p], job[p])'
    BY <1>0, <1>a, <2>5, Here DEF InstallInto, Visiting, ListAt, JobType
  <2> QED
    BY <1>3, <2>1, <2>2, <2>3, <2>4, <2>5 DEF Global
<1>4. CASE Store(p)
  <2>1. UNCHANGED <<installed, repos, wrapped>> /\ pc[p] \in {"truncate", "write"}
    BY <1>4 DEF Store, Truncate, Write
  <2>2. installed /\ job[p].bare = {} /\ job[p].mem \cap repos \subseteq wrapped
    BY <1>0, <1>a, <2>1 DEF ListAt, JobOK
  <2>3. CASE Truncate(p)
    BY <2>1, <2>2, <2>3, Here DEF Truncate, ListAt
  <2>4. CASE Write(p)
    <3>1. file' = job[p].mem /\ pc'[p] \in {"mark", "idle"}
      BY <2>4, Here DEF Write
    <3> QED
      BY <2>1, <2>2, <3>1 DEF ListAt
  <2> QED
    BY <1>4, <2>3, <2>4 DEF Store
<1>5. CASE Fail(p)
  BY <1>5 DEF Fail, CountsOK
<1>6. CASE Crash(p)
  BY <1>6 DEF Crash, CountsOK
<1>7. ASSUME NEW r \in Repo, UninstallFrom(p, r)
      PROVE  ListAt(pc[p], job[p])'
  <2>1. /\ job'[p] = [job[p] EXCEPT !.bare = {r}] /\ UNCHANGED <<pc, installed, repos>>
        /\ wrapped \ {r} \subseteq wrapped'
        /\ job[p].bare = {} /\ pc[p] \in {"unwrap", "existing", "registered"}
    BY <1>7, Here DEF UninstallFrom, Uninstalling
  <2>2. job'[p].mem = job[p].mem /\ job'[p].bare = {r}
    BY <1>0, <2>1 DEF JobType
  <2> QED
    BY <1>a, <2>1, <2>2 DEF ListAt
<1>8. ASSUME NEW r \in Repo, Unregister(p, r)
      PROVE  ListAt(pc[p], job[p])'
  <2>1. /\ job'[p] = [job[p] EXCEPT !.mem = @ \ {r}, !.todo = @ \ {r},
                                    !.done = @ \cup {r}, !.bare = {}]
        /\ pc'[p] = IF pc[p] = "unwrap" THEN "truncate" ELSE pc[p]
        /\ UNCHANGED <<installed, repos, wrapped>> /\ r \in job[p].bare
    BY <1>8, Here DEF Unregister, UnregisterRepo, AfterVisit
  <2>2. pc[p] \in {"unwrap", "existing", "registered"} /\ job[p].bare = {r}
    BY <1>0, <2>1 DEF JobOK
  <2>3. job'[p].mem = job[p].mem \ {r} /\ job'[p].bare = {}
    BY <1>0, <2>1 DEF JobType
  <2> QED
    BY <1>a, <2>1, <2>2, <2>3 DEF ListAt
<1> QED
  BY <1>1, <1>2, <1>3, <1>4, <1>5, <1>6, <1>7, <1>8 DEF Uninstall

LEMMA Stutter ==
  ASSUME UNCHANGED vars
  PROVE  (FlagInv => FlagInv') /\ (WrapInv => WrapInv') /\ (ListInv => ListInv')
BY DEF vars, onDisk, faults, FlagInv, FlagAt, WrapInv, WrapAt, ListInv, ListAt

LEMMA SerialStep ==
  ASSUME Serial, TypeInv, WrapInv, [Next]_vars
  PROVE  /\ WrapInv'
         /\ ListInv => ListInv'
         /\ TRUE \notin KeepAnswers /\ FlagInv => FlagInv'
<1>0. JobsOK /\ DiskOK /\ CountsOK
  BY DEF TypeInv
<1>1. ASSUME NEW p \in Proc, \/ Start(p) \/ InRepo(p) \/ Global(p) \/ Uninstall(p)
                             \/ Store(p) \/ Fail(p) \/ Crash(p)
      PROVE  /\ WrapInv'
             /\ ListInv => ListInv'
             /\ TRUE \notin KeepAnswers /\ FlagInv => FlagInv'
  <2>1. WrapInv'
    BY <1>0, <1>1, WrapStep, Only
  <2>2. ASSUME ListInv PROVE ListInv'
    <3>1. CASE failures' = 0 /\ crashes' = 0
      BY <1>0, <1>1, <2>2, <3>1, ListStep, Only
    <3>2. CASE ~(failures' = 0 /\ crashes' = 0)
      BY <3>2 DEF ListInv
    <3> QED
      BY <3>1, <3>2
  <2>3. ASSUME TRUE \notin KeepAnswers, FlagInv PROVE FlagInv'
    <3>1. CASE failures' = 0 /\ ~torn'
      BY <1>0, <1>1, <2>3, <3>1, FlagStep, Only
    <3>2. CASE ~(failures' = 0 /\ ~torn')
      BY <3>2 DEF FlagInv
    <3> QED
      BY <3>1, <3>2
  <2> QED
    BY <2>1, <2>2, <2>3
<1> QED
  BY <1>0, <1>1, UserSteps, Stutter DEF Next

-------------------------------------------------------------------------------
\* RegisterRepos.Load drops what does not exist: register, flags and run-wrappers
\* are of existing repositories, with any number of processes, killed or failing.
THEOREM TypeCorrect == Spec => []TypeOK
BY InitType, NextType, TypeParts, PTL DEF Spec

\* With one command after the other a repository without run-wrappers has no
\* flag, whatever fails or is killed, unless that was between the two steps of its
\* uninstallation; then the next installation or uninstallation repairs it.
THEOREM FlaggedHasWrappers ==
  ASSUME Serial, Proc # {}
  PROVE  Spec => []FlaggedIsWrapped
<1>1. TypeInv /\ WrapInv /\ [Next]_vars => TypeInv' /\ WrapInv'
  BY SerialStep, NextType
<1>2. TypeInv /\ WrapInv => FlaggedIsWrapped
  <2> SUFFICES ASSUME TypeInv, WrapInv, Quiet PROVE flagged \subseteq wrapped \cup halfway
    BY DEF FlaggedIsWrapped
  <2>1. PICK p \in Proc : TRUE
    OBVIOUS
  <2>2. job[p] = NoJob
    BY DEF TypeInv, JobsOK, JobOK, Quiet
  <2> QED
    BY <2>2 DEF WrapInv, WrapAt, NoJob
<1> QED
  BY InitType, InitWrap, <1>1, <1>2, PTL DEF Spec

\* With one command after the other a flagged repository is listed, when nothing
\* failed and the uninstaller visits what is registered.
THEOREM FlaggedStaysListed ==
  ASSUME Serial, TRUE \notin KeepAnswers, Proc # {}
  PROVE  Spec => []FlaggedIsListed
<1>1. TypeInv /\ WrapInv /\ FlagInv /\ [Next]_vars => TypeInv' /\ WrapInv' /\ FlagInv'
  BY SerialStep, NextType
<1>2. FlagInv => FlaggedIsListed
  BY DEF FlagInv, FlagAt, FlaggedIsListed, Quiet
<1> QED
  BY InitType, InitWrap, InitFlag, <1>1, <1>2, PTL DEF Spec

\* With one command after the other, what later updates visit has run-wrappers,
\* when nothing failed or was killed: they undo no uninstallation.
THEOREM ListedHasWrappers ==
  ASSUME Serial, Proc # {}
  PROVE  Spec => []ListedIsWrapped
<1>1. TypeInv /\ WrapInv /\ ListInv /\ [Next]_vars => TypeInv' /\ WrapInv' /\ ListInv'
  BY SerialStep, NextType
<1>2. ListInv => ListedIsWrapped
  BY DEF ListInv, ListAt, ListedIsWrapped, Quiet
<1> QED
  BY InitType, InitWrap, InitList, <1>1, <1>2, PTL DEF Spec
===============================================================================
