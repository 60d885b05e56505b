------------------------- MODULE ReleaseUpdate_proofs -------------------------
(***************************************************************************)
(* Proofs about ReleaseUpdate for any number of processes and any branch.  *)
(***************************************************************************)
EXTENDS ReleaseUpdate, FiniteSetTheorems, WellFoundedInduction, TLAPS

\* Every set of numbers has a least one: the intervals 0 .. n are finite sets,
\* which inclusion orders well.
LEMMA LeastNumber ==
  ASSUME NEW T \in SUBSET Nat, T # {}
  PROVE  \E m \in T : \A n \in T : m <= n
<1> DEFINE Up(n) == 0 .. n
           Fin == FiniteSubsetsOf(Nat)
           Ups == {Up(n) : n \in T}
<1>1. \A n \in T : Up(n) \in Fin
  BY FS_Interval DEF FiniteSubsetsOf
<1>2. Ups \subseteq Fin /\ Ups # {}
  BY <1>1
<1>3. PICK x \in Ups : \A y \in Ups : <<y, x>> \notin StrictSubsetOrdering(Nat)
  BY <1>2, FS_StrictSubsetOrderingWellFounded, WFMin
<1>4. PICK m \in T : x = Up(m)
  BY <1>3
<1>5. ASSUME NEW n \in T, ~(m <= n) PROVE FALSE
  <2>1. Up(n) \subseteq Up(m) /\ Up(n) # Up(m)
    BY <1>5
  <2>2. <<Up(n), Up(m)>> \in StrictSubsetOrdering(Nat)
    BY <2>1, <1>1 DEF StrictSubsetOrdering, FiniteSubsetsOf
  <2> QED
    BY <1>3, <1>4, <2>2
<1> QED
  BY <1>5

USE UpdateAssumption DEF UpdateAssumption

-------------------------------------------------------------------------------
\* The version an update goes to.

\* getNewUpdateCommit yields a release the user may be offered, newer than the
\* local commit and not newer than the remote one, or nothing.
LEMMA OfferedVersion ==
  ASSUME NEW local, NEW remote, NEW pre,
         GetNewUpdateCommit(local, remote, pre) # None
  PROVE  GetNewUpdateCommit(local, remote, pre) \in Visited(local, remote, pre)
BY DEF GetNewUpdateCommit

LEMMA OfferedType ==
  ASSUME NEW local, NEW remote, NEW pre
  PROVE  GetNewUpdateCommit(local, remote, pre) \in Commits \cup {None}
BY OfferedVersion DEF Visited, Offered, Commits

\* No version marked `Update-NoSkip: true` which may be offered lies between the
\* local commit and the version getNewUpdateCommit chooses.
THEOREM NoSkipKept ==
  ASSUME NEW local \in Nat, NEW remote \in Nat, NEW pre \in BOOLEAN,
         NEW c \in NoSkip, local < c, c <= remote, pre \/ c \notin Prerelease,
         NEW v, v = GetNewUpdateCommit(local, remote, pre), v # None
  PROVE  v <= c
<1>1. v \in Visited(local, remote, pre)
  BY OfferedVersion
<1>2. c \in Offered(local, remote, pre)
  BY DEF Offered
<1>3. ~(c < v)
  BY <1>1, <1>2 DEF Visited
<1>4. v \in Nat /\ c \in Nat
  BY <1>1 DEF Visited, Offered, Commits
<1> QED
  BY <1>3, <1>4

\* It is the newest of the versions visited.
LEMMA NewestVisited ==
  ASSUME NEW local \in Nat, NEW remote \in Nat, NEW pre \in BOOLEAN, NEW v \in Commits
  PROVE  v = GetNewUpdateCommit(local, remote, pre)
           <=> /\ v \in Visited(local, remote, pre)
               /\ \A d \in Visited(local, remote, pre) : d <= v
<1> DEFINE visited == Visited(local, remote, pre)
           newest == {c \in visited : \A d \in visited : d <= c}
<1>1. GetNewUpdateCommit(local, remote, pre)
        = IF newest = {} THEN None ELSE CHOOSE c \in newest : TRUE
  BY DEF GetNewUpdateCommit
<1>2. visited \subseteq Release /\ Release \subseteq Commits
  BY DEF Visited, Offered
<1>3. \A c \in Commits : c \in Nat /\ c # None
  BY DEF Commits, None
<1>4. visited \subseteq Commits
  BY <1>2
<1> HIDE DEF visited
<1>5. ASSUME NEW c \in newest, NEW d \in newest PROVE c = d
  <2>1. c \in Nat /\ d \in Nat /\ c <= d /\ d <= c
    BY <1>3, <1>4
  <2> QED
    BY <2>1
<1>6. ASSUME v \in newest PROVE v = CHOOSE c \in newest : TRUE
  BY <1>5, <1>6
<1>7. ASSUME v = GetNewUpdateCommit(local, remote, pre) PROVE v \in newest
  BY <1>1, <1>3, <1>7
<1>8. v = GetNewUpdateCommit(local, remote, pre) <=> v \in newest
  BY <1>1, <1>6, <1>7
<1> QED
  BY <1>8 DEF visited

\* The version that was chosen is chosen again when the remote commit is set to it.
LEMMA ChosenAgain ==
  ASSUME NEW local \in Nat, NEW remote \in Nat, NEW pre \in BOOLEAN,
         NEW v, v = GetNewUpdateCommit(local, remote, pre), v # None
  PROVE  /\ v \in Release /\ local < v /\ v <= remote
         /\ GetNewUpdateCommit(local, v, pre) = v
<1>1. v \in Commits
  BY OfferedType
<1>2. v \in Visited(local, remote, pre) /\ \A d \in Visited(local, remote, pre) : d <= v
  BY <1>1, NewestVisited
<1>3. v \in Nat /\ Release \subseteq Nat
  BY <1>1 DEF Commits
<1>a. v <= remote
  BY <1>2 DEF Visited, Offered
<1>b. \A c \in Release : c <= v => c <= remote
  BY <1>3, <1>a
<1>4. Offered(local, v, pre) = {c \in Offered(local, remote, pre) : c <= v}
  BY <1>b DEF Offered
<1>5. v \in Visited(local, v, pre) /\ \A d \in Visited(local, v, pre) : d <= v
  BY <1>2, <1>3, <1>4 DEF Visited, Offered
<1> QED
  BY <1>1, <1>2, <1>3, <1>5, NewestVisited DEF Visited, Offered

\* It is the version which ReleaseTrack lets follow: the first one not to be skipped,
\* else the newest one.
LEMMA ChosenFollows ==
  ASSUME NEW local \in Nat, NEW remote \in Nat, NEW pre \in BOOLEAN,
         NEW v, v = GetNewUpdateCommit(local, remote, pre), v # None
  PROVE  v \in Track!Successors(local, remote, pre)
<1> DEFINE newer == Offered(local, remote, pre)
           stops == newer \cap NoSkip
<1>1. v \in Commits
  BY OfferedType
<1>2. v \in Visited(local, remote, pre) /\ \A d \in Visited(local, remote, pre) : d <= v
  BY <1>1, NewestVisited
<1>3. newer = {c \in Track!Eligible(pre) : local < c /\ c <= remote}
  BY DEF Offered, Track!Eligible
<1>4. newer \subseteq Nat /\ v \in newer
  <2>1. newer \subseteq Commits
    BY DEF Offered
  <2>2. Commits \subseteq Nat
    BY DEF Commits
  <2> QED
    BY <1>2, <2>1, <2>2 DEF Visited
<1>5. CASE stops = {}
  <2>1. Visited(local, remote, pre) = newer
    BY <1>5 DEF Visited
  <2> QED
    BY <1>2, <1>3, <1>4, <1>5, <2>1 DEF Track!Successors
<1>6. CASE stops # {}
  <2>1. PICK s \in stops : \A d \in stops : s <= d
    BY <1>4, <1>6, LeastNumber
  <2>2. s \in Visited(local, remote, pre)
    BY <1>4, <2>1 DEF Visited
  <2>3. s <= v /\ ~(s < v)
    BY <1>2, <2>1, <2>2 DEF Visited
  <2>4. s = v
    BY <1>4, <2>1, <2>3
  <2> QED
    BY <1>3, <1>4, <1>6, <2>1, <2>4 DEF Track!Successors
<1> QED
  BY <1>5, <1>6

-------------------------------------------------------------------------------
\* Types.

LEMMA JobTypes ==
  ASSUME TypeOK, NEW p \in Proc
  PROVE  /\ NoJob \in JobType
         /\ job[p] \in JobType
         /\ StatusOf(job[p]) \in JobType
         /\ StatusOf(job[p]).holds = job[p].holds
         /\ StatusOf(job[p]).build = job[p].build
         /\ StatusOf(job[p]).stage = job[p].stage
         /\ HeadCommit \in Commits \cup {None} \/ head = "none"
<1>1. job[p] \in JobType
  BY DEF TypeOK
<1>2. NoJob \in JobType
  BY DEF NoJob, JobType
<1>3. GetNewUpdateCommit(main, origin, job[p].pre) \in Commits \cup {None}
  BY OfferedType
<1>4. main \in Commits \cup {None}
  BY DEF TypeOK
<1>5. StatusOf(job[p]) \in JobType
  BY <1>1, <1>3, <1>4 DEF StatusOf, JobType
<1>6. /\ StatusOf(job[p]).holds = job[p].holds
      /\ StatusOf(job[p]).build = job[p].build
      /\ StatusOf(job[p]).stage = job[p].stage
  BY <1>1 DEF StatusOf, JobType
<1>7. HeadCommit \in Commits \cup {None} \/ head = "none"
  BY DEF TypeOK, HeadCommit
<1> QED
  BY <1>1, <1>2, <1>5, <1>6, <1>7

\* A process which ends keeps the types and the ownership of the lock file.
LEMMA ExitFacts ==
  ASSUME TypeOK, LockOwned, NEW p \in Proc, Exit(p), crashes' = crashes
  PROVE  /\ pc' \in [Proc -> Steps] /\ job' \in [Proc -> JobType] /\ lock' \in BOOLEAN
         /\ LockOwned'
         /\ pc'[p] = "idle" /\ \A q \in Proc \ {p} : pc'[q] = pc[q] /\ job'[q] = job[q]
<1>1. NoJob \in JobType /\ job[p] \in JobType
  BY JobTypes
<1>2. /\ pc' = [pc EXCEPT ![p] = "idle"]
      /\ job' = [job EXCEPT ![p] = NoJob]
      /\ lock' = (lock /\ ~job[p].holds)
  BY DEF Exit, Goto
<1>3. pc' \in [Proc -> Steps] /\ job' \in [Proc -> JobType]
  BY <1>1, <1>2 DEF TypeOK, Steps
<1>4. lock' \in BOOLEAN
  BY <1>2 DEF TypeOK
<1>5. pc'[p] = "idle" /\ \A q \in Proc \ {p} : pc'[q] = pc[q] /\ job'[q] = job[q]
  BY <1>2 DEF TypeOK
<1>6. ~job'[p].holds
  BY <1>2 DEF TypeOK, NoJob
<1>7. \A q \in Proc : pc'[q] = "idle" => ~job'[q].holds
  BY <1>5, <1>6 DEF LockOwned
<1>8. ASSUME lock', crashes' = 0
      PROVE  \E q \in Proc : job'[q].holds
  <2>1. lock /\ ~job[p].holds
    BY <1>8, <1>2
  <2>2. PICK q \in Proc : job[q].holds
    BY <2>1, <1>8 DEF LockOwned
  <2> QED
    BY <2>1, <2>2, <1>5
<1> QED
  BY <1>3, <1>4, <1>5, <1>7, <1>8 DEF LockOwned

\* A process which goes on, with another local state, and leaves the lock alone.
LEMMA MoveFacts ==
  ASSUME TypeOK, LockOwned, NEW p \in Proc, NEW s \in Steps \ {"idle"}, Goto(p, s),
         NEW j \in JobType, job' = [job EXCEPT ![p] = j],
         j.holds = job[p].holds, lock' = lock, crashes' = crashes
  PROVE  /\ pc' \in [Proc -> Steps] /\ job' \in [Proc -> JobType] /\ lock' \in BOOLEAN
         /\ LockOwned'
         /\ pc'[p] = s /\ job'[p] = j
         /\ \A q \in Proc \ {p} : pc'[q] = pc[q] /\ job'[q] = job[q]
<1>1. /\ pc'[p] = s /\ job'[p] = j
      /\ \A q \in Proc \ {p} : pc'[q] = pc[q] /\ job'[q] = job[q]
  BY DEF Goto, TypeOK
<1>2. \A q \in Proc : job'[q].holds = job[q].holds
  BY <1>1
<1>3. LockOwned'
  BY <1>1, <1>2 DEF LockOwned
<1>4. pc' \in [Proc -> Steps] /\ job' \in [Proc -> JobType] /\ lock' \in BOOLEAN
  BY DEF Goto, TypeOK
<1> QED
  BY <1>1, <1>3, <1>4

\* The same with an unchanged local state.
LEMMA GotoFacts ==
  ASSUME TypeOK, LockOwned, NEW p \in Proc, NEW s \in Steps \ {"idle"}, Goto(p, s),
         job' = job, lock' = lock, crashes' = crashes
  PROVE  /\ pc' \in [Proc -> Steps] /\ job' \in [Proc -> JobType] /\ lock' \in BOOLEAN
         /\ LockOwned'
         /\ pc'[p] = s
         /\ \A q \in Proc \ {p} : pc'[q] = pc[q]
<1>1. job[p] \in JobType /\ job' = [job EXCEPT ![p] = job[p]]
  BY DEF TypeOK
<1> HIDE DEF Steps, JobType
<1> QED
  BY <1>1, MoveFacts

-------------------------------------------------------------------------------
\* The inductive invariant.

\* The part of a step which is about the processes and the lock file: each of
\* them either ends or goes on.
LEMMA ControlStep ==
  ASSUME IndInv, NEW p \in Proc, FetchStep(p) \/ UpdateStep(p) \/ InstallerStep(p)
  PROVE  /\ pc' \in [Proc -> Steps] /\ job' \in [Proc -> JobType] /\ lock' \in BOOLEAN
         /\ LockOwned'
         /\ \A q \in Proc \ {p} : pc'[q] = pc[q] /\ job'[q] = job[q]
<1> USE DEF IndInv
<1>0. job[p] \in JobType
  BY DEF TypeOK
<1> HIDE DEF JobType
<1>1. CASE Record(p) \/ Clone(p) \/ Fetch(p) \/ Reset(p) \/ UpdateRef(p)
           \/ DryBranch(p) \/ DryMerge(p) \/ InstallCli(p)
  <2>1. PICK s \in Steps \ {"idle"} : Goto(p, s)
    BY <1>1 DEF Record, Clone, Fetch, Reset, UpdateRef, DryBranch, DryMerge,
       InstallCli, Steps
  <2>2. job' = job /\ lock' = lock /\ crashes' = crashes
    BY <1>1 DEF Record, Clone, Fetch, Reset, UpdateRef, DryBranch, DryMerge,
       InstallCli, faults
  <2> QED
    BY <2>1, <2>2, GotoFacts
<1>2. CASE Check(p) \/ Reach(p) \/ DryCheck(p) \/ LockCheck(p) \/ InstallRunner(p)
           \/ FinalCheck(p) \/ FinalMerge(p) \/ DryAbort(p)
  <2>1. \/ Exit(p)
        \/ (\E s \in Steps \ {"idle"} : Goto(p, s)) /\ job' = job /\ lock' = lock
    BY <1>2 DEF Check, Reach, DryCheck, LockCheck, InstallRunner, FinalCheck,
       FinalMerge, DryAbort, Steps
  <2>2. crashes' = crashes
    BY <1>2 DEF Check, Reach, DryCheck, LockCheck, InstallRunner, FinalCheck,
       FinalMerge, DryAbort, faults
  <2> QED
    BY <2>1, <2>2, ExitFacts, GotoFacts
<1>3. CASE Status(p) \/ Accept(p) \/ GetStatus(p) \/ Download(p) \/ DryClose(p)
  <2>1. \/ Exit(p)
        \/ /\ \E s \in Steps \ {"idle"} : Goto(p, s)
           /\ \E j \in JobType : j.holds = job[p].holds /\ job' = [job EXCEPT ![p] = j]
           /\ lock' = lock
    <3>1. CASE Status(p)
      BY <3>1, JobTypes DEF Status, Steps
    <3>2. CASE GetStatus(p)
      BY <3>2, JobTypes DEF GetStatus, Steps
    <3>3. CASE Accept(p)
      <4>1. [job[p] EXCEPT !.agreed = job[p].target] \in JobType
        BY <1>0 DEF JobType
      <4>2. [job[p] EXCEPT !.agreed = job[p].target].holds = job[p].holds
        BY <1>0 DEF JobType
      <4>3. job' = [job EXCEPT ![p].agreed = job[p].target]
              => job' = [job EXCEPT ![p] = [job[p] EXCEPT !.agreed = job[p].target]]
        BY DEF TypeOK
      <4> QED
        BY <3>3, <4>1, <4>2, <4>3 DEF Accept, Steps
    <3>4. CASE Download(p)
      <4> DEFINE j == [job[p] EXCEPT !.build = Chosen(job[p])]
      <4>1. Chosen(job[p]) \in Release => j \in JobType
        BY <1>0 DEF JobType
      <4>2. j.holds = job[p].holds
        BY <1>0 DEF JobType
      <4>3. job' = [job EXCEPT ![p].build = Chosen(job[p])] => job' = [job EXCEPT ![p] = j]
        BY DEF TypeOK
      <4> QED
        BY <3>4, <4>1, <4>2, <4>3 DEF Download, Steps
    <3>5. CASE DryClose(p)
      <4>1. ForInstaller(job[p]) \in JobType /\ ForInstaller(job[p]).holds = job[p].holds
        BY <1>0 DEF ForInstaller, JobType, TypeOK
      <4> QED
        BY <3>5, <4>1 DEF DryClose, Steps
    <3> QED
      BY <1>3, <3>1, <3>2, <3>3, <3>4, <3>5
  <2>2. crashes' = crashes
    BY <1>3 DEF Status, Accept, GetStatus, Download, DryClose, faults
  <2> QED
    BY <2>1, <2>2, ExitFacts, MoveFacts
<1>4. CASE LockTouch(p)
  <2> DEFINE j == [job[p] EXCEPT !.holds = TRUE]
  <2>1. j \in JobType /\ j.holds
    BY <1>0 DEF JobType
  <2>2. job' = [job EXCEPT ![p] = j]
    BY <1>4 DEF LockTouch, TypeOK
  <2>3. /\ job'[p] = j /\ job' \in [Proc -> JobType]
        /\ \A q \in Proc \ {p} : job'[q] = job[q]
    BY <2>1, <2>2 DEF TypeOK
  <2>4. PICK s \in Steps \ {"idle"} : Goto(p, s)
    BY <1>4 DEF LockTouch, Steps
  <2>5. /\ pc'[p] # "idle" /\ pc' \in [Proc -> Steps]
        /\ \A q \in Proc \ {p} : pc'[q] = pc[q]
    BY <2>4 DEF Goto, TypeOK
  <2>6. lock' \in BOOLEAN
    BY <1>4 DEF LockTouch
  <2>7. LockOwned'
    BY <2>1, <2>3, <2>5 DEF LockOwned
  <2> QED
    BY <2>3, <2>5, <2>6, <2>7
<1> QED
  BY <1>1, <1>2, <1>3, <1>4 DEF FetchStep, UpdateStep, InstallerStep

\* The part of a step which is about the clone and the executables.
LEMMA CloneStep ==
  ASSUME IndInv, NEW p \in Proc, FetchStep(p) \/ UpdateStep(p) \/ InstallerStep(p)
  PROVE  /\ tip' = tip /\ crashes' = crashes /\ failures' = failures
         /\ head' \in Proc \cup {"main", "none"}
         /\ main' \in Commits \cup {None} /\ origin' \in Commits \cup {None}
         /\ side' \in [Proc -> Commits \cup {None}]
         /\ cli' \in Release /\ runner' \in Release /\ due' \in BOOLEAN
<1> USE DEF IndInv
<1>0. job[p] \in JobType
  BY DEF TypeOK
<1>a. job[p].build \in Commits \cup {None} /\ job[p].target \in Commits \cup {None}
  BY <1>0 DEF JobType
<1>b. tip \in Nat \ {0} /\ tip \in Commits /\ main \in Commits \cup {None}
      /\ origin \in Commits \cup {None} /\ side \in [Proc -> Commits \cup {None}]
      /\ head \in Proc \cup {"main", "none"} /\ due \in BOOLEAN
      /\ cli \in Release /\ runner \in Release
  BY DEF TypeOK, Commits
<1> DEFINE Kept == head' = head /\ main' = main /\ origin' = origin /\ side' = side
<1>1. CASE Record(p) \/ Check(p) \/ Reach(p) \/ Status(p) \/ Accept(p) \/ DryCheck(p)
           \/ LockCheck(p) \/ LockTouch(p) \/ GetStatus(p) \/ Download(p) \/ FinalCheck(p)
  BY <1>1, <1>b DEF Record, Check, Reach, Status, Accept, DryCheck, LockCheck, LockTouch,
     GetStatus, Download, FinalCheck, clone, binaries, faults
<1>2. CASE InstallCli(p) \/ InstallRunner(p)
  BY <1>2, <1>b DEF InstallCli, InstallRunner, clone, binaries, faults, BuildReleased
<1>3. CASE Clone(p) \/ Fetch(p) \/ UpdateRef(p)
  BY <1>3, <1>a, <1>b DEF Clone, Fetch, UpdateRef, binaries, faults
<1>4. CASE Reset(p)
  <2>1. \/ main' = job[p].build /\ side' = side
        \/ side' = [side EXCEPT ![head] = job[p].build] /\ main' = main
    BY <1>4 DEF Reset
  <2>2. side' \in [Proc -> Commits \cup {None}] /\ main' \in Commits \cup {None}
    BY <2>1, <1>a, <1>b
  <2> QED
    BY <2>2, <1>4, <1>b DEF Reset, binaries, faults
<1>5. CASE DryBranch(p)
  BY <1>5, <1>b DEF DryBranch, binaries, faults
<1>6. CASE DryClose(p) \/ DryAbort(p)
  BY <1>6, <1>b DEF DryClose, DryAbort, DryLeave, binaries, faults
<1>7. CASE DryMerge(p) \/ FinalMerge(p)
  <2>1. FastForward /\ tip' = tip /\ crashes' = crashes /\ failures' = failures
        /\ cli' = cli /\ runner' = runner /\ due' = due
    BY <1>7 DEF DryMerge, FinalMerge, binaries, faults
  <2>2. \A c \in Commits \cup {None} : Larger(c, origin) \in Commits \cup {None}
    BY <1>b DEF Larger
  <2>3. main' \in Commits \cup {None}
    BY <2>1, <2>2, <1>b DEF FastForward
  <2>4. side' \in [Proc -> Commits \cup {None}]
    <3>1. CASE head \in Proc
      <4>1. side[head] \in Commits \cup {None}
        BY <3>1, <1>b
      <4>2. Larger(side[head], origin) \in Commits \cup {None}
        BY <4>1, <2>2
      <4> QED
        BY <4>2, <3>1, <2>1, <1>b DEF FastForward
    <3>2. CASE head \notin Proc
      <4>1. side' = side \/ side' = [side EXCEPT ![head] = Larger(side[head], origin)]
        BY <2>1 DEF FastForward
      <4>2. [side EXCEPT ![head] = Larger(side[head], origin)] = side
        BY <3>2, <1>b
      <4> QED
        BY <4>1, <4>2, <1>b
    <3> QED
      BY <3>1, <3>2
  <2> QED
    BY <2>1, <2>3, <2>4, <1>b DEF FastForward
<1> QED
  BY <1>1, <1>2, <1>3, <1>4, <1>5, <1>6, <1>7 DEF FetchStep, UpdateStep, InstallerStep

\* Only what Download chose is installed.
LEMMA BuildStep ==
  ASSUME IndInv, NEW p \in Proc, FetchStep(p) \/ UpdateStep(p) \/ InstallerStep(p)
  PROVE  BuildReleased'
<1> USE DEF IndInv
<1>1. \A q \in Proc \ {p} : pc'[q] = pc[q] /\ job'[q] = job[q]
  BY ControlStep
<1>2. job \in [Proc -> JobType] /\ pc \in [Proc -> Steps]
  BY DEF TypeOK
<1>3. pc'[p] \in {"cli", "runner"} => job'[p].build \in Release
  <2>1. CASE Download(p)
    BY <2>1, <1>2 DEF Download, Exit, Goto, JobType
  <2>2. CASE InstallCli(p)
    BY <2>2, <1>2 DEF InstallCli, Goto, BuildReleased
  <2>3. CASE ~Download(p) /\ ~InstallCli(p)
    <3>1. pc'[p] \notin {"cli", "runner"}
      BY <2>3, <1>2 DEF FetchStep, UpdateStep, InstallerStep, Exit, Goto,
         Check, Clone, Fetch, Reach, Reset, Status, UpdateRef, Record, Accept, DryCheck,
         DryBranch, DryMerge, DryClose, DryAbort, LockCheck, LockTouch, GetStatus,
         InstallRunner, FinalCheck, FinalMerge
    <3> QED
      BY <3>1
  <2> QED
    BY <2>1, <2>2, <2>3
<1> QED
  BY <1>1, <1>3 DEF BuildReleased

\* HEAD is put on the temporary branch at the beginning of the dry run and back
\* at its end, and nobody else continues this process.
LEMMA HeadStep ==
  ASSUME IndInv, NEW p \in Proc, FetchStep(p) \/ UpdateStep(p) \/ InstallerStep(p)
  PROVE  HeadReturns'
<1> USE DEF IndInv
<1>1. \A q \in Proc \ {p} : pc'[q] = pc[q]
  BY ControlStep
<1>2. crashes' = crashes /\ failures' = failures
  BY CloneStep
<1>3. pc \in [Proc -> Steps] /\ Proc \cap {"main", "none"} = {}
  BY DEF TypeOK
<1>4. CASE Clone(p) \/ DryClose(p) \/ DryAbort(p)
  BY <1>4, <1>3 DEF Clone, DryClose, DryAbort, DryLeave, HeadReturns
<1>5. CASE DryBranch(p)
  BY <1>5, <1>3 DEF DryBranch, Goto, HeadReturns
<1>6. CASE DryMerge(p)
  <2>1. head' = head /\ pc'[p] = "close"
    BY <1>6, <1>3 DEF DryMerge, FastForward, Goto
  <2> QED
    BY <2>1, <1>1, <1>2 DEF HeadReturns
<1>7. CASE ~(Clone(p) \/ DryClose(p) \/ DryAbort(p) \/ DryBranch(p) \/ DryMerge(p))
  <2>1. head' = head
    BY <1>7 DEF FetchStep, UpdateStep, InstallerStep, clone, FastForward,
       Check, Fetch, Reach, Reset, Status, UpdateRef, Record, Accept, DryCheck,
       LockCheck, LockTouch, GetStatus, Download, InstallCli, InstallRunner,
       FinalCheck, FinalMerge
  <2>2. pc[p] \notin {"mergeDry", "close"}
    BY <1>7 DEF FetchStep, UpdateStep, InstallerStep,
       Check, Fetch, Reach, Reset, Status, UpdateRef, Record, Accept, DryCheck,
       LockCheck, LockTouch, GetStatus, Download, InstallCli, InstallRunner,
       FinalCheck, FinalMerge
  <2> QED
    BY <2>1, <2>2, <1>1, <1>2 DEF HeadReturns
<1> QED
  BY <1>4, <1>5, <1>6, <1>7

LEMMA InitInv == Init => IndInv
<1> SUFFICES ASSUME Init PROVE IndInv
  OBVIOUS
<1> USE DEF Init
<1>1. NoJob \in JobType /\ NoJob.holds = FALSE
  BY DEF NoJob, JobType
<1>2. TypeOK
  <2>1. cli \in Release /\ cli \in Commits /\ runner \in Release /\ tip \in Commits
        /\ main \in Commits /\ origin \in Commits
    OBVIOUS
  <2>2. side \in [Proc -> Commits \cup {None}] /\ job \in [Proc -> JobType]
    BY <1>1
  <2>3. pc \in [Proc -> Steps]
    BY DEF Steps
  <2>4. crashes \in 0 .. MaxCrashes /\ failures \in 0 .. MaxFailures
    OBVIOUS
  <2> QED
    BY <2>1, <2>2, <2>3, <2>4 DEF TypeOK
<1>3. LockOwned
  BY <1>1 DEF LockOwned
<1> QED
  BY <1>2, <1>3 DEF IndInv, BuildReleased, HeadReturns

\* The server, the clock and the user's repairs.
LEMMA EnvironmentStep == IndInv /\ Environment => IndInv'
<1> SUFFICES ASSUME IndInv, Environment PROVE IndInv'
  OBVIOUS
<1> USE DEF IndInv, TypeOK, clone, binaries, faults
<1>1. CASE Publish
  <2>1. tip' \in Commits
    BY <1>1 DEF Publish, Commits
  <2> QED
    BY <1>1, <2>1 DEF Publish, LockOwned, BuildReleased, HeadReturns
<1>2. CASE DayPasses
  BY <1>2 DEF DayPasses, LockOwned, BuildReleased, HeadReturns
<1>3. CASE DeleteClone
  BY <1>3 DEF DeleteClone, LockOwned, BuildReleased, HeadReturns
<1>4. CASE DeleteLock
  BY <1>4 DEF DeleteLock, LockOwned, BuildReleased, HeadReturns
<1> QED
  BY <1>1, <1>2, <1>3, <1>4 DEF Environment

LEMMA StartStep ==
  ASSUME IndInv, NEW p \in Proc, Start(p)
  PROVE  IndInv'
<1> USE DEF IndInv
<1>1. PICK s \in {"record", "lock"}, j \in JobType :
        /\ j.holds = FALSE
        /\ job' = [job EXCEPT ![p] = j]
        /\ Goto(p, s)
  <2>1. PICK kind \in Kinds, pre \in PreChoices : \E mode \in Modes(kind) :
          \E build \in CASE kind = "auto"      -> {runner}
                         [] kind = "bootstrap" -> {c \in Release : c <= tip}
                         [] OTHER              -> {cli} :
            LET checks == kind \in {"auto", "update"}
            IN  /\ job' = [job EXCEPT ![p] =
                     [NoJob EXCEPT !.kind = kind, !.mode = mode, !.pre = pre,
                        !.build = build,
                        !.stage = IF checks THEN "update" ELSE "install"]]
                /\ Goto(p, IF checks THEN "record" ELSE "lock")
    BY DEF Start
  <2> DEFINE Builds == CASE kind = "auto"      -> {runner}
                         [] kind = "bootstrap" -> {c \in Release : c <= tip}
                         [] OTHER              -> {cli}
  <2>a. Builds \subseteq Release
    BY DEF TypeOK
  <2> HIDE DEF Builds
  <2>b. PICK mode \in Modes(kind), build \in Builds :
          LET checks == kind \in {"auto", "update"}
          IN  /\ job' = [job EXCEPT ![p] =
                   [NoJob EXCEPT !.kind = kind, !.mode = mode, !.pre = pre,
                      !.build = build,
                      !.stage = IF checks THEN "update" ELSE "install"]]
              /\ Goto(p, IF checks THEN "record" ELSE "lock")
    BY <2>1 DEF Builds
  <2>2. PICK stage \in {"update", "install"},
             s \in {"record", "lock"} :
          /\ job' = [job EXCEPT ![p] =
                [NoJob EXCEPT !.kind = kind, !.mode = mode, !.pre = pre,
                   !.build = build, !.stage = stage]]
          /\ Goto(p, s)
    BY <2>b
  <2>3. mode \in {"prompt", "none", "minor", "all"} /\ build \in Release
    BY <2>a, <2>b DEF Modes
  <2> DEFINE j == [NoJob EXCEPT !.kind = kind, !.mode = mode, !.pre = pre,
                     !.build = build, !.stage = stage]
  <2>4. j \in JobType /\ j.holds = FALSE
    BY <2>3 DEF NoJob, JobType
  <2> QED
    BY <2>2, <2>4
<1>2. pc[p] = "idle" /\ ~job[p].holds
  BY DEF Start, LockOwned
<1>3. lock' = lock /\ crashes' = crashes /\ failures' = failures
      /\ UNCHANGED <<tip, clone, binaries, due>>
  BY DEF Start, faults
<1>4. /\ pc'[p] = s /\ job'[p] = j
      /\ \A q \in Proc \ {p} : pc'[q] = pc[q] /\ job'[q] = job[q]
      /\ pc' \in [Proc -> Steps] /\ job' \in [Proc -> JobType]
  BY <1>1 DEF Goto, TypeOK, Steps
<1>5. \A q \in Proc : job'[q].holds = job[q].holds
  BY <1>1, <1>2, <1>4 DEF TypeOK, JobType
<1>6. LockOwned'
  BY <1>1, <1>3, <1>4, <1>5 DEF LockOwned
<1>7. BuildReleased' /\ HeadReturns'
  BY <1>2, <1>3, <1>4 DEF BuildReleased, HeadReturns, clone
<1>8. TypeOK'
  BY <1>3, <1>4 DEF TypeOK, clone, binaries
<1> QED
  BY <1>6, <1>7, <1>8

\* Faults: a failing step ends the process (after its deferred functions), a kill
\* leaves the lock file.
LEMMA FaultStep ==
  ASSUME IndInv, NEW p \in Proc, Fail(p) \/ Crash(p)
  PROVE  IndInv'
<1> USE DEF IndInv
<1>0. crashes \in Nat /\ failures \in Nat /\ MaxCrashes \in Nat /\ MaxFailures \in Nat
  BY DEF TypeOK
<1>1. CASE Fail(p)
  <2>1. failures' = failures + 1 /\ failures' \in 0 .. MaxFailures /\ crashes' = crashes
        /\ UNCHANGED <<tip, clone, binaries, due>>
    <3>1. failures' = failures + 1 /\ failures < MaxFailures
          /\ UNCHANGED <<tip, clone, binaries, due, crashes>>
      BY <1>1 DEF Fail
    <3> QED
      BY <1>0, <3>1
  <2>2. \/ Exit(p)
        \/ Goto(p, "abort") /\ job' = job /\ lock' = lock
    BY <1>1 DEF Fail
  <2>3. /\ pc' \in [Proc -> Steps] /\ job' \in [Proc -> JobType] /\ lock' \in BOOLEAN
        /\ LockOwned'
        /\ \A q \in Proc \ {p} : pc'[q] = pc[q] /\ job'[q] = job[q]
        /\ pc'[p] \in {"idle", "abort"}
    BY <2>1, <2>2, ExitFacts, GotoFacts DEF Steps
  <2>4. BuildReleased' /\ HeadReturns'
    BY <2>1, <2>3, <1>0 DEF BuildReleased, HeadReturns
  <2>5. TypeOK'
    BY <2>1, <2>3 DEF TypeOK, clone, binaries
  <2> QED
    BY <2>3, <2>4, <2>5
<1>2. CASE Crash(p)
  <2>1. crashes' = crashes + 1 /\ crashes' \in 0 .. MaxCrashes /\ failures' = failures
        /\ UNCHANGED <<tip, clone, binaries, due, lock>>
    BY <1>0, <1>2 DEF Crash
  <2>2. NoJob \in JobType /\ NoJob.holds = FALSE
    BY DEF NoJob, JobType
  <2>3. /\ pc' \in [Proc -> Steps] /\ job' \in [Proc -> JobType]
        /\ \A q \in Proc \ {p} : pc'[q] = pc[q] /\ job'[q] = job[q]
        /\ pc'[p] = "idle" /\ job'[p] = NoJob
    BY <1>2, <2>2 DEF Crash, Goto, TypeOK, Steps
  <2>4. LockOwned'
    BY <2>1, <2>2, <2>3, <1>0 DEF LockOwned
  <2>5. BuildReleased' /\ HeadReturns'
    BY <2>1, <2>3, <1>0 DEF BuildReleased, HeadReturns
  <2>6. TypeOK'
    BY <2>1, <2>3 DEF TypeOK, clone, binaries
  <2> QED
    BY <2>4, <2>5, <2>6
<1> QED
  BY <1>1, <1>2

LEMMA Invariance == Spec => []IndInv
<1>1. IndInv /\ [Next]_vars => IndInv'
  <2> SUFFICES ASSUME IndInv, [Next]_vars PROVE IndInv'
    OBVIOUS
  <2>1. CASE Environment
    BY <2>1, EnvironmentStep
  <2>2. ASSUME NEW p \in Proc, FetchStep(p) \/ UpdateStep(p) \/ InstallerStep(p)
        PROVE  IndInv'
    <3>1. TypeOK'
      BY <2>2, ControlStep, CloneStep DEF TypeOK, IndInv
    <3> QED
      BY <2>2, <3>1, ControlStep, BuildStep, HeadStep DEF IndInv
  <2>3. ASSUME NEW p \in Proc, Start(p) PROVE IndInv'
    BY <2>3, StartStep
  <2>4. ASSUME NEW p \in Proc, Fail(p) \/ Crash(p) PROVE IndInv'
    BY <2>4, FaultStep
  <2>5. CASE UNCHANGED vars
    BY <2>5 DEF vars, clone, binaries, faults, IndInv, TypeOK, LockOwned,
       BuildReleased, HeadReturns
  <2> QED
    BY <2>1, <2>2, <2>3, <2>4, <2>5 DEF Next
<1> QED
  BY <1>1, InitInv, PTL DEF Spec

-------------------------------------------------------------------------------
\* One process at a time.  It asks (RunUpdate fetches and looks for a version),
\* tries the merge, takes the lock, and the installer it dispatches installs.

Asking == {"record", "check", "clone", "fetch", "reach", "reset", "status", "ref"}
Trying == {"dry", "branch", "mergeDry", "close"}
Locking == {"lock", "touch", "getStatus"}
Dispatched == {"idle", "cli", "runner", "final", "merge", "abort"}

Newest(p) == GetNewUpdateCommit(main, origin, job[p].pre)

\* The merge is tried on the branch of the process.
OnSide(p) == pc[p] = "mergeDry" => head = p

\* What an automatic update installs is what the user agreed to: the version found
\* by RunUpdate is still the newest one of the clone when the installer looks again.
Agreement(p) ==
  job[p].kind = "auto" =>
    /\ pc[p] \in Asking => job[p].stage = "update"
    /\ pc[p] \in {"ref", "accept"} \cup Trying => job[p].target = Newest(p) /\ Newest(p) # None
    /\ pc[p] \in Trying => job[p].agreed = job[p].target
    /\ pc[p] \in Locking => job[p].agreed = Newest(p)
    /\ pc[p] = "download" => job[p].target = job[p].agreed /\ job[p].target # None
    /\ pc[p] = "cli" => job[p].build = job[p].agreed

\* Some state of the server makes c the version after the installed one.
Upgradable(c, pre) == \E seen \in 1 .. tip : c \in Track!Successors(cli, seen, pre)

\* Nothing is newer than the server.
Bounded(p) == /\ main <= tip /\ origin <= tip /\ cli <= tip /\ runner <= tip
              /\ job[p].build <= tip /\ job[p].local <= tip /\ job[p].target <= tip

Fetched(p) == pc[p] \in {"fetch", "reach", "reset"} => head = "main"

\* The installed version runs until the installer is dispatched, ...
Running(p) == pc[p] \notin Dispatched => job[p].build = cli

\* ... the clone is reset to it, ...
ClonedAt(p) ==
  /\ pc[p] \in {"status", "ref", "accept", "getStatus", "download", "cli"} \cup Trying
       => main = cli
  /\ pc[p] \in Locking /\ job[p].kind = "auto" => main = cli

\* ... and what follows it is a version the track allows.
Aimed(p) ==
  /\ pc[p] \in {"ref", "download", "cli"} /\ job[p].target # None
       => cli < job[p].target /\ Upgradable(job[p].target, job[p].pre)
  /\ pc[p] \in {"ref", "download"} => job[p].local = cli
  /\ pc[p] = "cli" => job[p].build = cli \/ job[p].build = job[p].target
  /\ pc[p] = "cli" /\ job[p].target = None => job[p].build = cli

\* Without faults CLI and runner have one version, which the clone contains or,
\* once it is installed, will contain.
Intact(p) ==
  /\ pc[p] # "abort"
  /\ pc[p] # "runner" => cli = runner
  /\ pc[p] \in {"idle", "record", "check", "lock", "touch"} /\ head = "main" => cli <= main
  /\ pc[p] \in {"fetch", "reach", "reset"} => cli <= main
  /\ pc[p] \in {"download", "cli"} /\ job[p].target # None => job[p].target <= origin
  /\ pc[p] = "runner" =>
       cli = job[p].build /\ cli <= (IF job[p].target = None THEN main ELSE origin)
  /\ pc[p] \in {"final", "merge"} => cli <= origin
  /\ pc[p] = "merge" => head = "main"

Serial(p) ==
  /\ Bounded(p) /\ Fetched(p)
  /\ cli = runner => Running(p) /\ ClonedAt(p) /\ Aimed(p)
  /\ crashes = 0 /\ failures = 0 => Intact(p)

OneProcess == \A p, q \in Proc : p = q

SerialInv == \A p \in Proc : OnSide(p) /\ Agreement(p) /\ Serial(p)

LEMMA Numbers ==
  ASSUME TypeOK, NEW p \in Proc
  PROVE  /\ tip \in Nat /\ main \in Nat /\ origin \in Nat
         /\ cli \in Nat /\ runner \in Nat /\ cli # None
         /\ crashes \in Nat /\ failures \in Nat
         /\ job[p].build \in Nat /\ job[p].local \in Nat /\ job[p].target \in Nat
         /\ job[p].pre \in BOOLEAN /\ p # "main" /\ p # "none"
<1>1. Commits \cup {None} \subseteq Nat /\ None \notin Commits /\ Release \subseteq Commits
  BY DEF Commits, None
<1>2. /\ job[p].build \in Commits \cup {None} /\ job[p].local \in Commits \cup {None}
      /\ job[p].target \in Commits \cup {None} /\ job[p].pre \in BOOLEAN
  BY DEF TypeOK, JobType
<1>3. /\ tip \in Commits /\ main \in Commits \cup {None} /\ origin \in Commits \cup {None}
      /\ cli \in Release /\ runner \in Release
      /\ crashes \in 0 .. MaxCrashes /\ failures \in 0 .. MaxFailures
  BY DEF TypeOK
<1>4. crashes \in Nat /\ failures \in Nat
  BY <1>3
<1> QED
  BY <1>1, <1>2, <1>3, <1>4

\* A process which ends leaves nothing to do.
LEMMA SerialExit ==
  ASSUME TypeOK, NEW p \in Proc, Exit(p), tip' \in Nat,
         main' <= tip', origin' <= tip', cli' <= tip', runner' <= tip',
         crashes' = 0 /\ failures' = 0 => cli' = runner' /\ (head' = "main" => cli' <= main')
  PROVE  OnSide(p)' /\ Agreement(p)' /\ Serial(p)'
<1>1. pc'[p] = "idle" /\ job'[p] = NoJob
  BY DEF Exit, Goto, TypeOK
<1>2. OnSide(p)' /\ Agreement(p)'
  BY <1>1 DEF OnSide, Agreement, NoJob
<1>3. Bounded(p)' /\ Fetched(p)'
  BY <1>1 DEF Bounded, Fetched, NoJob, None
<1>4. Running(p)' /\ ClonedAt(p)' /\ Aimed(p)'
  BY <1>1 DEF Running, ClonedAt, Aimed, Dispatched, Trying, Locking
<1>5. crashes' = 0 /\ failures' = 0 => Intact(p)'
  BY <1>1 DEF Intact
<1> QED
  BY <1>2, <1>3, <1>4, <1>5 DEF Serial

LEMMA UpgradableKept ==
  ASSUME NEW c, NEW pre, Upgradable(c, pre), tip \in Nat, tip' \in Nat, tip <= tip', cli' = cli
  PROVE  Upgradable(c, pre)'
<1>1. PICK seen \in 1 .. tip : c \in Track!Successors(cli, seen, pre)
  BY DEF Upgradable
<1>2. seen \in 1 .. tip'
  BY <1>1
<1> QED
  BY <1>1, <1>2 DEF Upgradable

\* RunUpdate up to the fetch, its prompt and the checks of the branch: versions and
\* commits stay as they are.
LEMMA SerialAsks ==
  ASSUME IndInv, NEW p \in Proc, OnSide(p), Agreement(p), Serial(p),
         Record(p) \/ Check(p) \/ Reach(p) \/ Accept(p) \/ DryCheck(p) \/ DryBranch(p)
           \/ LockCheck(p) \/ LockTouch(p) \/ FinalCheck(p)
  PROVE  OnSide(p)' /\ Agreement(p)' /\ Serial(p)'
<1>1. TypeOK /\ HeadReturns /\ job \in [Proc -> JobType] /\ pc \in [Proc -> Steps]
  BY DEF IndInv, TypeOK
<1>2. UNCHANGED <<tip, main, origin, cli, runner, crashes, failures>>
  BY DEF Record, Check, Reach, Accept, DryCheck, DryBranch, LockCheck, LockTouch, FinalCheck,
     clone, binaries, faults
<1>3. ASSUME Exit(p), UNCHANGED head,
             pc[p] \in {"check", "reach", "accept", "dry", "lock", "final"},
             pc[p] = "check" => head # "main",
             pc[p] = "final" => head # "main"
      PROVE  OnSide(p)' /\ Agreement(p)' /\ Serial(p)'
  <2>1. main <= tip /\ origin <= tip /\ cli <= tip /\ runner <= tip
        /\ tip \in Nat /\ cli \in Nat
    BY <1>1, Numbers DEF Serial, Bounded
  <2>2. crashes = 0 /\ failures = 0 => cli = runner /\ (head = "main" => cli <= main)
    BY <1>3, <2>1 DEF Serial, Intact, ClonedAt, Trying
  <2> QED
    BY <2>1, <2>2, <1>1, <1>2, <1>3, SerialExit
<1>4. ASSUME job'[p] = job[p], UNCHANGED head,
             \/ pc[p] = "record" /\ pc'[p] = "check"
             \/ pc[p] = "check" /\ head = "main" /\ pc'[p] = "fetch"
             \/ pc[p] = "check" /\ head # "main" /\ pc'[p] = "clone"
             \/ pc[p] = "reach" /\ pc'[p] = "reset"
             \/ pc[p] = "dry" /\ pc'[p] = "branch"
             \/ pc[p] = "lock" /\ pc'[p] = "touch"
             \/ pc[p] = "final" /\ head = "main" /\ pc'[p] = "merge"
      PROVE  OnSide(p)' /\ Agreement(p)' /\ Serial(p)'
  <2>1. OnSide(p)' /\ Agreement(p)'
    BY <1>2, <1>4 DEF OnSide, Agreement, Asking, Trying, Locking, Newest
  <2>2. Serial(p)'
    BY <1>2, <1>4 DEF Serial, Bounded, Fetched, Running, ClonedAt, Aimed, Intact, Trying,
       Locking,
       Dispatched, Upgradable
  <2> QED
    BY <2>1, <2>2
<1>5. CASE Record(p)
  BY <1>1, <1>4, <1>5 DEF Record, Goto, clone
<1>6. CASE Check(p)
  <2>1. pc[p] = "check" /\ head' = head
    BY <1>6 DEF Check, clone
  <2>2. \/ Exit(p) /\ head # "main"
        \/ head = "main" /\ Goto(p, "fetch") /\ job' = job
        \/ head # "main" /\ Goto(p, "clone") /\ job' = job
    BY <1>6, Numbers, <1>1 DEF Check
  <2> QED
    BY <1>1, <1>3, <1>4, <2>1, <2>2 DEF Goto
<1>7. CASE Reach(p)
  BY <1>1, <1>3, <1>4, <1>7 DEF Reach, Goto, clone
<1>8. CASE DryCheck(p)
  BY <1>1, <1>3, <1>4, <1>8 DEF DryCheck, Goto, clone
<1>9. CASE LockCheck(p)
  BY <1>1, <1>3, <1>4, <1>9 DEF LockCheck, Goto, clone
<1>10. CASE FinalCheck(p)
  BY <1>1, <1>3, <1>4, <1>10 DEF FinalCheck, Goto, clone
<1>11. CASE Accept(p)
  <2>1. CASE Exit(p)
    BY <1>3, <1>11, <2>1 DEF Accept, clone
  <2>2. CASE ~Exit(p)
    <3>1. /\ pc[p] = "accept" /\ head' = head /\ Goto(p, "dry")
          /\ job' = [job EXCEPT ![p].agreed = job[p].target]
      BY <1>11, <2>2 DEF Accept, clone
    <3>2. pc'[p] = "dry" /\ job'[p] = [job[p] EXCEPT !.agreed = job[p].target]
      BY <1>1, <3>1 DEF Goto
    <3>3. /\ job'[p].agreed = job[p].target /\ job'[p].target = job[p].target
          /\ job'[p].kind = job[p].kind /\ job'[p].pre = job[p].pre
          /\ job'[p].build = job[p].build
      BY <1>1, <3>2 DEF JobType
    <3>4. OnSide(p)' /\ Agreement(p)'
      BY <1>2, <3>1, <3>2, <3>3 DEF OnSide, Agreement, Asking, Trying, Locking, Newest
    <3>5. Serial(p)'
      BY <1>2, <3>1, <3>2, <3>3 DEF Serial, Bounded, Fetched, Running, ClonedAt, Aimed, Intact,
         Trying, Locking, Dispatched
    <3> QED
      BY <3>4, <3>5
  <2> QED
    BY <2>1, <2>2
<1>12. CASE DryBranch(p)
  <2>1. pc[p] = "branch" /\ pc'[p] = "mergeDry" /\ head' = p /\ job'[p] = job[p]
    BY <1>1, <1>12 DEF DryBranch, Goto
  <2>2. OnSide(p)' /\ Agreement(p)'
    BY <1>2, <2>1 DEF OnSide, Agreement, Asking, Trying, Locking, Newest
  <2>3. Serial(p)'
    BY <1>2, <2>1 DEF Serial, Bounded, Fetched, Running, ClonedAt, Aimed, Intact,
         Trying, Locking, Dispatched
  <2> QED
    BY <2>2, <2>3
<1>13. CASE LockTouch(p)
  <2>1. /\ pc[p] = "touch" /\ head' = head
        /\ pc'[p] = IF job[p].kind = "auto" THEN "getStatus" ELSE "check"
        /\ job'[p] = [job[p] EXCEPT !.holds = TRUE]
    BY <1>1, <1>13 DEF LockTouch, Goto, clone
  <2>2. /\ job'[p].agreed = job[p].agreed /\ job'[p].kind = job[p].kind
        /\ job'[p].pre = job[p].pre /\ job'[p].build = job[p].build
    BY <1>1, <2>1 DEF JobType
  <2>3. OnSide(p)' /\ Agreement(p)'
    BY <1>2, <2>1, <2>2 DEF OnSide, Agreement, Asking, Trying, Locking, Newest
  <2>4. Serial(p)'
    BY <1>2, <2>1, <2>2 DEF Serial, Bounded, Fetched, Running, ClonedAt, Aimed, Intact,
         Trying, Locking, Dispatched
  <2> QED
    BY <2>3, <2>4
<1> QED
  BY <1>5, <1>6, <1>7, <1>8, <1>9, <1>10, <1>11, <1>12, <1>13

\* The steps which change the clone.
LEMMA SerialClones ==
  ASSUME IndInv, NEW p \in Proc, OnSide(p), Agreement(p), Serial(p),
         Clone(p) \/ Fetch(p) \/ Reset(p) \/ UpdateRef(p) \/ DryMerge(p)
           \/ DryClose(p) \/ DryAbort(p) \/ FinalMerge(p)
  PROVE  OnSide(p)' /\ Agreement(p)' /\ Serial(p)'
<1>1. TypeOK /\ HeadReturns /\ job \in [Proc -> JobType] /\ pc \in [Proc -> Steps]
  BY DEF IndInv, TypeOK
<1>2. UNCHANGED <<tip, cli, runner, crashes, failures>>
  BY DEF Clone, Fetch, Reset, UpdateRef, DryMerge, DryClose, DryAbort, FinalMerge,
     binaries, faults
<1>3. CASE Clone(p) \/ Fetch(p)
  <2>1. /\ job'[p] = job[p]
        /\ \/ /\ pc[p] = "clone" /\ pc'[p] = "fetch"
              /\ head' = "main" /\ main' = tip /\ origin' = tip
           \/ /\ pc[p] = "fetch" /\ pc'[p] = "reach"
              /\ head' = head /\ main' = main /\ origin' = tip
    BY <1>1, <1>3 DEF Clone, Fetch, Goto
  <2>2. OnSide(p)' /\ Agreement(p)'
    BY <1>2, <2>1 DEF OnSide, Agreement, Asking, Trying, Locking, Newest
  <2>3. Serial(p)'
    BY <1>1, <1>2, <2>1, Numbers DEF Serial, Bounded, Fetched, Running, ClonedAt, Aimed,
       Intact,
       Trying, Locking, Dispatched
  <2> QED
    BY <2>2, <2>3
<1>4. CASE Reset(p)
  <2>1. /\ job'[p] = job[p] /\ head' = head /\ origin' = origin
        /\ pc[p] = "reset" /\ pc'[p] = "status"
        /\ head = "main" => main' = job[p].build
    BY <1>1, <1>4 DEF Reset, Goto
  <2>2. OnSide(p)' /\ Agreement(p)'
    BY <1>2, <2>1 DEF OnSide, Agreement, Asking, Trying, Locking, Newest
  <2>3. Serial(p)'
    BY <1>1, <1>2, <2>1, Numbers DEF Serial, Bounded, Fetched, Running, ClonedAt, Aimed,
       Intact,
       Trying, Locking, Dispatched
  <2> QED
    BY <2>2, <2>3
<1>5. CASE UpdateRef(p)
  <2>1. /\ job'[p] = job[p] /\ head' = head /\ main' = main /\ origin' = job[p].target
        /\ pc[p] = "ref"
        /\ pc'[p] = IF job[p].stage = "update" THEN "accept" ELSE "download"
    BY <1>1, <1>5 DEF UpdateRef, Goto
  <2>2. job[p].kind = "auto" => Newest(p)' = job[p].target
    BY <1>1, <2>1, ChosenAgain, Numbers DEF Agreement, Newest
  <2>3. OnSide(p)' /\ Agreement(p)'
    BY <2>1, <2>2 DEF OnSide, Agreement, Asking, Trying, Locking
  <2>4. Serial(p)'
    BY <1>1, <1>2, <2>1, Numbers DEF Serial, Bounded, Fetched, Running, ClonedAt, Aimed,
       Intact,
       Trying, Locking, Dispatched, Upgradable
  <2> QED
    BY <2>3, <2>4
<1>6. CASE DryMerge(p)
  <2>1. /\ job'[p] = job[p] /\ head' = head /\ main' = main /\ origin' = origin
        /\ pc[p] = "mergeDry" /\ pc'[p] = "close"
    BY <1>1, <1>6, Numbers DEF DryMerge, FastForward, Goto, OnSide
  <2>2. OnSide(p)' /\ Agreement(p)'
    BY <2>1 DEF OnSide, Agreement, Asking, Trying, Locking, Newest
  <2>3. Serial(p)'
    BY <1>1, <1>2, <2>1 DEF Serial, Bounded, Fetched, Running, ClonedAt, Aimed, Intact,
       Trying, Locking, Dispatched
  <2> QED
    BY <2>2, <2>3
<1>7. CASE DryClose(p)
  <2>1. /\ job'[p] = ForInstaller(job[p]) /\ head' = "main" /\ main' = main /\ origin' = origin
        /\ pc[p] = "close" /\ pc'[p] = "lock"
    BY <1>1, <1>7 DEF DryClose, DryLeave, Goto
  <2>2. /\ job'[p].kind = job[p].kind /\ job'[p].pre = job[p].pre
        /\ job'[p].agreed = job[p].agreed
        /\ job'[p].build = IF job[p].kind = "auto" THEN cli ELSE job[p].build
        /\ job'[p].local = None /\ job'[p].target = None
    BY <1>1, <2>1 DEF ForInstaller, JobType
  <2>3. OnSide(p)' /\ Agreement(p)'
    BY <2>1, <2>2 DEF OnSide, Agreement, Asking, Trying, Locking, Newest
  <2>4. Serial(p)'
    BY <1>1, <1>2, <2>1, <2>2, Numbers DEF Serial, Bounded, Fetched, Running, ClonedAt,
       Aimed, Intact, Trying, Locking, Dispatched, None
  <2> QED
    BY <2>3, <2>4
<1>8. CASE DryAbort(p)
  <2>1. pc[p] = "abort" /\ Exit(p) /\ main' = main /\ origin' = origin
    BY <1>8 DEF DryAbort, DryLeave
  <2>2. main' <= tip' /\ origin' <= tip' /\ cli' <= tip' /\ runner' <= tip' /\ tip' \in Nat
    BY <1>1, <1>2, <2>1, Numbers DEF Serial, Bounded
  <2>3. ~(crashes' = 0 /\ failures' = 0)
    BY <1>2, <2>1 DEF Serial, Intact
  <2> QED
    BY <1>1, <2>1, <2>2, <2>3, SerialExit
<1>9. CASE FinalMerge(p)
  <2>1. pc[p] = "merge" /\ Exit(p) /\ head' = head /\ origin' = origin
    BY <1>9 DEF FinalMerge, FastForward
  <2>2. head = "main" => main' = Larger(main, origin)
    BY <1>9 DEF FinalMerge, FastForward
  <2>3. head # "main" => main' = main
    BY <1>9 DEF FinalMerge, FastForward
  <2>4. main' <= tip' /\ origin' <= tip' /\ cli' <= tip' /\ runner' <= tip' /\ tip' \in Nat
    BY <1>1, <1>2, <2>1, <2>2, <2>3, Numbers DEF Serial, Bounded, Larger
  <2>5. crashes' = 0 /\ failures' = 0 => cli' = runner' /\ cli' <= main'
    BY <1>1, <1>2, <2>1, <2>2, Numbers DEF Serial, Intact, Larger
  <2> QED
    BY <1>1, <2>1, <2>4, <2>5, SerialExit
<1> QED
  BY <1>3, <1>4, <1>5, <1>6, <1>7, <1>8, <1>9

\* The steps which choose a version.
LEMMA SerialChooses ==
  ASSUME IndInv, NEW p \in Proc, OnSide(p), Agreement(p), Serial(p),
         Status(p) \/ GetStatus(p) \/ Download(p)
  PROVE  OnSide(p)' /\ Agreement(p)' /\ Serial(p)'
<1>1. TypeOK /\ HeadReturns /\ job \in [Proc -> JobType] /\ pc \in [Proc -> Steps]
  BY DEF IndInv, TypeOK
<1>2. UNCHANGED <<tip, head, main, origin, cli, runner, crashes, failures>>
  BY DEF Status, GetStatus, Download, clone, binaries, faults
<1>3. ASSUME Exit(p), pc[p] \in {"status", "getStatus", "download"}
      PROVE  OnSide(p)' /\ Agreement(p)' /\ Serial(p)'
  <2>1. main' <= tip' /\ origin' <= tip' /\ cli' <= tip' /\ runner' <= tip' /\ tip' \in Nat
    BY <1>1, <1>2, Numbers DEF Serial, Bounded
  <2>2. crashes' = 0 /\ failures' = 0 => cli' = runner' /\ cli' <= main'
    BY <1>1, <1>2, <1>3, Numbers DEF Serial, Intact, ClonedAt
  <2> QED
    BY <1>1, <1>3, <2>1, <2>2, SerialExit
<1> DEFINE j == StatusOf(job[p])
<1>4. /\ j.target = Newest(p) /\ j.local = main /\ j.kind = job[p].kind /\ j.pre = job[p].pre
      /\ j.agreed = job[p].agreed /\ j.build = job[p].build /\ j.stage = job[p].stage
  BY <1>1 DEF StatusOf, Newest, JobType
<1>a. main <= tip /\ origin <= tip /\ tip \in Nat /\ origin \in Nat
  BY <1>1, Numbers DEF Serial, Bounded
<1>b. /\ Newest(p) # None => Newest(p) \in Nat /\ Newest(p) <= origin
      /\ Newest(p) <= tip
  <2>1. CASE Newest(p) = None
    BY <1>a, <2>1 DEF None
  <2>2. CASE Newest(p) # None
    <3>1. Newest(p) \in Commits
      BY <2>2, OfferedType DEF Newest
    <3>2. Newest(p) <= origin
      BY <1>1, <2>2, <3>1, Numbers, ChosenAgain, ChosenFollows DEF Newest, Commits
    <3> QED
      BY <1>a, <3>1, <3>2 DEF Commits
  <2> QED
    BY <2>1, <2>2
<1>5. ASSUME main = cli, Newest(p) # None
      PROVE  cli < Newest(p) /\ Upgradable(Newest(p), job[p].pre)
  <2>1. /\ cli < Newest(p) /\ Newest(p) <= origin
        /\ Newest(p) \in Track!Successors(cli, origin, job[p].pre)
        /\ Newest(p) \in Nat
    <3>1. Newest(p) \in Commits
      BY <1>5, OfferedType DEF Newest
    <3> QED
      BY <1>1, <1>5, <3>1, Numbers, ChosenAgain, ChosenFollows DEF Newest, Commits
  <2>2. origin \in 1 .. tip
    BY <1>1, <1>5, <1>a, <2>1, Numbers
  <2> QED
    BY <2>1, <2>2 DEF Upgradable
<1>6. ASSUME job'[p] = j,
             \/ pc[p] = "status" /\ pc'[p] = "ref" /\ j.target # None
             \/ /\ pc[p] = "status" /\ pc'[p] = "download"
                /\ j.target = None /\ j.stage = "install"
             \/ pc[p] = "getStatus" /\ pc'[p] = "download" /\ j.target # None
      PROVE  OnSide(p)' /\ Agreement(p)' /\ Serial(p)'
  <2>1. Newest(p)' = Newest(p)
    BY <1>2, <1>4, <1>6 DEF Newest
  <2>2. OnSide(p)' /\ Agreement(p)'
    BY <1>4, <1>6, <2>1 DEF OnSide, Agreement, Asking, Trying, Locking
  <2>3. Serial(p)'
    <3>1. Bounded(p)' /\ Fetched(p)'
      BY <1>2, <1>4, <1>6, <1>b DEF Serial, Bounded, Fetched
    <3>2. crashes' = 0 /\ failures' = 0 => Intact(p)'
      BY <1>2, <1>4, <1>6, <1>b DEF Serial, Intact
    <3> SUFFICES ASSUME cli = runner PROVE Running(p)' /\ ClonedAt(p)' /\ Aimed(p)'
      BY <1>2, <3>1, <3>2 DEF Serial
    <3>3. main = cli /\ job[p].build = cli
      BY <1>6 DEF Serial, ClonedAt, Running, Dispatched
    <3>4. Running(p)' /\ ClonedAt(p)'
      BY <1>2, <1>4, <1>6, <3>3 DEF Running, ClonedAt, Trying, Locking
    <3>5. Upgradable(Newest(p), job[p].pre) => Upgradable(Newest(p), job[p].pre)'
      <4>1. job'[p].pre = job[p].pre
        BY <1>4, <1>6
      <4> QED
        BY <1>2, <2>1, <4>1 DEF Upgradable
    <3>6. Aimed(p)'
      BY <1>2, <1>4, <1>5, <1>6, <3>3, <3>5 DEF Aimed, Upgradable
    <3> QED
      BY <3>4, <3>6
  <2> QED
    BY <2>2, <2>3
<1>7. CASE Status(p)
  <2>1. pc[p] = "status"
    BY <1>7 DEF Status
  <2>2. \/ Exit(p)
        \/ j.target # None /\ job' = [job EXCEPT ![p] = j] /\ Goto(p, "ref")
        \/ j.target = None /\ j.stage = "install" /\ job' = [job EXCEPT ![p] = j]
             /\ Goto(p, "download")
    BY <1>7 DEF Status
  <2> QED
    BY <1>1, <1>3, <1>6, <2>1, <2>2 DEF Goto
<1>8. CASE GetStatus(p)
  <2>1. pc[p] = "getStatus"
    BY <1>8 DEF GetStatus
  <2>2. \/ Exit(p)
        \/ j.target # None /\ job' = [job EXCEPT ![p] = j] /\ Goto(p, "download")
    BY <1>8 DEF GetStatus
  <2> QED
    BY <1>1, <1>3, <1>6, <2>1, <2>2 DEF Goto
<1>9. CASE Download(p)
  <2>1. CASE Exit(p)
    BY <1>3, <1>9, <2>1 DEF Download
  <2>2. CASE ~Exit(p)
    <3>1. /\ pc[p] = "download" /\ pc'[p] = "cli"
          /\ job'[p] = [job[p] EXCEPT !.build = Chosen(job[p])]
      BY <1>1, <1>9, <2>2 DEF Download, Goto
    <3>2. /\ job'[p].build = Chosen(job[p]) /\ job'[p].target = job[p].target
          /\ job'[p].kind = job[p].kind /\ job'[p].pre = job[p].pre
          /\ job'[p].agreed = job[p].agreed
      BY <1>1, <3>1 DEF JobType
    <3>3. OnSide(p)' /\ Agreement(p)'
      BY <3>1, <3>2 DEF OnSide, Agreement, Asking, Trying, Locking, Chosen, Updating
    <3>4. Serial(p)'
      BY <1>2, <3>1, <3>2 DEF Serial, Bounded, Fetched, Running, ClonedAt, Aimed, Intact,
         Trying, Locking, Dispatched, Chosen, Upgradable
    <3> QED
      BY <3>3, <3>4
  <2> QED
    BY <2>1, <2>2
<1> QED
  BY <1>7, <1>8, <1>9

\* The dispatched installer.
LEMMA SerialInstalls ==
  ASSUME IndInv, NEW p \in Proc, OnSide(p), Agreement(p), Serial(p),
         InstallCli(p) \/ InstallRunner(p)
  PROVE  OnSide(p)' /\ Agreement(p)' /\ Serial(p)'
<1>1. TypeOK /\ HeadReturns /\ job \in [Proc -> JobType] /\ pc \in [Proc -> Steps]
  BY DEF IndInv, TypeOK
<1>2. UNCHANGED <<tip, head, main, origin, crashes, failures>>
  BY DEF InstallCli, InstallRunner, clone, faults
<1>3. CASE InstallCli(p)
  <2>1. /\ job'[p] = job[p] /\ runner' = runner /\ cli' = job[p].build
        /\ pc[p] = "cli" /\ pc'[p] = "runner"
    BY <1>1, <1>3 DEF InstallCli, Goto
  <2>2. OnSide(p)' /\ Agreement(p)'
    BY <2>1 DEF OnSide, Agreement, Asking, Trying, Locking
  <2>3. ASSUME crashes = 0, failures = 0
        PROVE  cli' <= IF job[p].target = None THEN main ELSE origin
    <3>1. /\ main = cli
          /\ job[p].target = None => job[p].build = cli
          /\ job[p].target # None => job[p].target <= origin /\ cli < job[p].target
          /\ job[p].build = cli \/ job[p].build = job[p].target
      BY <2>1, <2>3 DEF Serial, Intact, ClonedAt, Aimed
    <3> QED
      BY <1>1, <2>1, <3>1, Numbers
  <2>4. Serial(p)'
    BY <1>2, <2>1, <2>3 DEF Serial, Bounded, Fetched, Running, ClonedAt, Aimed, Intact,
       Trying, Locking, Dispatched
  <2> QED
    BY <2>2, <2>4
<1>4. CASE InstallRunner(p)
  <2>1. pc[p] = "runner" /\ runner' = job[p].build /\ cli' = cli
    BY <1>4 DEF InstallRunner
  <2>2. CASE job[p].target = None
    <3>1. Exit(p)
      BY <1>4, <2>2 DEF InstallRunner
    <3>2. main' <= tip' /\ origin' <= tip' /\ cli' <= tip' /\ runner' <= tip' /\ tip' \in Nat
      BY <1>1, <1>2, <2>1, Numbers DEF Serial, Bounded
    <3>3. crashes' = 0 /\ failures' = 0 => cli' = runner' /\ cli' <= main'
      BY <1>2, <2>1, <2>2 DEF Serial, Intact
    <3> QED
      BY <1>1, <3>1, <3>2, <3>3, SerialExit
  <2>3. CASE job[p].target # None
    <3>1. pc'[p] = "final" /\ job'[p] = job[p]
      BY <1>1, <1>4, <2>3 DEF InstallRunner, Goto
    <3>2. OnSide(p)' /\ Agreement(p)'
      BY <3>1 DEF OnSide, Agreement, Asking, Trying, Locking
    <3>3. Serial(p)'
      BY <1>2, <2>1, <2>3, <3>1 DEF Serial, Bounded, Fetched, Running, ClonedAt, Aimed, Intact,
         Trying, Locking, Dispatched
    <3> QED
      BY <3>2, <3>3
  <2> QED
    BY <2>2, <2>3
<1> QED
  BY <1>3, <1>4

\* A command starts, without the bootstrap script, which may bring an older version.
LEMMA SerialStarts ==
  ASSUME IndInv, NEW p \in Proc, OnSide(p), Agreement(p), Serial(p), Start(p),
         "bootstrap" \notin Kinds
  PROVE  OnSide(p)' /\ Agreement(p)' /\ Serial(p)'
<1>1. TypeOK /\ HeadReturns /\ job \in [Proc -> JobType] /\ pc \in [Proc -> Steps]
  BY DEF IndInv, TypeOK
<1>2. UNCHANGED <<tip, head, main, origin, cli, runner, crashes, failures>>
  BY DEF Start, clone, binaries, faults
<1>3. PICK kind \in Kinds, pre \in PreChoices : \E mode \in Modes(kind) :
        \E build \in CASE kind = "auto"      -> {runner}
                       [] kind = "bootstrap" -> {c \in Release : c <= tip}
                       [] OTHER              -> {cli} :
          LET checks == kind \in {"auto", "update"}
          IN  /\ job' = [job EXCEPT ![p] =
                   [NoJob EXCEPT !.kind = kind, !.mode = mode, !.pre = pre,
                      !.build = build,
                      !.stage = IF checks THEN "update" ELSE "install"]]
              /\ Goto(p, IF checks THEN "record" ELSE "lock")
  BY DEF Start
<1>4. PICK mode \in Modes(kind), build \in {cli, runner} :
        LET checks == kind \in {"auto", "update"}
        IN  /\ job' = [job EXCEPT ![p] =
                 [NoJob EXCEPT !.kind = kind, !.mode = mode, !.pre = pre,
                    !.build = build,
                    !.stage = IF checks THEN "update" ELSE "install"]]
            /\ Goto(p, IF checks THEN "record" ELSE "lock")
  BY <1>3
<1>5. /\ job'[p].kind = kind /\ job'[p].build = build
      /\ job'[p].local = None /\ job'[p].target = None
      /\ kind = "auto" => job'[p].stage = "update" /\ pc'[p] = "record"
      /\ pc'[p] \in {"record", "lock"} /\ pc[p] = "idle"
  BY <1>1, <1>4 DEF Start, Goto, NoJob
<1>6. OnSide(p)' /\ Agreement(p)'
  BY <1>5 DEF OnSide, Agreement, Asking, Trying, Locking
<1>7. Serial(p)'
  BY <1>1, <1>2, <1>4, <1>5, Numbers DEF Serial, Bounded, Fetched, Running, ClonedAt,
     Aimed, Intact, Trying, Locking, Dispatched, None
<1> QED
  BY <1>6, <1>7

\* With one process, the invariants hold through every step, faults included.
LEMMA SerialStep ==
  ASSUME OneProcess, "bootstrap" \notin Kinds, IndInv, SerialInv, [Next]_vars
  PROVE  SerialInv'
<1> SUFFICES ASSUME NEW p \in Proc
             PROVE  OnSide(p)' /\ Agreement(p)' /\ Serial(p)'
  BY DEF SerialInv
<1>0. Proc = {p} /\ OnSide(p) /\ Agreement(p) /\ Serial(p)
  BY DEF OneProcess, SerialInv
<1> USE <1>0
<1>1. /\ TypeOK /\ job \in [Proc -> JobType] /\ pc \in [Proc -> Steps]
  BY DEF IndInv, TypeOK
<1>2. CASE Environment
  <2>1. UNCHANGED <<pc, job, cli, runner, crashes, failures>>
    BY <1>2 DEF Environment, Publish, DayPasses, DeleteClone, DeleteLock, binaries, faults
  <2>2. CASE DeleteClone
    <3>1. pc[p] = "idle" /\ head' = "none" /\ main' = None /\ origin' = None /\ tip' = tip
      BY <1>1, <2>2 DEF DeleteClone, Quiet
    <3>2. OnSide(p)' /\ Agreement(p)'
      BY <2>1, <3>1 DEF OnSide, Agreement, Asking, Trying, Locking
    <3>3. Serial(p)'
      BY <1>1, <2>1, <3>1, Numbers DEF Serial, Bounded, Fetched, Running, ClonedAt, Aimed,
         Intact,
         Trying, Locking, Dispatched, None
    <3> QED
      BY <3>2, <3>3
  <2>3. CASE ~DeleteClone
    <3>1. /\ UNCHANGED <<head, main, origin>>
          /\ tip' \in Nat /\ tip <= tip'
      BY <1>1, <1>2, <2>3, Numbers DEF Environment, Publish, DayPasses, DeleteLock, clone
    <3>2. OnSide(p)' /\ Agreement(p)'
      BY <2>1, <3>1 DEF OnSide, Agreement, Newest
    <3>3. Aimed(p) => Aimed(p)'
      BY <1>1, <2>1, <3>1, UpgradableKept, Numbers DEF Aimed
    <3>4. Bounded(p)'
      BY <1>1, <2>1, <3>1, Numbers DEF Serial, Bounded
    <3>5. Serial(p)'
      BY <2>1, <3>1, <3>3, <3>4 DEF Serial, Fetched, Running, ClonedAt, Intact
    <3> QED
      BY <3>2, <3>5
  <2> QED
    BY <2>2, <2>3
<1>3. CASE Fail(p) \/ Crash(p)
  <2>1. ~(crashes' = 0 /\ failures' = 0)
    BY <1>1, <1>3, Numbers DEF Fail, Crash
  <2>2. \/ pc'[p] = "idle" /\ job'[p] = NoJob
        \/ pc'[p] = "abort" /\ job'[p] = job[p]
    BY <1>1, <1>3 DEF Fail, Crash, Exit, Goto
  <2>3. UNCHANGED <<tip, main, origin, cli, runner>>
    BY <1>3 DEF Fail, Crash, clone, binaries
  <2>4. OnSide(p)' /\ Agreement(p)'
    BY <2>2 DEF OnSide, Agreement, Asking, Trying, Locking, NoJob
  <2>5. Bounded(p)' /\ Fetched(p)'
    BY <1>1, <2>2, <2>3, Numbers DEF Serial, Bounded, Fetched, NoJob, None
  <2>6. Running(p)' /\ ClonedAt(p)' /\ Aimed(p)'
    BY <2>2 DEF Running, ClonedAt, Aimed, Dispatched, Trying, Locking
  <2> QED
    BY <2>1, <2>4, <2>5, <2>6 DEF Serial
<1>4. CASE UNCHANGED vars
  BY <1>4 DEF vars, clone, binaries, faults, OnSide, Agreement, Newest, Serial, Bounded,
     Fetched, Running, ClonedAt, Aimed, Intact, Upgradable
<1>5. CASE Start(p)
  BY <1>1, <1>5, SerialStarts
<1>6. CASE FetchStep(p) \/ UpdateStep(p) \/ InstallerStep(p)
  BY <1>1, <1>6, SerialAsks, SerialClones, SerialChooses, SerialInstalls
     DEF FetchStep, UpdateStep, InstallerStep
<1> QED
  BY <1>2, <1>3, <1>4, <1>5, <1>6 DEF Next

-------------------------------------------------------------------------------
\* Theorems.

\* The types hold for any number of processes and any branch.
THEOREM TypeCorrect == Spec => []TypeOK
BY Invariance, PTL DEF IndInv

\* The lock file is gone when nothing runs and nothing was killed, however the
\* installers interleaved and failed.
THEOREM LockIsReleased == Spec => []LockReleased
<1>1. IndInv => LockReleased
  BY DEF IndInv, LockOwned, LockReleased, Quiet
<1> QED
  BY <1>1, Invariance, PTL

\* Without faults the clone is on a temporary branch only during the dry run it
\* belongs to.
THEOREM HeadIsReturned == Spec => []HeadReturns
BY Invariance, PTL DEF IndInv

\* When at most one process runs, a dry run never moves the release branch (with
\* two processes one of them may merge on the branch that the other has left).
THEOREM SerialDryRunIsDry ==
  ASSUME NEW p, Proc = {p}
  PROVE  Spec => DryRunIsDry
<1> DEFINE Apart == pc[p] = "mergeDry" => head = p
           Dry == pc[p] = "mergeDry" /\ pc'[p] = "close" => main' = main
<1>1. Init => Apart
  BY DEF Init
<1>2. IndInv /\ Apart /\ [Next]_vars => Apart' /\ Dry
  <2> SUFFICES ASSUME IndInv, Apart, [Next]_vars PROVE Apart' /\ Dry
    OBVIOUS
  <2>1. pc \in [Proc -> Steps] /\ p \in Proc /\ p # "main"
    BY DEF IndInv, TypeOK
  <2>2. CASE Environment
    BY <2>1, <2>2 DEF Environment, Publish, DayPasses, DeleteClone, DeleteLock, clone, Quiet
  <2>3. CASE DryBranch(p)
    BY <2>1, <2>3 DEF DryBranch, Goto
  <2>4. CASE DryMerge(p)
    BY <2>1, <2>4 DEF DryMerge, Goto, FastForward
  <2>5. CASE FetchStep(p) \/ UpdateStep(p) \/ InstallerStep(p)
    <3>1. CASE ~DryBranch(p) /\ ~DryMerge(p)
      <4>1. pc[p] # "mergeDry" /\ pc'[p] # "mergeDry"
        BY <2>1, <2>5, <3>1 DEF FetchStep, UpdateStep, InstallerStep, Exit, Goto,
           Check, Clone, Fetch, Reach, Reset, Status, UpdateRef, Record, Accept, DryCheck,
           DryClose, DryAbort, LockCheck, LockTouch, GetStatus, Download, InstallCli,
           InstallRunner, FinalCheck, FinalMerge
      <4> QED
        BY <4>1
    <3> QED
      BY <3>1, <2>3, <2>4
  <2>6. CASE Start(p)
    BY <2>1, <2>6 DEF Start, Goto
  <2>7. CASE Fail(p) \/ Crash(p)
    BY <2>1, <2>7 DEF Fail, Crash, Exit, Goto
  <2>8. CASE UNCHANGED vars
    BY <2>8 DEF vars, clone
  <2> QED
    BY <2>2, <2>5, <2>6, <2>7, <2>8 DEF Next
<1>3. [Dry]_vars => [\A q \in Proc : pc[q] = "mergeDry" /\ pc'[q] = "close"
                                      => main' = main]_vars
  OBVIOUS
<1>4. IndInv /\ Apart /\ [Next]_vars => [\A q \in Proc :
         pc[q] = "mergeDry" /\ pc'[q] = "close" => main' = main]_vars
  BY <1>2, <1>3
<1> QED
  BY <1>1, <1>2, <1>4, Invariance, PTL DEF Spec, DryRunIsDry

\* What one process does one after the other, from the installation by a version on.
LEMMA SerialInvariance ==
  ASSUME OneProcess, "bootstrap" \notin Kinds
  PROVE  Spec => [](IndInv /\ SerialInv)
<1>1. Init => SerialInv
  <2> SUFFICES ASSUME Init, NEW p \in Proc PROVE OnSide(p) /\ Agreement(p) /\ Serial(p)
    BY DEF SerialInv
  <2>1. pc[p] = "idle" /\ job[p] = NoJob
    BY DEF Init
  <2>2. main = tip /\ origin = tip /\ cli = tip /\ runner = cli /\ tip \in Nat
    BY UpdateAssumption DEF Init, Commits
  <2>3. OnSide(p) /\ Agreement(p)
    BY <2>1 DEF OnSide, Agreement, NoJob
  <2>4. Bounded(p) /\ Fetched(p) /\ Running(p) /\ ClonedAt(p) /\ Aimed(p) /\ Intact(p)
    BY <2>1, <2>2 DEF Bounded, Fetched, Running, ClonedAt, Aimed, Intact, Trying, Locking,
       Dispatched, NoJob, None
  <2> QED
    BY <2>1, <2>3, <2>4 DEF Serial
<1> QED
  BY <1>1, SerialStep, Invariance, PTL DEF Spec

\* One process at a time, whatever it updates, reinstalls and deletes: FetchUpdates
\* finds the tag of the running executable on the branch of the clone.
THEOREM TagIsFound ==
  ASSUME OneProcess, "bootstrap" \notin Kinds
  PROVE  Spec => []TagFound
<1>1. SerialInv => TagFound
  <2> SUFFICES ASSUME SerialInv, crashes = 0, failures = 0, NEW p \in Proc, pc[p] = "reach"
               PROVE  job[p].build <= HeadCommit
    BY DEF TagFound
  <2>1. head = "main" /\ cli <= main /\ job[p].build = cli
    BY DEF SerialInv, Serial, Intact, Fetched, Running, Dispatched
  <2> QED
    BY <2>1 DEF HeadCommit
<1> QED
  BY <1>1, SerialInvariance, PTL

\* One process at a time, killed or failing anywhere: an automatic update raises the
\* major version only to the version the user agreed to.
THEOREM MajorNeedsConsentSerially ==
  ASSUME OneProcess, "bootstrap" \notin Kinds
  PROVE  Spec => AutoMajorNeedsConsent
<1>1. IndInv /\ SerialInv /\ [Next]_vars
        => [\A p \in Proc : job[p].kind = "auto" => ~Unasked(p)]_vars
  <2> SUFFICES ASSUME IndInv, SerialInv, [Next]_vars,
                      NEW p \in Proc, job[p].kind = "auto", Unasked(p)
               PROVE  FALSE
    OBVIOUS
  <2>0. Proc = {p} /\ Agreement(p)
    BY DEF OneProcess, SerialInv
  <2>1. pc[p] = "cli" /\ pc'[p] = "runner" /\ MajorOf[cli'] > MajorOf[cli]
    BY DEF Unasked, Installs
  <2>2. pc \in [Proc -> Steps] /\ TypeOK
    BY DEF IndInv, TypeOK
  <2>3. InstallCli(p)
    <3>1. pc' # pc
      BY <2>1
    <3>2. ~Environment
      BY <3>1 DEF Environment, Publish, DayPasses, DeleteClone, DeleteLock
    <3>3. ~Start(p) /\ ~Fail(p) /\ ~Crash(p)
      BY <2>1, <2>2 DEF Start, Fail, Crash, Exit, Goto
    <3>4. ~FetchStep(p) /\ ~UpdateStep(p)
      BY <2>1 DEF FetchStep, UpdateStep, Check, Clone, Fetch, Reach, Reset, Status, UpdateRef,
         Record, Accept, DryCheck, DryBranch, DryMerge, DryClose, DryAbort
    <3>5. ~(UNCHANGED vars)
      BY <3>1 DEF vars
    <3> QED
      BY <2>0, <3>2, <3>3, <3>4, <3>5, <2>1 DEF Next, InstallerStep, LockCheck, LockTouch,
         GetStatus,
         Download, InstallRunner, FinalCheck, FinalMerge
  <2>4. cli' = job[p].agreed
    BY <2>0, <2>1, <2>3 DEF InstallCli, Agreement
  <2>5. job[p].build \in Release /\ cli' = job[p].build
    BY <2>1, <2>2, <2>3 DEF InstallCli, IndInv, BuildReleased
  <2>6. MajorOf[cli'] \in Nat /\ cli' # None
    <3>1. cli' \in Commits
      BY <2>5
    <3> QED
      BY <2>5, <3>1 DEF Commits, None
  <2> QED
    BY <2>4, <2>6 DEF Unasked
<1> QED
  BY <1>1, SerialInvariance, PTL DEF Spec, AutoMajorNeedsConsent

\* Only the exchange of the CLI changes the version which is installed.
LEMMA VersionStays ==
  ASSUME [Next]_vars, ~Publish, \A p \in Proc : ~InstallCli(p)
  PROVE  tip' = tip /\ cli' = cli
<1>1. CASE DayPasses \/ DeleteClone \/ DeleteLock \/ UNCHANGED vars
  BY <1>1 DEF DayPasses, DeleteClone, DeleteLock, vars, binaries
<1>2. ASSUME NEW p \in Proc, Start(p) \/ Fail(p) \/ Crash(p) PROVE tip' = tip /\ cli' = cli
  BY <1>2 DEF Start, Fail, Crash, binaries
<1>3. ASSUME NEW p \in Proc, FetchStep(p) PROVE tip' = tip /\ cli' = cli
  BY <1>3 DEF FetchStep, Check, Clone, Fetch, Reach, Reset, Status, UpdateRef, binaries
<1>4. ASSUME NEW p \in Proc, UpdateStep(p) PROVE tip' = tip /\ cli' = cli
  BY <1>4 DEF UpdateStep, Record, Accept, DryCheck, DryBranch, DryMerge, DryClose,
     DryAbort, binaries
<1>5. ASSUME NEW p \in Proc, InstallerStep(p) PROVE tip' = tip /\ cli' = cli
  BY <1>5 DEF InstallerStep, LockCheck, LockTouch, GetStatus, Download,
     InstallRunner, FinalCheck, FinalMerge, binaries
<1> QED
  BY <1>1, <1>2, <1>3, <1>4, <1>5 DEF Next, Environment

\* What a step of one process does to the installed version: nothing, or it exchanges
\* the CLI for a successor, if CLI and runner have one version.
LEMMA TrackStep ==
  ASSUME IndInv, SerialInv, [Next]_vars
  PROVE  [cli = runner => Track!Next]_(Track!track)
<1>1. pc \in [Proc -> Steps] /\ TypeOK
  BY DEF IndInv, TypeOK
<1>2. CASE Publish
  BY <1>2 DEF Publish, binaries, Track!Next, Track!Publish
<1>3. ASSUME NEW p \in Proc, InstallCli(p) PROVE [cli = runner => Track!Next]_(Track!track)
  <2>1. pc[p] = "cli" /\ cli' = job[p].build /\ tip' = tip
    BY <1>3 DEF InstallCli
  <2>2. CASE cli' = cli \/ cli # runner
    BY <2>1, <2>2 DEF Track!track
  <2>3. CASE cli' # cli /\ cli = runner
    <3>1. job[p].target # None /\ cli' = job[p].target
          /\ Upgradable(job[p].target, job[p].pre)
      BY <1>1, <2>1, <2>3 DEF SerialInv, Serial, Aimed
    <3>2. job[p].pre \in BOOLEAN
      BY <1>1, Numbers
    <3> QED
      BY <2>1, <3>1, <3>2 DEF Upgradable, Track!Next, Track!Upgrade
  <2> QED
    BY <2>2, <2>3
<1>4. CASE ~Publish /\ \A p \in Proc : ~InstallCli(p)
  BY <1>4, VersionStays DEF Track!track
<1> QED
  BY <1>2, <1>3, <1>4

\* With kills and failures, one process at a time follows the track of releases while
\* CLI and runner have one version.
THEOREM TrackIsFollowed ==
  ASSUME OneProcess, "bootstrap" \notin Kinds
  PROVE  Spec => FollowsTrack
<1>1. Init => Track!Init
  BY DEF Init, Track!Init
<1>2. IndInv /\ SerialInv /\ [Next]_vars => [cli = runner => Track!Next]_(Track!track)
  BY TrackStep
<1> QED
  BY <1>1, <1>2, SerialInvariance, PTL DEF Spec, FollowsTrack

\* Without them, it implements the track.
THEOREM TrackIsImplemented ==
  ASSUME OneProcess, "bootstrap" \notin Kinds, MaxCrashes = 0, MaxFailures = 0
  PROVE  Spec => ImplementsTrack
<1>1. Init => Track!Init
  BY DEF Init, Track!Init
<1>2. IndInv /\ SerialInv /\ [Next]_vars => [Track!Next]_(Track!track)
  <2> SUFFICES ASSUME IndInv, SerialInv, [Next]_vars
               PROVE  [Track!Next]_(Track!track)
    OBVIOUS
  <2>1. CASE cli = runner
    BY <2>1, TrackStep
  <2>2. CASE cli # runner
    <3>1. crashes = 0 /\ failures = 0
      BY DEF IndInv, TypeOK
    <3>2. \A p \in Proc : pc[p] = "runner"
      BY <2>2, <3>1 DEF SerialInv, Serial, Intact
    <3>3. CASE Publish
      BY <3>3 DEF Publish, binaries, Track!Next, Track!Publish
    <3>4. CASE ~Publish
      <4>1. \A p \in Proc : ~InstallCli(p)
        BY <3>2 DEF InstallCli
      <4> QED
        BY <3>4, <4>1, VersionStays DEF Track!track
    <3> QED
      BY <3>3, <3>4
  <2> QED
    BY <2>1, <2>2
<1> QED
  BY <1>1, <1>2, SerialInvariance, PTL DEF Spec, ImplementsTrack, Track!Spec
===============================================================================
