-------------------------- MODULE SharedHooks_proofs --------------------------
(***************************************************************************)
(* Proofs about SharedHooks for any number of processes, URLs and faults.  *)
(***************************************************************************)
EXTENDS SharedHooks, TLAPS

USE SharedAssumption DEF SharedAssumption

\* Steps at which a process looks at a list, and at which it looks at a URL.
Walking == {"load", "update", "pull", "delete", "clone", "cloning", "check"}
AtUrl == {"pull", "delete", "clone", "cloning"}

\* Where a process is when it has a list or a URL to look at.
Located ==
  \A p \in Proc : /\ pc[p] \in Walking => job[p].pos \in 1 .. 3
                  /\ pc[p] \in AtUrl => job[p].todo # <<>>

IndInv == TypeOK /\ Located

\* The parts of TypeOK.
JobsOK ==
  /\ pc \in [Proc -> Steps]
  /\ job \in [Proc -> JobType]

ClonesOK ==
  /\ state \in [Url -> States]
  /\ at \in [Url -> 0 .. LastCommit]
  /\ cloning \in [Url -> Proc \cup {"none"}]
  /\ tip \in [Url -> 1 .. LastCommit]
  /\ \A u \in Url : /\ state[u] = "complete" <=> at[u] # 0
                    /\ cloning[u] # "none" => state[u] = "partial"

RestOK ==
  /\ conf \in Config
  /\ list \in [Scope -> Seq(Url)]
  /\ cloneDone \in BOOLEAN
  /\ broken \in BOOLEAN
  /\ runs \in 0 .. MaxRuns
  /\ failures \in 0 .. MaxFaults
  /\ crashes \in 0 .. MaxFaults

LEMMA TypeParts == TypeOK <=> JobsOK /\ ClonesOK /\ RestOK
BY DEF TypeOK, JobsOK, ClonesOK, RestOK

LEMMA TypePartsNext == JobsOK' /\ ClonesOK' /\ RestOK' => TypeOK'
BY DEF TypeOK, JobsOK, ClonesOK, RestOK

-------------------------------------------------------------------------------
\* Facts about types.

LEMMA ListTypes ==
  ASSUME NEW urls \in BoundedLists
  PROVE  urls \in Seq(Url)
BY DEF BoundedLists

LEMMA JobTypes ==
  ASSUME TypeOK, NEW p \in Proc
  PROVE  /\ job \in [Proc -> JobType]
         /\ job[p] \in JobType
         /\ NoJob \in JobType
         /\ tip \in [Url -> 0 .. LastCommit]
         /\ pc \in [Proc -> Steps]
<1>1. NoJob \in JobType
  BY DEF NoJob, JobType, Scope
<1>2. tip \in [Url -> 0 .. LastCommit]
  BY DEF TypeOK
<1> QED
  BY <1>1, <1>2 DEF TypeOK

\* Taking a URL off leaves a list of URLs.
LEMMA Taken ==
  ASSUME TypeOK, NEW p \in Proc, job[p].todo # <<>>
  PROVE  /\ Current(p) \in Url
         /\ Tail(job[p].todo) \in Seq(Url)
<1>1. job[p].todo \in Seq(Url)
  BY JobTypes DEF JobType
<1> QED
  BY <1>1 DEF Current

-------------------------------------------------------------------------------
LEMMA InitInv == Init => IndInv
<1> SUFFICES ASSUME Init PROVE IndInv
  OBVIOUS
<1>1. NoJob \in JobType
  BY DEF NoJob, JobType, Scope
<1>2. list \in [Scope -> Seq(Url)]
  BY ListTypes DEF Init
<1>3. JobsOK
  BY <1>1 DEF Init, JobsOK, Steps
<1>4. ClonesOK
  BY DEF Init, ClonesOK, States
<1>5. RestOK
  <2>1. conf \in Config /\ runs \in 0 .. MaxRuns /\ failures \in 0 .. MaxFaults
        /\ crashes \in 0 .. MaxFaults
    BY DEF Init
  <2> QED
    BY <1>2, <2>1 DEF Init, RestOK
<1>6. Located
  BY DEF Init, Located, Walking, AtUrl
<1> QED
  BY <1>3, <1>4, <1>5, <1>6, TypeParts DEF IndInv
-------------------------------------------------------------------------------
\* What a step does to a process: it gets a new job, another step, or both.

LEMMA OneJob ==
  ASSUME TypeOK, Located, NEW p \in Proc, NEW j \in JobType, NEW step \in Steps,
         job' = [job EXCEPT ![p] = j], pc' = [pc EXCEPT ![p] = step],
         step \in Walking => j.pos \in 1 .. 3,
         step \in AtUrl => j.todo # <<>>
  PROVE  JobsOK' /\ Located'
<1>1. JobsOK'
  BY JobTypes DEF JobsOK
<1>2. Located'
  BY JobTypes DEF Located
<1> QED
  BY <1>1, <1>2

LEMMA ExitJobs ==
  ASSUME TypeOK, Located, NEW p \in Proc, Exit(p)
  PROVE  JobsOK' /\ Located'
<1>1. "idle" \in Steps /\ "idle" \notin Walking /\ "idle" \notin AtUrl
  BY DEF Steps, Walking, AtUrl
<1> QED
  BY <1>1, OneJob, JobTypes DEF Exit, Goto

LEMMA NextUrlJobs ==
  ASSUME TypeOK, Located, NEW p \in Proc, NEW ok \in BOOLEAN, NextUrl(p, ok),
         pc[p] \in Walking, job[p].todo # <<>>
  PROVE  JobsOK' /\ Located'
<1> DEFINE b == job[p].errors \/ (~ok /\ Tracked(job[p].kind))
           j == [job[p] EXCEPT !.todo = Tail(@), !.errors = b]
<1>1. b \in BOOLEAN
  OBVIOUS
<1>2. job' = [job EXCEPT ![p] = j] /\ pc' = [pc EXCEPT ![p] = "update"]
  BY DEF NextUrl, Goto
<1> HIDE DEF b
<1>3. j \in JobType /\ j.pos = job[p].pos
  BY <1>1, JobTypes, Taken DEF JobType
<1>4. "update" \in Steps /\ "update" \notin AtUrl
  BY DEF Steps, AtUrl
<1>5. j.pos \in 1 .. 3
  BY <1>3 DEF Located
<1> HIDE DEF j
<1> QED
  BY <1>2, <1>3, <1>4, <1>5, OneJob

LEMMA NextListJobs ==
  ASSUME TypeOK, Located, NEW p \in Proc, NextList(p), pc[p] \in Walking
  PROVE  JobsOK' /\ Located'
<1> DEFINE j == [job[p] EXCEPT !.pos = @ + 1, !.urls = <<>>]
           step == IF job[p].pos = 3 THEN "done" ELSE "load"
<1>1. job' = [job EXCEPT ![p] = j] /\ pc' = [pc EXCEPT ![p] = step]
  BY DEF NextList, Goto
<1>2. job[p].pos \in 1 .. 3
  BY DEF Located
<1>3. job[p].pos + 1 \in 1 .. 4 /\ <<>> \in Seq(Url)
  BY <1>2
<1>4. j \in JobType /\ j.pos = job[p].pos + 1
  BY <1>3, JobTypes DEF JobType
<1>5. step \in Steps /\ step \notin AtUrl /\ (step \in Walking => job[p].pos # 3)
  BY DEF Steps, AtUrl, Walking
<1>6. step \in Walking => j.pos \in 1 .. 3
  BY <1>2, <1>4, <1>5
<1> HIDE DEF j, step
<1> QED
  BY <1>1, <1>4, <1>5, <1>6, OneJob

\* The job stays, or only `todo` changes.
LEMMA TodoJobs ==
  ASSUME TypeOK, Located, NEW p \in Proc, NEW t \in Seq(Url), NEW step \in Steps,
         job' = [job EXCEPT ![p].todo = t], pc' = [pc EXCEPT ![p] = step],
         step \in Walking => pc[p] \in Walking,
         step \in AtUrl => t # <<>>
  PROVE  JobsOK' /\ Located'
<1> DEFINE j == [job[p] EXCEPT !.todo = t]
<1>1. job' = [job EXCEPT ![p] = j]
  OBVIOUS
<1>2. j \in JobType /\ j.pos = job[p].pos /\ j.todo = t
  BY JobTypes DEF JobType
<1>3. step \in Walking => j.pos \in 1 .. 3
  BY <1>2 DEF Located
<1> HIDE DEF j
<1> QED
  BY <1>1, <1>2, <1>3, OneJob

LEMMA GotoJobs ==
  ASSUME TypeOK, Located, NEW p \in Proc, NEW step \in Steps,
         UNCHANGED job, pc' = [pc EXCEPT ![p] = step],
         step \in Walking => pc[p] \in Walking,
         step \in AtUrl => job[p].todo # <<>>
  PROVE  JobsOK' /\ Located'
<1>1. job' = [job EXCEPT ![p] = job[p]]
  BY JobTypes
<1>2. step \in Walking => job[p].pos \in 1 .. 3
  BY DEF Located
<1> QED
  BY <1>1, <1>2, JobTypes, OneJob
LEMMA EditJobs ==
  ASSUME TypeOK, Located, NEW p \in Proc, EditStep(p)
  PROVE  JobsOK' /\ Located'
<1> USE DEF Goto
<1>1. CASE Empty(p)
  <2>1. job[p].urls \in Seq(Url) /\ "back" \in Steps /\ "back" \notin Walking \cup AtUrl
    BY JobTypes DEF JobType, Steps, Walking, AtUrl
  <2> QED
    BY <1>1, <2>1, TodoJobs DEF Empty
<1>2. CASE WriteBack(p)
  <2>1. /\ "back" \in Steps
        /\ "back" \notin Walking \cup AtUrl
        /\ pc' = [pc EXCEPT ![p] = "back"]
    BY <1>2, JobTypes DEF WriteBack, Steps, Walking, AtUrl
  <2>2. PICK t \in Seq(Url) : job' = [job EXCEPT ![p].todo = t]
    <3>1. CASE job[p].scope = "repo"
      <4>1. <<>> \in Seq(Url) /\ job' = [job EXCEPT ![p].todo = <<>>]
        BY <1>2, <3>1 DEF WriteBack
      <4> QED
        BY <4>1
    <3>2. CASE job[p].scope # "repo"
      BY <1>2, <3>2, Taken DEF WriteBack
    <3> QED
      BY <3>1, <3>2
  <2> QED
    BY <2>1, <2>2, TodoJobs
<1>3. CASE Edit(p)
  <2> DEFINE j == [job[p] EXCEPT !.pos = 3, !.urls = <<>>]
             step == IF job[p].kind = "setup" THEN "load" ELSE "done"
  <2>1. j \in JobType /\ j.pos \in 1 .. 3
    <3>1. <<>> \in Seq(Url) /\ 3 \in 1 .. 4 /\ 3 \in 1 .. 3
      OBVIOUS
    <3> QED
      BY <3>1, JobTypes DEF JobType
  <2>2. step \in Steps /\ step \notin AtUrl
    BY DEF Steps, AtUrl
  <2>3. job' = [job EXCEPT ![p] = j] /\ pc' = [pc EXCEPT ![p] = step]
    BY <1>3 DEF Edit
  <2> HIDE DEF j, step
  <2> QED
    BY <2>1, <2>2, <2>3, OneJob
<1> QED
  BY <1>1, <1>2, <1>3 DEF EditStep

LEMMA UpdateJobs ==
  ASSUME TypeOK, Located, NEW p \in Proc, UpdateStep(p)
  PROVE  JobsOK' /\ Located'
<1>0. Walking \subseteq Steps /\ AtUrl \subseteq Walking /\ "update" \in Walking
  BY DEF Steps, Walking, AtUrl
<1>1. CASE Look(p)
  <2>1. \E step \in {"pull", "delete"} : pc' = [pc EXCEPT ![p] = step]
    BY <1>1 DEF Look, Goto
  <2>2. {"pull", "delete"} \subseteq AtUrl
    BY DEF AtUrl
  <2> QED
    BY <1>0, <1>1, <2>1, <2>2, GotoJobs DEF Look
<1>2. CASE Pull(p)
  <2>1. pc[p] \in Walking /\ job[p].todo # <<>>
    BY <1>2 DEF Pull, Located, Walking, AtUrl
  <2>2. \E ok \in BOOLEAN : NextUrl(p, ok)
    BY <1>2 DEF Pull
  <2> QED
    BY <2>1, <2>2, NextUrlJobs
<1>3. CASE Delete(p)
  <2>1. pc[p] \in Walking /\ job[p].todo # <<>> /\ "clone" \in AtUrl
    BY <1>3 DEF Delete, Located, Walking, AtUrl
  <2> QED
    BY <1>0, <1>3, <2>1, GotoJobs DEF Delete, Goto
<1>4. CASE Clone(p)
  <2>1. pc[p] \in Walking /\ job[p].todo # <<>> /\ "cloning" \in AtUrl
    BY <1>4 DEF Clone, Located, Walking, AtUrl
  <2>2. CASE Goto(p, "cloning") /\ UNCHANGED job
    BY <1>0, <2>1, <2>2, GotoJobs DEF Goto
  <2>3. CASE NextUrl(p, FALSE)
    BY <2>1, <2>3, NextUrlJobs
  <2> QED
    BY <1>4, <2>2, <2>3 DEF Clone
<1>5. CASE Cloned(p)
  <2>1. pc[p] \in Walking /\ job[p].todo # <<>>
    BY <1>5 DEF Cloned, Located, Walking, AtUrl
  <2>2. \E ok \in BOOLEAN : NextUrl(p, ok)
    BY <1>5 DEF Cloned
  <2> QED
    BY <2>1, <2>2, NextUrlJobs
<1>6. CASE Updated(p)
  <2>1. pc[p] \in Walking /\ "check" \in Walking /\ "check" \notin AtUrl
    BY <1>6 DEF Updated, Walking, AtUrl
  <2>2. CASE job' = [job EXCEPT ![p].todo = job[p].urls] /\ Goto(p, "check")
    <3>1. job[p].urls \in Seq(Url)
      BY JobTypes DEF JobType
    <3> QED
      BY <1>0, <2>1, <2>2, <3>1, TodoJobs DEF Goto
  <2>3. CASE NextList(p)
    BY <2>1, <2>3, NextListJobs
  <2> QED
    BY <1>6, <2>2, <2>3 DEF Updated
<1> QED
  BY <1>1, <1>2, <1>3, <1>4, <1>5, <1>6 DEF UpdateStep

LEMMA UseJobs ==
  ASSUME TypeOK, Located, NEW p \in Proc, UseStep(p)
  PROVE  JobsOK' /\ Located'
<1>0. Walking \subseteq Steps /\ {"load", "update", "check"} \subseteq Walking \ AtUrl
  BY DEF Steps, Walking, AtUrl
<1>1. CASE Load(p)
  <2> DEFINE s == Scopes[job[p].pos]
             urls == IF IsHook(p) /\ s # "repo" THEN job[p].cached[s] ELSE list[s]
             j == [job[p] EXCEPT !.urls = urls, !.todo = urls]
             step == IF Updates(p) THEN "update" ELSE "check"
  <2>1. job[p].pos \in 1 .. 3
    BY <1>0, <1>1 DEF Load, Located
  <2>2. s \in Scope
    BY <2>1 DEF Scopes, Scope
  <2>3. urls \in Seq(Url)
    BY <2>2, JobTypes DEF TypeOK, JobType
  <2> HIDE DEF urls
  <2>4. j \in JobType /\ j.pos = job[p].pos
    BY <2>3, JobTypes DEF JobType
  <2>5. job' = [job EXCEPT ![p] = j] /\ pc' = [pc EXCEPT ![p] = step]
    BY <1>1 DEF Load, Goto, urls
  <2>6. step \in {"update", "check"}
    OBVIOUS
  <2> HIDE DEF j, step
  <2> QED
    BY <1>0, <2>1, <2>4, <2>5, <2>6, OneJob
<1>2. CASE Check(p)
  <2>1. pc[p] = "check" /\ job[p].todo # <<>> /\ job[p].pos \in 1 .. 3
    BY <1>0, <1>2 DEF Check, Located
  <2>2. CASE Leave(p) /\ UNCHANGED pc
    <3>1. pc' = [pc EXCEPT ![p] = "check"]
      BY <2>1, <2>2, JobTypes
    <3>2. PICK t \in Seq(Url) : job' = [job EXCEPT ![p].todo = t]
      BY <2>1, <2>2, Taken DEF Leave
    <3> QED
      BY <1>0, <2>1, <3>1, <3>2, TodoJobs
  <2>3. CASE Collect(p) /\ UNCHANGED pc
    <3> DEFINE j == [job[p] EXCEPT !.added = Append(@, Current(p)), !.todo = Tail(@)]
    <3>1. pc' = [pc EXCEPT ![p] = "check"]
      BY <2>1, <2>3, JobTypes
    <3>2. Append(job[p].added, Current(p)) \in Seq(Url)
      BY <2>1, Taken, JobTypes DEF JobType
    <3>3. j \in JobType /\ j.pos = job[p].pos
      BY <2>1, <3>2, Taken, JobTypes DEF JobType
    <3>4. job' = [job EXCEPT ![p] = j]
      BY <2>3 DEF Collect
    <3> HIDE DEF j
    <3> QED
      BY <1>0, <2>1, <3>1, <3>3, <3>4, OneJob
  <2>4. CASE Exit(p)
    BY <2>4, ExitJobs
  <2> QED
    BY <1>2, <2>2, <2>3, <2>4 DEF Check
<1>3. CASE Checked(p)
  BY <1>0, <1>3, NextListJobs DEF Checked
<1>4. CASE Done(p)
  BY <1>4, ExitJobs DEF Done
<1> QED
  BY <1>1, <1>2, <1>3, <1>4 DEF UseStep
LEMMA UseType ==
  ASSUME NEW j \in JobType, NEW kind \in AllKinds, NEW pos \in 1 .. 4, NEW s \in Scope,
         NEW since \in [Url -> 0 .. LastCommit], NEW cached \in [Scope -> Seq(Url)]
  PROVE  [j EXCEPT !.kind = kind, !.pos = pos, !.scope = s, !.since = since,
                   !.cached = cached] \in JobType
BY DEF JobType

\* What a hook run has in its cache.
LEMMA CachedType ==
  ASSUME TypeOK
  PROVE  /\ [list EXCEPT !["repo"] = <<>>] \in [Scope -> Seq(Url)]
         /\ NoJob.cached \in [Scope -> Seq(Url)]
<1>1. list \in [Scope -> Seq(Url)] /\ <<>> \in Seq(Url)
  BY DEF TypeOK
<1>2. [list EXCEPT !["repo"] = <<>>] \in [Scope -> Seq(Url)]
  BY <1>1
<1>3. NoJob.cached \in [Scope -> Seq(Url)]
  BY JobTypes DEF NoJob
<1> QED
  BY <1>2, <1>3

LEMMA StartJobs ==
  ASSUME TypeOK, Located, NEW p \in Proc, Start(p)
  PROVE  JobsOK' /\ Located'
<1>1. PICK new \in JobType, step \in {"edit", "purge", "load"} :
         /\ new.pos \in 1 .. 3
         /\ Begin(p, new)
         /\ pc' = [pc EXCEPT ![p] = step]
  <2>1. PICK kind \in AllKinds : StartUse(p, kind) \/ StartEdit(p, kind)
    BY DEF Start
  <2>2. CASE StartUse(p, kind)
    <3> DEFINE since == IF Tracked(kind) THEN tip ELSE NoJob.since
               cached == IF kind \in HookKinds THEN [list EXCEPT !["repo"] = <<>>]
                                               ELSE NoJob.cached
               use(pos) == [NoJob EXCEPT !.kind = kind, !.pos = pos, !.scope = Scopes[pos],
                                         !.since = since, !.cached = cached]
    <3>1. PICK pos \in {1, 3} :
            Begin(p, use(pos)) /\ Goto(p, IF kind = "purge" THEN "purge" ELSE "load")
      BY <2>2 DEF StartUse
    <3>2. pos \in 1 .. 3
      OBVIOUS
    <3>3. Scopes[pos] \in Scope
      BY DEF Scopes, Scope
    <3>4. since \in [Url -> 0 .. LastCommit]
      BY JobTypes DEF JobType
    <3>7. cached \in [Scope -> Seq(Url)]
      BY CachedType
    <3> HIDE DEF since, cached
    <3>5. use(pos) \in JobType
      <4>1. pos \in 1 .. 4 /\ NoJob \in JobType
        BY <3>2, JobTypes
      <4> QED
        BY <3>3, <3>4, <3>7, <4>1, UseType
    <3>6. use(pos).pos \in 1 .. 3
      BY <3>2 DEF NoJob
    <3> HIDE DEF use
    <3> QED
      BY <3>1, <3>5, <3>6 DEF Goto
  <2>3. CASE StartEdit(p, kind)
    <3>1. PICK s \in Scope, u \in Url :
            /\ Edited(kind, list[s], u) \in BoundedLists
            /\ Begin(p, [NoJob EXCEPT !.kind = kind, !.scope = s,
                                      !.urls = Edited(kind, list[s], u)])
            /\ Goto(p, "edit")
      BY <2>3 DEF StartEdit, Scope
    <3> DEFINE urls == Edited(kind, list[s], u)
               new == [NoJob EXCEPT !.kind = kind, !.scope = s, !.urls = urls]
    <3>2. urls \in Seq(Url)
      BY <3>1, ListTypes
    <3>3. Begin(p, new) /\ pc' = [pc EXCEPT ![p] = "edit"]
      BY <3>1 DEF Goto
    <3> HIDE DEF urls
    <3>4. new \in JobType
      BY <3>2, JobTypes DEF JobType
    <3>5. new.pos \in 1 .. 3
      BY DEF NoJob
    <3> HIDE DEF new
    <3> QED
      BY <3>3, <3>4, <3>5
  <2> QED
    BY <2>1, <2>2, <2>3
<1> DEFINE old(q) == [job[q] EXCEPT !.alone = FALSE]
           mine == [new EXCEPT !.alone = Quiet]
<1>2. Quiet \in BOOLEAN
  BY DEF Quiet
<1>3. mine \in JobType /\ mine.pos = new.pos
  BY <1>2 DEF JobType
<1>4. \A q \in Proc : old(q) \in JobType /\ old(q).pos = job[q].pos /\ old(q).todo = job[q].todo
  BY JobTypes DEF JobType
<1>5. job' = [q \in Proc |-> IF q = p THEN mine ELSE old(q)]
  BY <1>1 DEF Begin
<1> HIDE DEF mine, old
<1>6. job' \in [Proc -> JobType]
  BY <1>3, <1>4, <1>5
<1>7. step \in Steps /\ step \notin AtUrl
  BY DEF Steps, AtUrl
<1>8. JobsOK'
  BY <1>1, <1>6, <1>7, JobTypes DEF JobsOK
<1>9. Located'
  <2> SUFFICES ASSUME NEW q \in Proc
               PROVE  /\ pc'[q] \in Walking => job'[q].pos \in 1 .. 3
                      /\ pc'[q] \in AtUrl => job'[q].todo # <<>>
    BY DEF Located
  <2>1. CASE q = p
    BY <1>1, <1>3, <1>5, <1>7, <2>1, JobTypes
  <2>2. CASE q # p
    BY <1>1, <1>4, <1>5, <2>2, JobTypes DEF Located
  <2> QED
    BY <2>1, <2>2
<1> QED
  BY <1>8, <1>9

LEMMA OtherJobs ==
  ASSUME TypeOK, Located, NEW p \in Proc, Purge(p) \/ Purged(p) \/ Fail(p) \/ Crash(p)
  PROVE  JobsOK' /\ Located'
<1>1. CASE Purge(p)
  BY <1>1, JobTypes DEF Purge, JobsOK, Located
<1>2. CASE Purged(p)
  <2>1. "done" \in Steps /\ "done" \notin Walking \cup AtUrl
    BY DEF Steps, Walking, AtUrl
  <2> QED
    BY <1>2, <2>1, GotoJobs DEF Purged, Goto
<1>3. CASE Fail(p)
  <2>1. CASE Exit(p)
    BY <2>1, ExitJobs
  <2>2. CASE NextUrl(p, FALSE) /\ pc[p] \in AtUrl
    BY <2>2, NextUrlJobs DEF Located, Walking, AtUrl
  <2> QED
    BY <1>3, <2>1, <2>2 DEF Fail, AtUrl
<1>4. CASE Crash(p)
  BY <1>4, ExitJobs DEF Crash
<1> QED
  BY <1>1, <1>2, <1>3, <1>4
-------------------------------------------------------------------------------
\* What a step does to the clones.

\* Removing a directory, or breaking it.
LEMMA GoneClones ==
  ASSUME TypeOK, NEW u \in Url, NEW s \in {"missing", "junk"},
         state' = [state EXCEPT ![u] = s], at' = [at EXCEPT ![u] = 0],
         cloning' = [cloning EXCEPT ![u] = "none"], UNCHANGED tip
  PROVE  ClonesOK'
BY DEF TypeOK, ClonesOK, States

LEMMA SameClones ==
  ASSUME TypeOK, UNCHANGED <<state, at, cloning, tip>>
  PROVE  ClonesOK'
BY DEF TypeOK, ClonesOK

LEMMA UpdateClones ==
  ASSUME TypeOK, Located, NEW p \in Proc, UpdateStep(p)
  PROVE  ClonesOK'
<1> DEFINE u == Current(p)
<1>0. pc[p] \in AtUrl => u \in Url
  BY Taken DEF Located
<1>1. CASE Look(p)
  BY <1>1, SameClones DEF Look, clones
<1>2. CASE Pull(p)
  <2>1. u \in Url
    BY <1>0, <1>2 DEF Pull, AtUrl
  <2> HIDE DEF u
  <2>2. CASE /\ state' = [state EXCEPT ![u] = "complete"]
             /\ at' = [at EXCEPT ![u] = tip[u]]
             /\ state[u] = "complete" \/ cloning[u] = "none"
             /\ UNCHANGED <<cloning, tip>>
    BY <2>1, <2>2 DEF TypeOK, ClonesOK, States
  <2>3. CASE UNCHANGED <<state, at, cloning, tip>>
    BY <2>3, SameClones
  <2> QED
    BY <1>2, <2>2, <2>3 DEF Pull, u
<1>3. CASE Delete(p)
  <2>1. u \in Url
    BY <1>0, <1>3 DEF Delete, AtUrl
  <2> QED
    BY <1>3, <2>1, GoneClones DEF Delete
<1>4. CASE Clone(p)
  <2>1. u \in Url
    BY <1>0, <1>4 DEF Clone, AtUrl
  <2> HIDE DEF u
  <2>2. CASE /\ state[u] = "missing"
             /\ state' = [state EXCEPT ![u] = "partial"]
             /\ cloning' = [cloning EXCEPT ![u] = p]
             /\ UNCHANGED <<at, tip>>
    BY <2>1, <2>2 DEF TypeOK, ClonesOK, States
  <2>3. CASE UNCHANGED <<state, at, cloning, tip>>
    BY <2>3, SameClones
  <2> QED
    BY <1>4, <2>2, <2>3 DEF Clone, u
<1>5. CASE Cloned(p)
  <2>1. u \in Url
    BY <1>0, <1>5 DEF Cloned, AtUrl
  <2> HIDE DEF u
  <2>2. CASE /\ state' = [state EXCEPT ![u] = "complete"]
             /\ at' = [at EXCEPT ![u] = tip[u]]
             /\ cloning' = [cloning EXCEPT ![u] = "none"]
             /\ UNCHANGED tip
    BY <2>1, <2>2 DEF TypeOK, ClonesOK, States
  <2>3. CASE /\ state' = [state EXCEPT ![u] = "missing"]
             /\ at' = [at EXCEPT ![u] = 0]
             /\ cloning' = [cloning EXCEPT ![u] = "none"]
             /\ UNCHANGED tip
    BY <2>1, <2>3, GoneClones
  <2>4. CASE UNCHANGED <<state, at, cloning, tip>>
    BY <2>4, SameClones
  <2> QED
    BY <1>5, <2>2, <2>3, <2>4 DEF Cloned, clones, u
<1>6. CASE Updated(p)
  BY <1>6, SameClones DEF Updated, clones
<1> QED
  BY <1>1, <1>2, <1>3, <1>4, <1>5, <1>6 DEF UpdateStep

LEMMA OtherClones ==
  ASSUME TypeOK, Located, NEW p \in Proc, Purge(p) \/ Purged(p) \/ Fail(p) \/ Crash(p)
  PROVE  ClonesOK'
<1> DEFINE u == Current(p)
           Gone(v, s) == /\ state' = [state EXCEPT ![v] = s]
                         /\ at' = [at EXCEPT ![v] = 0]
                         /\ cloning' = [cloning EXCEPT ![v] = "none"]
                         /\ UNCHANGED tip
<1>0. pc[p] \in AtUrl => u \in Url
  BY Taken DEF Located
<1>1. CASE Purge(p)
  BY <1>1, GoneClones DEF Purge
<1>2. CASE Purged(p)
  BY <1>2, SameClones DEF Purged, clones
<1>3. CASE Fail(p)
  <2>1. CASE UNCHANGED clones /\ UNCHANGED tip
    BY <2>1, SameClones DEF clones
  <2>2. CASE pc[p] \in AtUrl /\ (Gone(u, "junk") \/ Gone(u, "missing"))
    BY <1>0, <2>2, GoneClones
  <2> QED
    BY <1>3, <2>1, <2>2 DEF Fail, AtUrl
<1>4. CASE Crash(p)
  <2>1. CASE UNCHANGED clones /\ UNCHANGED tip
    BY <2>1, SameClones DEF clones
  <2>2. CASE \E v \in Url : Gone(v, "junk")
    BY <2>2, GoneClones
  <2>3. CASE /\ pc[p] = "cloning"
             /\ cloning' = [cloning EXCEPT ![u] = "none"]
             /\ UNCHANGED <<state, at, tip>>
    <3>1. u \in Url
      BY <1>0, <2>3 DEF AtUrl
    <3> HIDE DEF u
    <3> QED
      BY <2>3, <3>1 DEF TypeOK, ClonesOK
  <2>4. CASE /\ pc[p] = "pull" /\ state[u] = "complete"
             /\ state' = [state EXCEPT ![u] = "partial"]
             /\ at' = [at EXCEPT ![u] = 0]
             /\ UNCHANGED <<cloning, tip>>
    <3>1. u \in Url
      BY <1>0, <2>4 DEF AtUrl
    <3> HIDE DEF u
    <3> QED
      BY <2>4, <3>1 DEF TypeOK, ClonesOK, States
  <2> QED
    BY <1>4, <2>1, <2>2, <2>3, <2>4 DEF Crash
<1> QED
  BY <1>1, <1>2, <1>3, <1>4

-------------------------------------------------------------------------------
\* What a step does to the lists and the rest.

LEMMA EditRest ==
  ASSUME TypeOK, NEW p \in Proc, EditStep(p)
  PROVE  RestOK'
<1>1. job[p].scope \in Scope /\ job[p].urls \in Seq(Url) /\ "repo" \in Scope
  BY JobTypes DEF JobType, Scope
<1>2. list' \in [Scope -> Seq(Url)]
  <2>1. list \in [Scope -> Seq(Url)]
    BY DEF TypeOK
  <2>2. CASE Empty(p)
    BY <1>1, <2>1, <2>2 DEF Empty
  <2>3. CASE WriteBack(p)
    <3>1. job[p].todo # <<>> /\ job[p].todo \in Seq(Url)
      BY <2>3, JobTypes DEF WriteBack, JobType
    <3>2. Append(list[job[p].scope], Head(job[p].todo)) \in Seq(Url)
      BY <1>1, <2>1, <3>1
    <3> QED
      BY <1>1, <2>1, <2>3, <3>2 DEF WriteBack
  <2>4. CASE Edit(p)
    BY <2>1, <2>4 DEF Edit
  <2> QED
    BY <2>2, <2>3, <2>4 DEF EditStep
<1>3. UNCHANGED <<conf, cloneDone, broken, runs, failures, crashes>>
  BY DEF EditStep, Empty, WriteBack, Edit, counts
<1> QED
  BY <1>2, <1>3 DEF TypeOK, RestOK

LEMMA OtherRest ==
  ASSUME TypeOK, NEW p \in Proc,
         \/ Start(p) \/ UpdateStep(p) \/ UseStep(p)
         \/ Purge(p) \/ Purged(p) \/ Fail(p) \/ Crash(p)
  PROVE  RestOK'
<1>0. /\ conf \in Config /\ list \in [Scope -> Seq(Url)]
      /\ cloneDone \in BOOLEAN /\ broken \in BOOLEAN
      /\ runs \in 0 .. MaxRuns /\ failures \in 0 .. MaxFaults /\ crashes \in 0 .. MaxFaults
  BY DEF TypeOK
<1>1. UNCHANGED <<conf, list>>
  BY DEF Start, UpdateStep, Look, Pull, Delete, Clone, Cloned, Updated,
         UseStep, Load, Check, Checked, Done, Purge, Purged, Fail, Crash
<1>2. cloneDone' \in BOOLEAN
  BY <1>0 DEF Start, UpdateStep, Look, Pull, Delete, Clone, Cloned, Updated,
         UseStep, Load, Check, Checked, Done, Purge, Purged, Fail, Crash
<1>3. broken' \in BOOLEAN
  BY <1>0 DEF Start, UpdateStep, Look, Pull, Delete, Clone, Cloned, Updated,
         UseStep, Load, Check, Checked, Done, Purge, Purged, Fail, Crash
<1>4. /\ runs' = runs \/ (runs < MaxRuns /\ runs' = runs + 1)
      /\ \/ UNCHANGED <<failures, crashes>>
         \/ failures + crashes < MaxFaults /\ failures' = failures + 1 /\ UNCHANGED crashes
         \/ failures + crashes < MaxFaults /\ crashes' = crashes + 1 /\ UNCHANGED failures
  BY DEF Start, UpdateStep, Look, Pull, Delete, Clone, Cloned, Updated,
         UseStep, Load, Check, Checked, Done, Purge, Purged, Fail, Crash, counts
<1>5. runs' \in 0 .. MaxRuns /\ failures' \in 0 .. MaxFaults /\ crashes' \in 0 .. MaxFaults
  BY <1>0, <1>4
<1> QED
  BY <1>0, <1>1, <1>2, <1>3, <1>5 DEF RestOK
-------------------------------------------------------------------------------
LEMMA NextInv == IndInv /\ [Next]_vars => IndInv'
<1> SUFFICES ASSUME IndInv, [Next]_vars PROVE IndInv'
  OBVIOUS
<1>0. TypeOK /\ Located
  BY DEF IndInv
<1>1. ASSUME NEW p \in Proc,
             \/ Start(p) \/ EditStep(p) \/ UpdateStep(p) \/ UseStep(p)
             \/ Purge(p) \/ Purged(p) \/ Fail(p) \/ Crash(p)
      PROVE  IndInv'
  <2>1. JobsOK' /\ Located'
    BY <1>0, <1>1, StartJobs, EditJobs, UpdateJobs, UseJobs, OtherJobs
  <2>2. ClonesOK'
    <3>1. CASE Start(p) \/ EditStep(p) \/ UseStep(p)
      <4>1. UNCHANGED <<state, at, cloning, tip>>
        BY <3>1 DEF Start, EditStep, Empty, WriteBack, Edit, UseStep, Load, Check,
                    Checked, Done, clones
      <4> QED
        BY <1>0, <4>1, SameClones
    <3>2. CASE UpdateStep(p)
      BY <1>0, <3>2, UpdateClones
    <3>3. CASE Purge(p) \/ Purged(p) \/ Fail(p) \/ Crash(p)
      BY <1>0, <3>3, OtherClones
    <3> QED
      BY <1>1, <3>1, <3>2, <3>3
  <2>3. RestOK'
    BY <1>0, <1>1, EditRest, OtherRest
  <2>4. TypeOK'
    BY <2>1, <2>2, <2>3, TypePartsNext
  <2> QED
    BY <2>1, <2>4 DEF IndInv
<1>2. ASSUME NEW u \in Url, Push(u)
      PROVE  IndInv'
  <2>1. tip' \in [Url -> 1 .. LastCommit]
    BY <1>0, <1>2 DEF Push, TypeOK
  <2>2. ClonesOK'
    BY <1>0, <1>2, <2>1 DEF Push, clones, TypeOK, ClonesOK
  <2>3. JobsOK' /\ Located'
    BY <1>0, <1>2 DEF Push, TypeOK, JobsOK, Located
  <2>4. RestOK'
    BY <1>0, <1>2 DEF Push, counts, TypeOK, RestOK
  <2> QED
    BY <2>2, <2>3, <2>4, TypePartsNext DEF IndInv
<1>3. CASE UNCHANGED vars
  <2>1. JobsOK' /\ Located'
    BY <1>0, <1>3 DEF vars, TypeOK, JobsOK, Located
  <2>2. ClonesOK'
    BY <1>0, <1>3, SameClones DEF vars, clones
  <2>3. RestOK'
    BY <1>0, <1>3 DEF vars, counts, TypeOK, RestOK
  <2> QED
    BY <2>1, <2>2, <2>3, TypePartsNext DEF IndInv
<1> QED
  BY <1>1, <1>2, <1>3 DEF Next

-------------------------------------------------------------------------------
\* What the properties about clones need.

\* Who is said to write a directory is cloning it.
Writer ==
  \A u \in Url : cloning[u] # "none" =>
    pc[cloning[u]] = "cloning" /\ Current(cloning[u]) = u

\* An incomplete clone is being written, or its process was killed; only a failure
\* or a kill leaves junk.
Remains ==
  \A u \in Url : /\ state[u] = "partial" => cloning[u] # "none" \/ broken
                 /\ state[u] = "junk" => broken \/ failures # 0

\* Nobody else is running.
AloneIsAlone ==
  \A p \in Proc : job[p].alone => \A q \in Proc \ {p} : pc[q] = "idle"

Pulling == {"update", "pull", "delete", "clone", "cloning"}

\* What a hook run has walked by is collected or was to be skipped.
Handled(p, u) == \/ u \in Elements(job[p].added)
                 \/ conf.skip /\ state[u] \in {"missing", "junk"}

\* The configured lists are as the hook run has them in its cache.
Cached(p) == \A s \in Scope \ {"repo"} : job[p].cached[s] = list[s]

\* A hook run alone updates nothing after it has collected something.
RunAlone(p) ==
  /\ pc[p] \in {"load", "check", "done"} \cup Pulling
  /\ pc[p] \in Pulling => job[p].pos = 1
  /\ pc[p] \in Pulling \cup {"load"} /\ job[p].pos = 1 => job[p].added = <<>>
  /\ pc[p] = "done" => job[p].pos = 4
  /\ pc[p] \in Pulling \cup {"check"} => job[p].urls = list[Scopes[job[p].pos]]
  /\ Cached(p)
  /\ \A i \in 1 .. job[p].pos - 1 : \A u \in Elements(list[Scopes[i]]) : Handled(p, u)
  /\ pc[p] = "check" => \A u \in Elements(job[p].urls) :
                          u \in Elements(job[p].todo) \/ Handled(p, u)
  /\ ~broken => \A u \in Elements(job[p].added) : state[u] = "complete"

RunInv == \A p \in Proc : IsHook(p) /\ job[p].alone => RunAlone(p)

\* The first list of an update.
First(p) == IF job[p].scope = "repo" THEN 1 ELSE 3

Fresh(p, u) == state[u] = "complete" /\ at[u] >= job[p].since[u]

\* An update alone that met no error has pulled or cloned what it has walked by.
UpdateAlone(p) ==
  /\ pc[p] \in {"load", "done"} \cup Pulling
  /\ job[p].scope \in {"repo", "global"}
  /\ pc[p] = "done" => job[p].pos = 4
  /\ pc[p] \in Pulling => job[p].urls = list[Scopes[job[p].pos]]
  /\ pc[p] \in {"delete", "clone", "cloning"} => state[Current(p)] # "complete"
  /\ ~job[p].errors /\ ~broken =>
     /\ \A i \in First(p) .. job[p].pos - 1 : \A u \in Elements(list[Scopes[i]]) : Fresh(p, u)
     /\ pc[p] \in Pulling => \A u \in Elements(job[p].urls) :
                               u \in Elements(job[p].todo) \/ Fresh(p, u)

UpdateInv ==
  \A p \in Proc : job[p].kind = "update" =>
    /\ \A u \in Url : job[p].since[u] <= tip[u]
    /\ job[p].alone => UpdateAlone(p)
-------------------------------------------------------------------------------
\* What a step may change.

\* A step of a process that is running.
Own(p) == \/ EditStep(p) \/ UpdateStep(p) \/ UseStep(p)
          \/ Purge(p) \/ Purged(p) \/ Fail(p) \/ Crash(p)

\* A process ends, or keeps what it was started with.
LEMMA OwnStep ==
  ASSUME TypeOK, NEW p \in Proc, Own(p)
  PROVE  /\ pc[p] # "idle"
         /\ \A q \in Proc \ {p} : job'[q] = job[q] /\ pc'[q] = pc[q]
         /\ \/ job'[p] = NoJob /\ pc'[p] = "idle"
            \/ /\ job'[p].kind = job[p].kind /\ job'[p].scope = job[p].scope
               /\ job'[p].since = job[p].since /\ job'[p].alone = job[p].alone
               /\ job'[p].cached = job[p].cached
<1> DEFINE Kept == /\ job'[p].kind = job[p].kind /\ job'[p].scope = job[p].scope
                   /\ job'[p].since = job[p].since /\ job'[p].alone = job[p].alone
                   /\ job'[p].cached = job[p].cached
           Others == \A q \in Proc \ {p} : job'[q] = job[q] /\ pc'[q] = pc[q]
<1>0. /\ job \in [Proc -> JobType] /\ pc \in [Proc -> Steps]
      /\ job[p] \in JobType
  BY JobTypes
<1>1. ASSUME Exit(p)
      PROVE  Others /\ job'[p] = NoJob /\ pc'[p] = "idle"
  BY <1>0, <1>1 DEF Exit, Goto
<1>2. ASSUME NEW ok, NextUrl(p, ok)
      PROVE  Others /\ Kept
  BY <1>0, <1>2 DEF NextUrl, Goto, JobType
<1>3. ASSUME NextList(p)
      PROVE  Others /\ Kept
  BY <1>0, <1>3 DEF NextList, Goto, JobType
<1>4. ASSUME NEW t, job' = [job EXCEPT ![p].todo = t]
      PROVE  (\A q \in Proc \ {p} : job'[q] = job[q]) /\ Kept
  BY <1>0, <1>4 DEF JobType
<1>5. ASSUME NEW step, Goto(p, step)
      PROVE  \A q \in Proc \ {p} : pc'[q] = pc[q]
  BY <1>0, <1>5 DEF Goto
<1>6. CASE EditStep(p)
  <2>1. CASE Empty(p)
    BY <1>4, <1>5, <2>1 DEF Empty
  <2>2. CASE WriteBack(p)
    <3>1. \E t : job' = [job EXCEPT ![p].todo = t]
      BY <2>2 DEF WriteBack
    <3> QED
      BY <1>4, <2>2, <3>1 DEF WriteBack
  <2>3. CASE Edit(p)
    <3>1. Kept /\ \A q \in Proc \ {p} : job'[q] = job[q]
      BY <1>0, <2>3 DEF Edit, JobType
    <3> QED
      BY <1>5, <2>3, <3>1 DEF Edit
  <2> QED
    BY <1>6, <2>1, <2>2, <2>3 DEF EditStep
<1>7. CASE UpdateStep(p)
  <2>1. CASE Look(p) \/ Delete(p)
    BY <1>5, <2>1 DEF Look, Delete
  <2>2. CASE Pull(p) \/ Cloned(p)
    BY <1>2, <2>2 DEF Pull, Cloned
  <2>3. CASE Clone(p)
    BY <1>2, <1>5, <2>3 DEF Clone
  <2>4. CASE Updated(p)
    BY <1>3, <1>4, <1>5, <2>4 DEF Updated
  <2> QED
    BY <1>7, <2>1, <2>2, <2>3, <2>4 DEF UpdateStep
<1>8. CASE UseStep(p)
  <2>1. CASE Load(p)
    <3>1. Kept /\ \A q \in Proc \ {p} : job'[q] = job[q]
      BY <1>0, <2>1 DEF Load, JobType
    <3> QED
      BY <1>5, <2>1, <3>1 DEF Load
  <2>2. CASE Check(p)
    <3>1. CASE Leave(p) /\ UNCHANGED pc
      BY <1>4, <2>2, <3>1 DEF Leave, Check
    <3>2. CASE Collect(p) /\ UNCHANGED pc
      <4>1. Kept /\ \A q \in Proc \ {p} : job'[q] = job[q]
        BY <1>0, <3>2 DEF Collect, JobType
      <4> QED
        BY <2>2, <3>2, <4>1 DEF Check
    <3>3. CASE Exit(p)
      BY <1>1, <2>2, <3>3 DEF Check
    <3> QED
      BY <2>2, <3>1, <3>2, <3>3 DEF Check
  <2>3. CASE Checked(p)
    BY <1>3, <2>3 DEF Checked
  <2>4. CASE Done(p)
    BY <1>1, <2>4 DEF Done
  <2> QED
    BY <1>8, <2>1, <2>2, <2>3, <2>4 DEF UseStep
<1>9. CASE Purge(p) \/ Purged(p)
  BY <1>5, <1>9 DEF Purge, Purged
<1>10. CASE Fail(p) \/ Crash(p)
  BY <1>1, <1>2, <1>10 DEF Fail, Crash
<1> QED
  BY <1>6, <1>7, <1>8, <1>9, <1>10 DEF Own

\* Who starts has a new job; the others are not alone any more.
LEMMA StartStep ==
  ASSUME TypeOK, NEW p \in Proc, Start(p)
  PROVE  /\ pc[p] = "idle"
         /\ pc'[p] \in {"edit", "purge", "load"}
         /\ UNCHANGED <<conf, list, state, at, cloning, tip, broken, failures>>
         /\ \A q \in Proc \ {p} : /\ pc'[q] = pc[q] /\ ~job'[q].alone
                                  /\ job'[q].kind = job[q].kind
                                  /\ job'[q].since = job[q].since
                                  /\ job'[q].todo = job[q].todo
         /\ job'[p].alone = Quiet
         /\ job'[p].kind \in HookKinds =>
              /\ pc'[p] = "load" /\ job'[p].pos = 1 /\ job'[p].added = <<>>
              /\ job'[p].cached = [list EXCEPT !["repo"] = <<>>]
         /\ job'[p].kind = "update" =>
              /\ pc'[p] = "load" /\ job'[p].pos \in {1, 3}
              /\ job'[p].scope = Scopes[job'[p].pos]
              /\ job'[p].since = tip
<1>0. /\ job \in [Proc -> JobType] /\ pc \in [Proc -> Steps]
      /\ job[p] \in JobType /\ NoJob \in JobType
  BY JobTypes
<1>1. PICK kind \in AllKinds : /\ kind \in HookKinds \cup {"update", "purge"} => StartUse(p, kind)
                               /\ kind \notin HookKinds \cup {"update", "purge"} => StartEdit(p, kind)
  BY DEF Start
<1>2. pc[p] = "idle" /\ UNCHANGED <<conf, list, state, at, cloning, tip, broken, failures>>
  BY DEF Start, clones
<1>3. ASSUME NEW new \in JobType, Begin(p, new)
      PROVE  /\ \A q \in Proc \ {p} : /\ ~job'[q].alone
                                      /\ job'[q].kind = job[q].kind
                                      /\ job'[q].since = job[q].since
                                      /\ job'[q].todo = job[q].todo
             /\ job'[p].alone = Quiet
             /\ job'[p].kind = new.kind /\ job'[p].pos = new.pos /\ job'[p].added = new.added
             /\ job'[p].scope = new.scope /\ job'[p].since = new.since
             /\ job'[p].cached = new.cached
  <2>1. job' = [q \in Proc |-> IF q = p THEN [new EXCEPT !.alone = Quiet]
                                        ELSE [job[q] EXCEPT !.alone = FALSE]]
    BY <1>3 DEF Begin
  <2>2. job'[p] = [new EXCEPT !.alone = Quiet]
    BY <2>1
  <2>3. \A q \in Proc \ {p} : /\ ~job'[q].alone
                              /\ job'[q].kind = job[q].kind
                              /\ job'[q].since = job[q].since
                              /\ job'[q].todo = job[q].todo
    <3> TAKE q \in Proc \ {p}
    <3>1. job[q] \in JobType /\ job'[q] = [job[q] EXCEPT !.alone = FALSE]
      BY <1>0, <2>1
    <3> QED
      BY <3>1 DEF JobType
  <2> QED
    BY <2>2, <2>3 DEF JobType
<1>4. ASSUME NEW step, Goto(p, step)
      PROVE  pc'[p] = step /\ \A q \in Proc \ {p} : pc'[q] = pc[q]
  BY <1>0, <1>4 DEF Goto
<1>5. CASE kind \in HookKinds \cup {"update", "purge"}
  <2> DEFINE since == IF Tracked(kind) THEN tip ELSE NoJob.since
             cached == IF kind \in HookKinds THEN [list EXCEPT !["repo"] = <<>>]
                                             ELSE NoJob.cached
             use(pos) == [NoJob EXCEPT !.kind = kind, !.pos = pos, !.scope = Scopes[pos],
                                       !.since = since, !.cached = cached]
  <2>1. PICK pos \in IF kind = "update" THEN {1, 3} ELSE {1} :
          Begin(p, use(pos)) /\ Goto(p, IF kind = "purge" THEN "purge" ELSE "load")
    BY <1>1, <1>5 DEF StartUse
  <2>2. pos \in {1, 3} /\ (kind # "update" => pos = 1)
    BY <2>1
  <2>3. Scopes[pos] \in Scope
    BY <2>2 DEF Scopes, Scope
  <2>4. since \in [Url -> 0 .. LastCommit] /\ (kind = "update" => since = tip)
    BY JobTypes DEF JobType, Tracked
  <2>5. use(pos) \in JobType
    <3>1. pos \in 1 .. 4 /\ cached \in [Scope -> Seq(Url)]
      BY <2>2, CachedType
    <3> HIDE DEF since, cached
    <3> QED
      BY <1>0, <2>3, <2>4, <3>1, UseType
  <2>6. /\ use(pos).kind = kind /\ use(pos).pos = pos /\ use(pos).added = <<>>
        /\ use(pos).scope = Scopes[pos] /\ use(pos).since = since
        /\ use(pos).cached = cached
    BY DEF NoJob
  <2>a. kind \in HookKinds => cached = [list EXCEPT !["repo"] = <<>>]
    OBVIOUS
  <2> HIDE DEF use, since, cached
  <2>7. /\ job'[p].alone = Quiet /\ job'[p].kind = kind /\ job'[p].pos = pos
        /\ job'[p].added = <<>> /\ job'[p].scope = Scopes[pos] /\ job'[p].since = since
        /\ job'[p].cached = cached
        /\ \A q \in Proc \ {p} : /\ ~job'[q].alone
                                 /\ job'[q].kind = job[q].kind
                                 /\ job'[q].since = job[q].since
                                 /\ job'[q].todo = job[q].todo
    BY <1>3, <2>1, <2>5, <2>6
  <2>8. /\ pc'[p] = IF kind = "purge" THEN "purge" ELSE "load"
        /\ \A q \in Proc \ {p} : pc'[q] = pc[q]
    BY <1>4, <2>1
  <2>9. "purge" \notin HookKinds /\ "update" \notin HookKinds
    BY DEF HookKinds
  <2> QED
    BY <1>2, <2>2, <2>4, <2>a, <2>7, <2>8, <2>9
<1>6. CASE kind \notin HookKinds \cup {"update", "purge"}
  <2>1. PICK s \in Scope, u \in Url :
          /\ Edited(kind, list[s], u) \in BoundedLists
          /\ Begin(p, [NoJob EXCEPT !.kind = kind, !.scope = s,
                                    !.urls = Edited(kind, list[s], u)])
          /\ Goto(p, "edit")
    BY <1>1, <1>6 DEF StartEdit, Scope
  <2> DEFINE urls == Edited(kind, list[s], u)
             new == [NoJob EXCEPT !.kind = kind, !.scope = s, !.urls = urls]
  <2>2. urls \in Seq(Url)
    BY <2>1, ListTypes
  <2>3. Begin(p, new)
    BY <2>1
  <2> HIDE DEF urls
  <2>4. new \in JobType /\ new.kind = kind
    BY <1>0, <2>2 DEF JobType
  <2> HIDE DEF new
  <2> QED
    BY <1>2, <1>3, <1>4, <1>6, <2>1, <2>3, <2>4
<1> QED
  BY <1>5, <1>6

\* Nobody else moves beside a process that is alone, and who is alone now has been.
LEMMA AloneStep ==
  ASSUME TypeOK, AloneIsAlone, NEW p \in Proc, NEW q \in Proc,
         Own(q) \/ Start(q), job'[p].alone
  PROVE  \/ p = q /\ Own(p) /\ job[p].alone
         \/ p = q /\ Start(p) /\ Quiet
<1>1. CASE Own(q)
  <2>1. CASE p # q
    BY <1>1, <2>1, OwnStep DEF AloneIsAlone
  <2>2. CASE p = q
    BY <1>1, <2>2, OwnStep DEF NoJob
  <2> QED
    BY <2>1, <2>2
<1>2. CASE Start(q)
  BY <1>2, StartStep
<1> QED
  BY <1>1, <1>2

LEMMA NextAlone ==
  ASSUME TypeOK, AloneIsAlone, NEW q \in Proc, Own(q) \/ Start(q)
  PROVE  AloneIsAlone'
<1> SUFFICES ASSUME NEW p \in Proc, job'[p].alone, NEW r \in Proc \ {p}
             PROVE  pc'[r] = "idle"
  BY DEF AloneIsAlone
<1>1. CASE Own(q)
  BY <1>1, AloneStep, OwnStep, StartStep DEF AloneIsAlone
<1>2. CASE Start(q)
  <2>1. \A s \in Proc \ {q} : pc'[s] = pc[s] /\ ~job'[s].alone
    BY <1>2, StartStep
  <2>2. job'[q].alone = Quiet
    BY <1>2, StartStep
  <2> QED
    BY <2>1, <2>2 DEF Quiet
<1> QED
  BY <1>1, <1>2

-------------------------------------------------------------------------------
\* Who writes a directory, and what failures leave.

\* A step which leaves the directories of other writers alone.
LEMMA WriterKept ==
  ASSUME TypeOK, Writer, NEW p \in Proc, Own(p),
         \A u \in Url : cloning'[u] # "none" => cloning'[u] = cloning[u] /\ cloning[u] # p
  PROVE  Writer'
<1> SUFFICES ASSUME NEW u \in Url, cloning'[u] # "none"
             PROVE  pc'[cloning'[u]] = "cloning" /\ Current(cloning[u])' = u
  BY DEF Writer
<1>1. cloning[u] \in Proc \ {p} /\ cloning'[u] = cloning[u]
  BY DEF TypeOK
<1>2. pc[cloning[u]] = "cloning" /\ Current(cloning[u]) = u
  BY <1>1 DEF Writer
<1> QED
  BY <1>1, <1>2, OwnStep DEF Current

\* A step of a process that is not cloning, which writes to no directory.
LEMMA NotWriting ==
  ASSUME TypeOK, Writer, Remains, NEW p \in Proc, Own(p),
         pc[p] # "cloning", UNCHANGED <<state, cloning, failures>>,
         broken' = broken \/ broken' = TRUE
  PROVE  Writer' /\ Remains'
<1>1. \A u \in Url : cloning'[u] # "none" => cloning'[u] = cloning[u] /\ cloning[u] # p
  BY DEF Writer
<1>2. Writer'
  BY <1>1, WriterKept
<1>3. Remains'
  BY DEF Remains
<1> QED
  BY <1>2, <1>3

\* A directory is removed or broken; nobody else's is touched.
LEMMA GoneWriter ==
  ASSUME TypeOK, Writer, Remains, NEW p \in Proc, Own(p), NEW v \in Url,
         NEW s \in {"missing", "junk"},
         pc[p] = "cloning" => v = Current(p),
         state' = [state EXCEPT ![v] = s],
         cloning' = [cloning EXCEPT ![v] = "none"],
         s = "junk" => broken' \/ failures' # 0,
         broken => broken', failures' \in Nat /\ failures' >= failures
  PROVE  Writer' /\ Remains'
<1>0. /\ state \in [Url -> States] /\ cloning \in [Url -> Proc \cup {"none"}]
      /\ failures \in Nat
  BY DEF TypeOK
<1>1. \A u \in Url : cloning'[u] # "none" => cloning'[u] = cloning[u] /\ cloning[u] # p
  BY <1>0 DEF Writer
<1>2. Writer'
  BY <1>1, WriterKept
<1>3. Remains'
  BY <1>0 DEF Remains
<1> QED
  BY <1>2, <1>3

LEMMA UpdateRemains ==
  ASSUME TypeOK, Located, Writer, Remains, NEW p \in Proc, UpdateStep(p)
  PROVE  Writer' /\ Remains'
<1> DEFINE u == Current(p)
<1>a. pc[p] \in AtUrl => u \in Url
  BY Taken DEF Located
<1>b. Own(p) /\ UNCHANGED <<broken, failures>>
  BY DEF Own, UpdateStep, Look, Pull, Delete, Clone, Cloned, Updated, counts
<1>c. /\ failures \in Nat /\ p # "none"
      /\ state \in [Url -> States] /\ cloning \in [Url -> Proc \cup {"none"}]
  BY DEF TypeOK
<1>d. broken => broken'
  BY <1>b
<1>e. failures' \in Nat /\ failures' >= failures
  BY <1>b, <1>c
<1>0. /\ pc[p] \in AtUrl => u \in Url
      /\ Own(p) /\ UNCHANGED <<broken, failures>> /\ failures \in Nat
      /\ state \in [Url -> States] /\ cloning \in [Url -> Proc \cup {"none"}]
      /\ p # "none"
  BY <1>a, <1>b, <1>c
<1>1. CASE Look(p)
  BY <1>0, <1>1, NotWriting DEF Look, clones
<1>2. CASE Pull(p)
  <2>1. u \in Url /\ pc[p] = "pull" /\ UNCHANGED cloning
    BY <1>0, <1>2 DEF Pull, AtUrl
  <2>2. CASE UNCHANGED state
    BY <1>0, <2>1, <2>2, NotWriting
  <2>3. CASE state' = [state EXCEPT ![u] = "complete"]
    <3>1. Writer'
      BY <1>0, <2>1, WriterKept DEF Writer
    <3>2. Remains'
      BY <1>0, <2>1, <2>3 DEF Remains
    <3> QED
      BY <3>1, <3>2
  <2> QED
    BY <1>2, <2>2, <2>3 DEF Pull
<1>3. CASE Delete(p)
  <2>1. u \in Url
    BY <1>0, <1>3 DEF Delete, AtUrl
  <2> QED
    BY <1>0, <1>3, <1>d, <1>e, <2>1, GoneWriter DEF Delete
<1>4. CASE Clone(p)
  <2>1. u \in Url /\ pc[p] = "clone"
    BY <1>0, <1>4 DEF Clone, AtUrl
  <2>2. CASE UNCHANGED <<state, cloning>>
    BY <1>0, <2>1, <2>2, NotWriting
  <2>3. CASE /\ state[u] = "missing"
             /\ state' = [state EXCEPT ![u] = "partial"]
             /\ cloning' = [cloning EXCEPT ![u] = p]
             /\ Goto(p, "cloning")
             /\ UNCHANGED job
    <3>1. Remains'
      BY <1>0, <2>1, <2>3 DEF Remains
    <3>2. Writer'
      <4> SUFFICES ASSUME NEW v \in Url, cloning'[v] # "none"
                   PROVE  pc'[cloning'[v]] = "cloning" /\ Head(job'[cloning'[v]].todo) = v
        BY DEF Writer, Current
      <4>1. CASE v = u
        BY <1>0, <2>1, <2>3, <4>1, JobTypes DEF Goto, Current
      <4>2. CASE v # u
        <5>1. cloning'[v] = cloning[v] /\ cloning[v] # p /\ cloning[v] \in Proc
          BY <1>0, <2>1, <2>3, <4>2 DEF Writer
        <5> QED
          BY <2>3, <5>1, JobTypes DEF Writer, Goto, Current
      <4> QED
        BY <4>1, <4>2
    <3> QED
      BY <3>1, <3>2
  <2> QED
    BY <1>4, <2>2, <2>3 DEF Clone
<1>5. CASE Cloned(p)
  <2>1. u \in Url /\ pc[p] = "cloning"
    BY <1>0, <1>5 DEF Cloned, AtUrl
  <2>2. CASE /\ cloning[u] = p
             /\ state' = [state EXCEPT ![u] = "complete"]
             /\ cloning' = [cloning EXCEPT ![u] = "none"]
    <3>1. \A v \in Url : cloning'[v] # "none" => cloning'[v] = cloning[v] /\ cloning[v] # p
      BY <1>0, <2>1, <2>2 DEF Writer
    <3>2. Writer'
      BY <1>0, <3>1, WriterKept
    <3>3. Remains'
      BY <1>0, <2>1, <2>2 DEF Remains
    <3> QED
      BY <3>2, <3>3
  <2>3. CASE /\ cloning[u] # p
             /\ state' = [state EXCEPT ![u] = "missing"]
             /\ cloning' = [cloning EXCEPT ![u] = "none"]
    BY <1>0, <1>d, <1>e, <2>1, <2>3, GoneWriter
  <2>4. CASE cloning[u] # p /\ UNCHANGED <<state, cloning>>
    <3>1. Writer'
      BY <1>0, <2>1, <2>4, WriterKept DEF Writer
    <3>2. Remains'
      BY <1>0, <2>4 DEF Remains
    <3> QED
      BY <3>1, <3>2
  <2> QED
    BY <1>5, <2>2, <2>3, <2>4 DEF Cloned, clones
<1>6. CASE Updated(p)
  BY <1>0, <1>6, NotWriting DEF Updated, clones
<1> QED
  BY <1>1, <1>2, <1>3, <1>4, <1>5, <1>6 DEF UpdateStep

LEMMA OtherRemains ==
  ASSUME TypeOK, Located, Writer, Remains, NEW p \in Proc,
         Purge(p) \/ Purged(p) \/ Fail(p) \/ Crash(p)
  PROVE  Writer' /\ Remains'
<1> DEFINE u == Current(p)
           Gone(v, s) == /\ state' = [state EXCEPT ![v] = s]
                         /\ cloning' = [cloning EXCEPT ![v] = "none"]
<1>0. /\ pc[p] \in AtUrl => u \in Url
      /\ Own(p) /\ failures \in Nat /\ broken \in BOOLEAN
      /\ state \in [Url -> States] /\ cloning \in [Url -> Proc \cup {"none"}]
  BY Taken DEF Located, Own, TypeOK
<1>1. CASE Purge(p)
  <2>1. PICK v \in Url : Gone(v, "missing")
    BY <1>1 DEF Purge
  <2>2. pc[p] = "purge" /\ UNCHANGED <<broken, failures>>
    BY <1>1 DEF Purge, counts
  <2>3. broken => broken'
    BY <2>2
  <2>4. failures' \in Nat /\ failures' >= failures
    BY <1>0, <2>2
  <2> HIDE DEF u
  <2> QED
    BY <1>0, <2>1, <2>2, <2>3, <2>4, GoneWriter
<1>2. CASE Purged(p)
  <2>1. \A v \in Url : state[v] = "missing" /\ cloning[v] = "none"
    BY <1>2 DEF Purged, TypeOK
  <2>2. UNCHANGED <<state, cloning>>
    BY <1>2 DEF Purged, clones
  <2> QED
    BY <2>1, <2>2 DEF Writer, Remains
<1>3. CASE Fail(p)
  <2>1. failures' = failures + 1 /\ UNCHANGED broken
    BY <1>3 DEF Fail
  <2>2. CASE pc[p] # "cloning" /\ UNCHANGED clones
    <3>1. Writer'
      BY <1>0, <2>2, WriterKept DEF Writer, clones
    <3>2. Remains'
      BY <1>0, <2>1, <2>2 DEF Remains, clones
    <3> QED
      BY <3>1, <3>2
  <2>3. CASE pc[p] \in AtUrl /\ (Gone(u, "junk") \/ Gone(u, "missing"))
    <3>1. u \in Url
      BY <1>0, <2>3
    <3>2. failures' \in Nat /\ failures' >= failures /\ failures' # 0
      BY <1>0, <2>1
    <3> QED
      BY <1>0, <2>1, <2>3, <3>1, <3>2, GoneWriter
  <2> QED
    BY <1>3, <2>2, <2>3 DEF Fail, AtUrl
<1>4. CASE Crash(p)
  <2>1. /\ UNCHANGED failures
        /\ broken' = (broken \/ pc[p] \in {"pull", "delete", "cloning", "purge"})
    BY <1>4 DEF Crash
  <2>2. CASE (pc[p] = "cloning" => cloning[u] # p) /\ UNCHANGED clones
    <3>1. \A v \in Url : cloning[v] # "none" => cloning[v] # p
      BY <2>2 DEF Writer
    <3>2. Writer'
      BY <1>0, <2>2, <3>1, WriterKept DEF clones
    <3>3. Remains'
      BY <2>1, <2>2 DEF Remains, clones
    <3> QED
      BY <3>2, <3>3
  <2>3. CASE \E v \in Url : /\ pc[p] = "purge" \/ (pc[p] \in {"delete", "cloning"} /\ v = u)
                            /\ Gone(v, "junk")
    <3>1. PICK v \in Url : /\ pc[p] = "purge" \/ (pc[p] \in {"delete", "cloning"} /\ v = u)
                           /\ Gone(v, "junk")
      BY <2>3
    <3>2. failures' \in Nat /\ failures' >= failures
      BY <1>0, <2>1
    <3>3. broken'
      BY <2>1, <3>1
    <3> QED
      BY <1>0, <3>1, <3>2, <3>3, GoneWriter
  <2>4. CASE /\ pc[p] = "cloning" /\ cloning[u] = p
             /\ cloning' = [cloning EXCEPT ![u] = "none"]
             /\ UNCHANGED state
    <3>1. u \in Url
      BY <1>0, <2>4 DEF AtUrl
    <3>2. \A v \in Url : cloning'[v] # "none" => cloning'[v] = cloning[v] /\ cloning[v] # p
      BY <1>0, <2>4, <3>1 DEF Writer
    <3>3. Writer'
      BY <1>0, <3>2, WriterKept
    <3>4. Remains'
      BY <2>1, <2>4 DEF Remains
    <3> QED
      BY <3>3, <3>4
  <2>5. CASE /\ pc[p] = "pull" /\ state' = [state EXCEPT ![u] = "partial"]
             /\ UNCHANGED cloning
    <3>1. u \in Url /\ broken'
      BY <1>0, <2>1, <2>5 DEF AtUrl
    <3>2. Writer'
      BY <1>0, <2>5, WriterKept DEF Writer
    <3>3. Remains'
      BY <1>0, <2>5, <3>1 DEF Remains
    <3> QED
      BY <3>2, <3>3
  <2> QED
    BY <1>4, <2>2, <2>3, <2>4, <2>5 DEF Crash
<1> QED
  BY <1>1, <1>2, <1>3, <1>4

LEMMA NextRemains ==
  ASSUME TypeOK, Located, Writer, Remains, NEW p \in Proc, Own(p) \/ Start(p)
  PROVE  Writer' /\ Remains'
<1>1. CASE Start(p)
  <2>1. \A u \in Url : cloning[u] # "none" => cloning[u] \in Proc \ {p}
    BY <1>1, StartStep DEF Writer, TypeOK
  <2>2. Writer'
    BY <1>1, <2>1, StartStep DEF Writer, Current
  <2>3. Remains'
    BY <1>1, StartStep DEF Remains
  <2> QED
    BY <2>2, <2>3
<1>2. CASE EditStep(p)
  <2>1. pc[p] # "cloning" /\ UNCHANGED <<state, cloning, failures, broken>>
    BY <1>2 DEF EditStep, Empty, WriteBack, Edit, clones, counts
  <2> QED
    BY <1>2, <2>1, NotWriting DEF Own
<1>3. CASE UseStep(p)
  <2>1. pc[p] # "cloning" /\ UNCHANGED <<state, cloning, failures, broken>>
    BY <1>3 DEF UseStep, Load, Check, Checked, Done, clones, counts
  <2> QED
    BY <1>3, <2>1, NotWriting DEF Own
<1>4. CASE UpdateStep(p)
  BY <1>4, UpdateRemains
<1>5. CASE Purge(p) \/ Purged(p) \/ Fail(p) \/ Crash(p)
  BY <1>5, OtherRemains
<1> QED
  BY <1>1, <1>2, <1>3, <1>4, <1>5 DEF Own

-------------------------------------------------------------------------------
\* Runs and updates that are alone.

LEMMA ElementsTail ==
  ASSUME NEW s \in Seq(Url), s # <<>>, NEW u \in Elements(s)
  PROVE  u = Head(s) \/ u \in Elements(Tail(s))
<1>1. PICK i \in 1 .. Len(s) : u = s[i]
  BY DEF Elements
<1>2. CASE i = 1
  BY <1>1, <1>2
<1>3. CASE i # 1
  <2>1. i - 1 \in 1 .. Len(Tail(s)) /\ Tail(s)[i - 1] = s[i]
    BY <1>3
  <2> QED
    BY <1>1, <2>1 DEF Elements
<1> QED
  BY <1>2, <1>3

LEMMA ElementsAppend ==
  ASSUME NEW s \in Seq(Url), NEW u \in Url
  PROVE  \A v : v \in Elements(Append(s, u)) <=> v \in Elements(s) \/ v = u
<1>1. /\ Len(Append(s, u)) = Len(s) + 1 /\ Len(s) \in Nat
      /\ Append(s, u)[Len(s) + 1] = u
      /\ \A i \in 1 .. Len(s) : Append(s, u)[i] = s[i]
  OBVIOUS
<1>2. \A i : i \in 1 .. Len(s) + 1 <=> i \in 1 .. Len(s) \/ i = Len(s) + 1
  BY <1>1
<1> QED
  BY <1>1, <1>2 DEF Elements

LEMMA ElementsEmpty == Elements(<<>>) = {}
BY DEF Elements

\* The next list, with the scope it belongs to.
LEMMA ScopesInScope == \A i \in 1 .. 3 : Scopes[i] \in Scope
BY DEF Scopes, Scope

LEMMA ScopeNumber == \A s \in Scope : \E i \in 1 .. 3 : s = Scopes[i]
<1>1. Scopes[1] = "repo" /\ Scopes[2] = "local" /\ Scopes[3] = "global"
  BY DEF Scopes
<1> QED
  BY <1>1 DEF Scope

LEMMA NextUrlFields ==
  ASSUME TypeOK, NEW p \in Proc, NEW ok \in BOOLEAN, NextUrl(p, ok)
  PROVE  /\ pc'[p] = "update"
         /\ job'[p].todo = Tail(job[p].todo)
         /\ job'[p].pos = job[p].pos /\ job'[p].urls = job[p].urls
         /\ job'[p].added = job[p].added
         /\ ~job'[p].errors => ~job[p].errors /\ (ok \/ ~Tracked(job[p].kind))
<1>1. /\ job[p] \in JobType /\ job \in [Proc -> JobType] /\ pc \in [Proc -> Steps]
  BY JobTypes
<1>2. pc'[p] = "update"
  BY <1>1 DEF NextUrl, Goto
<1>3. job'[p] = [job[p] EXCEPT !.todo = Tail(@),
                               !.errors = @ \/ (~ok /\ Tracked(job[p].kind))]
  BY <1>1 DEF NextUrl
<1>4. job'[p].errors = (job[p].errors \/ (~ok /\ Tracked(job[p].kind)))
  BY <1>1, <1>3 DEF JobType
<1>5. /\ job'[p].todo = Tail(job[p].todo)
      /\ job'[p].pos = job[p].pos /\ job'[p].urls = job[p].urls
      /\ job'[p].added = job[p].added
  BY <1>1, <1>3 DEF JobType
<1>6. ~job'[p].errors => ~job[p].errors /\ (ok \/ ~Tracked(job[p].kind))
  BY <1>4
<1> QED
  BY <1>2, <1>5, <1>6

LEMMA NextListFields ==
  ASSUME TypeOK, NEW p \in Proc, NextList(p)
  PROVE  /\ pc'[p] = IF job[p].pos = 3 THEN "done" ELSE "load"
         /\ job'[p].pos = job[p].pos + 1
         /\ job'[p].added = job[p].added /\ job'[p].errors = job[p].errors
<1>1. /\ job[p] \in JobType /\ job \in [Proc -> JobType] /\ pc \in [Proc -> Steps]
  BY JobTypes
<1> QED
  BY <1>1 DEF NextList, Goto, JobType

\* Nothing is half cloned for whoever is alone, unless a process was killed before.
LEMMA NothingPartial ==
  ASSUME TypeOK, Writer, Remains, AloneIsAlone, NEW p \in Proc, job[p].alone,
         pc[p] # "cloning", ~broken
  PROVE  \A u \in Url : state[u] # "partial"
<1> SUFFICES ASSUME NEW u \in Url, state[u] = "partial" PROVE FALSE
  OBVIOUS
<1>1. cloning[u] # "none" /\ cloning[u] \in Proc
  BY DEF Remains, TypeOK
<1>2. pc[cloning[u]] = "cloning"
  BY <1>1 DEF Writer
<1> QED
  BY <1>1, <1>2 DEF AloneIsAlone

LEMMA HookSteps ==
  ASSUME TypeOK, Located, Writer, Remains, AloneIsAlone, NEW p \in Proc, Own(p),
         IsHook(p), job[p].alone, RunAlone(p), job'[p].alone
  PROVE  RunAlone(p)'
<1>0. /\ job[p] \in JobType /\ job \in [Proc -> JobType] /\ pc \in [Proc -> Steps]
      /\ pc[p] \in {"load", "check", "done"} \cup Pulling
      /\ job[p].pos \in 1 .. 4
      /\ ~Exit(p)
  <2>1. job[p] \in JobType /\ job \in [Proc -> JobType] /\ pc \in [Proc -> Steps]
    BY JobTypes
  <2>2. pc[p] \in {"load", "check", "done"} \cup Pulling
    BY DEF RunAlone
  <2>3. ~Exit(p)
    BY <2>1 DEF Exit, NoJob
  <2>4. job[p].pos \in 1 .. 4
    BY <2>1 DEF JobType
  <2> QED
    BY <2>1, <2>2, <2>3, <2>4
\* The cache and the configured lists stay.
<1>a. UNCHANGED list
  BY <1>0 DEF Own, EditStep, Empty, WriteBack, Edit, UpdateStep, Look, Pull, Delete, Clone,
     Cloned, Updated, UseStep, Load, Check, Checked, Done, Purge, Purged, Fail, Crash, Pulling
<1>b. job'[p].cached = job[p].cached
  BY OwnStep DEF NoJob
<1>c. Cached(p)'
  BY <1>a, <1>b DEF RunAlone, Cached
\* Nothing is collected before or while the clones are updated.
<1>1. ASSUME pc[p] \in Pulling, pc'[p] \in Pulling,
             job'[p].pos = job[p].pos, job'[p].urls = job[p].urls,
             job'[p].added = job[p].added, UNCHANGED list
      PROVE  RunAlone(p)'
  <2>1. job[p].pos = 1 /\ job[p].added = <<>> /\ job[p].urls = list[Scopes[job[p].pos]]
    BY <1>1 DEF RunAlone
  <2>2. pc'[p] \notin {"done", "check"} /\ Elements(job'[p].added) = {}
    BY <1>1, <2>1, ElementsEmpty DEF Pulling
  <2>3. 1 .. job'[p].pos - 1 = {}
    BY <1>1, <2>1
  <2> QED
    BY <1>1, <1>c, <2>1, <2>2, <2>3 DEF RunAlone
<1>2. CASE Look(p) \/ Delete(p) \/ (Clone(p) /\ UNCHANGED job)
  <2>1. CASE Look(p) \/ Delete(p)
    BY <1>0, <1>1, <2>1 DEF Look, Delete, Goto, Pulling
  <2>2. CASE Clone(p) /\ UNCHANGED job
    <3>1. UNCHANGED list /\ pc[p] = "clone" /\ pc'[p] \in {"cloning", "update"}
      BY <1>0, <2>2 DEF Clone, NextUrl, Goto
    <3> QED
      BY <1>1, <2>2, <3>1 DEF Pulling
  <2> QED
    BY <1>2, <2>1, <2>2
<1>3. ASSUME NEW ok \in BOOLEAN, NextUrl(p, ok), UNCHANGED list, pc[p] \in Pulling
      PROVE  RunAlone(p)'
  BY <1>1, <1>3, NextUrlFields DEF Pulling
<1>4. CASE Pull(p) \/ Cloned(p) \/ (Clone(p) /\ ~UNCHANGED job)
  BY <1>3, <1>4 DEF Pull, Cloned, Clone, Pulling
\* What stays as it is when no directory changes.
<1>5. ASSUME UNCHANGED <<conf, list, state, broken>>, job'[p].pos = job[p].pos,
             job'[p].added = job[p].added
      PROVE  /\ \A u : Handled(p, u)' <=> Handled(p, u)
             /\ \A i \in 1 .. job'[p].pos - 1 :
                  \A u \in Elements(list'[Scopes[i]]) : Handled(p, u)'
             /\ ~broken' => \A u \in Elements(job'[p].added) : state'[u] = "complete"
  BY <1>5 DEF RunAlone, Handled
<1>6. CASE Updated(p)
  <2>1. pc[p] = "update" /\ IsHook(p) /\ UNCHANGED <<conf, list, state, broken>>
    BY <1>6 DEF Updated, clones
  <2>2. job' = [job EXCEPT ![p].todo = job[p].urls] /\ pc'[p] = "check"
    BY <1>0, <1>6 DEF Updated, Goto
  <2>3. /\ job'[p].todo = job[p].urls /\ job'[p].urls = job[p].urls
        /\ job'[p].pos = job[p].pos /\ job'[p].added = job[p].added
    BY <1>0, <2>2 DEF JobType
  <2>4. job[p].urls = list[Scopes[job[p].pos]]
    BY <2>1 DEF RunAlone, Pulling
  <2>5. "check" \notin {"done", "load"} \cup Pulling
    BY DEF Pulling
  <2> QED
    BY <1>5, <1>c, <2>1, <2>2, <2>3, <2>4, <2>5 DEF RunAlone
<1>7. CASE Load(p)
  <2>1. pc[p] = "load" /\ UNCHANGED <<conf, list, state, broken>>
    BY <1>7 DEF Load, clones
  <2> DEFINE s == Scopes[job[p].pos]
             urls == IF s # "repo" THEN job[p].cached[s] ELSE list[s]
  <2>7. urls = list[s]
    <3>1. s \in Scope
      BY <2>1, ScopesInScope DEF Located, Walking
    <3> QED
      BY <3>1 DEF RunAlone, Cached
  <2>8. /\ job'[p] = [job[p] EXCEPT !.urls = urls, !.todo = urls]
        /\ pc'[p] = IF Updates(p) THEN "update" ELSE "check"
    BY <1>0, <1>7 DEF Load, Goto
  <2>2. /\ job'[p] = [job[p] EXCEPT !.urls = list[s], !.todo = list[s]]
        /\ pc'[p] = IF Updates(p) THEN "update" ELSE "check"
    BY <2>7, <2>8
  <2>3. /\ job'[p].todo = list[Scopes[job[p].pos]] /\ job'[p].urls = list[Scopes[job[p].pos]]
        /\ job'[p].pos = job[p].pos /\ job'[p].added = job[p].added
    BY <1>0, <2>2 DEF JobType
  <2>4. job[p].pos = 1 => job[p].added = <<>>
    BY <2>1 DEF RunAlone
  <2>5. pc'[p] = "update" => job[p].pos = 1
    BY <2>2 DEF Updates
  <2>6. pc'[p] \in {"update", "check"} /\ "check" \notin Pulling /\ "update" \in Pulling
    BY <2>2 DEF Pulling
  <2> QED
    BY <1>5, <1>c, <2>1, <2>3, <2>4, <2>5, <2>6 DEF RunAlone
<1>8. CASE Check(p)
  <2>1. /\ pc[p] = "check" /\ job[p].todo # <<>> /\ UNCHANGED <<conf, list, state, broken, pc>>
        /\ "check" \notin {"done", "load"} \cup Pulling
    BY <1>0, <1>8 DEF Check, clones, Pulling
  <2>2. job[p].todo \in Seq(Url) /\ job[p].added \in Seq(Url) /\ Current(p) \in Url
    BY <1>0, <2>1, Taken DEF JobType
  <2>3. \A u \in Elements(job[p].todo) : u = Current(p) \/ u \in Elements(Tail(job[p].todo))
    BY <2>1, <2>2, ElementsTail DEF Current
  <2>4. /\ job[p].urls = list[Scopes[job[p].pos]]
        /\ \A u \in Elements(job[p].urls) : u \in Elements(job[p].todo) \/ Handled(p, u)
    BY <2>1 DEF RunAlone
  <2>5. CASE Leave(p) /\ Handled(p, Current(p))
    <3>1. job'[p] = [job[p] EXCEPT !.todo = Tail(@)]
      BY <1>0, <2>5 DEF Leave
    <3>2. /\ job'[p].todo = Tail(job[p].todo) /\ job'[p].urls = job[p].urls
          /\ job'[p].pos = job[p].pos /\ job'[p].added = job[p].added
      BY <1>0, <3>1 DEF JobType
    <3>3. \A u \in Elements(job'[p].urls) : u \in Elements(job'[p].todo) \/ Handled(p, u)'
      BY <1>5, <2>1, <2>3, <2>4, <2>5, <3>2
    <3> QED
      BY <1>5, <1>c, <2>1, <2>4, <3>2, <3>3 DEF RunAlone
  <2>6. CASE Collect(p) /\ state[Current(p)] \in {"partial", "complete"}
    <3>1. job'[p] = [job[p] EXCEPT !.added = Append(@, Current(p)), !.todo = Tail(@)]
      BY <1>0, <2>6 DEF Collect
    <3>2. /\ job'[p].todo = Tail(job[p].todo) /\ job'[p].urls = job[p].urls
          /\ job'[p].pos = job[p].pos /\ job'[p].added = Append(job[p].added, Current(p))
      BY <1>0, <3>1 DEF JobType
    <3>3. \A u : u \in Elements(job'[p].added) <=> u \in Elements(job[p].added) \/ u = Current(p)
      BY <2>2, <3>2, ElementsAppend
    <3>4. \A u : Handled(p, u) \/ u = Current(p) => Handled(p, u)'
      BY <2>1, <3>3 DEF Handled
    <3>5. \A u \in Elements(job'[p].urls) : u \in Elements(job'[p].todo) \/ Handled(p, u)'
      BY <2>3, <2>4, <3>2, <3>4
    <3>6. \A i \in 1 .. job'[p].pos - 1 :
            \A u \in Elements(list'[Scopes[i]]) : Handled(p, u)'
      BY <2>1, <3>2, <3>4 DEF RunAlone
    <3>7. ~broken' => \A u \in Elements(job'[p].added) : state'[u] = "complete"
      <4> SUFFICES ASSUME ~broken
                   PROVE  \A u \in Elements(job'[p].added) : state'[u] = "complete"
        BY <2>1
      <4>1. state[Current(p)] = "complete"
        BY <2>1, <2>2, <2>6, NothingPartial
      <4>2. \A u \in Elements(job[p].added) : state[u] = "complete"
        BY DEF RunAlone
      <4> QED
        BY <2>1, <3>3, <4>1, <4>2
    <3> QED
      BY <1>c, <2>1, <2>4, <3>2, <3>5, <3>6, <3>7 DEF RunAlone
  <2> QED
    BY <1>0, <1>8, <2>5, <2>6 DEF Check, Handled
<1>9. CASE Checked(p)
  <2>1. /\ pc[p] = "check" /\ job[p].todo = <<>> /\ UNCHANGED <<conf, list, state, broken>>
    BY <1>9 DEF Checked, clones
  <2>2. /\ pc'[p] = IF job[p].pos = 3 THEN "done" ELSE "load"
        /\ job'[p].pos = job[p].pos + 1
        /\ job'[p].added = job[p].added
    BY <1>9, NextListFields DEF Checked
  <2>3. job[p].pos \in 1 .. 3
    BY <2>1 DEF Located, Walking
  <2>4. \A u \in Elements(list[Scopes[job[p].pos]]) : Handled(p, u)
    BY <2>1, ElementsEmpty DEF RunAlone
  <2>5. \A i \in 1 .. job[p].pos : \A u \in Elements(list[Scopes[i]]) : Handled(p, u)
    <3>1. \A i \in 1 .. job[p].pos : i = job[p].pos \/ i \in 1 .. job[p].pos - 1
      BY <2>3
    <3>2. \A i \in 1 .. job[p].pos - 1 : \A u \in Elements(list[Scopes[i]]) : Handled(p, u)
      BY DEF RunAlone
    <3> QED
      BY <2>4, <3>1, <3>2
  <2>6. \A u : Handled(p, u) => Handled(p, u)'
    BY <2>1, <2>2 DEF Handled
  <2>7. job'[p].pos - 1 = job[p].pos
    BY <2>2, <2>3
  <2>8. \A i \in 1 .. job'[p].pos - 1 : \A u \in Elements(list'[Scopes[i]]) : Handled(p, u)'
    BY <2>1, <2>5, <2>6, <2>7
  <2>9. pc'[p] \in {"load", "done"} /\ {"load", "done"} \cap ({"check"} \cup Pulling) = {}
        /\ job'[p].pos # 1 /\ (pc'[p] = "done" => job'[p].pos = 4)
    BY <2>2, <2>3 DEF Pulling
  <2>10. ~broken' => \A u \in Elements(job'[p].added) : state'[u] = "complete"
    BY <2>1, <2>2 DEF RunAlone
  <2> QED
    BY <1>c, <2>8, <2>9, <2>10 DEF RunAlone
<1>10. CASE Fail(p)
  BY <1>0, <1>3, <1>10 DEF Fail, Pulling
<1>11. CASE EditStep(p) \/ Purge(p) \/ Purged(p) \/ Crash(p) \/ Done(p)
  BY <1>0, <1>11 DEF EditStep, Empty, WriteBack, Edit, Purge, Purged, Crash, Done, Pulling
<1> QED
  BY <1>2, <1>4, <1>6, <1>7, <1>8, <1>9, <1>10, <1>11 DEF Own, UpdateStep, UseStep

LEMMA UpdateSteps ==
  ASSUME TypeOK, Located, Writer, Remains, AloneIsAlone, NEW p \in Proc, Own(p),
         job[p].kind = "update", job[p].alone, UpdateAlone(p), job'[p].alone,
         \A u \in Url : job[p].since[u] <= tip[u]
  PROVE  UpdateAlone(p)'
<1> DEFINE u == Current(p)
<1>0. /\ job[p] \in JobType /\ job \in [Proc -> JobType] /\ pc \in [Proc -> Steps]
      /\ pc[p] \in {"load", "done"} \cup Pulling
      /\ pc[p] \in Pulling => job[p].pos \in 1 .. 3
      /\ pc[p] \in AtUrl => job[p].todo # <<>> /\ u \in Url
      /\ ~Exit(p) /\ ~IsHook(p) /\ Tracked(job[p].kind)
  <2>1. job[p] \in JobType /\ job \in [Proc -> JobType] /\ pc \in [Proc -> Steps]
    BY JobTypes
  <2>2. pc[p] \in {"load", "done"} \cup Pulling
    BY DEF UpdateAlone
  <2>3. ~Exit(p)
    BY <2>1 DEF Exit, NoJob
  <2>4. ~IsHook(p) /\ Tracked(job[p].kind)
    BY DEF IsHook, Tracked, HookKinds
  <2>5. pc[p] \in Pulling => job[p].pos \in 1 .. 3
    BY DEF Located, Pulling, Walking
  <2>6. pc[p] \in AtUrl => job[p].todo # <<>> /\ u \in Url
    BY Taken DEF Located
  <2> QED
    BY <2>1, <2>2, <2>3, <2>4, <2>5, <2>6
<1>1. /\ job'[p].scope = job[p].scope /\ job'[p].since = job[p].since
      /\ First(p)' = First(p) /\ First(p) \in {1, 3}
  BY <1>0, OwnStep DEF NoJob, First
<1>2. /\ state \in [Url -> States] /\ at \in [Url -> 0 .. LastCommit]
      /\ tip \in [Url -> 1 .. LastCommit]
      /\ \A v \in Url : job[p].since[v] \in 0 .. LastCommit
      /\ list \in [Scope -> Seq(Url)]
  BY <1>0 DEF TypeOK, JobType
<1>3. \A i \in 1 .. 3 : Elements(list[Scopes[i]]) \subseteq Url
  BY <1>2, ScopesInScope DEF Elements
\* A step at the URL u that keeps the others: the next one follows.
<1>4. ASSUME NEW ok \in BOOLEAN, NextUrl(p, ok), UNCHANGED <<list, broken>>,
             pc[p] \in AtUrl,
             \A v \in Url \ {u} : Fresh(p, v) => Fresh(p, v)',
             ok /\ ~broken => \A v \in {u} : Fresh(p, v)'
      PROVE  UpdateAlone(p)'
  <2>1. /\ pc'[p] = "update"
        /\ job'[p].todo = Tail(job[p].todo)
        /\ job'[p].pos = job[p].pos /\ job'[p].urls = job[p].urls
        /\ ~job'[p].errors => ~job[p].errors /\ ok
    BY <1>0, <1>4, NextUrlFields
  <2>2. AtUrl \subseteq Pulling /\ "update" \in Pulling
        /\ "update" \notin {"done", "delete", "clone", "cloning"}
    BY DEF AtUrl, Pulling
  <2>3. job[p].urls = list[Scopes[job[p].pos]]
    BY <1>4, <2>2 DEF UpdateAlone
  <2>4. job[p].todo # <<>> /\ u \in Url /\ job[p].todo \in Seq(Url)
    BY <1>0, <1>4 DEF JobType
  <2>5. ASSUME ~job'[p].errors, ~broken'
        PROVE  /\ \A i \in First(p) .. job[p].pos - 1 :
                    \A v \in Elements(list[Scopes[i]]) : Fresh(p, v)'
               /\ \A v \in Elements(job[p].urls) :
                    v \in Elements(Tail(job[p].todo)) \/ Fresh(p, v)'
    <3>1. ok /\ ~job[p].errors /\ ~broken
      BY <1>4, <2>1, <2>5
    <3>2. \A v \in Url : v = u \/ Fresh(p, v) => Fresh(p, v)'
      BY <1>4, <3>1
    <3>3. \A i \in First(p) .. job[p].pos - 1 :
            \A v \in Elements(list[Scopes[i]]) : v \in Url /\ Fresh(p, v)
      <4>1. \A i \in First(p) .. job[p].pos - 1 : i \in 1 .. 3
        BY <1>0, <1>1, <1>4, <2>2
      <4> QED
        BY <1>3, <3>1, <4>1 DEF UpdateAlone
    <3>4. \A v \in Elements(job[p].urls) :
            v \in Url /\ (v \in Elements(job[p].todo) \/ Fresh(p, v))
      BY <1>0, <1>3, <1>4, <2>2, <2>3, <3>1 DEF UpdateAlone
    <3>5. \A v \in Elements(job[p].todo) : v = u \/ v \in Elements(Tail(job[p].todo))
      BY <2>4, ElementsTail DEF Current
    <3> QED
      BY <3>1, <3>2, <3>3, <3>4, <3>5
  <2>6. ~job'[p].errors /\ ~broken' =>
          /\ \A i \in First(p)' .. job'[p].pos - 1 : \A v \in Elements(list'[Scopes[i]]) : Fresh(p, v)'
          /\ \A v \in Elements(job'[p].urls) : v \in Elements(job'[p].todo) \/ Fresh(p, v)'
    BY <1>1, <1>4, <2>1, <2>5
  <2>7. job'[p].urls = list'[Scopes[job'[p].pos]]
    BY <1>4, <2>1, <2>3
  <2>8. job'[p].scope \in {"repo", "global"}
    BY <1>1 DEF UpdateAlone
  <2> HIDE DEF u
  <2> QED
    BY <2>1, <2>2, <2>6, <2>7, <2>8 DEF UpdateAlone
\* A failure is recorded.
<1>5. ASSUME NextUrl(p, FALSE), UNCHANGED list, pc[p] \in AtUrl
      PROVE  UpdateAlone(p)'
  <2>1. /\ pc'[p] = "update"
        /\ job'[p].pos = job[p].pos /\ job'[p].urls = job[p].urls
        /\ job'[p].errors
    BY <1>0, <1>5, NextUrlFields
  <2>2. AtUrl \subseteq Pulling /\ "update" \in Pulling
        /\ "update" \notin {"done", "delete", "clone", "cloning"}
    BY DEF AtUrl, Pulling
  <2> QED
    BY <1>1, <1>5, <2>1, <2>2 DEF UpdateAlone
\* A step that stays at u, which is not up to date.
<1>6. ASSUME UNCHANGED <<job, list, broken>>, pc[p] \in Pulling, pc'[p] \in Pulling,
             pc'[p] \in {"delete", "clone", "cloning"} => state'[u] # "complete",
             \A v \in Url : Fresh(p, v) => Fresh(p, v)'
      PROVE  UpdateAlone(p)'
  <2>1. \A i \in First(p) .. job[p].pos - 1 : i \in 1 .. 3
    BY <1>0, <1>1, <1>6
  <2>2. ~job[p].errors /\ ~broken =>
        /\ \A i \in First(p) .. job[p].pos - 1 : \A v \in Elements(list[Scopes[i]]) : Fresh(p, v)'
        /\ \A v \in Elements(job[p].urls) : v \in Elements(job[p].todo) \/ Fresh(p, v)'
    BY <1>0, <1>3, <1>6, <2>1 DEF UpdateAlone
  <2>3. "done" \notin Pulling
    BY DEF Pulling
  <2> QED
    BY <1>1, <1>6, <2>2, <2>3 DEF UpdateAlone, Current
<1>7. CASE Look(p)
  <2>1. /\ UNCHANGED <<job, list, state, at, broken>> /\ pc[p] = "update"
        /\ pc'[p] = IF state[u] \in {"partial", "complete"} THEN "pull" ELSE "delete"
    BY <1>0, <1>7 DEF Look, Goto, clones
  <2>2. \A v \in Url : Fresh(p, v) => Fresh(p, v)'
    BY <2>1 DEF Fresh
  <2> QED
    BY <1>6, <2>1, <2>2 DEF Pulling
<1>8. CASE Pull(p)
  <2>1. /\ UNCHANGED <<list, broken, tip>> /\ pc[p] = "pull" /\ pc[p] \in AtUrl /\ u \in Url
    BY <1>0, <1>8 DEF Pull, AtUrl
  <2>2. CASE /\ state' = [state EXCEPT ![u] = "complete"]
             /\ at' = [at EXCEPT ![u] = tip[u]]
             /\ NextUrl(p, TRUE)
    <3>1. \A v \in {u} : Fresh(p, v)'
      BY <1>1, <1>2, <2>1, <2>2 DEF Fresh
    <3>2. \A v \in Url \ {u} : Fresh(p, v) => Fresh(p, v)'
      BY <1>1, <1>2, <2>1, <2>2 DEF Fresh
    <3> QED
      BY <1>4, <2>1, <2>2, <3>1, <3>2
  <2>3. ASSUME NEW ok \in {FALSE, state[u] = "partial"}, NextUrl(p, ok),
               state[u] # "complete", UNCHANGED <<state, at>>
        PROVE  UpdateAlone(p)'
    <3>1. CASE ~ok
      BY <1>5, <2>1, <2>3, <3>1
    <3>2. CASE ok
      <4>1. broken
        BY <2>1, <2>3, <3>2, NothingPartial
      <4>2. \A v \in Url \ {u} : Fresh(p, v) => Fresh(p, v)'
        BY <1>1, <2>3 DEF Fresh
      <4> QED
        BY <1>4, <2>1, <2>3, <3>2, <4>1, <4>2
    <3> QED
      BY <3>1, <3>2
  <2> QED
    BY <1>8, <2>2, <2>3 DEF Pull
<1>9. CASE Delete(p)
  <2>1. /\ UNCHANGED <<job, list, broken>> /\ pc[p] = "delete" /\ pc'[p] = "clone" /\ u \in Url
        /\ state' = [state EXCEPT ![u] = "missing"] /\ at' = [at EXCEPT ![u] = 0]
    BY <1>0, <1>9 DEF Delete, Goto, AtUrl
  <2>2. state[u] # "complete"
    BY <2>1 DEF UpdateAlone
  <2>3. \A v \in Url : Fresh(p, v) => Fresh(p, v)'
    BY <1>1, <1>2, <2>1, <2>2 DEF Fresh
  <2>4. state'[u] = "missing"
    BY <1>2, <2>1
  <2> QED
    BY <1>6, <2>1, <2>3, <2>4 DEF Pulling
<1>10. CASE Clone(p)
  <2>1. UNCHANGED <<list, broken, at>> /\ pc[p] = "clone" /\ u \in Url /\ pc[p] \in AtUrl
    BY <1>0, <1>10 DEF Clone, AtUrl
  <2>2. CASE /\ state[u] = "missing" /\ state' = [state EXCEPT ![u] = "partial"]
             /\ Goto(p, "cloning") /\ UNCHANGED job
    <3>1. pc'[p] = "cloning" /\ state'[u] = "partial"
      BY <1>0, <1>2, <2>1, <2>2 DEF Goto
    <3>2. \A v \in Url : Fresh(p, v) => Fresh(p, v)'
      BY <1>1, <1>2, <2>1, <2>2 DEF Fresh
    <3> QED
      BY <1>6, <2>1, <2>2, <3>1, <3>2 DEF Pulling
  <2>3. CASE NextUrl(p, FALSE)
    BY <1>5, <2>1, <2>3
  <2> QED
    BY <1>10, <2>2, <2>3 DEF Clone
<1>11. CASE Cloned(p)
  <2>1. UNCHANGED <<list, broken, tip>> /\ pc[p] \in AtUrl /\ u \in Url
    BY <1>0, <1>11 DEF Cloned, AtUrl
  <2>2. CASE /\ state' = [state EXCEPT ![u] = "complete"]
             /\ at' = [at EXCEPT ![u] = tip[u]]
             /\ NextUrl(p, TRUE)
    <3>1. \A v \in {u} : Fresh(p, v)'
      BY <1>1, <1>2, <2>1, <2>2 DEF Fresh
    <3>2. \A v \in Url \ {u} : Fresh(p, v) => Fresh(p, v)'
      BY <1>1, <1>2, <2>1, <2>2 DEF Fresh
    <3> QED
      BY <1>4, <2>1, <2>2, <3>1, <3>2
  <2>3. CASE NextUrl(p, FALSE)
    BY <1>5, <2>1, <2>3
  <2> QED
    BY <1>11, <2>2, <2>3 DEF Cloned
<1>12. CASE Updated(p)
  <2>1. /\ pc[p] = "update" /\ job[p].todo = <<>> /\ NextList(p)
        /\ UNCHANGED <<list, state, at, broken>>
    BY <1>0, <1>12 DEF Updated, clones
  <2>2. /\ pc'[p] = IF job[p].pos = 3 THEN "done" ELSE "load"
        /\ job'[p].pos = job[p].pos + 1
        /\ job'[p].errors = job[p].errors
    BY <2>1, NextListFields
  <2>3. job[p].pos \in 1 .. 3 /\ job[p].urls = list[Scopes[job[p].pos]]
    BY <1>0, <2>1 DEF UpdateAlone, Pulling
  <2>4. ~job[p].errors /\ ~broken =>
          \A i \in First(p) .. job[p].pos : \A v \in Elements(list[Scopes[i]]) : Fresh(p, v)
    <3> SUFFICES ASSUME ~job[p].errors, ~broken
                 PROVE  \A i \in First(p) .. job[p].pos :
                          \A v \in Elements(list[Scopes[i]]) : Fresh(p, v)
      OBVIOUS
    <3>1. \A v \in Elements(list[Scopes[job[p].pos]]) : Fresh(p, v)
      BY <2>1, <2>3, ElementsEmpty DEF UpdateAlone, Pulling
    <3>2. \A i \in First(p) .. job[p].pos - 1 : \A v \in Elements(list[Scopes[i]]) : Fresh(p, v)
      BY DEF UpdateAlone
    <3>3. \A i \in First(p) .. job[p].pos : i = job[p].pos \/ i \in First(p) .. job[p].pos - 1
      BY <1>1, <2>3
    <3> QED
      BY <3>1, <3>2, <3>3
  <2>5. \A v : Fresh(p, v) => Fresh(p, v)'
    BY <1>1, <2>1 DEF Fresh
  <2>6. job'[p].pos - 1 = job[p].pos
    BY <2>2, <2>3
  <2>7. ~job'[p].errors /\ ~broken' =>
          \A i \in First(p)' .. job'[p].pos - 1 : \A v \in Elements(list'[Scopes[i]]) : Fresh(p, v)'
    BY <1>1, <2>1, <2>2, <2>4, <2>5, <2>6
  <2>8. /\ pc'[p] \in {"load", "done"} /\ {"load", "done"} \cap Pulling = {}
        /\ pc'[p] = "done" => job'[p].pos = 4
        /\ {"load", "done"} \cap {"delete", "clone", "cloning"} = {}
    BY <2>2, <2>3 DEF Pulling
  <2> QED
    BY <1>1, <2>7, <2>8 DEF UpdateAlone
<1>13. CASE Load(p)
  <2>1. /\ pc[p] = "load" /\ UNCHANGED <<list, state, at, broken>>
    BY <1>13 DEF Load, clones
  <2>2. /\ job'[p] = [job[p] EXCEPT !.urls = list[Scopes[job[p].pos]],
                                    !.todo = list[Scopes[job[p].pos]]]
        /\ pc'[p] = "update"
    BY <1>0, <1>13 DEF Load, Goto, Updates
  <2>3. /\ job'[p].todo = list[Scopes[job[p].pos]] /\ job'[p].urls = list[Scopes[job[p].pos]]
        /\ job'[p].pos = job[p].pos /\ job'[p].errors = job[p].errors
    BY <1>0, <2>2 DEF JobType
  <2>4. \A v : Fresh(p, v) => Fresh(p, v)'
    BY <1>1, <2>1 DEF Fresh
  <2>5. ~job'[p].errors /\ ~broken' =>
          \A i \in First(p)' .. job'[p].pos - 1 : \A v \in Elements(list'[Scopes[i]]) : Fresh(p, v)'
    BY <1>1, <2>1, <2>3, <2>4 DEF UpdateAlone
  <2>6. "update" \in Pulling /\ "update" \notin {"delete", "clone", "cloning", "done"}
    BY DEF Pulling
  <2> QED
    BY <1>1, <2>1, <2>2, <2>3, <2>5, <2>6 DEF UpdateAlone
<1>14. CASE Fail(p)
  <2>1. NextUrl(p, FALSE) /\ UNCHANGED list /\ pc[p] \in AtUrl
    BY <1>0, <1>14 DEF Fail, AtUrl
  <2> QED
    BY <1>5, <2>1
<1>15. CASE EditStep(p) \/ Purge(p) \/ Purged(p) \/ Crash(p) \/ Done(p) \/ Check(p) \/ Checked(p)
  BY <1>0, <1>15 DEF EditStep, Empty, WriteBack, Edit, Purge, Purged, Crash, Done,
     Check, Checked, Pulling
<1> QED
  BY <1>7, <1>8, <1>9, <1>10, <1>11, <1>12, <1>13, <1>14, <1>15 DEF Own, UpdateStep, UseStep

\* A process that starts has walked by nothing yet.
LEMMA NextRun ==
  ASSUME TypeOK, Located, Writer, Remains, AloneIsAlone, RunInv, NEW q \in Proc,
         Own(q) \/ Start(q)
  PROVE  RunInv'
<1> SUFFICES ASSUME NEW p \in Proc, IsHook(p)', job'[p].alone
             PROVE  RunAlone(p)'
  BY DEF RunInv
<1>1. CASE Own(p) /\ job[p].alone
  <2>1. IsHook(p)
    BY <1>1, OwnStep DEF NoJob, IsHook
  <2> QED
    BY <1>1, <2>1, HookSteps DEF RunInv
<1>2. CASE Start(p)
  <2>1. pc'[p] = "load" /\ job'[p].pos = 1 /\ job'[p].added = <<>>
    BY <1>2, StartStep DEF IsHook
  <2>3. Cached(p)'
    <3>1. job'[p].cached = [list EXCEPT !["repo"] = <<>>] /\ UNCHANGED list
      BY <1>2, StartStep DEF IsHook
    <3> QED
      BY <3>1 DEF Cached, TypeOK
  <2>2. "load" \notin {"done", "check"} \cup Pulling /\ 1 .. 1 - 1 = {}
        /\ Elements(job'[p].added) = {}
    BY <2>1, ElementsEmpty DEF Pulling
  <2> QED
    BY <2>1, <2>2, <2>3 DEF RunAlone
<1> QED
  BY <1>1, <1>2, AloneStep

LEMMA NextUpdate ==
  ASSUME TypeOK, Located, Writer, Remains, AloneIsAlone, UpdateInv, NEW q \in Proc,
         Own(q) \/ Start(q)
  PROVE  UpdateInv'
<1>0. tip' = tip /\ \A v \in Url : tip[v] \in Nat
  <2>1. tip' = tip
    BY DEF Own, Start, EditStep, Empty, WriteBack, Edit, UpdateStep, Look, Pull, Delete,
       Clone, Cloned, Updated, UseStep, Load, Check, Checked, Done, Purge, Purged, Fail, Crash
  <2>2. \A v \in Url : tip[v] \in Nat
    BY DEF TypeOK
  <2> QED
    BY <2>1, <2>2
<1> SUFFICES ASSUME NEW p \in Proc, job'[p].kind = "update"
             PROVE  /\ \A u \in Url : job'[p].since[u] <= tip[u]
                    /\ job'[p].alone => UpdateAlone(p)'
  BY <1>0 DEF UpdateInv
<1>1. \A u \in Url : job'[p].since[u] <= tip[u]
  <2>1. CASE Own(q)
    BY <2>1, OwnStep DEF UpdateInv, NoJob
  <2>2. CASE Start(q)
    BY <1>0, <2>2, StartStep DEF UpdateInv
  <2> QED
    BY <2>1, <2>2
<1>2. ASSUME job'[p].alone PROVE UpdateAlone(p)'
  <2>1. CASE Own(p) /\ job[p].alone
    <3>1. job[p].kind = "update"
      BY <2>1, OwnStep DEF NoJob
    <3> QED
      BY <1>2, <2>1, <3>1, UpdateSteps DEF UpdateInv
  <2>2. CASE Start(p)
    <3>1. /\ pc'[p] = "load" /\ job'[p].pos \in {1, 3}
          /\ job'[p].scope = Scopes[job'[p].pos]
      BY <2>2, StartStep
    <3>2. Scopes[1] = "repo" /\ Scopes[3] = "global"
      BY DEF Scopes
    <3>3. job'[p].scope \in {"repo", "global"} /\ First(p)' = job'[p].pos
      BY <3>1, <3>2 DEF First
    <3>4. "load" \notin {"done", "delete", "clone", "cloning"} \cup Pulling
          /\ First(p)' .. job'[p].pos - 1 = {}
      BY <3>1, <3>3 DEF Pulling
    <3> QED
      BY <3>1, <3>3, <3>4 DEF UpdateAlone
  <2> QED
    BY <1>2, <2>1, <2>2, AloneStep
<1> QED
  BY <1>1, <1>2

-------------------------------------------------------------------------------
\* The invariant of the three properties about clones.
UseInv == Writer /\ Remains /\ AloneIsAlone /\ RunInv /\ UpdateInv

LEMMA InitUse == Init => UseInv
<1> SUFFICES ASSUME Init PROVE UseInv
  OBVIOUS
<1>1. \A p \in Proc : job[p] = NoJob
  BY DEF Init
<1>2. \A p \in Proc : ~job[p].alone /\ job[p].kind = "none"
  <2>1. NoJob.alone = FALSE /\ NoJob.kind = "none"
    BY DEF NoJob
  <2> QED
    BY <1>1, <2>1
<1>3. Writer /\ Remains
  BY DEF Init, Writer, Remains
<1> QED
  BY <1>2, <1>3 DEF UseInv, AloneIsAlone, RunInv, UpdateInv, IsHook, HookKinds

\* The server gets ahead of everybody, or nothing happens at all.
LEMMA PushUse ==
  ASSUME TypeOK, UseInv, (\E u \in Url : Push(u)) \/ UNCHANGED vars
  PROVE  UseInv'
<1>1. UNCHANGED <<conf, list, state, at, cloning, pc, job, broken, failures>>
  BY DEF Push, vars, clones, counts
<1>2. \A v \in Url : tip[v] \in Nat /\ tip'[v] \in Nat /\ tip[v] <= tip'[v]
  <2>1. tip \in [Url -> 1 .. LastCommit]
    BY DEF TypeOK
  <2>2. CASE UNCHANGED vars
    BY <2>1, <2>2 DEF vars
  <2>3. ASSUME NEW u \in Url, Push(u)
        PROVE  \A v \in Url : tip[v] \in Nat /\ tip'[v] \in Nat /\ tip[v] <= tip'[v]
    BY <2>1, <2>3 DEF Push
  <2> QED
    BY <2>2, <2>3
<1>3. Writer' /\ Remains' /\ AloneIsAlone'
  BY <1>1 DEF UseInv, Writer, Remains, AloneIsAlone, Current
<1>4. RunInv'
  <2>1. \A p \in Proc : RunAlone(p) => RunAlone(p)'
    BY <1>1 DEF RunAlone, Handled, Cached
  <2> QED
    BY <1>1, <2>1 DEF UseInv, RunInv, IsHook
<1>5. UpdateInv'
  <2>1. \A p \in Proc : UpdateAlone(p) => UpdateAlone(p)'
    BY <1>1 DEF UpdateAlone, Fresh, First, Current
  <2>2. ASSUME NEW p \in Proc, job[p].kind = "update"
        PROVE  \A u \in Url : job[p].since[u] <= tip'[u]
    <3>1. \A u \in Url : job[p].since[u] <= tip[u]
      BY <2>2 DEF UseInv, UpdateInv
    <3>2. \A u \in Url : job[p].since[u] \in Nat
      BY JobTypes DEF JobType
    <3> QED
      BY <1>2, <3>1, <3>2
  <2> QED
    BY <1>1, <2>1, <2>2 DEF UseInv, UpdateInv
<1> QED
  BY <1>3, <1>4, <1>5 DEF UseInv

LEMMA NextUse == IndInv /\ UseInv /\ [Next]_vars => UseInv'
<1> SUFFICES ASSUME IndInv, UseInv, [Next]_vars PROVE UseInv'
  OBVIOUS
<1>1. TypeOK /\ Located
  BY DEF IndInv
<1>2. CASE (\E u \in Url : Push(u)) \/ UNCHANGED vars
  BY <1>1, <1>2, PushUse
<1>3. ASSUME NEW q \in Proc, Own(q) \/ Start(q) PROVE UseInv'
  BY <1>1, <1>3, NextRemains, NextAlone, NextRun, NextUpdate DEF UseInv
<1> QED
  BY <1>2, <1>3 DEF Next, Own

\* The types of SharedHooks: a complete clone has a commit, only a partial one is
\* being cloned, and every URL in a list, a job or a run is one of Url.
THEOREM TypeCorrect == Spec => []TypeOK
<1>1. IndInv => TypeOK
  BY DEF IndInv
<1> QED
  BY InitInv, NextInv, <1>1, PTL DEF Spec

\* IndInv and UseInv hold together.
LEMMA AlwaysUse == Spec => [](IndInv /\ UseInv)
<1>1. Init => IndInv /\ UseInv
  BY InitInv, InitUse
<1>2. (IndInv /\ UseInv) /\ [Next]_vars => (IndInv /\ UseInv)'
  BY NextInv, NextUse
<1> QED
  BY <1>1, <1>2, PTL DEF Spec

\* PullOrClone, os.RemoveAll and the kills: whatever commands run at the same time,
\* when all have ended every clone directory is a complete clone or is not there,
\* unless a removal or clone failed or was killed.
THEOREM CleanWhenIdle == Spec => []IdleIsClean
<1>1. IndInv /\ UseInv => IdleIsClean
  <2> SUFFICES ASSUME IndInv, UseInv, Quiet, ~broken, failures = 0, NEW u \in Url
               PROVE  state[u] \in {"missing", "complete"}
    BY DEF IdleIsClean
  <2>1. state[u] \in States /\ cloning[u] \in Proc \cup {"none"}
    BY DEF IndInv, TypeOK
  <2>2. cloning[u] = "none"
    BY <2>1 DEF UseInv, Writer, Quiet
  <2>3. state[u] # "partial" /\ state[u] # "junk"
    BY <2>2 DEF UseInv, Remains
  <2> QED
    BY <2>1, <2>3 DEF States
<1> QED
  BY AlwaysUse, <1>1, PTL

\* getRepoSharedHooks, getConfigSharedHooks, checkSharedHook: a hook run that is
\* alone and gets through uses a complete clone of each repository of the three
\* lists, or has skipped what is not there if it may.
THEOREM RunUsesEverything == Spec => []RunUsesAll
<1>1. IndInv /\ UseInv => RunUsesAll
  <2> SUFFICES ASSUME IndInv, UseInv, NEW p \in Proc,
                      pc[p] = "done", IsHook(p), job[p].alone
               PROVE  /\ \A u \in Listed : \/ u \in Elements(job[p].added)
                                           \/ conf.skip /\ state[u] \in {"missing", "junk"}
                      /\ ~broken => \A u \in Elements(job[p].added) : state[u] = "complete"
    BY DEF RunUsesAll
  <2>1. RunAlone(p)
    BY DEF UseInv, RunInv
  <2>2. \A i \in 1 .. 3 : \A u \in Elements(list[Scopes[i]]) : Handled(p, u)
    BY <2>1 DEF RunAlone
  <2>3. \A s \in Scope : \E i \in 1 .. 3 : s = Scopes[i]
    BY ScopeNumber
  <2>4. \A u \in Listed : Handled(p, u)
    BY <2>2, <2>3 DEF Listed
  <2> QED
    BY <2>1, <2>4 DEF RunAlone, Handled
<1> QED
  BY AlwaysUse, <1>1, PTL

\* UpdateSharedHooks, PullOrClone: `git hooks shared update` that is alone and
\* reports no error leaves complete clones, none older than the server was when it
\* started, of the lists it is for.
THEOREM UpdatesAreCurrent == Spec => []UpdateIsCurrent
<1>1. IndInv /\ UseInv => UpdateIsCurrent
  <2> SUFFICES ASSUME IndInv, UseInv, NEW p \in Proc, pc[p] = "done",
                      job[p].kind = "update", job[p].alone, ~job[p].errors, ~broken,
                      NEW u \in IF job[p].scope = "repo" THEN Listed
                                                         ELSE Elements(list["global"])
               PROVE  Fresh(p, u)
    BY DEF UpdateIsCurrent, Fresh
  <2>1. UpdateAlone(p)
    BY DEF UseInv, UpdateInv
  <2>2. \A i \in First(p) .. 3 : \A v \in Elements(list[Scopes[i]]) : Fresh(p, v)
    BY <2>1 DEF UpdateAlone
  <2>3. CASE job[p].scope = "repo"
    <3>1. PICK s \in Scope : u \in Elements(list[s])
      BY <2>3 DEF Listed
    <3>2. PICK i \in 1 .. 3 : s = Scopes[i]
      BY ScopeNumber
    <3> QED
      BY <2>2, <2>3, <3>1, <3>2 DEF First
  <2>4. CASE job[p].scope # "repo"
    <3>1. Scopes[3] = "global"
      BY DEF Scopes
    <3> QED
      BY <2>2, <2>4, <3>1 DEF First
  <2> QED
    BY <2>3, <2>4
<1> QED
  BY AlwaysUse, <1>1, PTL
===============================================================================
