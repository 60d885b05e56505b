--------------------------- MODULE HookRunner_proofs ---------------------------
(***************************************************************************)
(* Proofs about HookRunner for any number of runners, hooks, directories,  *)
(* contents and threads: the inductive invariant IndInv and what follows.  *)
(***************************************************************************)
EXTENDS HookRunner, TLAPS

USE HookAssumption DEF HookAssumption

-------------------------------------------------------------------------------
\* Facts about single actions.

\* An answer for a hook which was hashed keeps the types of the UI settings.
LEMMA ApplyAnswerType ==
  ASSUME TypeOK, NEW r \in Runner, NEW h \in Hook, NEW answer \in Answers,
         seen[r][h] \in Content, ApplyAnswer(r, h, answer)
  PROVE  /\ accepted' \in [Runner -> SUBSET Content] /\ toSync' \in [Runner -> SUBSET Content]
         /\ approved' \subseteq Content
         /\ acceptAll' \in [Runner -> BOOLEAN] /\ disabled' \in [Runner -> SUBSET Hook]
<1>1. acceptAll' \in [Runner -> BOOLEAN]
  BY DEF ApplyAnswer, TypeOK
<1>2. accepted' \in [Runner -> SUBSET Content]
  <2>1. accepted[r] \cup {seen[r][h]} \in SUBSET Content
    BY DEF TypeOK
  <2>2. \/ accepted' = [accepted EXCEPT ![r] = accepted[r] \cup {seen[r][h]}]
        \/ accepted' = accepted
    BY DEF ApplyAnswer, Accept
  <2> QED
    BY <2>1, <2>2 DEF TypeOK
<1>5. toSync' \in [Runner -> SUBSET Content]
  <2>1. toSync[r] \cup {seen[r][h]} \in SUBSET Content
    BY DEF TypeOK
  <2>2. \/ toSync' = [toSync EXCEPT ![r] = toSync[r] \cup {seen[r][h]}]
        \/ toSync' = toSync
    BY DEF ApplyAnswer, Accept
  <2> QED
    BY <2>1, <2>2 DEF TypeOK
<1>3. disabled' \in [Runner -> SUBSET Hook]
  <2>1. disabled[r] \cup {h} \in SUBSET Hook
    BY DEF TypeOK
  <2>2. \/ disabled' = [disabled EXCEPT ![r] = disabled[r] \cup {h}]
        \/ disabled' = disabled
    BY DEF ApplyAnswer
  <2> QED
    BY <2>1, <2>2 DEF TypeOK
<1>4. approved' \subseteq Content
  BY DEF ApplyAnswer, Accept, TypeOK
<1> QED
  BY <1>1, <1>2, <1>3, <1>4, <1>5

\* What RunOld does, without its two outcomes: the replaced hook is executed and
\* nothing else changes but where the runner goes on and how it exits.
LEMMA RunOldFacts ==
  ASSUME TypeOK, NEW r \in Runner, RunOld(r)
  PROVE  /\ pc[r] = "oldRun"
         /\ UNCHANGED <<env, runs, repoTrusted, ignores, acceptAll, accepted, toSync,
                        disabled, dir, seen, pending, plan, later, history>>
         /\ \A x \in Runner : \A h \in Hook :
              x # r \/ h # OldHook => status'[x][h] = status[x][h]
         /\ \A x \in Runner \ {r} : pc'[x] = pc[x] /\ exit'[x] = exit[x]
         /\ \/ pc'[r] = "collect" /\ exit'[r] = "none"
            \/ pc'[r] = "store" /\ exit'[r] \in {"ok", "failed"}
<1>1. PICK s \in {"ok", "failed"} : status' = [status EXCEPT ![r][OldHook] = s]
  BY DEF RunOld
<1>2. \A x \in Runner : \A h \in Hook :
        x # r \/ h # OldHook => status'[x][h] = status[x][h]
  BY <1>1 DEF TypeOK
<1>3. SkipOld(r) \/ Panic(r)
  BY DEF RunOld
<1>4. /\ \A x \in Runner \ {r} : pc'[x] = pc[x] /\ exit'[x] = exit[x]
      /\ \/ pc'[r] = "collect" /\ exit'[r] = "none"
         \/ pc'[r] = "store" /\ exit'[r] \in {"ok", "failed"}
  BY <1>3 DEF SkipOld, Panic, Goto, AfterOld, ExitAfterOld, TypeOK
<1> QED
  BY <1>2, <1>4 DEF RunOld

\* What SkipDir does to the runner, and that it touches no other one.
LEMMA SkipDirFacts ==
  ASSUME TypeOK, NEW r \in Runner, SkipDir(r)
  PROVE  /\ pc[r] = "collect"
         /\ UNCHANGED <<env, runs, repoTrusted, ignores, acceptAll, accepted, toSync,
                        disabled, seen, pending, plan, later, status, history>>
         /\ \A x \in Runner \ {r} :
              pc'[x] = pc[x] /\ exit'[x] = exit[x] /\ dir'[x] = dir[x]
         /\ \/ pc'[r] = "collect" /\ exit'[r] = exit[r] /\ dir'[r] = dir[r] + 1
            \/ pc'[r] = "store" /\ exit'[r] = "failed" /\ dir'[r] = dir[r]
<1>1. CASE conf.skipNonExistingShared
  <2>1. dir' = [dir EXCEPT ![r] = dir[r] + 1] /\ UNCHANGED <<pc, exit>>
    BY <1>1 DEF SkipDir
  <2> QED
    BY <2>1 DEF SkipDir, TypeOK
<1>2. CASE ~conf.skipNonExistingShared
  <2>1. Panic(r) /\ UNCHANGED dir
    BY <1>2 DEF SkipDir
  <2> QED
    BY <2>1 DEF SkipDir, TypeOK, Panic, Goto
<1> QED
  BY <1>1, <1>2

\* Active and Untrusted select hooks of the directory which exist.
LEMMA ActiveFacts ==
  ASSUME TypeOK, NEW r \in Runner, NEW d
  PROVE  /\ Untrusted(r, d) \subseteq Active(r, d)
         /\ \A h \in Active(r, d) :
              /\ h \in NewHook /\ DirOf[h] = d /\ content[h] \in Content
              /\ h \notin RepoIgnored \cup ignores[r]
         /\ \A h \in Active(r, d) \ Untrusted(r, d) :
              repoTrusted[r] \/ content[h] \in store \cup accepted[r]
  BY DEF Active, Untrusted, HooksIn, NewHook, TypeOK, IsTrusted

\* What the steps of a job do: it is queued, taken or ended, and nothing else changes.
LEMMA JobFacts ==
  ASSUME TypeOK, NEW r \in Runner, NEW h \in NewHook,
         AddJob(r, h) \/ StartHook(r, h) \/ FinishHook(r, h)
  PROVE  /\ pc[r] = "exec" /\ h \in group[r]
         /\ UNCHANGED <<env, pc, runs, repoTrusted, ignores, acceptAll, accepted,
                        toSync, disabled, dir, seen, pending, plan, later, exit,
                        history>>
         /\ \A x \in Runner : \A g \in Hook :
              x # r \/ g # h => status'[x][g] = status[x][g]
         /\ status[r][h] # "ok" /\ status'[r][h] # "none"
<1>1. PICK s \in Status \ {"none"} : status' = [status EXCEPT ![r][h] = s]
  BY DEF AddJob, StartHook, FinishHook, Status
<1>2. /\ \A x \in Runner : \A g \in Hook :
           x # r \/ g # h => status'[x][g] = status[x][g]
      /\ status'[r][h] # "none"
  BY <1>1 DEF TypeOK, NewHook
<1>3. h \in group[r] /\ status[r][h] # "ok"
  BY DEF AddJob, StartHook, FinishHook, InState
<1> QED
  BY <1>2, <1>3 DEF AddJob, StartHook, FinishHook

\* What LogHookResults does to the runner: it goes on after a batch which succeeded
\* or panics.
LEMMA LogFacts ==
  ASSUME TypeOK, NEW r \in Runner, LogHookResults(r)
  PROVE  /\ pc[r] = "exec"
         /\ UNCHANGED <<env, runs, repoTrusted, ignores, acceptAll, accepted, toSync,
                        unstored, disabled, dir, seen, pending, plan, todo, status,
                        history>>
         /\ group' \in [Runner -> SUBSET NewHook]
         /\ \A x \in Runner \ {r} :
              pc'[x] = pc[x] /\ exit'[x] = exit[x] /\ group'[x] = group[x]
         /\ \/ /\ pc'[r] = "exec" /\ exit'[r] = exit[r] /\ group'[r] = {}
               /\ \A h \in group[r] : status[r][h] = "ok"
            \/ pc'[r] = "store" /\ exit'[r] = "failed" /\ group'[r] = group[r]
<1>1. /\ pc[r] = "exec" /\ Awaited(r)
      /\ UNCHANGED <<env, runs, repoTrusted, ignores, acceptAll, accepted, toSync,
                     unstored, disabled, dir, seen, pending, plan, todo, status,
                     history>>
  BY DEF LogHookResults
<1>2. CASE InState(r, "failed") = {}
  <2>1. group' = [group EXCEPT ![r] = {}] /\ UNCHANGED <<pc, exit>>
    BY <1>2 DEF LogHookResults
  <2>2. \A h \in group[r] : status[r][h] = "ok"
    BY <1>1, <1>2 DEF Awaited, InState
  <2> QED
    BY <1>1, <2>1, <2>2 DEF TypeOK
<1>3. CASE InState(r, "failed") # {}
  <2>1. Panic(r) /\ UNCHANGED group
    BY <1>3 DEF LogHookResults
  <2> QED
    BY <1>1, <2>1 DEF TypeOK, Panic, Goto
<1> QED
  BY <1>2, <1>3

\* The surroundings change no runner and only extend what the user ever approved,
\* revoked or consented to.
LEMMA EnvironmentFacts ==
  ASSUME TypeOK, TrustOrigin, Environment
  PROVE  /\ UNCHANGED <<conf, local>>
         /\ approved \subseteq approved' /\ revoked \subseteq revoked'
         /\ consented => consented'
         /\ store \subseteq store' \cup revoked'
         /\ TrustOrigin'
<1> USE DEF TypeOK, TrustOrigin, history
<1>1. ASSUME NEW h \in Hook, NEW c \in Content \cup {Absent}, EditHook(h, c)
      PROVE  UNCHANGED <<conf, local, approved, revoked, consented, store, trustAll>>
  BY <1>1 DEF EditHook
<1>2. ASSUME NEW h \in Hook, TrustHook(h)
      PROVE  /\ UNCHANGED <<conf, local, revoked, consented, trustAll>>
             /\ approved' = approved \cup {content[h]}
             /\ store' = store \cup {content[h]}
  BY <1>2 DEF TrustHook
<1>3. ASSUME NEW h \in Hook, ResetHook(h)
      PROVE  /\ UNCHANGED <<conf, local, approved, consented, trustAll>>
             /\ revoked' = revoked \cup {content[h]}
             /\ store' = store \ {content[h]}
  BY <1>3 DEF ResetHook
<1>4. ASSUME NEW u \in Cli, CliStep(u)
      PROVE  UNCHANGED <<conf, local, approved, revoked, consented, store, trustAll>>
  BY <1>4 DEF CliStep, IgnoreAdd, IgnoreRemove, IgnoreTruncate, IgnoreWrite, IgnoreEnds
<1>5. ASSUME NEW d \in 2..NumDirs, ToggleShared(d)
      PROVE  UNCHANGED <<conf, local, approved, revoked, consented, store, trustAll>>
  BY <1>5 DEF ToggleShared
<1>6. ASSUME NEW option \in {"add", "forget", "revoke", "delete"}, TrustRepo(option)
      PROVE  /\ UNCHANGED <<conf, local, approved, revoked, store>>
             /\ consented => consented'
             /\ trustAll' = "yes" => consented'
  BY <1>6 DEF TrustRepo
<1> QED
  BY <1>1, <1>2, <1>3, <1>4, <1>5, <1>6 DEF Environment

-------------------------------------------------------------------------------
\* The inductive invariant, part by part.

\* The initial states satisfy the inductive invariant.
LEMMA InitInv == Init => IndInv
<1> SUFFICES ASSUME Init PROVE IndInv
  OBVIOUS
<1>1. TypeOK
  <2> USE DEF Init
  <2>1. conf \in Conf /\ pc \in [Runner -> PC]
    BY DEF Conf, PC
  <2>2. /\ seen \in [Runner -> [Hook -> Content \cup {Absent}]]
        /\ content \in [Hook -> Content \cup {Absent}]
    OBVIOUS
  <2>3. /\ status \in [Runner -> [Hook -> Status]]
        /\ exit \in [Runner -> {"none", "ok", "failed", "killed"}]
    BY DEF Status
  <2>4. /\ dir \in [Runner -> 1..(NumDirs + 1)] /\ runs \in [Runner -> 0..MaxRuns]
        /\ edits \in 0..MaxEdits
    OBVIOUS
  <2>6. /\ unstored \in [Runner -> SUBSET Content]
        /\ todo \in [Runner -> SUBSET NewHook] /\ group \in [Runner -> SUBSET NewHook]
        /\ cli \in [Cli -> [pc: {"idle", "store", "write"}, read: SUBSET Hook,
                            op: {"add", "remove"}, hook: Hook]]
    OBVIOUS
  <2>5. /\ ignores \in [Runner -> SUBSET Hook] /\ disabled \in [Runner -> SUBSET Hook]
        /\ accepted \in [Runner -> SUBSET Content]
        /\ toSync \in [Runner -> SUBSET Content]
        /\ pending \in [Runner -> SUBSET NewHook] /\ plan \in [Runner -> SUBSET NewHook]
    OBVIOUS
  <2> QED
    BY IgnoreAssumption, <2>1, <2>2, <2>3, <2>4, <2>5, <2>6 DEF TypeOK
<1>2. TrustOrigin /\ OnlyApprovedRuns /\ SuccessMeansAllRan
  BY DEF Init, TrustOrigin, OnlyApprovedRuns, SuccessMeansAllRan, Launched, NewHook
<1>3. BatchBarrier
  BY DEF Init, BatchBarrier
<1>4. ASSUME NEW r \in Runner
      PROVE  /\ Phase(r) /\ Hashed(r) /\ Selected(r) /\ Executed(r) /\ InOrder(r)
             /\ Remembered(r)
  BY DEF Init, Phase, Hashed, Selected, Executed, InOrder, Remembered, NewHook, Early
<1>5. DisabledStaysDisabled /\ ReadIsCurrent
  BY DEF Init, DisabledStaysDisabled, ReadIsCurrent, Holding, CliHolding
<1> QED
  BY <1>1, <1>2, <1>3, <1>4, <1>5 DEF IndInv

\* Every step keeps the types; a hook which is accepted has a content because it
\* was hashed before.
LEMMA TypeStep == IndInv /\ [Next]_vars => TypeOK'
<1> SUFFICES ASSUME IndInv, [Next]_vars PROVE TypeOK'
  OBVIOUS
<1> USE DEF TypeOK, env, local, later, history, Goto, PC
<1>0. TypeOK /\ \A x \in Runner : Hashed(x) /\ Phase(x)
  BY DEF IndInv
<1>1. ASSUME NEW r \in Runner, Start(r) PROVE TypeOK'
  BY <1>0, <1>1, SMTT(20) DEF Start, Status
<1>2. ASSUME NEW r \in Runner, Load(r) PROVE TypeOK'
  BY <1>0, <1>2 DEF Load
<1>3. ASSUME NEW r \in Runner, RunLFS(r) PROVE TypeOK'
  BY <1>0, <1>3 DEF RunLFS, Panic
<1>4. ASSUME NEW r \in Runner, NEW answer \in {"y", "n", "error"},
             AnswerTrustRepo(r, answer)
      PROVE  TypeOK'
  BY <1>0, <1>4 DEF AnswerTrustRepo
<1>5. ASSUME NEW r \in Runner, CollectOld(r) PROVE TypeOK'
  <2>1. pc' \in [Runner -> PC] /\ exit' \in [Runner -> {"none", "ok", "failed", "killed"}]
    <3>1. SkipOld(r) \/ Panic(r) \/ \E at \in {"oldRun", "oldPrompt"} : Goto(r, at) /\ UNCHANGED exit
      BY <1>5 DEF CollectOld, FailOrWarnOld
    <3>2. CASE SkipOld(r)
      BY <1>0, <3>2 DEF SkipOld, AfterOld, ExitAfterOld
    <3>3. CASE Panic(r)
      BY <1>0, <3>3 DEF Panic
    <3>4. CASE \E at \in {"oldRun", "oldPrompt"} : Goto(r, at) /\ UNCHANGED exit
      BY <1>0, <3>4
    <3> QED
      BY <3>1, <3>2, <3>3, <3>4
  <2>2. seen' \in [Runner -> [Hook -> Content \cup {Absent}]]
    BY <1>0, <1>5 DEF CollectOld
  <2> QED
    BY <1>0, <1>5, <2>1, <2>2 DEF CollectOld
<1>6. ASSUME NEW r \in Runner, RunOld(r) PROVE TypeOK'
  <2>1. PICK s \in {"ok", "failed"} : status' = [status EXCEPT ![r][OldHook] = s]
    BY <1>6 DEF RunOld
  <2>2. status' \in [Runner -> [Hook -> Status]]
    BY <1>0, <2>1 DEF Status
  <2>3. pc' \in [Runner -> PC] /\ exit' \in [Runner -> {"none", "ok", "failed", "killed"}]
    BY <1>0, <1>6 DEF RunOld, SkipOld, Panic, AfterOld, ExitAfterOld
  <2> QED
    BY <1>0, <1>6, <2>2, <2>3 DEF RunOld
<1>7. ASSUME NEW r \in Runner, NEW answer \in Answers, AnswerOld(r, answer)
      PROVE  TypeOK'
  <2>1. seen[r][OldHook] \in Content /\ ApplyAnswer(r, OldHook, answer)
    BY <1>0, <1>7 DEF AnswerOld, Hashed
  <2>3. /\ accepted' \in [Runner -> SUBSET Content] /\ toSync' \in [Runner -> SUBSET Content]
        /\ approved' \subseteq Content
        /\ acceptAll' \in [Runner -> BOOLEAN] /\ disabled' \in [Runner -> SUBSET Hook]
    BY <1>0, <2>1, ApplyAnswerType
  <2>2. pc' \in [Runner -> PC] /\ exit' \in [Runner -> {"none", "ok", "failed", "killed"}]
    <3>1. (Goto(r, "oldRun") /\ UNCHANGED exit) \/ SkipOld(r) \/ FailOrWarnOld(r)
      BY <1>7 DEF AnswerOld
    <3>2. SkipOld(r) \/ Panic(r) \/ (Goto(r, "oldRun") /\ UNCHANGED exit)
      BY <3>1 DEF FailOrWarnOld
    <3>3. CASE SkipOld(r)
      BY <1>0, <3>3 DEF SkipOld, AfterOld, ExitAfterOld
    <3>4. CASE Panic(r)
      BY <1>0, <3>4 DEF Panic
    <3>5. CASE Goto(r, "oldRun") /\ UNCHANGED exit
      BY <1>0, <3>5
    <3> QED
      BY <3>2, <3>3, <3>4, <3>5
  <2> QED
    BY <1>0, <1>7, <2>2, <2>3 DEF AnswerOld
<1>8. ASSUME NEW r \in Runner, NEW answer \in Answers, Decide(r, answer)
      PROVE  TypeOK'
  <2>1. PICK h \in NextPending(r) :
          /\ pending' = [pending EXCEPT ![r] = @ \ {h}]
          /\ plan' = IF answer \in {"y", "a"}
                     THEN [plan EXCEPT ![r] = @ \cup {h}] ELSE plan
          /\ ApplyAnswer(r, h, answer)
    BY <1>8 DEF Decide
  <2>2. h \in pending[r] /\ h \in NewHook /\ h \in Hook /\ seen[r][h] \in Content
    BY <1>0, <2>1 DEF NextPending, Hashed, NewHook
  <2>3. /\ accepted' \in [Runner -> SUBSET Content] /\ toSync' \in [Runner -> SUBSET Content]
        /\ approved' \subseteq Content
        /\ acceptAll' \in [Runner -> BOOLEAN] /\ disabled' \in [Runner -> SUBSET Hook]
    BY <1>0, <2>1, <2>2, ApplyAnswerType
  <2>4. pending' \in [Runner -> SUBSET NewHook] /\ plan' \in [Runner -> SUBSET NewHook]
    BY <1>0, <2>1, <2>2
  <2>5. pc' \in [Runner -> PC] /\ exit' \in [Runner -> {"none", "ok", "failed", "killed"}]
    <3>1. FailOrWarn(r) \/ UNCHANGED <<pc, exit>>
      BY <1>8 DEF Decide
    <3> QED
      BY <1>0, <3>1 DEF FailOrWarn, Panic
  <2> QED
    BY <1>0, <1>8, <2>3, <2>4, <2>5 DEF Decide
<1>9. ASSUME NEW r \in Runner, WalkDir(r) PROVE TypeOK'
  <2>1. pending' \in [Runner -> SUBSET NewHook] /\ plan' \in [Runner -> SUBSET NewHook]
    BY <1>0, <1>9, ActiveFacts DEF WalkDir
  <2>2. seen' \in [Runner -> [Hook -> Content \cup {Absent}]]
    BY <1>0, <1>9 DEF WalkDir
  <2> QED
    BY <1>0, <1>9, <2>1, <2>2 DEF WalkDir
<1>10. ASSUME NEW r \in Runner, SkipDir(r) PROVE TypeOK'
  <2>1. \/ dir' = [dir EXCEPT ![r] = @ + 1] /\ UNCHANGED <<pc, exit>>
        \/ Panic(r) /\ UNCHANGED dir
    BY <1>10 DEF SkipDir
  <2>2. dir' \in [Runner -> 1..(NumDirs + 1)]
    <3>1. dir[r] + 1 \in 1..(NumDirs + 1)
      BY <1>0, <1>10 DEF SkipDir
    <3>2. dir' = [dir EXCEPT ![r] = dir[r] + 1] \/ dir' = dir
      BY <2>1
    <3> QED
      BY <1>0, <3>1, <3>2
  <2>3. pc' \in [Runner -> PC] /\ exit' \in [Runner -> {"none", "ok", "failed", "killed"}]
    BY <1>0, <2>1 DEF Panic
  <2> QED
    BY <1>0, <1>10, <2>2, <2>3 DEF SkipDir
<1>11. ASSUME NEW r \in Runner, DecideNonInteractive(r) PROVE TypeOK'
  <2>1. pending' \in [Runner -> SUBSET NewHook]
    BY <1>0, <1>11 DEF DecideNonInteractive
  <2>2. FailOrWarn(r)
    BY <1>11 DEF DecideNonInteractive
  <2>3. pc' \in [Runner -> PC] /\ exit' \in [Runner -> {"none", "ok", "failed", "killed"}]
    BY <1>0, <2>2 DEF FailOrWarn, Panic
  <2> QED
    BY <1>0, <1>11, <2>1, <2>3 DEF DecideNonInteractive
<1>12. ASSUME NEW r \in Runner, DecideAccepted(r) PROVE TypeOK'
  BY <1>0, <1>12 DEF DecideAccepted, Accept, NextPending, Hashed, NewHook
<1>13. ASSUME NEW r \in Runner, NextDir(r) PROVE TypeOK'
  BY <1>0, <1>13 DEF NextDir, Phase
<1>14. ASSUME NEW r \in Runner, CollectDone(r) PROVE TypeOK'
  BY <1>0, <1>14 DEF CollectDone
<1>15. ASSUME NEW r \in Runner, NEW h \in NewHook, AddJob(r, h) \/ StartHook(r, h)
       PROVE  TypeOK'
  <2>1. status' \in [Runner -> [Hook -> Status]]
    <3>1. PICK s \in {"queued", "running"} : status' = [status EXCEPT ![r][h] = s]
      BY <1>15 DEF AddJob, StartHook
    <3> QED
      BY <1>0, <3>1 DEF Status, NewHook
  <2>2. CASE AddJob(r, h)
    BY <1>0, <2>1, <2>2 DEF AddJob
  <2>3. CASE StartHook(r, h)
    BY <1>0, <2>1, <2>3 DEF StartHook
  <2> QED
    BY <1>15, <2>2, <2>3
<1>24. ASSUME NEW r \in Runner, NextBatch(r) PROVE TypeOK'
  BY <1>0, <1>24 DEF NextBatch, FirstBatch
<1>16. ASSUME NEW r \in Runner, NEW h \in NewHook, FinishHook(r, h) PROVE TypeOK'
  <2>1. PICK s \in {"ok", "failed"} : status' = [status EXCEPT ![r][h] = s]
    BY <1>16 DEF FinishHook
  <2>2. status' \in [Runner -> [Hook -> Status]]
    BY <1>0, <2>1 DEF Status, NewHook
  <2> QED
    BY <1>0, <1>16, <2>2 DEF FinishHook
<1>17. ASSUME NEW r \in Runner, ExecDone(r) PROVE TypeOK'
  BY <1>0, <1>17 DEF ExecDone
<1>25. ASSUME NEW r \in Runner, LogHookResults(r) PROVE TypeOK'
  <2>1. pc' \in [Runner -> PC] /\ exit' \in [Runner -> {"none", "ok", "failed", "killed"}]
    BY <1>0, <1>25 DEF LogHookResults, Panic
  <2>2. group' \in [Runner -> SUBSET NewHook]
    BY <1>0, <1>25, LogFacts
  <2> QED
    BY <1>0, <1>25, <2>1, <2>2 DEF LogHookResults
<1>18. ASSUME NEW r \in Runner, TruncateIgnores(r) \/ NothingDisabled(r) \/ StoreFails(r)
       PROVE  TypeOK'
  <2>1. CASE TruncateIgnores(r)
    BY <1>0, <2>1 DEF TruncateIgnores
  <2>2. CASE NothingDisabled(r)
    BY <1>0, <2>2 DEF NothingDisabled
  <2>3. CASE StoreFails(r)
    BY <1>0, <2>3 DEF StoreFails
  <2> QED
    BY <1>18, <2>1, <2>2, <2>3
<1>19. ASSUME NEW r \in Runner, WriteIgnores(r) PROVE TypeOK'
  BY <1>0, <1>19 DEF WriteIgnores
<1>20. ASSUME NEW r \in Runner, NEW c \in Content, SyncChecksum(r, c) PROVE TypeOK'
  BY <1>0, <1>20 DEF SyncChecksum
<1>21. ASSUME NEW r \in Runner, Exit(r) \/ Kill(r) PROVE TypeOK'
  <2>1. CASE Exit(r)
    BY <1>0, <2>1 DEF Exit
  <2>2. CASE Kill(r)
    BY <1>0, <2>2 DEF Kill
  <2> QED
    BY <1>21, <2>1, <2>2
<1>26. ASSUME NEW r \in Runner, SyncFails(r) PROVE TypeOK'
  <2>1. toSync' \in [Runner -> SUBSET Content] /\ unstored' \in [Runner -> SUBSET Content]
    BY <1>0, <1>26 DEF SyncFails
  <2> QED
    BY <1>0, <1>26, <2>1 DEF SyncFails
<1>22. CASE Environment
  <2>0. /\ Interfere => edits' \in 0..MaxEdits
        /\ \A h \in Hook : content[h] # Absent => content[h] \in Content
    BY <1>0 DEF Interfere
  <2>1. ASSUME NEW h \in Hook, NEW c \in Content \cup {Absent}, EditHook(h, c)
        PROVE  TypeOK'
    BY <1>0, <2>0, <2>1 DEF EditHook
  <2>2. ASSUME NEW h \in Hook, TrustHook(h) PROVE TypeOK'
    BY <1>0, <2>0, <2>2 DEF TrustHook
  <2>3. ASSUME NEW h \in Hook, ResetHook(h) PROVE TypeOK'
    BY <1>0, <2>0, <2>3 DEF ResetHook
  <2>4. ASSUME NEW u \in Cli, NEW h \in Hook, IgnoreAdd(u, h) \/ IgnoreRemove(u, h)
        PROVE  TypeOK'
    <3>1. PICK op \in {"add", "remove"} :
            /\ cli' = [cli EXCEPT ![u] = [pc |-> "store", read |-> ignoreFile, op |-> op,
                                         hook |-> h]]
            /\ Interfere
            /\ UNCHANGED <<conf, content, available, store, ignoreFile, trustMarker,
                           trustAll, local, history>>
      BY <2>4 DEF IgnoreAdd, IgnoreRemove
    <3>2. cli' \in [Cli -> [pc: {"idle", "store", "write"}, read: SUBSET Hook,
                           op: {"add", "remove"}, hook: Hook]]
      BY <1>0, <3>1
    <3> QED
      BY <1>0, <2>0, <3>1, <3>2
  <2>5. ASSUME NEW u \in Cli, IgnoreTruncate(u) \/ IgnoreWrite(u) \/ IgnoreEnds(u)
        PROVE  TypeOK'
    <3>1. PICK l \in {"idle", "write"} : cli' = [cli EXCEPT ![u] = [cli[u] EXCEPT !.pc = l]]
      BY <2>5 DEF IgnoreTruncate, IgnoreWrite, IgnoreEnds
    <3> DEFINE State == [pc: {"idle", "store", "write"}, read: SUBSET Hook,
                         op: {"add", "remove"}, hook: Hook]
    <3>4. cli \in [Cli -> State]
      BY <1>0
    <3>5. [cli[u] EXCEPT !.pc = l] \in State
      BY <3>4
    <3> HIDE DEF State
    <3>6. cli' \in [Cli -> State]
      BY <3>1, <3>4, <3>5
    <3>2. cli' \in [Cli -> [pc: {"idle", "store", "write"}, read: SUBSET Hook,
                           op: {"add", "remove"}, hook: Hook]]
      BY <3>6 DEF State
    <3>3. ignoreFile' \subseteq Hook /\ userIgnored' \subseteq Hook /\ overlapped' \in BOOLEAN
      BY <1>0, <2>5 DEF IgnoreTruncate, IgnoreWrite, IgnoreEnds, Change
    <3> QED
      BY <1>0, <2>5, <3>2, <3>3 DEF IgnoreTruncate, IgnoreWrite, IgnoreEnds
  <2>6. ASSUME NEW d \in 2..NumDirs, ToggleShared(d) PROVE TypeOK'
    BY <1>0, <2>0, <2>6 DEF ToggleShared
  <2>7. ASSUME NEW option \in {"add", "forget", "revoke", "delete"}, TrustRepo(option)
        PROVE  TypeOK'
    <3>1. trustAll' \in {"unset", "yes", "no"} /\ trustMarker' \in BOOLEAN
      BY <1>0, <2>7 DEF TrustRepo
    <3> QED
      BY <1>0, <2>0, <2>7, <3>1 DEF TrustRepo
  <2> QED
    BY <1>22, <2>1, <2>2, <2>3, <2>4, <2>5, <2>6, <2>7 DEF Environment, CliStep
<1>23. CASE UNCHANGED vars
  BY <1>0, <1>23 DEF vars
<1> QED
  BY <1>1, <1>2, <1>3, <1>4, <1>5, <1>6, <1>7, <1>8, <1>9, <1>10, <1>11, <1>12,
     <1>13, <1>14, <1>15, <1>16, <1>17, <1>18, <1>19, <1>20, <1>21, <1>22, <1>23,
     <1>24, <1>25, <1>26
  DEF Next, RunnerStep

\* What is trusted on disk or by configuration stems from the user.
LEMMA TrustOriginStep == IndInv /\ [Next]_vars => TrustOrigin'
<1> SUFFICES ASSUME IndInv, [Next]_vars PROVE TrustOrigin'
  OBVIOUS
<1>0. TypeOK /\ TrustOrigin /\ \A x \in Runner : Remembered(x)
  BY DEF IndInv
<1> USE DEF TypeOK, TrustOrigin, Remembered, Early, NewHook, env, local,
    later, history, Goto
<1>1. ASSUME NEW r \in Runner, NEW answer \in {"y", "n", "error"},
             AnswerTrustRepo(r, answer)
      PROVE  TrustOrigin'
  BY <1>0, <1>1 DEF AnswerTrustRepo
<1>2. ASSUME NEW r \in Runner, RunOld(r)
      PROVE  TrustOrigin'
  BY <1>0, <1>2, RunOldFacts
<1>3. ASSUME NEW r \in Runner, NEW answer \in Answers, AnswerOld(r, answer)
      PROVE  TrustOrigin'
  BY <1>0, <1>3 DEF AnswerOld, ApplyAnswer, Accept, FailOrWarnOld, SkipOld,
     Panic, AfterOld, ExitAfterOld, Answers
<1>4. ASSUME NEW r \in Runner, NEW answer \in Answers, Decide(r, answer)
      PROVE  TrustOrigin'
  BY <1>0, <1>4 DEF Decide, ApplyAnswer, Accept, FailOrWarn, Panic,
     NextPending, Answers
<1>5. ASSUME NEW r \in Runner, WalkDir(r)
      PROVE  TrustOrigin'
  BY <1>0, <1>5, ActiveFacts DEF WalkDir
<1>6. ASSUME NEW r \in Runner, DecideAccepted(r)
      PROVE  TrustOrigin'
  BY <1>0, <1>6 DEF DecideAccepted, Accept, NextPending
<1>7. ASSUME NEW r \in Runner, NEW c \in Content, SyncChecksum(r, c)
      PROVE  TrustOrigin'
  BY <1>0, <1>7 DEF SyncChecksum
<1>8. ASSUME NEW r \in Runner, Start(r) \/ Load(r) \/ RunLFS(r) \/
             CollectOld(r) \/ SkipDir(r) \/ DecideNonInteractive(r) \/
             NextDir(r) \/ CollectDone(r) \/ LogHookResults(r) \/ ExecDone(r) \/ NextBatch(r) \/
             TruncateIgnores(r) \/ StoreFails(r) \/ NothingDisabled(r) \/ WriteIgnores(r) \/
             Exit(r) \/ SyncFails(r) \/ Kill(r)
      PROVE  TrustOrigin'
  BY <1>0, <1>8 DEF Start, Load, RunLFS, Panic, CollectOld, FailOrWarnOld,
     SkipOld, AfterOld, ExitAfterOld, IsTrusted, SkipDir,
     DecideNonInteractive, FailOrWarn, NextPending, NextDir, CollectDone,
     LogHookResults, ExecDone, NextBatch, InState, TruncateIgnores, StoreFails, NothingDisabled,
     WriteIgnores, Exit, SyncFails, Kill
<1>9. ASSUME NEW r \in Runner, NEW h \in NewHook, AddJob(r, h) \/ StartHook(r, h) \/
             FinishHook(r, h)
      PROVE  TrustOrigin'
  BY <1>0, <1>9 DEF AddJob, StartHook, InState, FinishHook
<1>10. CASE Environment
  BY <1>0, <1>10, EnvironmentFacts
<1>11. CASE UNCHANGED vars
  BY <1>0, <1>11 DEF vars
<1> QED
  BY <1>1, <1>2, <1>3, <1>4, <1>5, <1>6, <1>7, <1>8, <1>9, <1>10, <1>11 DEF
     Next, RunnerStep

\* OnlyApprovedRuns is inductive together with the parts it cites.
LEMMA OnlyApprovedRunsStep == IndInv /\ [Next]_vars => OnlyApprovedRuns'
<1> SUFFICES ASSUME IndInv, [Next]_vars PROVE OnlyApprovedRuns'
  OBVIOUS
<1>0. TypeOK /\ OnlyApprovedRuns /\ TrustOrigin
      /\ \A x \in Runner : Phase(x) /\ Hashed(x) /\ Remembered(x)
  BY DEF IndInv
<1>g. \A x \in Runner : group[x] \subseteq plan[x]
  BY DEF IndInv, InOrder
<1> USE DEF TypeOK, OnlyApprovedRuns, TrustOrigin, Phase, Hashed,
    Remembered, Launched, Early, NewHook, env, local, later, history, Goto
<1>1. ASSUME NEW r \in Runner, Start(r)
      PROVE  OnlyApprovedRuns'
  BY <1>0, <1>1 DEF Start
<1>2. ASSUME NEW r \in Runner, Load(r)
      PROVE  OnlyApprovedRuns'
  BY <1>0, <1>2 DEF Load
<1>3. ASSUME NEW r \in Runner, RunLFS(r)
      PROVE  OnlyApprovedRuns'
  BY <1>0, <1>3 DEF RunLFS, Panic
<1>4. ASSUME NEW r \in Runner, NEW answer \in {"y", "n", "error"},
             AnswerTrustRepo(r, answer)
      PROVE  OnlyApprovedRuns'
  BY <1>0, <1>4 DEF AnswerTrustRepo
<1>5. ASSUME NEW r \in Runner, CollectOld(r)
      PROVE  OnlyApprovedRuns'
  BY <1>0, <1>5 DEF CollectOld, FailOrWarnOld, SkipOld, Panic, AfterOld,
     ExitAfterOld, IsTrusted
<1>6. ASSUME NEW r \in Runner, RunOld(r)
      PROVE  OnlyApprovedRuns'
  BY <1>0, <1>6, RunOldFacts
<1>7. ASSUME NEW r \in Runner, NEW answer \in Answers, AnswerOld(r, answer)
      PROVE  OnlyApprovedRuns'
  BY <1>0, <1>7 DEF AnswerOld, ApplyAnswer, Accept, FailOrWarnOld, SkipOld,
     Panic, AfterOld, ExitAfterOld, Answers
<1>8. ASSUME NEW r \in Runner, NEW answer \in Answers, Decide(r, answer)
      PROVE  OnlyApprovedRuns'
  BY <1>0, <1>8 DEF Decide, ApplyAnswer, Accept, FailOrWarn, Panic,
     NextPending, Answers
<1>9. ASSUME NEW r \in Runner, WalkDir(r)
      PROVE  OnlyApprovedRuns'
  <2> DEFINE A == Active(r, dir[r])
             U == Untrusted(r, dir[r])
  <2>1. /\ UNCHANGED <<repoTrusted, status, consented, approved, store, accepted>>
        /\ pc[r] = "collect" /\ pc' = [pc EXCEPT ![r] = "decide"]
        /\ plan' = [plan EXCEPT ![r] = plan[r] \cup (A \ U)]
        /\ seen' = [seen EXCEPT ![r] =
                     [h \in Hook |-> IF h \in A THEN content[h] ELSE seen[r][h]]]
    BY <1>0, <1>9 DEF WalkDir
  <2>2. /\ A \subseteq NewHook
        /\ \A h \in A \ U : repoTrusted[r] \/ content[h] \in store \cup accepted[r]
    BY <1>0, ActiveFacts
  <2> HIDE DEF A, U
  <2>3. \A h \in plan[r] : h \in A => DirOf[h] = dir[r]
    BY <1>0, ActiveFacts DEF A
  <2>4. ASSUME NEW h \in plan[r], h \in A PROVE FALSE
    <3>1. h \in NewHook /\ DirOf[h] = dir[r]
      BY <2>2, <2>3, <2>4
    <3>2. seen[r][h] \in Content
      BY <1>0, <2>4
    <3>3. DirOf[h] < dir[r]
      BY <1>0, <2>1, <3>1, <3>2
    <3> QED
      BY <1>0, <3>1, <3>3
  <2>5. \A x \in Runner : x # r => Launched(x)' = Launched(x) /\ seen'[x] = seen[x]
    BY <1>0, <2>1
  <2>6. \A h \in Launched(r)' : \/ h \in Launched(r) /\ seen'[r][h] = seen[r][h]
                                \/ h \in A \ U /\ seen'[r][h] = content[h]
    BY <1>0, <2>1, <2>2, <2>4
  <2>7. store \cup accepted[r] \subseteq approved
    BY <1>0
  <2> HIDE DEF Launched
  <2>8. ASSUME NEW x \in Runner
        PROVE  /\ repoTrusted'[x] => consented'
               /\ \A h \in Launched(x)' : repoTrusted'[x] \/ seen'[x][h] \in approved'
    <3>1. CASE x = r
      <4>1. repoTrusted[r] => consented
        BY <1>0
      <4>2. ASSUME NEW h \in Launched(r)'
            PROVE  repoTrusted[r] \/ seen'[r][h] \in approved
        <5>1. CASE h \in Launched(r) /\ seen'[r][h] = seen[r][h]
          <6>1. repoTrusted[r] \/ seen[r][h] \in approved
            BY ONLY <1>0, <5>1 DEF OnlyApprovedRuns
          <6> QED
            BY <5>1, <6>1
        <5>2. CASE h \in A \ U /\ seen'[r][h] = content[h]
          BY <2>2, <2>7, <5>2
        <5> QED
          BY <2>6, <4>2, <5>1, <5>2
      <4> QED
        BY <2>1, <3>1, <4>1, <4>2
    <3>2. CASE x # r
      BY <1>0, <2>1, <2>5, <3>2
    <3> QED
      BY <3>1, <3>2
  <2> QED
    BY <2>8
<1>10. ASSUME NEW r \in Runner, SkipDir(r)
      PROVE  OnlyApprovedRuns'
  BY <1>0, <1>10 DEF SkipDir, Panic
<1>11. ASSUME NEW r \in Runner, DecideNonInteractive(r)
      PROVE  OnlyApprovedRuns'
  BY <1>0, <1>11 DEF DecideNonInteractive, FailOrWarn, Panic, NextPending
<1>12. ASSUME NEW r \in Runner, DecideAccepted(r)
      PROVE  OnlyApprovedRuns'
  BY <1>0, <1>12 DEF DecideAccepted, Accept, NextPending
<1>13. ASSUME NEW r \in Runner, NEW h \in NewHook,
              AddJob(r, h) \/ StartHook(r, h) \/ FinishHook(r, h)
      PROVE  OnlyApprovedRuns'
  <2>1. h \in plan[r]
    BY <1>0, <1>g, <1>13, JobFacts
  <2> QED
    BY <1>0, <1>13, <2>1, JobFacts
<1>15. ASSUME NEW r \in Runner, LogHookResults(r)
      PROVE  OnlyApprovedRuns'
  BY <1>0, <1>15 DEF LogHookResults, Panic
<1>16. ASSUME NEW r \in Runner, Kill(r)
      PROVE  OnlyApprovedRuns'
  BY <1>0, <1>16 DEF Kill
<1>17. ASSUME NEW r \in Runner, NextDir(r) \/ CollectDone(r) \/ ExecDone(r) \/ NextBatch(r)
             \/ TruncateIgnores(r) \/ StoreFails(r) \/ NothingDisabled(r) \/ WriteIgnores(r) \/
             Exit(r) \/ SyncFails(r)
      PROVE  OnlyApprovedRuns'
  BY <1>0, <1>17 DEF NextDir, CollectDone, ExecDone, NextBatch, InState, TruncateIgnores, StoreFails,
     NothingDisabled, WriteIgnores, Exit, SyncFails
<1>18. ASSUME NEW r \in Runner, NEW c \in Content, SyncChecksum(r, c)
      PROVE  OnlyApprovedRuns'
  BY <1>0, <1>18 DEF SyncChecksum
<1>19. CASE Environment
  BY <1>0, <1>19, EnvironmentFacts
<1>20. CASE UNCHANGED vars
  BY <1>0, <1>20 DEF vars
<1> QED
  BY <1>1, <1>2, <1>3, <1>4, <1>5, <1>6, <1>7, <1>8, <1>9, <1>10, <1>11,
     <1>12, <1>13, <1>15, <1>16, <1>17, <1>18, <1>19, <1>20 DEF Next,
     RunnerStep

\* SuccessMeansAllRan is inductive relative to Phase and Selected.
LEMMA SuccessMeansAllRanStep == IndInv /\ [Next]_vars => SuccessMeansAllRan'
<1> SUFFICES ASSUME IndInv, [Next]_vars PROVE SuccessMeansAllRan'
  OBVIOUS
<1>0. TypeOK /\ SuccessMeansAllRan /\ TrustOrigin
      /\ \A x \in Runner : Phase(x) /\ Selected(x) /\ InOrder(x)
  BY DEF IndInv
<1> DEFINE Kept == /\ UNCHANGED <<conf, seen, status>>
                   /\ \A x \in Runner : /\ disabled[x] \subseteq disabled'[x]
                                        /\ exit'[x] = "ok" => exit[x] = "ok"
           Going(r) == /\ exit'[r] # "ok" /\ UNCHANGED conf
                       /\ \A x \in Runner \ {r} : /\ exit'[x] = exit[x]
                                                  /\ seen'[x] = seen[x]
                                                  /\ status'[x] = status[x]
                                                  /\ disabled'[x] = disabled[x]
<1>a. Kept => SuccessMeansAllRan'
  BY <1>0 DEF SuccessMeansAllRan
<1>b. ASSUME NEW r \in Runner, Going(r) PROVE SuccessMeansAllRan'
  BY <1>0, <1>b DEF SuccessMeansAllRan
<1>c. /\ exit \in [Runner -> {"none", "ok", "failed", "killed"}]
      /\ pc \in [Runner -> PC] /\ disabled \in [Runner -> SUBSET Hook]
      /\ seen \in [Runner -> [Hook -> Content \cup {Absent}]]
      /\ status \in [Runner -> [Hook -> Status]]
      /\ \A x \in Runner : pc[x] \in {"collect", "exec"} => exit[x] = "none"
  BY <1>0 DEF TypeOK, Phase
<1>1. ASSUME NEW r \in Runner, Start(r)
      PROVE  Going(r)
  BY <1>c, <1>1 DEF Start, env
<1>2. ASSUME NEW r \in Runner, RunLFS(r) \/ LogHookResults(r)
      PROVE  Kept
  BY <1>c, <1>2 DEF RunLFS, LogHookResults, Panic, env
<1>6. ASSUME NEW r \in Runner, NEW answer \in Answers, Decide(r, answer)
      PROVE  Kept
  <2>1. PICK h \in NextPending(r) : ApplyAnswer(r, h, answer)
    BY <1>6 DEF Decide
  <2>2. \/ disabled' = [disabled EXCEPT ![r] = disabled[r] \cup {h}]
        \/ disabled' = disabled
    BY <2>1 DEF ApplyAnswer
  <2>3. \A x \in Runner : disabled[x] \subseteq disabled'[x]
    BY <1>c, <2>2
  <2>4. FailOrWarn(r) \/ UNCHANGED <<pc, exit>>
    BY <1>6 DEF Decide
  <2>5. \A x \in Runner : exit'[x] = "ok" => exit[x] = "ok"
    BY <1>c, <2>4 DEF FailOrWarn, Panic
  <2> QED
    BY <1>6, <2>3, <2>5 DEF Decide, env
<1>7. ASSUME NEW r \in Runner, WalkDir(r)
      PROVE  Going(r)
  BY <1>c, <1>7 DEF WalkDir, env
<1>8. ASSUME NEW r \in Runner, SkipDir(r)
      PROVE  Kept
  BY <1>0, <1>8, SkipDirFacts DEF env
<1>9. ASSUME NEW r \in Runner, DecideNonInteractive(r)
      PROVE  Kept
  <2>1. FailOrWarn(r)
    BY <1>9 DEF DecideNonInteractive
  <2> QED
    BY <1>c, <1>9, <2>1 DEF DecideNonInteractive, FailOrWarn, Panic, env
<1>10. ASSUME NEW r \in Runner, DecideAccepted(r)
       PROVE  Kept
  BY <1>10 DEF DecideAccepted, env
<1>11. ASSUME NEW r \in Runner, NEW h \in NewHook, AddJob(r, h) \/ StartHook(r, h) \/ FinishHook(r, h)
       PROVE  Going(r)
  BY <1>c, <1>11 DEF AddJob, StartHook, FinishHook, env
<1>14. ASSUME NEW r \in Runner, ExecDone(r)
       PROVE  SuccessMeansAllRan'
  <2>3. /\ UNCHANGED <<conf, seen, status, disabled>> /\ pc[r] = "exec"
        /\ todo[r] = {} /\ group[r] = {} /\ exit' = [exit EXCEPT ![r] = "ok"]
    BY <1>14 DEF ExecDone, env
  <2>4. \A h \in plan[r] : status[r][h] = "ok"
    BY <1>0, <2>3 DEF InOrder
  <2>1. /\ UNCHANGED <<conf, seen, status, disabled>> /\ exit[r] = "none"
        /\ pending[r] = {} /\ \A h \in plan[r] : status[r][h] = "ok"
        /\ \A x \in Runner \ {r} : exit'[x] = exit[x]
    BY <1>0, <1>c, <2>3, <2>4 DEF Phase
  <2>2. ~conf.skipUntrusted => \A h \in NewHook : seen[r][h] # Absent =>
                                 h \in plan[r] \cup disabled[r]
    BY <1>0, <2>1 DEF Selected
  <2> QED
    BY <1>0, <2>1, <2>2 DEF SuccessMeansAllRan
<1>15. ASSUME NEW r \in Runner, Kill(r) \/ NextBatch(r)
       PROVE  Kept
  BY <1>c, <1>15 DEF Kill, NextBatch, env
<1>16. ASSUME NEW r \in Runner, Load(r) \/ NextDir(r) \/ CollectDone(r) \/
             TruncateIgnores(r) \/ StoreFails(r) \/ NothingDisabled(r) \/ WriteIgnores(r) \/
             Exit(r) \/ SyncFails(r)
       PROVE  Kept
  BY <1>16 DEF Load, NextDir, CollectDone, TruncateIgnores, StoreFails, NothingDisabled,
     WriteIgnores, Exit, SyncFails, env
<1>17. ASSUME NEW r \in Runner, NEW answer \in {"y", "n", "error"},
             AnswerTrustRepo(r, answer)
       PROVE  Kept
  BY <1>17 DEF AnswerTrustRepo
<1>18. ASSUME NEW r \in Runner, NEW c \in Content, SyncChecksum(r, c)
       PROVE  Kept
  BY <1>18 DEF SyncChecksum
<1>19. CASE Environment
  BY <1>0, <1>a, <1>19, EnvironmentFacts DEF local
<1>20. CASE UNCHANGED vars
  BY <1>a, <1>20 DEF vars, env, local
<1> HIDE DEF Kept, Going
<1> USE DEF TypeOK, SuccessMeansAllRan, Phase, Early, NewHook, env, local, later, history, Goto
<1>3. ASSUME NEW r \in Runner, CollectOld(r)
      PROVE  SuccessMeansAllRan'
  BY <1>0, <1>3 DEF CollectOld, FailOrWarnOld, SkipOld, Panic, AfterOld,
     ExitAfterOld, IsTrusted
<1>4. ASSUME NEW r \in Runner, RunOld(r)
      PROVE  SuccessMeansAllRan'
  <2>1. ASSUME NEW q \in Runner, exit'[q] = "ok", ~conf'.skipUntrusted, NEW h \in NewHook
        PROVE  seen'[q][h] = Absent \/ status'[q][h] = "ok" \/ h \in disabled'[q]
    <3>1. CASE q = r
      BY <1>0, <1>4, <2>1, <3>1, RunOldFacts
    <3>2. CASE q # r
      <4>1. /\ UNCHANGED <<conf, seen, disabled>> /\ exit[q] = "ok"
            /\ status'[q][h] = status[q][h]
        BY <1>0, <1>4, <2>1, <3>2, RunOldFacts
      <4> QED
        BY <1>0, <2>1, <4>1
    <3> QED
      BY <3>1, <3>2
  <2> QED
    BY <2>1
<1>5. ASSUME NEW r \in Runner, NEW answer \in Answers, AnswerOld(r, answer)
      PROVE  SuccessMeansAllRan'
  BY <1>0, <1>5 DEF AnswerOld, ApplyAnswer, Accept, FailOrWarnOld, SkipOld,
     Panic, AfterOld, ExitAfterOld, Answers
<1> QED
  BY <1>a, <1>b, <1>1, <1>2, <1>3, <1>4, <1>5, <1>6, <1>7, <1>8, <1>9, <1>10, <1>11,
     <1>14, <1>15, <1>16, <1>17, <1>18, <1>19, <1>20 DEF Next, RunnerStep

\* Phase follows the program counter alone.
LEMMA PhaseStep == IndInv /\ [Next]_vars => \A q \in Runner : Phase(q)'
<1> SUFFICES ASSUME IndInv, [Next]_vars, NEW q \in Runner PROVE Phase(q)'
  OBVIOUS
<1>0. TypeOK /\ TrustOrigin /\ \A x \in Runner : Phase(x)
  BY DEF IndInv
<1> USE DEF TypeOK, Phase, TrustOrigin, Early, NewHook, env, local, later, history,
    Goto
<1>1. ASSUME NEW r \in Runner, Start(r)
      PROVE  Phase(q)'
  BY <1>0, <1>1 DEF Start
<1>2. ASSUME NEW r \in Runner, Load(r)
      PROVE  Phase(q)'
  BY <1>0, <1>2 DEF Load
<1>3. ASSUME NEW r \in Runner, RunLFS(r)
      PROVE  Phase(q)'
  BY <1>0, <1>3 DEF RunLFS, Panic
<1>4. ASSUME NEW r \in Runner, NEW answer \in {"y", "n", "error"},
             AnswerTrustRepo(r, answer)
      PROVE  Phase(q)'
  BY <1>0, <1>4 DEF AnswerTrustRepo
<1>5. ASSUME NEW r \in Runner, CollectOld(r)
      PROVE  Phase(q)'
  BY <1>0, <1>5 DEF CollectOld, FailOrWarnOld, SkipOld, Panic, AfterOld,
     ExitAfterOld, IsTrusted
<1>6. ASSUME NEW r \in Runner, RunOld(r)
      PROVE  Phase(q)'
  BY <1>0, <1>6, RunOldFacts
<1>7. ASSUME NEW r \in Runner, NEW answer \in Answers, AnswerOld(r, answer)
      PROVE  Phase(q)'
  BY <1>0, <1>7 DEF AnswerOld, ApplyAnswer, Accept, FailOrWarnOld, SkipOld,
     Panic, AfterOld, ExitAfterOld, Answers
<1>8. ASSUME NEW r \in Runner, NEW answer \in Answers, Decide(r, answer)
      PROVE  Phase(q)'
  BY <1>0, <1>8 DEF Decide, ApplyAnswer, Accept, FailOrWarn, Panic,
     NextPending, Answers
<1>9. ASSUME NEW r \in Runner, WalkDir(r)
      PROVE  Phase(q)'
  BY <1>0, <1>9, ActiveFacts DEF WalkDir
<1>10. ASSUME NEW r \in Runner, SkipDir(r)
      PROVE  Phase(q)'
  <2>1. /\ pc[r] = "collect" /\ UNCHANGED <<pending, plan, todo, group, seen, status,
                                            disabled>>
        /\ q # r => pc'[q] = pc[q] /\ exit'[q] = exit[q] /\ dir'[q] = dir[q]
        /\ \/ pc'[r] = "collect" /\ exit'[r] = exit[r] /\ dir'[r] = dir[r] + 1
           \/ pc'[r] = "store" /\ exit'[r] = "failed" /\ dir'[r] = dir[r]
    <3> HIDE DEF Phase, Early
    <3> QED
      BY <1>0, <1>10, SkipDirFacts
  <2>2. Phase(q)
    BY <1>0
  <2>3. CASE q = r
    BY <2>1, <2>2, <2>3
  <2>4. CASE q # r
    BY <2>1, <2>2, <2>4
  <2> QED
    BY <2>3, <2>4
<1>11. ASSUME NEW r \in Runner, DecideNonInteractive(r)
      PROVE  Phase(q)'
  BY <1>0, <1>11 DEF DecideNonInteractive, FailOrWarn, Panic, NextPending
<1>12. ASSUME NEW r \in Runner, DecideAccepted(r)
      PROVE  Phase(q)'
  BY <1>0, <1>12 DEF DecideAccepted, Accept, NextPending
<1>13. ASSUME NEW r \in Runner, NextDir(r)
      PROVE  Phase(q)'
  BY <1>0, <1>13 DEF NextDir
<1>14. ASSUME NEW r \in Runner, CollectDone(r)
      PROVE  Phase(q)'
  BY <1>0, <1>14 DEF CollectDone
<1>15. ASSUME NEW r \in Runner, NEW h \in NewHook,
              AddJob(r, h) \/ StartHook(r, h) \/ FinishHook(r, h)
      PROVE  Phase(q)'
  <2>1. CASE q = r
    BY <1>0, <1>15, <2>1, JobFacts
  <2>2. CASE q # r
    BY <1>0, <1>15, <2>2, JobFacts
  <2> QED
    BY <2>1, <2>2
<1>16. ASSUME NEW r \in Runner, NextBatch(r)
      PROVE  Phase(q)'
  BY <1>0, <1>16 DEF NextBatch
<1>17. ASSUME NEW r \in Runner, LogHookResults(r)
      PROVE  Phase(q)'
  <2>1. CASE q = r
    BY <1>0, <1>17, <2>1, LogFacts
  <2>2. CASE q # r
    BY <1>0, <1>17, <2>2, LogFacts
  <2> QED
    BY <2>1, <2>2
<1>18. ASSUME NEW r \in Runner, ExecDone(r)
      PROVE  Phase(q)'
  BY <1>0, <1>18 DEF ExecDone
<1>27. ASSUME NEW r \in Runner, StoreFails(r)
      PROVE  Phase(q)'
  BY <1>0, <1>27 DEF StoreFails
<1>28. ASSUME NEW r \in Runner, SyncFails(r)
      PROVE  Phase(q)'
  <2>1. UNCHANGED <<pc, plan, pending, dir, seen, disabled, status, todo, group, exit>>
    BY <1>28 DEF SyncFails
  <2> QED
    BY <1>0, <2>1
<1>19. ASSUME NEW r \in Runner, TruncateIgnores(r)
      PROVE  Phase(q)'
  BY <1>0, <1>19 DEF TruncateIgnores
<1>20. ASSUME NEW r \in Runner, NothingDisabled(r)
      PROVE  Phase(q)'
  BY <1>0, <1>20 DEF NothingDisabled
<1>21. ASSUME NEW r \in Runner, WriteIgnores(r)
      PROVE  Phase(q)'
  BY <1>0, <1>21 DEF WriteIgnores
<1>22. ASSUME NEW r \in Runner, NEW c \in Content, SyncChecksum(r, c)
      PROVE  Phase(q)'
  BY <1>0, <1>22 DEF SyncChecksum
<1>23. ASSUME NEW r \in Runner, Exit(r)
      PROVE  Phase(q)'
  BY <1>0, <1>23 DEF Exit
<1>24. ASSUME NEW r \in Runner, Kill(r)
      PROVE  Phase(q)'
  BY <1>0, <1>24 DEF Kill
<1>25. CASE Environment
  BY <1>0, <1>25, EnvironmentFacts
<1>26. CASE UNCHANGED vars
  BY <1>0, <1>26 DEF vars
<1> QED
  BY <1>1, <1>2, <1>3, <1>4, <1>5, <1>6, <1>7, <1>8, <1>9, <1>10, <1>11,
     <1>12, <1>13, <1>14, <1>15, <1>16, <1>17, <1>18, <1>19, <1>20, <1>21,
     <1>22, <1>23, <1>24, <1>25, <1>26, <1>27, <1>28 DEF Next, RunnerStep

\* The hashes of a directory are taken before its hooks are decided.
LEMMA HashedStep == IndInv /\ [Next]_vars => \A q \in Runner : Hashed(q)'
<1> SUFFICES ASSUME IndInv, [Next]_vars, NEW q \in Runner PROVE Hashed(q)'
  OBVIOUS
<1>0. TypeOK /\ TrustOrigin /\ \A x \in Runner : Hashed(x) /\ Phase(x)
  BY DEF IndInv
<1> USE DEF TypeOK, Hashed, TrustOrigin, Phase, Early, NewHook, env, local,
    later, history, Goto
<1>1. ASSUME NEW r \in Runner, Start(r)
      PROVE  Hashed(q)'
  BY <1>0, <1>1 DEF Start
<1>2. ASSUME NEW r \in Runner, Load(r)
      PROVE  Hashed(q)'
  BY <1>0, <1>2 DEF Load
<1>3. ASSUME NEW r \in Runner, RunLFS(r)
      PROVE  Hashed(q)'
  BY <1>0, <1>3 DEF RunLFS, Panic
<1>4. ASSUME NEW r \in Runner, NEW answer \in {"y", "n", "error"},
             AnswerTrustRepo(r, answer)
      PROVE  Hashed(q)'
  BY <1>0, <1>4 DEF AnswerTrustRepo
<1>5. ASSUME NEW r \in Runner, CollectOld(r)
      PROVE  Hashed(q)'
  BY <1>0, <1>5 DEF CollectOld, FailOrWarnOld, SkipOld, Panic, AfterOld,
     ExitAfterOld, IsTrusted
<1>6. ASSUME NEW r \in Runner, RunOld(r)
      PROVE  Hashed(q)'
  BY <1>0, <1>6, RunOldFacts
<1>7. ASSUME NEW r \in Runner, NEW answer \in Answers, AnswerOld(r, answer)
      PROVE  Hashed(q)'
  BY <1>0, <1>7 DEF AnswerOld, ApplyAnswer, Accept, FailOrWarnOld, SkipOld,
     Panic, AfterOld, ExitAfterOld, Answers
<1>8. ASSUME NEW r \in Runner, NEW answer \in Answers, Decide(r, answer)
      PROVE  Hashed(q)'
  BY <1>0, <1>8 DEF Decide, ApplyAnswer, Accept, FailOrWarn, Panic,
     NextPending, Answers
<1>9. ASSUME NEW r \in Runner, WalkDir(r)
      PROVE  Hashed(q)'
  BY <1>0, <1>9, ActiveFacts DEF WalkDir
<1>10. ASSUME NEW r \in Runner, SkipDir(r)
      PROVE  Hashed(q)'
  BY <1>0, <1>10, SkipDirFacts
<1>11. ASSUME NEW r \in Runner, DecideNonInteractive(r)
      PROVE  Hashed(q)'
  BY <1>0, <1>11 DEF DecideNonInteractive, FailOrWarn, Panic, NextPending
<1>12. ASSUME NEW r \in Runner, DecideAccepted(r)
      PROVE  Hashed(q)'
  BY <1>0, <1>12 DEF DecideAccepted, Accept, NextPending
<1>13. ASSUME NEW r \in Runner, NextDir(r)
      PROVE  Hashed(q)'
  BY <1>0, <1>13 DEF NextDir
<1>14. ASSUME NEW r \in Runner, CollectDone(r)
      PROVE  Hashed(q)'
  BY <1>0, <1>14 DEF CollectDone
<1>15. ASSUME NEW r \in Runner, LogHookResults(r)
      PROVE  Hashed(q)'
  BY <1>0, <1>15 DEF LogHookResults, Panic
<1>16. ASSUME NEW r \in Runner, NEW h \in NewHook, AddJob(r, h) \/ StartHook(r, h) \/
             FinishHook(r, h)
      PROVE  Hashed(q)'
  BY <1>0, <1>16 DEF AddJob, StartHook, InState, FinishHook
<1>17. ASSUME NEW r \in Runner, ExecDone(r) \/ NextBatch(r) \/ TruncateIgnores(r) \/ StoreFails(r) \/
             NothingDisabled(r) \/ WriteIgnores(r) \/ Exit(r) \/ SyncFails(r) \/ Kill(r)
      PROVE  Hashed(q)'
  BY <1>0, <1>17 DEF ExecDone, NextBatch, InState, TruncateIgnores, StoreFails, NothingDisabled,
     WriteIgnores, Exit, SyncFails, Kill
<1>18. ASSUME NEW r \in Runner, NEW c \in Content, SyncChecksum(r, c)
      PROVE  Hashed(q)'
  BY <1>0, <1>18 DEF SyncChecksum
<1>19. CASE Environment
  BY <1>0, <1>19, EnvironmentFacts
<1>20. CASE UNCHANGED vars
  BY <1>0, <1>20 DEF vars
<1> QED
  BY <1>1, <1>2, <1>3, <1>4, <1>5, <1>6, <1>7, <1>8, <1>9, <1>10, <1>11,
     <1>12, <1>13, <1>14, <1>15, <1>16, <1>17, <1>18, <1>19, <1>20 DEF Next,
     RunnerStep

\* Every hashed hook ends in exactly one of the lists.
LEMMA SelectedStep == IndInv /\ [Next]_vars => \A q \in Runner : Selected(q)'
<1> SUFFICES ASSUME IndInv, [Next]_vars, NEW q \in Runner PROVE Selected(q)'
  OBVIOUS
<1>0. TypeOK /\ TrustOrigin /\ \A x \in Runner : Selected(x) /\ Hashed(x) /\ Phase(x)
  BY DEF IndInv
<1> USE DEF TypeOK, Selected, TrustOrigin, Hashed, Phase, Early, NewHook,
    env, local, later, history, Goto
<1>1. ASSUME NEW r \in Runner, Start(r)
      PROVE  Selected(q)'
  BY <1>0, <1>1 DEF Start
<1>2. ASSUME NEW r \in Runner, Load(r)
      PROVE  Selected(q)'
  BY <1>0, <1>2 DEF Load
<1>3. ASSUME NEW r \in Runner, RunLFS(r)
      PROVE  Selected(q)'
  BY <1>0, <1>3 DEF RunLFS, Panic
<1>4. ASSUME NEW r \in Runner, CollectOld(r)
      PROVE  Selected(q)'
  BY <1>0, <1>4 DEF CollectOld, FailOrWarnOld, SkipOld, Panic, AfterOld,
     ExitAfterOld, IsTrusted
<1>5. ASSUME NEW r \in Runner, RunOld(r)
      PROVE  Selected(q)'
  <2>1. /\ UNCHANGED <<conf, ignores, seen, pending, plan, disabled>>
        /\ exit'[q] = exit[q] \/ (q = r /\ pc[r] = "oldRun")
    BY <1>0, <1>5, RunOldFacts
  <2> QED
    BY <1>0, <2>1
<1>6. ASSUME NEW r \in Runner, NEW answer \in Answers, AnswerOld(r, answer)
      PROVE  Selected(q)'
  <2>1. /\ pc[r] = "oldPrompt"
        /\ UNCHANGED <<conf, seen, pending, plan, ignores>>
        /\ ApplyAnswer(r, OldHook, answer)
    BY <1>6 DEF AnswerOld
  <2>2. \A x \in Runner : disabled'[x] \cap NewHook = disabled[x] \cap NewHook
    BY <1>0, <2>1 DEF ApplyAnswer
  <2>3. \A x \in Runner \ {r} : exit'[x] = exit[x]
    BY <1>0, <1>6 DEF AnswerOld, FailOrWarnOld, SkipOld, Panic
  <2>4. CASE q = r
    BY <1>0, <2>1, <2>2, <2>4
  <2>5. CASE q # r
    <3>1. exit'[q] = exit[q]
      BY <2>3, <2>5
    <3>2. disabled'[q] = disabled[q]
      BY <1>0, <2>1, <2>5 DEF ApplyAnswer
    <3> QED
      BY <1>0, <2>1, <3>1, <3>2
  <2> QED
    BY <2>4, <2>5
<1>7. ASSUME NEW r \in Runner, NEW answer \in Answers, Decide(r, answer)
      PROVE  Selected(q)'
  BY <1>0, <1>7 DEF Decide, ApplyAnswer, Accept, FailOrWarn, Panic,
     NextPending, Answers
<1>8. ASSUME NEW r \in Runner, WalkDir(r)
      PROVE  Selected(q)'
  <2>1. CASE q # r
    BY <1>0, <1>8, <2>1 DEF WalkDir
  <2>2. CASE q = r
    <3> DEFINE A == Active(r, dir[r])
               U == Untrusted(r, dir[r])
    <3>1. /\ pc[r] = "collect" /\ pending[r] = {} /\ pending'[r] = U
          /\ plan'[r] = plan[r] \cup (A \ U) /\ disabled' = disabled
          /\ ignores' = ignores /\ exit' = exit /\ conf' = conf
          /\ \A h \in Hook : seen'[r][h] = IF h \in A THEN content[h] ELSE seen[r][h]
      BY <1>0, <1>8 DEF WalkDir
    <3>2. /\ U \subseteq A
          /\ \A h \in A : h \in NewHook /\ DirOf[h] = dir[r]
                         /\ h \notin RepoIgnored \cup ignores[r]
      BY <1>0, ActiveFacts
    <3> HIDE DEF A, U
    <3>3. \A h \in A : h \notin plan[r] \cup disabled[r]
      <4>1. SUFFICES ASSUME NEW h \in A, h \in plan[r] \cup disabled[r] PROVE FALSE
        OBVIOUS
      <4>2. h \in NewHook /\ DirOf[h] = dir[r]
        BY <3>2
      <4>3. seen[r][h] \in Content
        BY <1>0, <4>1, <4>2
      <4>4. DirOf[h] < dir[r]
        BY <1>0, <3>1, <4>2, <4>3
      <4> QED
        BY <1>0, <4>2, <4>4
    <3>4. /\ plan'[r] \cap pending'[r] = {}
          /\ (plan'[r] \cup pending'[r])
               \cap (RepoIgnored \cup ignores'[r] \cup disabled'[r]) = {}
      BY <1>0, <3>1, <3>2, <3>3
    <3>5. ASSUME exit'[r] = "none", ~conf'.skipUntrusted, NEW h \in NewHook,
                 seen'[r][h] # Absent
          PROVE  h \in plan'[r] \cup pending'[r] \cup disabled'[r]
      BY <1>0, <3>1, <3>5
    <3> QED
      BY <2>2, <3>4, <3>5
  <2> QED
    BY <2>1, <2>2
<1>9. ASSUME NEW r \in Runner, SkipDir(r)
      PROVE  Selected(q)'
  BY <1>0, <1>9 DEF SkipDir, Panic
<1>10. ASSUME NEW r \in Runner, DecideNonInteractive(r)
      PROVE  Selected(q)'
  BY <1>0, <1>10 DEF DecideNonInteractive, FailOrWarn, Panic, NextPending
<1>11. ASSUME NEW r \in Runner, DecideAccepted(r)
      PROVE  Selected(q)'
  BY <1>0, <1>11 DEF DecideAccepted, Accept, NextPending
<1>12. ASSUME NEW r \in Runner, LogHookResults(r)
      PROVE  Selected(q)'
  BY <1>0, <1>12 DEF LogHookResults, Panic
<1>13. ASSUME NEW r \in Runner, ExecDone(r)
      PROVE  Selected(q)'
  BY <1>0, <1>13 DEF ExecDone
<1>22. ASSUME NEW r \in Runner, NextBatch(r)
      PROVE  Selected(q)'
  BY <1>0, <1>22 DEF NextBatch
<1>14. ASSUME NEW r \in Runner, WriteIgnores(r)
      PROVE  Selected(q)'
  BY <1>0, <1>14 DEF WriteIgnores
<1>15. ASSUME NEW r \in Runner, Kill(r)
      PROVE  Selected(q)'
  BY <1>0, <1>15 DEF Kill
<1>16. ASSUME NEW r \in Runner, NEW answer \in {"y", "n", "error"},
             AnswerTrustRepo(r, answer)
      PROVE  Selected(q)'
  BY <1>0, <1>16 DEF AnswerTrustRepo
<1>17. ASSUME NEW r \in Runner, NextDir(r) \/ CollectDone(r) \/
             TruncateIgnores(r) \/ StoreFails(r) \/ NothingDisabled(r) \/ Exit(r) \/ SyncFails(r)
      PROVE  Selected(q)'
  BY <1>0, <1>17 DEF NextDir, CollectDone, TruncateIgnores, StoreFails, NothingDisabled,
     Exit, SyncFails
<1>18. ASSUME NEW r \in Runner, NEW h \in NewHook, AddJob(r, h) \/ StartHook(r, h) \/
             FinishHook(r, h)
      PROVE  Selected(q)'
  BY <1>0, <1>18 DEF AddJob, StartHook, InState, FinishHook
<1>19. ASSUME NEW r \in Runner, NEW c \in Content, SyncChecksum(r, c)
      PROVE  Selected(q)'
  BY <1>0, <1>19 DEF SyncChecksum
<1>20. CASE Environment
  BY <1>0, <1>20, EnvironmentFacts
<1>21. CASE UNCHANGED vars
  BY <1>0, <1>21 DEF vars
<1> QED
  BY <1>1, <1>2, <1>3, <1>4, <1>5, <1>6, <1>7, <1>8, <1>9, <1>10, <1>11,
     <1>12, <1>13, <1>14, <1>15, <1>16, <1>17, <1>18, <1>19, <1>20, <1>21,
     <1>22 DEF Next, RunnerStep

\* Execution starts after all decisions.
LEMMA ExecutedStep == IndInv /\ [Next]_vars => \A q \in Runner : Executed(q)'
<1> SUFFICES ASSUME IndInv, [Next]_vars, NEW q \in Runner PROVE Executed(q)'
  OBVIOUS
<1>0. TypeOK /\ TrustOrigin /\ \A x \in Runner : Executed(x) /\ Phase(x)
  BY DEF IndInv
<1>g. \A x \in Runner : group[x] \subseteq plan[x]
  BY DEF IndInv, InOrder
<1> USE DEF TypeOK, Executed, TrustOrigin, Phase, Early, NewHook, env,
    local, later, history, Goto
<1>1. ASSUME NEW r \in Runner, Start(r)
      PROVE  Executed(q)'
  BY <1>0, <1>1 DEF Start
<1>2. ASSUME NEW r \in Runner, RunOld(r)
      PROVE  Executed(q)'
  BY <1>0, <1>2, RunOldFacts
<1>3. ASSUME NEW r \in Runner, NEW answer \in Answers, Decide(r, answer)
      PROVE  Executed(q)'
  BY <1>0, <1>3 DEF Decide, ApplyAnswer, Accept, FailOrWarn, Panic,
     NextPending, Answers
<1>4. ASSUME NEW r \in Runner, WalkDir(r)
      PROVE  Executed(q)'
  BY <1>0, <1>4, ActiveFacts DEF WalkDir
<1>5. ASSUME NEW r \in Runner, SkipDir(r)
      PROVE  Executed(q)'
  <2>1. CASE q = r
    BY <1>0, <1>5, <2>1, SkipDirFacts
  <2>2. CASE q # r
    BY <1>0, <1>5, <2>2, SkipDirFacts
  <2> QED
    BY <2>1, <2>2
<1>6. ASSUME NEW r \in Runner, DecideNonInteractive(r)
      PROVE  Executed(q)'
  BY <1>0, <1>6 DEF DecideNonInteractive, FailOrWarn, Panic, NextPending
<1>7. ASSUME NEW r \in Runner, DecideAccepted(r)
      PROVE  Executed(q)'
  BY <1>0, <1>7 DEF DecideAccepted, Accept, NextPending
<1>8. ASSUME NEW r \in Runner, NextDir(r)
      PROVE  Executed(q)'
  BY <1>0, <1>8 DEF NextDir
<1>9. ASSUME NEW r \in Runner, CollectDone(r)
      PROVE  Executed(q)'
  BY <1>0, <1>9 DEF CollectDone
<1>10. ASSUME NEW r \in Runner, NEW h \in NewHook,
              AddJob(r, h) \/ StartHook(r, h) \/ FinishHook(r, h)
      PROVE  Executed(q)'
  <2>1. h \in plan[r]
    BY <1>0, <1>10, <1>g, JobFacts
  <2>2. /\ pc[r] = "exec" /\ UNCHANGED <<plan, dir, pending>>
        /\ \A g \in NewHook : q # r \/ g # h => status'[q][g] = status[q][g]
    BY <1>0, <1>10, JobFacts
  <2>3. dir[r] > NumDirs /\ pending[r] = {}
    BY <1>0, <2>2
  <2>4. CASE q = r
    <3>1. ASSUME NEW g \in NewHook, status'[r][g] # "none"
          PROVE  g \in plan[r]
      <4>1. CASE g = h
        BY <2>1, <4>1
      <4>2. CASE g # h
        <5>1. status[r][g] # "none"
          BY <2>2, <2>4, <3>1, <4>2
        <5>2. Executed(r)
          BY <1>0
        <5> QED
          BY <5>1, <5>2
      <4> QED
        BY <4>1, <4>2
    <3> QED
      BY <2>2, <2>3, <2>4, <3>1 DEF Executed
  <2>5. CASE q # r
    <3>1. \A g \in NewHook : status'[q][g] = status[q][g]
      BY <2>2, <2>5
    <3> QED
      BY <1>0, <2>2, <3>1 DEF Executed
  <2> QED
    BY <2>4, <2>5
<1>12. ASSUME NEW r \in Runner, Load(r) \/ RunLFS(r) \/ CollectOld(r) \/
             LogHookResults(r) \/ ExecDone(r) \/ NextBatch(r) \/
             TruncateIgnores(r) \/ StoreFails(r) \/ NothingDisabled(r) \/ WriteIgnores(r) \/ Exit(r) \/ SyncFails(r) \/ Kill(r)
      PROVE  Executed(q)'
  BY <1>0, <1>12 DEF Load, RunLFS, Panic, CollectOld, FailOrWarnOld, SkipOld,
     AfterOld, ExitAfterOld, IsTrusted, LogHookResults, ExecDone, NextBatch, InState,
     TruncateIgnores, StoreFails, NothingDisabled, WriteIgnores, Exit, SyncFails, Kill
<1>13. ASSUME NEW r \in Runner, NEW answer \in {"y", "n", "error"},
             AnswerTrustRepo(r, answer)
      PROVE  Executed(q)'
  BY <1>0, <1>13 DEF AnswerTrustRepo
<1>14. ASSUME NEW r \in Runner, NEW answer \in Answers, AnswerOld(r, answer)
      PROVE  Executed(q)'
  BY <1>0, <1>14 DEF AnswerOld, ApplyAnswer, Accept, FailOrWarnOld, SkipOld,
     Panic, AfterOld, ExitAfterOld
<1>15. ASSUME NEW r \in Runner, NEW c \in Content, SyncChecksum(r, c)
      PROVE  Executed(q)'
  BY <1>0, <1>15 DEF SyncChecksum
<1>16. CASE Environment
  BY <1>0, <1>16, EnvironmentFacts
<1>17. CASE UNCHANGED vars
  BY <1>0, <1>17 DEF vars
<1> QED
  BY <1>1, <1>2, <1>3, <1>4, <1>5, <1>6, <1>7, <1>8, <1>9, <1>10,
     <1>12, <1>13, <1>14, <1>15, <1>16, <1>17 DEF Next, RunnerStep

\* Accepted checksums are approved, and kept until they are stored.
LEMMA RememberedStep == IndInv /\ [Next]_vars => \A q \in Runner : Remembered(q)'
<1> SUFFICES ASSUME IndInv, [Next]_vars, NEW q \in Runner PROVE Remembered(q)'
  OBVIOUS
<1>0. TypeOK /\ TrustOrigin
      /\ \A x \in Runner : Remembered(x) /\ Phase(x) /\ Hashed(x)
  BY DEF IndInv
<1> USE DEF TypeOK, Remembered, TrustOrigin, Phase, Hashed, Early, NewHook,
    env, local, later, history, Goto
<1>1. ASSUME NEW r \in Runner, Start(r)
      PROVE  Remembered(q)'
  BY <1>0, <1>1 DEF Start
<1>2. ASSUME NEW r \in Runner, RunLFS(r)
      PROVE  Remembered(q)'
  <2>1. UNCHANGED <<accepted, toSync, unstored, store, approved, revoked>>
    BY <1>2 DEF RunLFS
  <2>2. pc'[q] # "idle" \/ (pc'[q] = pc[q] /\ exit'[q] = exit[q])
    BY <1>0, <1>2 DEF RunLFS, Panic
  <2> QED
    BY <1>0, <2>1, <2>2
<1>3. ASSUME NEW r \in Runner, CollectOld(r)
      PROVE  Remembered(q)'
  <2>1. UNCHANGED <<accepted, toSync, unstored, store, approved, revoked>>
    BY <1>3 DEF CollectOld
  <2>2. pc'[q] # "idle" \/ (pc'[q] = pc[q] /\ exit'[q] = exit[q])
    BY <1>0, <1>3 DEF CollectOld, FailOrWarnOld, SkipOld, Panic, AfterOld
  <2> QED
    BY <1>0, <2>1, <2>2
<1>4. ASSUME NEW r \in Runner, RunOld(r)
      PROVE  Remembered(q)'
  <2>1. UNCHANGED <<accepted, toSync, unstored, store, approved, revoked>>
    BY <1>0, <1>4, RunOldFacts
  <2>2. pc'[q] # "idle" \/ (pc'[q] = pc[q] /\ exit'[q] = exit[q])
    BY <1>0, <1>4, RunOldFacts
  <2> QED
    BY <1>0, <2>1, <2>2
<1>5. ASSUME NEW r \in Runner, NEW answer \in Answers, AnswerOld(r, answer)
      PROVE  Remembered(q)'
  <2>1. PICK h \in Hook : ApplyAnswer(r, h, answer)
    BY <1>0, <1>5 DEF AnswerOld
  <2>2. UNCHANGED <<unstored, store, revoked>>
    BY <1>5 DEF AnswerOld
  <2>3. pc'[q] # "idle" \/ (pc'[q] = pc[q] /\ exit'[q] = exit[q] /\ q # r)
    BY <1>0, <1>5 DEF AnswerOld, FailOrWarnOld, SkipOld, Panic, AfterOld
  <2>4. /\ approved \subseteq approved'
        /\ accepted'[q] \cup toSync'[q] \subseteq accepted[q] \cup toSync[q] \cup approved'
        /\ accepted'[q] \subseteq accepted[q] \cup toSync'[q]
        /\ toSync[q] \subseteq toSync'[q]
        /\ q # r => toSync'[q] = toSync[q]
    BY <1>0, <2>1 DEF ApplyAnswer, Accept
  <2> QED
    BY <1>0, <2>2, <2>3, <2>4
<1>6. ASSUME NEW r \in Runner, NEW answer \in Answers, Decide(r, answer)
      PROVE  Remembered(q)'
  <2>1. PICK h \in Hook : ApplyAnswer(r, h, answer)
    BY <1>0, <1>6 DEF Decide, NextPending
  <2>2. UNCHANGED <<unstored, store, revoked>>
    BY <1>6 DEF Decide
  <2>3. pc'[q] # "idle" \/ (pc'[q] = pc[q] /\ exit'[q] = exit[q] /\ q # r)
    BY <1>0, <1>6 DEF Decide, FailOrWarn, Panic
  <2>4. /\ approved \subseteq approved'
        /\ accepted'[q] \cup toSync'[q] \subseteq accepted[q] \cup toSync[q] \cup approved'
        /\ accepted'[q] \subseteq accepted[q] \cup toSync'[q]
        /\ toSync[q] \subseteq toSync'[q]
        /\ q # r => toSync'[q] = toSync[q]
    BY <1>0, <2>1 DEF ApplyAnswer, Accept
  <2> QED
    BY <1>0, <2>2, <2>3, <2>4
<1>7. ASSUME NEW r \in Runner, WalkDir(r)
      PROVE  Remembered(q)'
  BY <1>0, <1>7, ActiveFacts DEF WalkDir
<1>8. ASSUME NEW r \in Runner, SkipDir(r)
      PROVE  Remembered(q)'
  BY <1>0, <1>8 DEF SkipDir, Panic
<1>9. ASSUME NEW r \in Runner, DecideNonInteractive(r)
      PROVE  Remembered(q)'
  BY <1>0, <1>9 DEF DecideNonInteractive, FailOrWarn, Panic, NextPending
<1>10. ASSUME NEW r \in Runner, DecideAccepted(r)
      PROVE  Remembered(q)'
  BY <1>0, <1>10 DEF DecideAccepted, Accept, NextPending
<1>11. ASSUME NEW r \in Runner, LogHookResults(r)
      PROVE  Remembered(q)'
  BY <1>0, <1>11 DEF LogHookResults, Panic
<1>12. ASSUME NEW r \in Runner, ExecDone(r)
      PROVE  Remembered(q)'
  BY <1>0, <1>12 DEF ExecDone
<1>21. ASSUME NEW r \in Runner, NextBatch(r)
      PROVE  Remembered(q)'
  BY <1>0, <1>21 DEF NextBatch
<1>22. ASSUME NEW r \in Runner, SyncFails(r)
      PROVE  Remembered(q)'
  <2>1. /\ UNCHANGED <<pc, exit, accepted, store, approved, revoked>>
        /\ toSync' = [toSync EXCEPT ![r] = {}]
        /\ unstored' = [unstored EXCEPT ![r] = unstored[r] \cup toSync[r]]
        /\ pc[r] = "sums"
    BY <1>22 DEF SyncFails
  <2>2. CASE q = r
    <3>1. /\ toSync'[r] = {} /\ unstored'[r] = unstored[r] \cup toSync[r]
          /\ pc'[r] # "idle"
      BY <1>0, <2>1
    <3>2. /\ accepted[r] \subseteq approved /\ toSync[r] \subseteq approved
          /\ accepted[r] \subseteq toSync[r] \cup store \cup revoked \cup unstored[r]
      BY <1>0
    <3> QED
      BY <2>1, <2>2, <3>1, <3>2
  <2>3. CASE q # r
    <3>1. toSync'[q] = toSync[q] /\ unstored'[q] = unstored[q]
      BY <1>0, <2>1, <2>3
    <3> QED
      BY <1>0, <2>1, <3>1
  <2> QED
    BY <2>2, <2>3
<1>13. ASSUME NEW r \in Runner, NEW c \in Content, SyncChecksum(r, c)
      PROVE  Remembered(q)'
  BY <1>0, <1>13 DEF SyncChecksum
<1>14. ASSUME NEW r \in Runner, Exit(r)
      PROVE  Remembered(q)'
  BY <1>0, <1>14 DEF Exit
<1>15. ASSUME NEW r \in Runner, Kill(r)
      PROVE  Remembered(q)'
  BY <1>0, <1>15 DEF Kill
<1>16. ASSUME NEW r \in Runner, Load(r) \/ NextDir(r) \/ CollectDone(r) \/
             TruncateIgnores(r) \/ StoreFails(r) \/ NothingDisabled(r) \/ WriteIgnores(r)
      PROVE  Remembered(q)'
  <2>1. UNCHANGED <<accepted, toSync, unstored, store, approved, revoked>>
    BY <1>16 DEF Load, NextDir, CollectDone, TruncateIgnores, StoreFails, NothingDisabled, WriteIgnores
  <2>2. pc'[q] # "idle" \/ (pc'[q] = pc[q] /\ exit'[q] = exit[q])
    BY <1>0, <1>16 DEF Load, NextDir, CollectDone, TruncateIgnores, StoreFails, NothingDisabled,
       WriteIgnores
  <2> QED
    BY <1>0, <2>1, <2>2
<1>17. ASSUME NEW r \in Runner, NEW answer \in {"y", "n", "error"},
             AnswerTrustRepo(r, answer)
      PROVE  Remembered(q)'
  BY <1>0, <1>17 DEF AnswerTrustRepo
<1>18. ASSUME NEW r \in Runner, NEW h \in NewHook, AddJob(r, h) \/ StartHook(r, h) \/
             FinishHook(r, h)
      PROVE  Remembered(q)'
  BY <1>0, <1>18 DEF AddJob, StartHook, InState, FinishHook
<1>19. CASE Environment
  BY <1>0, <1>19, EnvironmentFacts
<1>20. CASE UNCHANGED vars
  BY <1>0, <1>20 DEF vars
<1> QED
  BY <1>1, <1>2, <1>3, <1>4, <1>5, <1>6, <1>7, <1>8, <1>9, <1>10, <1>11,
     <1>12, <1>13, <1>14, <1>15, <1>16, <1>17, <1>18, <1>19, <1>20, <1>21, <1>22
  DEF Next, RunnerStep

\* The loop goes through the batches in their order: only NextBatch moves hooks to
\* the job group, and LogHookResults leaves a group only when all of it succeeded.
LEMMA InOrderStep == IndInv /\ [Next]_vars => \A q \in Runner : InOrder(q)'
<1> SUFFICES ASSUME IndInv, [Next]_vars, NEW q \in Runner PROVE InOrder(q)'
  OBVIOUS
<1>0. TypeOK /\ TrustOrigin /\ \A x \in Runner : Phase(x) /\ InOrder(x)
  BY DEF IndInv
<1> DEFINE Same == /\ todo'[q] = todo[q] /\ group'[q] = group[q] /\ plan'[q] = plan[q]
                   /\ \A h \in NewHook : status'[q][h] = status[q][h]
                   /\ pc'[q] = "exec" => pc[q] = "exec"
           Nothing == todo'[q] = {} /\ group'[q] = {} /\ pc'[q] # "exec"
<1>1. Same => InOrder(q)'
  <2>1. plan[q] \subseteq NewHook
    BY <1>0 DEF TypeOK
  <2> QED
    BY <1>0, <2>1 DEF InOrder, Before
<1>2. Nothing => InOrder(q)'
  BY DEF InOrder
<1>3. ASSUME NextBatch(q) PROVE InOrder(q)'
  <2> DEFINE F == FirstBatch(todo[q])
  <2>1. /\ group[q] = {} /\ group'[q] = F /\ todo'[q] = todo[q] \ F
        /\ UNCHANGED <<plan, status, pc>>
    BY <1>0, <1>3 DEF NextBatch, TypeOK
  <2>2. F \subseteq todo[q] /\ \A h \in todo[q], k \in F : ~Before(h, k)
    BY DEF FirstBatch
  <2> HIDE DEF F
  <2> QED
    BY <1>0, <2>1, <2>2 DEF InOrder, Before
<1>4. ASSUME NEW h \in NewHook, AddJob(q, h) \/ StartHook(q, h) \/ FinishHook(q, h)
      PROVE  InOrder(q)'
  <2>1. /\ h \in group[q] /\ UNCHANGED <<todo, group, plan, pc>>
        /\ \A g \in Hook : g # h => status'[q][g] = status[q][g]
    BY <1>0, <1>4, JobFacts DEF later
  <2>2. plan[q] \subseteq Hook
    BY <1>0 DEF TypeOK, NewHook
  <2> QED
    BY <1>0, <2>1, <2>2 DEF InOrder, Before
<1>5. ASSUME LogHookResults(q) PROVE InOrder(q)'
  <2>1. CASE /\ pc'[q] = "exec" /\ exit'[q] = exit[q] /\ group'[q] = {}
             /\ \A h \in group[q] : status[q][h] = "ok"
    <3>1. UNCHANGED <<todo, plan, status>> /\ pc[q] = "exec"
      BY <1>0, <1>5, LogFacts
    <3> QED
      BY <1>0, <2>1, <3>1 DEF InOrder, Before
  <2>2. CASE pc'[q] = "store" /\ exit'[q] = "failed" /\ group'[q] = group[q]
    <3>1. UNCHANGED <<todo, plan, status>>
      BY <1>0, <1>5, LogFacts
    <3> QED
      BY <1>1, <2>2, <3>1
  <2> QED
    BY <1>0, <1>5, <2>1, <2>2, LogFacts
<1>6. ASSUME CollectDone(q) PROVE InOrder(q)'
  <2>1. /\ pc[q] = "collect" /\ todo'[q] = plan[q] /\ UNCHANGED <<group, plan, status>>
    BY <1>0, <1>6 DEF CollectDone, TypeOK
  <2>2. group[q] = {} /\ \A h \in NewHook : status[q][h] = "none"
    BY <1>0, <2>1 DEF Phase
  <2>3. plan[q] \subseteq NewHook
    BY <1>0 DEF TypeOK
  <2> QED
    BY <2>1, <2>2, <2>3 DEF InOrder
<1> USE DEF TypeOK, Phase, Early, env, local, later, history, Goto
<1>7. ASSUME NEW r \in Runner, Start(r) PROVE Same \/ Nothing
  BY <1>0, <1>7 DEF Start
<1>8. ASSUME NEW r \in Runner, RunOld(r) PROVE Same
  <2>1. /\ UNCHANGED <<todo, group, plan>>
        /\ \A h \in NewHook : status'[q][h] = status[q][h]
    BY <1>0, <1>8, RunOldFacts DEF NewHook
  <2>2. CASE q = r
    BY <1>0, <1>8, <2>1, <2>2, RunOldFacts
  <2>3. CASE q # r
    BY <1>0, <1>8, <2>1, <2>3, RunOldFacts
  <2> QED
    BY <2>2, <2>3
<1>9. ASSUME NEW r \in Runner, NEW answer \in Answers, AnswerOld(r, answer) PROVE Same
  BY <1>0, <1>9 DEF AnswerOld, FailOrWarnOld, SkipOld, Panic, AfterOld
<1>10. ASSUME NEW r \in Runner, NEW answer \in Answers, Decide(r, answer)
       PROVE  Same \/ Nothing
  <2>1. /\ pc[r] = "decide" /\ UNCHANGED <<todo, group, status>>
        /\ \A x \in Runner \ {r} : plan'[x] = plan[x]
    BY <1>0, <1>10 DEF Decide
  <2>2. FailOrWarn(r) \/ UNCHANGED <<pc, exit>>
    BY <1>10 DEF Decide
  <2>3. pc'[q] = "exec" => pc[q] = "exec"
    BY <1>0, <2>2 DEF FailOrWarn, Panic
  <2> QED
    BY <1>0, <2>1, <2>3
<1>11. ASSUME NEW r \in Runner, WalkDir(r) \/ DecideAccepted(r) PROVE Same \/ Nothing
  BY <1>0, <1>11 DEF WalkDir, DecideAccepted
<1>12. ASSUME NEW r \in Runner, SkipDir(r) PROVE Same
  BY <1>0, <1>12, SkipDirFacts
<1>13. ASSUME NEW r \in Runner, DecideNonInteractive(r) PROVE Same
  <2>1. FailOrWarn(r) /\ UNCHANGED <<todo, group, plan, status>>
    BY <1>13 DEF DecideNonInteractive
  <2> QED
    BY <1>0, <2>1 DEF FailOrWarn, Panic
<1>14. ASSUME NEW r \in Runner, NEW h \in NewHook, r # q,
              AddJob(r, h) \/ StartHook(r, h) \/ FinishHook(r, h)
       PROVE  Same
  BY <1>0, <1>14, JobFacts DEF NewHook
<1>15. ASSUME NEW r \in Runner, r # q, NextBatch(r) \/ CollectDone(r) PROVE Same
  BY <1>0, <1>15 DEF NextBatch, CollectDone
<1>16. ASSUME NEW r \in Runner, r # q, LogHookResults(r) PROVE Same
  BY <1>0, <1>16, LogFacts
<1>17. ASSUME NEW r \in Runner, NEW answer \in {"y", "n", "error"},
              AnswerTrustRepo(r, answer)
       PROVE  Same
  BY <1>0, <1>17 DEF AnswerTrustRepo
<1>18. ASSUME NEW r \in Runner, Load(r) \/ RunLFS(r) \/ NextDir(r) \/ ExecDone(r) \/
              TruncateIgnores(r) \/ StoreFails(r) \/ NothingDisabled(r) \/
              WriteIgnores(r) \/ Exit(r) \/ SyncFails(r) \/ Kill(r)
       PROVE  Same
  BY <1>0, <1>18 DEF Load, RunLFS, Panic, NextDir, ExecDone, TruncateIgnores, StoreFails,
     NothingDisabled, WriteIgnores, Exit, SyncFails, Kill
<1>19. ASSUME NEW r \in Runner, CollectOld(r) PROVE Same
  BY <1>0, <1>19 DEF CollectOld, FailOrWarnOld, SkipOld, Panic, AfterOld
<1>20. ASSUME NEW r \in Runner, NEW c \in Content, SyncChecksum(r, c) PROVE Same
  BY <1>20 DEF SyncChecksum
<1>21. CASE Environment
  BY <1>0, <1>1, <1>21, EnvironmentFacts
<1>22. CASE UNCHANGED vars
  BY <1>1, <1>22 DEF vars
<1> HIDE DEF Same, Nothing
<1> QED
  BY <1>1, <1>2, <1>3, <1>4, <1>5, <1>6, <1>7, <1>8, <1>9, <1>10, <1>11, <1>12, <1>13,
     <1>14, <1>15, <1>16, <1>17, <1>18, <1>19, <1>20, <1>21, <1>22
  DEF Next, RunnerStep

\* A job enters the queue only from the job group, and by InOrder all batches before
\* that group have succeeded; nothing changes the state of a hook which has ended.
LEMMA BatchBarrierStep == IndInv /\ [Next]_vars => BatchBarrier'
<1> DEFINE Batched(x) == \A h, k \in plan[x] :
                           Before(k, h) /\ status[x][h] # "none" => status[x][k] = "ok"
<1> SUFFICES ASSUME IndInv, [Next]_vars, NEW q \in Runner PROVE Batched(q)'
  BY DEF BatchBarrier
<1>0. /\ TypeOK /\ TrustOrigin /\ Batched(q)
      /\ \A x \in Runner : Phase(x) /\ InOrder(x) /\ Executed(x)
  BY DEF IndInv, BatchBarrier
<1>p. plan[q] \subseteq NewHook /\ NewHook \subseteq Hook
  BY <1>0 DEF TypeOK, NewHook
<1> DEFINE Same == /\ plan'[q] = plan[q]
                   /\ \A h \in NewHook : status'[q][h] = status[q][h]
           Nothing == plan'[q] \subseteq NewHook /\ \A h \in NewHook : status'[q][h] = "none"
<1>1. Same \/ Nothing => Batched(q)'
  BY <1>0, <1>p DEF Before
<1>2. ASSUME NEW h \in NewHook, AddJob(q, h) \/ StartHook(q, h) \/ FinishHook(q, h)
      PROVE  Batched(q)'
  <2>1. /\ pc[q] = "exec" /\ h \in group[q] /\ UNCHANGED <<plan>> /\ status[q][h] # "ok"
        /\ \A g \in Hook : g # h => status'[q][g] = status[q][g]
    BY <1>0, <1>2, JobFacts
  <2>2. \A k \in plan[q] : Before(k, h) => status[q][k] = "ok"
    BY <1>0, <2>1 DEF InOrder
  <2>3. ASSUME NEW g \in plan[q], NEW k \in plan[q], Before(k, g), status'[q][g] # "none"
        PROVE  status'[q][k] = "ok"
    <3>1. status[q][k] = "ok"
      BY <1>0, <1>p, <2>1, <2>2, <2>3
    <3>2. k # h /\ k \in Hook
      BY <1>p, <2>1, <3>1
    <3> QED
      BY <2>1, <3>1, <3>2
  <2> QED
    BY <2>1, <2>3 DEF Before
<1> HIDE DEF Batched
<1> USE DEF TypeOK, Phase, Executed, Early, env, local, later, history, Goto
<1>3. ASSUME NEW r \in Runner, Start(r) PROVE Same \/ Nothing
  BY <1>0, <1>3 DEF Start, NewHook
<1>4. ASSUME NEW r \in Runner, RunOld(r) PROVE Same
  BY <1>0, <1>4, RunOldFacts DEF NewHook
<1>5. ASSUME NEW r \in Runner, NEW answer \in Answers, AnswerOld(r, answer) \/ Decide(r, answer)
      PROVE  Same \/ Nothing
  BY <1>0, <1>5 DEF AnswerOld, Decide, NextPending
<1>6. ASSUME NEW r \in Runner, WalkDir(r) PROVE Same \/ Nothing
  BY <1>0, <1>6, ActiveFacts DEF WalkDir
<1>7. ASSUME NEW r \in Runner, DecideAccepted(r) PROVE Same \/ Nothing
  BY <1>0, <1>7 DEF DecideAccepted, NextPending
<1>8. ASSUME NEW r \in Runner, NEW h \in NewHook, r # q,
             AddJob(r, h) \/ StartHook(r, h) \/ FinishHook(r, h)
      PROVE  Same
  BY <1>0, <1>8, JobFacts DEF NewHook
<1>9. ASSUME NEW r \in Runner, NEW answer \in {"y", "n", "error"},
             AnswerTrustRepo(r, answer)
      PROVE  Same
  BY <1>9 DEF AnswerTrustRepo
<1>10. ASSUME NEW r \in Runner, Load(r) \/ RunLFS(r) \/ CollectOld(r) \/ SkipDir(r) \/
              DecideNonInteractive(r) \/ NextDir(r) \/ CollectDone(r) \/ NextBatch(r) \/
              LogHookResults(r) \/ ExecDone(r) \/ TruncateIgnores(r) \/ StoreFails(r) \/
              NothingDisabled(r) \/ WriteIgnores(r) \/ Exit(r) \/ SyncFails(r) \/ Kill(r)
       PROVE  Same
  BY <1>10 DEF Load, RunLFS, CollectOld, SkipDir, DecideNonInteractive, NextDir,
     CollectDone, NextBatch, LogHookResults, ExecDone, TruncateIgnores, StoreFails,
     NothingDisabled, WriteIgnores, Exit, SyncFails, Kill
<1>11. ASSUME NEW r \in Runner, NEW c \in Content, SyncChecksum(r, c) PROVE Same
  BY <1>11 DEF SyncChecksum
<1>12. CASE Environment
  BY <1>0, <1>1, <1>12, EnvironmentFacts
<1>13. CASE UNCHANGED vars
  BY <1>1, <1>13 DEF vars
<1> HIDE DEF Same, Nothing
<1> QED
  BY <1>1, <1>2, <1>3, <1>4, <1>5, <1>6, <1>7, <1>8, <1>9, <1>10, <1>11, <1>12, <1>13
  DEF Next, RunnerStep

\* The ignore file and what runners and commands have read of it.
LEMMA IgnoresStep == IndInv /\ [Next]_vars => DisabledStaysDisabled' /\ ReadIsCurrent'
<1> SUFFICES ASSUME IndInv, [Next]_vars PROVE DisabledStaysDisabled' /\ ReadIsCurrent'
  OBVIOUS
<1>0. TypeOK /\ TrustOrigin /\ DisabledStaysDisabled /\ ReadIsCurrent
  BY DEF IndInv
<1> DEFINE Goal == DisabledStaysDisabled' /\ ReadIsCurrent'
           Unread == /\ UNCHANGED <<ignores, ignoreFile, userIgnored, overlapped, cli>>
                     /\ \A x \in Runner : /\ pc'[x] = "write" <=> pc[x] = "write"
                                          /\ Holding(x)' => Holding(x)
<1>1. Unread => Goal
  BY <1>0 DEF DisabledStaysDisabled, ReadIsCurrent, NotWriting, CliHolding
<1>2. ASSUME NEW r \in Runner, Load(r) PROVE Goal
  <2>1. /\ pc[r] = "load" /\ pc' = [pc EXCEPT ![r] = "lfs"]
        /\ ignores' = [ignores EXCEPT ![r] = ignoreFile]
        /\ UNCHANGED <<ignoreFile, userIgnored, overlapped, cli>>
    BY <1>2 DEF Load, Goto, env, history
  <2>2. \A x \in Runner : /\ pc'[x] = "write" <=> pc[x] = "write"
                          /\ x # r => (Holding(x)' <=> Holding(x)) /\ ignores'[x] = ignores[x]
    BY <1>0, <2>1 DEF TypeOK, Holding
  <2>3. ignores'[r] = ignoreFile /\ pc[r] # "write"
    BY <1>0, <2>1 DEF TypeOK
  <2> QED
    BY <1>0, <2>1, <2>2, <2>3 DEF DisabledStaysDisabled, ReadIsCurrent, NotWriting, CliHolding
<1>3. ASSUME NEW r \in Runner, TruncateIgnores(r) PROVE Goal
  <2>1. /\ pc[r] = "store" /\ pc' = [pc EXCEPT ![r] = "write"]
        /\ UNCHANGED <<ignores, userIgnored, overlapped, cli>>
    BY <1>3 DEF TruncateIgnores, Goto, history
  <2>2. /\ pc'[r] = "write" /\ pc[r] # "write" /\ Holding(r)
        /\ \A x \in Runner \ {r} : pc'[x] = pc[x] /\ (Holding(x)' <=> Holding(x))
    BY <1>0, <2>1 DEF TypeOK, Holding
  <2> QED
    BY <1>0, <2>1, <2>2 DEF DisabledStaysDisabled, ReadIsCurrent, NotWriting, CliHolding
<1>4. ASSUME NEW r \in Runner, WriteIgnores(r) PROVE Goal
  <2>1. /\ pc[r] = "write" /\ pc' = [pc EXCEPT ![r] = "sums"]
        /\ ignores' = [ignores EXCEPT ![r] = ignores[r] \cup disabled[r]]
        /\ ignoreFile' = ignores'[r] /\ cli' = cli
        /\ userIgnored' = userIgnored \cup disabled[r]
        /\ overlapped' = (overlapped \/ (\E q \in Runner \ {r} : Holding(q))
                                     \/ (\E u \in Cli : CliHolding(u)))
    BY <1>4 DEF WriteIgnores, Goto
  <2>2. /\ Holding(r) /\ ~Holding(r)' /\ ignoreFile' = ignores[r] \cup disabled[r]
        /\ \A x \in Runner \ {r} : Holding(x)' <=> Holding(x)
    BY <1>0, <2>1 DEF TypeOK, Holding
  <2>3. CASE ~overlapped'
    <3>1. /\ ~overlapped /\ \A x \in Runner \ {r} : ~Holding(x)
          /\ \A u \in Cli : ~CliHolding(u)
      BY <2>1, <2>3
    <3>2. /\ \A x \in Runner \ {r} : pc[x] # "write"
          /\ \A u \in Cli : cli[u].pc # "write"
      BY <3>1 DEF Holding, CliHolding
    <3>3. ignores[r] = userIgnored
      BY <1>0, <2>2, <3>1, <3>2 DEF ReadIsCurrent
    <3>4. \A u \in Cli : ~CliHolding(u)'
      BY <2>1, <3>1 DEF CliHolding
    <3> QED
      BY <2>1, <2>2, <3>1, <3>3, <3>4 DEF DisabledStaysDisabled, ReadIsCurrent, NotWriting
  <2> QED
    BY <2>3 DEF DisabledStaysDisabled, ReadIsCurrent
<1>5. ASSUME NEW r \in Runner, Kill(r) \/ StoreFails(r) PROVE Goal
  <2>1. /\ pc' = [pc EXCEPT ![r] = "idle"] \/ pc' = [pc EXCEPT ![r] = "sums"]
        /\ UNCHANGED <<ignores, ignoreFile, userIgnored, cli>>
        /\ overlapped' = (overlapped \/ pc[r] = "write")
    BY <1>5 DEF Kill, StoreFails, Goto, env
  <2>2. CASE pc[r] = "write"
    BY <2>1, <2>2 DEF DisabledStaysDisabled, ReadIsCurrent
  <2>3. CASE pc[r] # "write"
    <3>1. overlapped' = overlapped
      <4>1. overlapped \in BOOLEAN
        BY <1>0 DEF TypeOK
      <4> QED
        BY <2>1, <2>3, <4>1
    <3>2. \A x \in Runner : /\ pc'[x] = "write" <=> pc[x] = "write"
                            /\ Holding(x)' => Holding(x)
      BY <1>0, <2>1, <2>3 DEF TypeOK, Holding
    <3> QED
      BY <1>1, <2>1, <3>1, <3>2
  <2> QED
    BY <2>2, <2>3
<1>6. ASSUME NEW u \in Cli, CliStep(u) PROVE Goal
  <2>1. UNCHANGED <<pc, ignores>> /\ \A r \in Runner : Holding(r)' <=> Holding(r)
    BY <1>6 DEF CliStep, IgnoreAdd, IgnoreRemove, IgnoreTruncate, IgnoreWrite, IgnoreEnds,
       local, Holding
  <2>2. \A v \in Cli \ {u} : cli'[v] = cli[v]
    BY <1>0, <1>6 DEF CliStep, IgnoreAdd, IgnoreRemove, IgnoreTruncate, IgnoreWrite,
       IgnoreEnds, TypeOK
  <2>3. CASE \E h \in Hook : IgnoreAdd(u, h) \/ IgnoreRemove(u, h)
    <3>1. /\ cli[u].pc = "idle" /\ UNCHANGED <<ignoreFile, userIgnored, overlapped>>
          /\ cli'[u].pc = "store" /\ cli'[u].read = ignoreFile
      BY <1>0, <2>3 DEF IgnoreAdd, IgnoreRemove, history, TypeOK
    <3>2. \A v \in Cli : cli'[v].pc = "write" <=> cli[v].pc = "write"
      BY <2>2, <3>1
    <3> QED
      BY <1>0, <2>1, <2>2, <3>1, <3>2
      DEF DisabledStaysDisabled, ReadIsCurrent, NotWriting, CliHolding
  <2>4. CASE IgnoreTruncate(u)
    <3>1. /\ cli[u].pc = "store" /\ UNCHANGED <<userIgnored, overlapped>>
          /\ cli'[u].pc = "write" /\ cli'[u].read = cli[u].read
      <4>1. cli' = [cli EXCEPT ![u] = [cli[u] EXCEPT !.pc = "write"]]
        BY <2>4 DEF IgnoreTruncate
      <4> QED
        BY <1>0, <2>4, <4>1 DEF IgnoreTruncate, history, TypeOK
    <3> QED
      BY <1>0, <2>1, <2>2, <3>1
      DEF DisabledStaysDisabled, ReadIsCurrent, NotWriting, CliHolding
  <2>5. CASE IgnoreWrite(u)
    <3>1. /\ cli[u].pc = "write" /\ cli'[u].pc = "idle"
          /\ ignoreFile' = Change(u, cli[u].read) /\ userIgnored' = Change(u, userIgnored)
          /\ overlapped' = (overlapped \/ (\E r \in Runner : Holding(r))
                                       \/ (\E v \in Cli \ {u} : CliHolding(v)))
      BY <1>0, <2>5 DEF IgnoreWrite, TypeOK
    <3>2. CASE ~overlapped'
      <4>1. /\ ~overlapped /\ \A r \in Runner : ~Holding(r)
            /\ \A v \in Cli \ {u} : ~CliHolding(v)
        BY <3>1, <3>2
      <4>2. /\ \A r \in Runner : pc[r] # "write"
            /\ \A v \in Cli \ {u} : cli[v].pc # "write"
        BY <4>1 DEF Holding, CliHolding
      <4>3. cli[u].read = userIgnored
        BY <1>0, <3>1, <4>1, <4>2 DEF ReadIsCurrent, CliHolding
      <4>4. ignoreFile' = userIgnored'
        BY <3>1, <4>3
      <4>5. \A v \in Cli : ~CliHolding(v)'
        BY <2>2, <3>1, <4>1 DEF CliHolding
      <4> QED
        BY <2>1, <4>1, <4>4, <4>5 DEF DisabledStaysDisabled, ReadIsCurrent
    <3> QED
      BY <3>2 DEF DisabledStaysDisabled, ReadIsCurrent
  <2>6. CASE IgnoreEnds(u)
    <3>1. /\ UNCHANGED <<ignoreFile, userIgnored>> /\ cli'[u].pc = "idle"
          /\ overlapped' = (overlapped \/ cli[u].pc = "write")
      <4>1. cli' = [cli EXCEPT ![u] = [cli[u] EXCEPT !.pc = "idle"]]
        BY <2>6 DEF IgnoreEnds
      <4> QED
        BY <1>0, <2>6, <4>1 DEF IgnoreEnds, TypeOK
    <3>2. CASE cli[u].pc = "write"
      BY <3>1, <3>2 DEF DisabledStaysDisabled, ReadIsCurrent
    <3>3. CASE cli[u].pc # "write"
      <4>1. \A v \in Cli : cli'[v].pc = "write" <=> cli[v].pc = "write"
        BY <2>2, <3>1, <3>3
      <4>3. ~overlapped' => ~overlapped
        BY <3>1
      <4> QED
        BY <1>0, <2>1, <2>2, <3>1, <4>1, <4>3
        DEF DisabledStaysDisabled, ReadIsCurrent, NotWriting, CliHolding
    <3> QED
      BY <3>2, <3>3
  <2> QED
    BY <1>6, <2>3, <2>4, <2>5, <2>6 DEF CliStep
<1> USE DEF TypeOK, Holding, env, local, later, history, Goto
<1>7. ASSUME NEW r \in Runner, Start(r) PROVE Unread
  BY <1>0, <1>7 DEF Start
<1>8. ASSUME NEW r \in Runner, RunLFS(r) \/ ExecDone(r) \/ NextDir(r) \/ NextBatch(r)
                               \/ CollectDone(r) \/ NothingDisabled(r) \/ SyncFails(r)
                               \/ Exit(r)
      PROVE  Unread
  BY <1>0, <1>8 DEF RunLFS, ExecDone, NextDir, NextBatch, CollectDone, NothingDisabled,
     SyncFails, Exit, Panic
<1>9. ASSUME NEW r \in Runner, NEW answer \in {"y", "n", "error"},
             AnswerTrustRepo(r, answer)
      PROVE  Unread
  BY <1>0, <1>9 DEF AnswerTrustRepo
<1>10. ASSUME NEW r \in Runner, CollectOld(r) PROVE Unread
  BY <1>0, <1>10 DEF CollectOld, FailOrWarnOld, SkipOld, Panic, AfterOld
<1>11. ASSUME NEW r \in Runner, RunOld(r) PROVE Unread
  BY <1>0, <1>11, RunOldFacts
<1>12. ASSUME NEW r \in Runner, NEW answer \in Answers, AnswerOld(r, answer) PROVE Unread
  BY <1>0, <1>12 DEF AnswerOld, FailOrWarnOld, SkipOld, Panic, AfterOld
<1>13. ASSUME NEW r \in Runner, NEW answer \in Answers, Decide(r, answer) PROVE Unread
  <2>1. FailOrWarn(r) \/ UNCHANGED <<pc, exit>>
    BY <1>13 DEF Decide
  <2> QED
    BY <1>0, <1>13, <2>1 DEF Decide, FailOrWarn, Panic
<1>14. ASSUME NEW r \in Runner, WalkDir(r) \/ DecideAccepted(r) PROVE Unread
  BY <1>0, <1>14 DEF WalkDir, DecideAccepted
<1>15. ASSUME NEW r \in Runner, SkipDir(r) PROVE Unread
  BY <1>0, <1>15, SkipDirFacts
<1>16. ASSUME NEW r \in Runner, DecideNonInteractive(r) PROVE Unread
  <2>1. FailOrWarn(r)
    BY <1>16 DEF DecideNonInteractive
  <2> QED
    BY <1>0, <1>16, <2>1 DEF DecideNonInteractive, FailOrWarn, Panic
<1>17. ASSUME NEW r \in Runner, NEW h \in NewHook,
              AddJob(r, h) \/ StartHook(r, h) \/ FinishHook(r, h)
       PROVE  Unread
  BY <1>0, <1>17, JobFacts
<1>18. ASSUME NEW r \in Runner, NEW c \in Content, SyncChecksum(r, c) PROVE Unread
  BY <1>18 DEF SyncChecksum
<1>21. ASSUME NEW r \in Runner, LogHookResults(r) PROVE Unread
  BY <1>0, <1>21, LogFacts
<1>19. CASE Environment /\ ~\E u \in Cli : CliStep(u)
  BY <1>1, <1>19 DEF Environment, EditHook, TrustHook, ResetHook, ToggleShared, TrustRepo
<1>20. CASE UNCHANGED vars
  BY <1>1, <1>20 DEF vars
<1> HIDE DEF Unread, Goal
<1> QED
  BY <1>1, <1>2, <1>3, <1>4, <1>5, <1>6, <1>7, <1>8, <1>9, <1>10, <1>11, <1>12, <1>13,
     <1>14, <1>15, <1>16, <1>17, <1>18, <1>19, <1>20, <1>21
  DEF Next, RunnerStep, Goal

-------------------------------------------------------------------------------
\* The theorems.

\* IndInv is inductive: each of its parts is kept by every step.
LEMMA Invariance == Spec => []IndInv
<1>1. IndInv /\ [Next]_vars => IndInv'
  BY TypeStep, TrustOriginStep, OnlyApprovedRunsStep, BatchBarrierStep,
     SuccessMeansAllRanStep, PhaseStep, HashedStep, SelectedStep, ExecutedStep,
     InOrderStep, RememberedStep, IgnoresStep
  DEF IndInv
<1> QED
  BY <1>1, InitInv, PTL DEF Spec

\* The runner's state always has its type.
THEOREM TypeCorrect == Spec => []TypeOK
  BY Invariance, PTL DEF IndInv

\* A runner only executes what the user approved or consented to.
THEOREM RunsOnlyApproved == Spec => []OnlyApprovedRuns
  BY Invariance, PTL DEF IndInv

\* Every batch is a synchronisation point, for any sizes of the queue and the pool:
\* it follows from the order of the loop (InOrder), the wait for the job group and
\* the panic on a failed result.
THEOREM BatchesSynchronise == Spec => []BatchBarrier
  BY Invariance, PTL DEF IndInv

\* A run which succeeds has executed every active hook.
THEOREM SuccessIsComplete == Spec => []SuccessMeansAllRan
  BY Invariance, PTL DEF IndInv

\* No hook executes before every decision is taken, and no ignored or disabled one.
THEOREM DecidedBeforeRun == Spec => []NothingRunsUndecided
<1>1. IndInv => NothingRunsUndecided
  BY DEF IndInv, NothingRunsUndecided, Executed, Selected
<1> QED
  BY <1>1, Invariance, PTL

\* What the user accepts reaches the checksum store before the runner exits.
THEOREM AcceptedIsStored == Spec => []AnswersAreStored
<1>1. IndInv => AnswersAreStored
  BY DEF IndInv, AnswersAreStored, Remembered
<1> QED
  BY <1>1, Invariance, PTL

\* What the user has disabled stays disabled over any number of runs and ignore
\* commands, which load, truncate and write the ignore file in steps of their own,
\* unless one wrote while another had read the file, or its writing was broken off.
THEOREM DisabledIsKept == Spec => []DisabledStaysDisabled
  BY Invariance, PTL DEF IndInv
===============================================================================
