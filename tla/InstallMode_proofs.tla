-------------------------- MODULE InstallMode_proofs --------------------------
(***************************************************************************)
(* Proofs about InstallMode: the install mode and its directory, for any   *)
(* directories, repositories, arguments, edits and failures.               *)
(***************************************************************************)
EXTENDS InstallMode, SequenceTheorems, FiniteSetTheorems, WellFoundedInduction, TLAPS

-----------------------------------------------------------------------------
\* Sequences.
LEMMA TwoInSeq ==
  ASSUME NEW S, NEW a \in S, NEW b \in S
  PROVE  <<a, b>> \in Seq(S)
OBVIOUS

\* What the uninstaller clears.
Cleared == {"runner", "maintained", "useManual", "manualTemplateDir", "useCoreHooksPath",
            "pathForUseCoreHooksPath", "alias"}

LEMMA ClearedInSeq == GetGlobalGitConfigKeys \in Seq(Cleared)
BY DEF GetGlobalGitConfigKeys, Cleared

LEMMA ThreeInSeq ==
  ASSUME NEW S, NEW a \in S, NEW b \in S, NEW c \in S
  PROVE  <<a, b, c>> \in Seq(S)
OBVIOUS

LEMMA FourInSeq ==
  ASSUME NEW S, NEW a \in S, NEW b \in S, NEW c \in S, NEW d \in S
  PROVE  <<a, b, c, d>> \in Seq(S)
OBVIOUS

LEMMA RestOf ==
  ASSUME NEW S, NEW s \in Seq(S), NEW n \in 0 .. Len(s) - 1
  PROVE  LET rest == SubSeq(s, n + 1, Len(s))
         IN  /\ Len(rest) = Len(s) - n
             /\ rest[1] = s[n + 1]
             /\ Tail(rest) = SubSeq(s, n + 2, Len(s))
<1>1. Len(s) \in Nat /\ n + 1 \in 1 .. Len(s) /\ Len(s) \in n + 1 .. Len(s)
  BY LenProperties
<1>2. \A i \in n + 1 .. Len(s) : s[i] \in S
  BY <1>1, ElementOfSeq
<1>3. Tail(SubSeq(s, n + 1, Len(s))) = SubSeq(s, (n + 1) + 1, Len(s))
  BY <1>1, HeadTailOfSubSeq
<1>4. /\ Len(SubSeq(s, n + 1, Len(s)))
           = IF n + 1 <= Len(s) THEN Len(s) - (n + 1) + 1 ELSE 0
      /\ \A i \in 1 .. Len(s) - (n + 1) + 1 :
           SubSeq(s, n + 1, Len(s))[i] = s[(n + 1) + i - 1]
  BY <1>1, <1>2, SubSeqProperties
<1>5. (n + 1) + 1 = n + 2 /\ (n + 1) + 1 - 1 = n + 1 /\ 1 \in 1 .. Len(s) - (n + 1) + 1
      /\ Len(s) - (n + 1) + 1 = Len(s) - n /\ n + 1 <= Len(s)
  BY <1>1
<1>6. SubSeq(s, n + 1, Len(s))[1] = s[n + 1]
  BY <1>4, <1>5
<1> QED
  BY <1>3, <1>4, <1>5, <1>6

LEMMA TailLeft ==
  ASSUME NEW S, NEW s \in Seq(S), s # <<>>, Len(s) # 1
  PROVE  Tail(s) \in Seq(S) /\ Tail(s) # <<>>
<1>1. Len(s) \in Nat \ {0}
  BY EmptySeq
<1>2. Tail(s) \in Seq(S) /\ Len(Tail(s)) = Len(s) - 1
  BY HeadTailProperties
<1>3. Len(s) - 1 # 0
  BY <1>1
<1>4. Len(<<>>) = 0
  BY EmptySeq
<1> QED
  BY <1>2, <1>3, <1>4, Zenon

\* The first of three places.
LEMMA FirstOf ==
  ASSUME NEW a, NEW b, NEW c
  PROVE  FirstDir(<<a, b, c>>) = IF a # NoDir THEN a ELSE IF b # NoDir THEN b ELSE c
<1> DEFINE dirs == <<a, b, c>>
           First(i) == dirs[i] # NoDir /\ \A j \in 1 .. i - 1 : dirs[j] = NoDir
<1>1. DOMAIN dirs = 1 .. 3 /\ dirs[1] = a /\ dirs[2] = b /\ dirs[3] = c
  OBVIOUS
<1>2. \A i, j \in 1 .. 3 : First(i) /\ First(j) => i = j
  BY <1>1
<1>3. CASE a # NoDir
  <2>1. First(1)
    BY <1>1, <1>3
  <2>2. (CHOOSE i \in DOMAIN dirs : First(i)) = 1
    BY <1>1, <1>2, <2>1
  <2> QED
    BY <1>1, <1>3, <2>2 DEF FirstDir
<1>4. CASE a = NoDir /\ b # NoDir
  <2>1. First(2)
    BY <1>1, <1>4
  <2>2. (CHOOSE i \in DOMAIN dirs : First(i)) = 2
    BY <1>1, <1>2, <2>1
  <2> QED
    BY <1>1, <1>4, <2>2 DEF FirstDir
<1>5. CASE a = NoDir /\ b = NoDir /\ c # NoDir
  <2>1. First(3)
    BY <1>1, <1>5
  <2>2. (CHOOSE i \in DOMAIN dirs : First(i)) = 3
    BY <1>1, <1>2, <2>1
  <2> QED
    BY <1>1, <1>5, <2>2 DEF FirstDir
<1>6. CASE a = NoDir /\ b = NoDir /\ c = NoDir
  BY <1>1, <1>6 DEF FirstDir
<1> QED
  BY <1>3, <1>4, <1>5, <1>6

-------------------------------------------------------------------------------
\* Selections of hooks.

\* Every set of numbers has a least one: the intervals 0 .. n are finite sets,
\* which inclusion orders well.
LEMMA LeastNumber ==
  ASSUME NEW T \in SUBSET Nat, T # {}
  PROVE  \E m \in T : \A n \in T : m <= n
<1> DEFINE Up(n) == 0 .. n
           Fin == FiniteSubsetsOf(Nat)
           Ups == {Up(n) : n \in T}
<1>1. \A n \in T : Up(n) \in Fin
  BY FS_Interval DEF FiniteSubsetsOf
<1>2. Ups \subseteq Fin /\ Ups # {}
  BY <1>1
<1>3. PICK x \in Ups : \A y \in Ups : <<y, x>> \notin StrictSubsetOrdering(Nat)
  BY <1>2, FS_StrictSubsetOrderingWellFounded, WFMin
<1>4. PICK m \in T : x = Up(m)
  BY <1>3
<1>5. ASSUME NEW n \in T, ~(m <= n) PROVE FALSE
  <2>1. Up(n) \subseteq Up(m) /\ Up(n) # Up(m)
    BY <1>5
  <2>2. <<Up(n), Up(m)>> \in StrictSubsetOrdering(Nat)
    BY <2>1, <1>1 DEF StrictSubsetOrdering, FiniteSubsetsOf
  <2> QED
    BY <1>3, <1>4, <2>2
<1> QED
  BY <1>5
\* The hooks which are selected before the first word, and after the first n.
Start(names) ==
  IF names[1].name \in {"all", "server"} /\ ~names[1].minus THEN {} ELSE ManagedHookNames

Heard(names, n, h) == {i \in 1 .. n : Concerns(names[i], h)}

Said(names, n) ==
  {h \in ManagedHookNames :
     IF Heard(names, n, h) = {} THEN h \in Start(names)
     ELSE \E i \in Heard(names, n, h) :
            ~names[i].minus /\ \A j \in Heard(names, n, h) : j <= i}

\* The recursion of UnwrapHookNames.
Unwraps(names, s) ==
  s = [n \in 0 .. Len(names) |->
        IF n = 0
        THEN IF names[1].name \in {"all", "server"} /\ ~names[1].minus
             THEN {} ELSE ManagedHookNames
        ELSE Apply(s[n - 1], names[n])]

\* One word more.
LEMMA SaidNext ==
  ASSUME NEW names \in Seq(Word), NEW n \in 1 .. Len(names)
  PROVE  Said(names, n) = Apply(Said(names, n - 1), names[n])
<1>1. Len(names) \in Nat /\ n \in Nat /\ n - 1 \in Nat
  BY LenProperties
<1>2. names[n] \in Word
  BY <1>1, ElementOfSeq
<1>3. ASSUME NEW h \in ManagedHookNames
      PROVE  h \in Said(names, n) <=> h \in Apply(Said(names, n - 1), names[n])
  <2>1. CASE Concerns(names[n], h)
    <3>1. n \in Heard(names, n, h) /\ \A j \in Heard(names, n, h) : j <= n
      BY <1>1, <2>1 DEF Heard
    <3>2. \A i \in Heard(names, n, h) : (\A j \in Heard(names, n, h) : j <= i) => i = n
      BY <1>1, <3>1 DEF Heard
    <3>3. h \in Said(names, n) <=> ~names[n].minus
      BY <3>1, <3>2 DEF Said
    <3>4. h \in Apply(Said(names, n - 1), names[n]) <=> ~names[n].minus
      BY <2>1 DEF Apply, Concerns
    <3> QED
      BY <3>3, <3>4
  <2>2. CASE ~Concerns(names[n], h)
    <3>1. \A i : i \in 1 .. n <=> i \in 1 .. n - 1 \/ i = n
      BY <1>1
    <3>2. Heard(names, n, h) = Heard(names, n - 1, h)
      BY <2>2, <3>1 DEF Heard
    <3>3. h \in Said(names, n) <=> h \in Said(names, n - 1)
      BY <3>2 DEF Said
    <3>4. h \in Apply(Said(names, n - 1), names[n]) <=> h \in Said(names, n - 1)
      BY <2>2 DEF Apply, Concerns
    <3> QED
      BY <3>3, <3>4
  <2> QED
    BY <2>1, <2>2
<1>4. Said(names, n) \subseteq ManagedHookNames /\ Said(names, n - 1) \subseteq ManagedHookNames
  BY DEF Said
<1>5. HooksOf(names[n].name) \subseteq ManagedHookNames
  BY InstallAssumption DEF InstallAssumption, HooksOf
<1>6. Apply(Said(names, n - 1), names[n]) \subseteq ManagedHookNames
  BY <1>4, <1>5 DEF Apply
<1> QED
  BY <1>3, <1>4, <1>6

LEMMA UnwrapSaid ==
  ASSUME NEW names \in Seq(Word), names # <<>>
  PROVE  UnwrapHookNames(names) = Said(names, Len(names))
<1> DEFINE N == Len(names)
           g == [n \in 0 .. N |-> Said(names, n)]
<1>1. N \in Nat \ {0}
  BY LenProperties, EmptySeq
<1>2. Said(names, 0) = Start(names)
  <2>1. \A h : Heard(names, 0, h) = {}
    BY DEF Heard
  <2> QED
    BY <2>1 DEF Said, Start
<1>3. Unwraps(names, g)
  <2>1. \A n \in 0 .. N : n # 0 => g[n] = Apply(g[n - 1], names[n])
    <3> SUFFICES ASSUME NEW n \in 1 .. N PROVE Said(names, n) = Apply(g[n - 1], names[n])
      BY <1>1
    <3>1. n - 1 \in 0 .. N
      BY <1>1
    <3> QED
      BY <3>1, SaidNext
  <2>2. g[0] = Start(names)
    BY <1>1, <1>2
  <2>3. \A n \in 0 .. N : g[n] = IF n = 0 THEN Start(names) ELSE Apply(g[n - 1], names[n])
    BY <2>1, <2>2
  <2>4. g = [n \in 0 .. N |-> g[n]]
    OBVIOUS
  <2> HIDE DEF g
  <2> QED
    BY <2>3, <2>4 DEF Unwraps, Start
<1>4. ASSUME NEW s, Unwraps(names, s) PROVE s = g
  <2>1. /\ s[0] = Start(names)
        /\ \A n \in 1 .. N : s[n] = Apply(s[n - 1], names[n])
    <3>1. \A n \in 0 .. N : s[n] = IF n = 0 THEN Start(names) ELSE Apply(s[n - 1], names[n])
      BY <1>4 DEF Unwraps, Start
    <3> QED
      BY <1>1, <3>1
  <2>2. s = [n \in 0 .. N |-> s[n]]
    BY <1>4 DEF Unwraps
  <2> DEFINE T == {n \in 0 .. N : s[n] # Said(names, n)}
  <2>3. T = {}
    <3> SUFFICES ASSUME T # {} PROVE FALSE
      OBVIOUS
    <3>1. T \in SUBSET Nat
      BY <1>1
    <3>2. PICK m \in T : \A n \in T : m <= n
      BY <3>1, LeastNumber
    <3>3. m # 0
      BY <1>2, <2>1, <3>2
    <3>4. m \in 1 .. N /\ m - 1 \in 0 .. N /\ ~(m <= m - 1)
      BY <1>1, <3>2, <3>3
    <3>5. s[m - 1] = Said(names, m - 1)
      BY <3>2, <3>4
    <3> QED
      BY <2>1, <3>2, <3>4, <3>5, SaidNext
  <2> QED
    BY <2>2, <2>3
<1>5. UnwrapHookNames(names) = (CHOOSE s : Unwraps(names, s))[N]
  BY DEF UnwrapHookNames, Unwraps
<1>6. (CHOOSE s : Unwraps(names, s)) = g
  BY <1>3, <1>4
<1> QED
  BY <1>1, <1>5, <1>6

\* For every selection: the last word on a hook decides.
THEOREM UnwrapDenoted ==
  ASSUME NEW names \in Seq(Word)
  PROVE  UnwrapHookNames(names) = Denoted(names)
<1>1. CASE names = <<>>
  BY <1>1 DEF UnwrapHookNames, Denoted
<1>2. CASE names # <<>>
  <2>1. Len(names) \in Nat \ {0} /\ DOMAIN names = 1 .. Len(names)
    BY <1>2, LenProperties, EmptySeq
  <2>2. names[1] \in Word
    BY <2>1, ElementOfSeq
  <2>3. \A h \in ManagedHookNames : h \in Said(names, Len(names)) <=> h \in Denoted(names)
    <3> TAKE h \in ManagedHookNames
    <3> DEFINE words == Heard(names, Len(names), h)
    <3>1. words = {i \in DOMAIN names : Concerns(names[i], h)}
      BY <2>1 DEF Heard
    <3>2. CASE words # {}
      BY <3>1, <3>2 DEF Said, Denoted
    <3>3. CASE words = {}
      <4>1. ~Concerns(names[1], h)
        BY <2>1, <3>1, <3>3
      <4>2. names[1].name # "all"
        BY <4>1 DEF Concerns, HooksOf
      <4>3. h \in Start(names) <=> names[1].name # "server" \/ names[1].minus
        BY <4>2 DEF Start
      <4>4. h \in Said(names, Len(names)) <=> h \in Start(names)
        BY <3>3 DEF Said
      <4>5. h \in Denoted(names) <=> names[1].name # "server" \/ names[1].minus
        BY <1>2, <3>1, <3>3 DEF Denoted
      <4> QED
        BY <4>3, <4>4, <4>5
    <3> QED
      BY <3>2, <3>3
  <2>4. Said(names, Len(names)) \subseteq ManagedHookNames /\ Denoted(names) \subseteq ManagedHookNames
    BY DEF Said, Denoted
  <2> QED
    BY <1>2, <2>3, <2>4, UnwrapSaid
<1> QED
  BY <1>1, <1>2

-----------------------------------------------------------------------------
USE InstallAssumption DEF InstallAssumption

Keys == {"args", "home", "mode", "dir", "todo", "copy", "register", "visit", "done"}

\* Types, as far as mode and directory depend on them.
ConfOK == conf \in Config /\ present \subseteq Dir /\ envDir \in EnvDirs

JobOK == /\ DOMAIN job = Keys
         /\ pc \in {"idle"} \cup InstallSteps \cup UninstallSteps
         /\ pc \in InstallSteps => /\ job.args \in Arguments
                                   /\ job.mode \in Mode \ {None}
         /\ pc \in InstallSteps \ {"mode"} => job.dir \in present

\* The keys still to set or to clear.
TodoOK ==
  /\ pc = "alias" => job.todo \in Seq({"alias", "runner"}) /\ job.todo # <<>>
  /\ pc = "clean keys" => job.todo \in Seq(Cleared) /\ job.todo # <<>>

Settings == SettingsFor(job.mode, job.dir)

\* setDirectoryForInstallMode has written the settings that are not left to do.
Wrote(n) == \A i \in 1 .. n : conf[Settings[i][1]] = Settings[i][2]

Writing ==
  pc = "settings" =>
    \E n \in 0 .. Len(Settings) - 1 :
      job.todo = SubSeq(Settings, n + 1, Len(Settings)) /\ Wrote(n)

\* The directory of the mode.
Chosen ==
  /\ job.dir \in present /\ GetInstallMode = job.mode
  /\ job.mode = "template-dir" => conf.templateDir = job.dir
  /\ job.mode = "core-hooks-path" => conf.hooksPath = job.dir
  /\ job.mode = "manual" => conf.manualTemplateDir = job.dir
  /\ job.mode \in Mode \ {None}

\* It is configured from the last setting on, and still when the installer has ended.
Configured ==
  /\ outcome = "installed" => pc = "idle"
  /\ pc \in InstallSteps \ {"mode", "settings"} \/ outcome = "installed" => Chosen

\* Who installs over a complete installation does so in its mode.
Kept ==
  settled # None => /\ pc \notin UninstallSteps
                    /\ GetInstallMode = settled
                    /\ pc \in InstallSteps => job.mode = settled

IndInv == ConfOK /\ JobOK /\ TodoOK /\ Writing /\ Configured /\ Kept

-------------------------------------------------------------------------------
LEMMA InitInv == Init => IndInv
<1> SUFFICES ASSUME Init PROVE IndInv
  OBVIOUS
<1>1. ConfOK
  BY DEF Init, ConfOK
<1>2. JobOK
  BY DEF Init, JobOK, NoJob, Keys, InstallSteps
<1>3. TodoOK /\ Writing
  BY DEF Init, TodoOK, Writing
<1>4. Configured /\ Kept
  BY DEF Init, Configured, Kept, None, InstallSteps
<1> QED
  BY <1>1, <1>2, <1>3, <1>4 DEF IndInv

-------------------------------------------------------------------------------
\* Types.
LEMMA StartedJob ==
  ASSUME ConfOK, NEW a \in Installs, NEW newer, Accepted(a, newer)
  PROVE  a \in Arguments /\ ModeOf(a, newer) \in Mode \ {None}
BY DEF ModeOf, GetInstallMode, Arguments, Mode, None

LEMMA NextJob == IndInv /\ [Next]_vars => JobOK'
<1> SUFFICES ASSUME IndInv, [Next]_vars PROVE JobOK'
  OBVIOUS
<1> USE DEF JobOK, IndInv, InstallSteps, UninstallSteps, Goto, Ends
<1>1. CASE UNCHANGED vars
  BY <1>1 DEF vars, git
<1>2. CASE determineInstallMode
  <2>1. PICK a \in Installs, h \in Homes, newer \in BOOLEAN :
          /\ Accepted(a, newer)
          /\ Goto("mode", [NoJob EXCEPT !.args = a, !.home = h, !.mode = ModeOf(a, newer),
                                        !.register = registered \cap repos])
    BY <1>2 DEF determineInstallMode
  <2>2. DOMAIN job' = Keys /\ job'.args = a /\ job'.mode = ModeOf(a, newer) /\ pc' = "mode"
    BY <2>1 DEF NoJob, Keys
  <2>3. a \in Arguments /\ ModeOf(a, newer) \in Mode \ {None}
    BY <2>1, StartedJob
  <2> QED
    BY <2>2, <2>3
<1>3. CASE setupInstallMode
  BY <1>3 DEF setupInstallMode, MkdirAll, Keys
<1>4. CASE setDirectoryForInstallMode
  BY <1>4 DEF setDirectoryForInstallMode, Keys
<1>5. CASE BackupBinary \/ installBinaries
  BY <1>5 DEF BackupBinary, installBinaries, Keys, git
<1>6. CASE SetRunnerExecutableAlias
  BY <1>6 DEF SetRunnerExecutableAlias, Keys
<1>7. CASE setupHookTemplates
  BY <1>7 DEF setupHookTemplates, git
<1>8. CASE SetMaintainedHooks
  BY <1>8 DEF SetMaintainedHooks, Keys
<1>9. CASE installIntoRegisteredRepos \/ storeSettings
  BY <1>9 DEF installIntoRegisteredRepos, storeSettings, Keys, git
<1>10. CASE runUninstall
  BY <1>10 DEF runUninstall, NoJob, Keys
<1>11. CASE uninstallFromRegisteredRepos \/ uninstalledRepos
  BY <1>11 DEF uninstallFromRegisteredRepos, uninstalledRepos, Keys
<1>12. CASE cleanTemplateDir \/ cleanTemplateDirFails \/ cleanBinaries \/ cleanRegister
  BY <1>12 DEF cleanTemplateDir, cleanTemplateDirFails, cleanBinaries, cleanRegister
<1>13. CASE cleanHooksPath \/ cleanGitConfig
  BY <1>13 DEF cleanHooksPath, cleanGitConfig, Keys
<1>14. ASSUME NEW r \in Repo, InstallIntoRepo(r) \/ UninstallFromRepo(r)
       PROVE  JobOK'
  BY <1>14 DEF InstallIntoRepo, UninstallFromRepo, Keys, git
<1>15. ASSUME NEW r \in Repo, runInstallIntoRepo(r) \/ runUninstallFromRepo(r)
                              \/ GitInit(r) \/ HookRun(r)
       PROVE  JobOK'
  BY <1>15 DEF runInstallIntoRepo, runUninstallFromRepo, Here, GitInit, HookRun, git
<1>16. CASE Edit \/ Fail
  BY <1>16 DEF Edit, Fail, Keys
<1> QED
  BY <1>1, <1>2, <1>3, <1>4, <1>5, <1>6, <1>7, <1>8, <1>9, <1>10, <1>11, <1>12,
     <1>13, <1>14, <1>15, <1>16 DEF Next

LEMMA NextTodo == IndInv /\ [Next]_vars => TodoOK'
<1> SUFFICES ASSUME IndInv, [Next]_vars PROVE TodoOK'
  OBVIOUS
<1> USE DEF TodoOK, IndInv, JobOK, Goto, Ends
<1>1. CASE pc' \notin {"alias", "clean keys"}
  BY <1>1
<1>2. CASE UNCHANGED <<pc, job>>
  BY <1>2
<1>3. CASE installBinaries
  <2>1. CASE Len(job.copy) # 1
    BY <1>3, <2>1 DEF installBinaries
  <2>2. CASE Len(job.copy) = 1
    <3>1. pc' = "alias" /\ job'.todo = <<"alias", "runner">>
      BY <1>3, <2>2 DEF installBinaries, Keys
    <3>2. <<"alias", "runner">> \in Seq({"alias", "runner"})
      BY TwoInSeq, Zenon
    <3>3. <<"alias", "runner">> # <<>>
      OBVIOUS
    <3> QED
      BY <3>1, <3>2, <3>3, Zenon
  <2> QED
    BY <2>1, <2>2
<1>4. CASE SetRunnerExecutableAlias
  <2>1. job.todo \in Seq({"alias", "runner"}) /\ job.todo # <<>>
    BY <1>4 DEF SetRunnerExecutableAlias
  <2>2. Len(job.todo) # 1 => Tail(job.todo) \in Seq({"alias", "runner"})
                             /\ Tail(job.todo) # <<>>
    BY <2>1, TailLeft
  <2> QED
    BY <1>4, <2>2 DEF SetRunnerExecutableAlias, Keys
<1>5. CASE cleanHooksPath
  <2>1. GetGlobalGitConfigKeys \in Seq(Cleared)
    BY ClearedInSeq
  <2>2. GetGlobalGitConfigKeys # <<>>
    BY DEF GetGlobalGitConfigKeys
  <2> QED
    BY <1>5, <2>1, <2>2 DEF cleanHooksPath, Keys
<1>6. CASE cleanGitConfig
  <2>1. job.todo \in Seq(Cleared) /\ job.todo # <<>>
    BY <1>6 DEF cleanGitConfig
  <2>2. Len(job.todo) # 1 => Tail(job.todo) \in Seq(Cleared) /\ Tail(job.todo) # <<>>
    BY <2>1, TailLeft
  <2>3. pc' = "clean keys" => job'.todo = Tail(job.todo) /\ Len(job.todo) # 1
    BY <1>6 DEF cleanGitConfig, Keys
  <2>4. pc' # "alias"
    BY <1>6 DEF cleanGitConfig
  <2> QED
    BY <2>2, <2>3, <2>4
<1>7. CASE \/ determineInstallMode \/ setupInstallMode \/ setDirectoryForInstallMode
           \/ setupHookTemplates \/ SetMaintainedHooks
           \/ installIntoRegisteredRepos \/ storeSettings
  BY <1>1, <1>7 DEF determineInstallMode, setupInstallMode, setDirectoryForInstallMode,
     setupHookTemplates, SetMaintainedHooks, installIntoRegisteredRepos, storeSettings
<1>8. CASE \/ runUninstall \/ uninstallFromRegisteredRepos \/ uninstalledRepos
           \/ cleanTemplateDir \/ cleanTemplateDirFails \/ cleanBinaries \/ cleanRegister
           \/ Fail
  BY <1>1, <1>8 DEF runUninstall, uninstallFromRegisteredRepos, uninstalledRepos,
     cleanTemplateDir, cleanTemplateDirFails, cleanBinaries, cleanRegister, Fail
<1>9. ASSUME NEW r \in Repo, InstallIntoRepo(r) \/ UninstallFromRepo(r)
      PROVE  pc' \notin {"alias", "clean keys"}
  BY <1>9 DEF InstallIntoRepo, UninstallFromRepo
<1>10. ASSUME NEW r \in Repo, runInstallIntoRepo(r) \/ runUninstallFromRepo(r)
                              \/ GitInit(r) \/ HookRun(r)
       PROVE  UNCHANGED <<pc, job>>
  BY <1>10 DEF runInstallIntoRepo, runUninstallFromRepo, Here, GitInit, HookRun
<1>11. CASE BackupBinary \/ Edit \/ UNCHANGED vars
  BY <1>2, <1>11 DEF BackupBinary, Edit, vars
<1> QED
  BY <1>1, <1>2, <1>3, <1>4, <1>5, <1>6, <1>7, <1>8, <1>9, <1>10, <1>11 DEF Next

-------------------------------------------------------------------------------
\* What steps do to mode and directory.  After the settings an installation keeps them.
Late == InstallSteps \ {"mode", "settings"}

SameMode == /\ UNCHANGED <<envDir, present>>
            /\ conf'.useManual = conf.useManual
            /\ conf'.useCoreHooksPath = conf.useCoreHooksPath

SameDirs == /\ conf'.templateDir = conf.templateDir
            /\ conf'.hooksPath = conf.hooksPath
            /\ conf'.manualTemplateDir = conf.manualTemplateDir

LateStep == \/ BackupBinary \/ installBinaries \/ SetRunnerExecutableAlias
            \/ setupHookTemplates \/ SetMaintainedHooks \/ installIntoRegisteredRepos
            \/ \E r \in Repo : InstallIntoRepo(r)

CleaningStep == \/ uninstallFromRegisteredRepos \/ uninstalledRepos
                 \/ cleanTemplateDir \/ cleanTemplateDirFails \/ cleanBinaries
                 \/ cleanRegister \/ cleanHooksPath \/ cleanGitConfig
                 \/ \E r \in Repo : UninstallFromRepo(r)

UserStep == \/ UNCHANGED vars
            \/ \E r \in Repo : \/ runInstallIntoRepo(r) \/ runUninstallFromRepo(r)
                               \/ GitInit(r) \/ HookRun(r)

LEMMA LateSteps ==
  ASSUME IndInv, LateStep
  PROVE  /\ pc \in Late /\ pc' \in Late
         /\ job'.mode = job.mode /\ job'.dir = job.dir
         /\ UNCHANGED <<outcome, settled>>
         /\ SameMode /\ SameDirs
<1> USE DEF IndInv, JobOK, Keys, Late, InstallSteps, Goto, SameMode, SameDirs
<1>1. CASE BackupBinary \/ installBinaries
  BY <1>1 DEF BackupBinary, installBinaries, git, history
<1>2. CASE setupHookTemplates \/ installIntoRegisteredRepos
  BY <1>2 DEF setupHookTemplates, installIntoRegisteredRepos, git, history
<1>3. CASE SetRunnerExecutableAlias
  <2>1. job.todo \in Seq({"alias", "runner"}) /\ job.todo # <<>>
    BY <1>3 DEF SetRunnerExecutableAlias, TodoOK
  <2>2. 1 \in 1 .. Len(job.todo)
    BY <2>1, EmptySeq
  <2>3. job.todo[1] \in {"alias", "runner"}
    BY <2>1, <2>2, ElementOfSeq
  <2>4. SameDirs /\ SameMode
    BY <1>3, <2>3 DEF SetRunnerExecutableAlias, ConfOK, Config
  <2> QED
    BY <1>3, <2>4 DEF SetRunnerExecutableAlias, history
<1>4. CASE SetMaintainedHooks
  BY <1>4 DEF SetMaintainedHooks, ConfOK, Config, history
<1>5. ASSUME NEW r \in Repo, InstallIntoRepo(r)
      PROVE  /\ pc \in Late /\ pc' \in Late
             /\ job'.mode = job.mode /\ job'.dir = job.dir
             /\ UNCHANGED <<outcome, settled>>
             /\ SameMode /\ SameDirs
  BY <1>5 DEF InstallIntoRepo, git, history
<1> QED
  BY <1>1, <1>2, <1>3, <1>4, <1>5 DEF LateStep

LEMMA CleaningSteps ==
  ASSUME IndInv, CleaningStep
  PROVE  /\ pc \in UninstallSteps /\ pc' \in UninstallSteps \cup {"idle"}
         /\ outcome' # "installed" /\ settled' = settled
<1> USE DEF IndInv, UninstallSteps, InstallSteps, Configured, Goto, Ends
<1>1. CASE uninstallFromRegisteredRepos \/ uninstalledRepos
  BY <1>1 DEF uninstallFromRegisteredRepos, uninstalledRepos, history
<1>2. CASE cleanTemplateDir \/ cleanTemplateDirFails
  BY <1>2 DEF cleanTemplateDir, cleanTemplateDirFails
<1>3. CASE cleanBinaries \/ cleanRegister \/ cleanHooksPath
  BY <1>3 DEF cleanBinaries, cleanRegister, cleanHooksPath, history
<1>4. CASE cleanGitConfig
  BY <1>4 DEF cleanGitConfig
<1>5. ASSUME NEW r \in Repo, UninstallFromRepo(r)
      PROVE  /\ pc \in UninstallSteps /\ pc' \in UninstallSteps \cup {"idle"}
             /\ outcome' # "installed" /\ settled' = settled
  BY <1>5 DEF UninstallFromRepo, history
<1> QED
  BY <1>1, <1>2, <1>3, <1>4, <1>5 DEF CleaningStep

LEMMA UserSteps ==
  ASSUME UserStep
  PROVE  /\ UNCHANGED <<conf, envDir, present, pc, job, settled>>
         /\ outcome' \in {outcome, None}
<1>1. CASE UNCHANGED vars
  BY <1>1 DEF vars, git, history
<1>2. ASSUME NEW r \in Repo, runInstallIntoRepo(r) \/ runUninstallFromRepo(r)
      PROVE  /\ UNCHANGED <<conf, envDir, present, pc, job, settled>>
             /\ outcome' = None
  BY <1>2 DEF runInstallIntoRepo, runUninstallFromRepo, Here, git
<1>3. ASSUME NEW r \in Repo, GitInit(r) \/ HookRun(r)
      PROVE  UNCHANGED <<conf, envDir, present, pc, job, settled, outcome>>
  BY <1>3 DEF GitInit, HookRun, git, history
<1> QED
  BY <1>1, <1>2, <1>3 DEF UserStep

LEMMA Steps ==
  ASSUME [Next]_vars
  PROVE  \/ determineInstallMode \/ setupInstallMode \/ setDirectoryForInstallMode
         \/ LateStep \/ storeSettings
         \/ runUninstall \/ CleaningStep
         \/ UserStep \/ Edit \/ Fail
BY DEF Next, LateStep, CleaningStep, UserStep

\* The settings.
Setting == ({"useManual", "useCoreHooksPath"} \X {"true", "false"})
             \cup ({"templateDir", "hooksPath", "manualTemplateDir", "pathForUseCoreHooksPath"}
                     \X Dir)

LEMMA SettingsType ==
  ASSUME NEW mode \in Mode \ {None}, NEW dir \in Dir
  PROVE  SettingsFor(mode, dir) \in Seq(Setting)
<1> DEFINE useCore(v) == <<"useCoreHooksPath", v>>
           useMan(v) == <<"useManual", v>>
<1>1. \A v \in {"true", "false"} : useCore(v) \in Setting /\ useMan(v) \in Setting
  BY DEF Setting
<1>2. /\ <<"pathForUseCoreHooksPath", dir>> \in Setting
      /\ <<"hooksPath", dir>> \in Setting
      /\ <<"templateDir", dir>> \in Setting
      /\ <<"manualTemplateDir", dir>> \in Setting
  BY DEF Setting
<1>3. CASE mode = "core-hooks-path"
  BY <1>1, <1>2, <1>3, FourInSeq DEF SettingsFor
<1>4. CASE mode = "template-dir"
  BY <1>1, <1>2, <1>4, ThreeInSeq DEF SettingsFor
<1>5. CASE mode = "manual"
  BY <1>1, <1>2, <1>5, ThreeInSeq DEF SettingsFor
<1> QED
  BY <1>3, <1>4, <1>5 DEF Mode

\* No setting is written twice.
LEMMA SettingsDiffer ==
  ASSUME NEW mode \in Mode \ {None}, NEW dir \in Dir,
         NEW i \in 1 .. Len(SettingsFor(mode, dir)),
         NEW j \in 1 .. Len(SettingsFor(mode, dir)), i # j
  PROVE  SettingsFor(mode, dir)[i][1] # SettingsFor(mode, dir)[j][1]
<1>1. CASE mode = "core-hooks-path"
  BY <1>1 DEF SettingsFor
<1>2. CASE mode = "template-dir"
  BY <1>2 DEF SettingsFor
<1>3. CASE mode = "manual"
  BY <1>3 DEF SettingsFor
<1> QED
  BY <1>1, <1>2, <1>3 DEF Mode

\* One setting is written, the next one of the mode.
LEMMA SettingWritten ==
  ASSUME IndInv, setDirectoryForInstallMode
  PROVE  \E n \in 0 .. Len(Settings) - 1 :
           /\ Settings \in Seq(Setting)
           /\ Wrote(n)
           /\ conf' = [conf EXCEPT ![Settings[n + 1][1]] = Settings[n + 1][2]]
           /\ pc' = IF n + 1 = Len(Settings) THEN "binaries" ELSE "settings"
           /\ job'.todo = SubSeq(Settings, n + 2, Len(Settings))
           /\ job'.mode = job.mode /\ job'.dir = job.dir
<1>1. PICK n \in 0 .. Len(Settings) - 1 :
        job.todo = SubSeq(Settings, n + 1, Len(Settings)) /\ Wrote(n)
  BY DEF IndInv, Writing, setDirectoryForInstallMode
<1>2. job.mode \in Mode \ {None} /\ job.dir \in Dir
  BY DEF IndInv, JobOK, ConfOK, setDirectoryForInstallMode, InstallSteps
<1>3. Settings \in Seq(Setting)
  BY <1>2, SettingsType DEF Settings
<1>4. /\ Len(job.todo) = Len(Settings) - n
      /\ job.todo[1] = Settings[n + 1]
      /\ Tail(job.todo) = SubSeq(Settings, n + 2, Len(Settings))
  BY <1>1, <1>3, RestOf
<1>5. Len(job.todo) = 1 <=> n + 1 = Len(Settings)
  <2>1. Len(Settings) \in Nat
    BY <1>3, LenProperties
  <2>2. n \in Int
    BY <1>1, <2>1
  <2> QED
    BY <1>4, <2>1, <2>2, SMT
<1>6. /\ pc' = IF Len(job.todo) = 1 THEN "binaries" ELSE "settings"
      /\ conf' = [conf EXCEPT ![job.todo[1][1]] = job.todo[1][2]]
      /\ job' = [job EXCEPT !.todo = Tail(job.todo), !.copy = Binaries]
  BY DEF setDirectoryForInstallMode, Goto
<1>10. job'.todo = Tail(job.todo) /\ job'.mode = job.mode /\ job'.dir = job.dir
  BY <1>6 DEF IndInv, JobOK, Keys
<1>7. pc' = IF n + 1 = Len(Settings) THEN "binaries" ELSE "settings"
  BY <1>5, <1>6
<1>8. job'.todo = SubSeq(Settings, n + 2, Len(Settings))
  BY <1>4, <1>10
<1>9. conf' = [conf EXCEPT ![Settings[n + 1][1]] = Settings[n + 1][2]]
  BY <1>4, <1>6
<1> QED
  BY <1>1, <1>3, <1>7, <1>8, <1>9, <1>10

\* Then one setting more is written.
LEMMA WroteOne ==
  ASSUME IndInv, setDirectoryForInstallMode,
         NEW n \in 0 .. Len(Settings) - 1, Settings \in Seq(Setting), Wrote(n),
         conf' = [conf EXCEPT ![Settings[n + 1][1]] = Settings[n + 1][2]],
         job'.mode = job.mode /\ job'.dir = job.dir
  PROVE  Wrote(n + 1)'
<1>1. Len(Settings) \in Nat
  BY LenProperties
<1>2. n \in Nat /\ n + 1 \in 1 .. Len(Settings)
  BY <1>1
<1>3. job.mode \in Mode \ {None} /\ job.dir \in Dir
  BY DEF IndInv, JobOK, ConfOK, setDirectoryForInstallMode, InstallSteps
<1>4. Settings[n + 1] \in Setting
  BY <1>2, ElementOfSeq
<1>5. Settings[n + 1][1] \in DOMAIN conf
  BY <1>4 DEF Setting, IndInv, ConfOK, Config
<1>6. \A i \in 1 .. n : Settings[i][1] # Settings[n + 1][1]
  <2>1. \A i, j \in 1 .. Len(Settings) : i # j => Settings[i][1] # Settings[j][1]
    BY <1>3, SettingsDiffer DEF Settings
  <2>2. \A i \in 1 .. n : i \in 1 .. Len(Settings) /\ i # n + 1
    BY <1>1, <1>2
  <2> QED
    BY <1>2, <2>1, <2>2
<1>7. \A i \in 1 .. n : conf'[Settings[i][1]] = Settings[i][2]
  <2> TAKE i \in 1 .. n
  <2>1. i \in 1 .. Len(Settings)
    BY <1>2
  <2>2. Settings[i] \in Setting
    BY <2>1, ElementOfSeq
  <2>3. Settings[i][1] \in DOMAIN conf
    BY <2>2 DEF Setting, IndInv, ConfOK, Config
  <2>4. conf[Settings[i][1]] = Settings[i][2]
    BY DEF Wrote
  <2> QED
    BY <1>6, <2>3, <2>4
<1>8. conf'[Settings[n + 1][1]] = Settings[n + 1][2]
  BY <1>5
<1>9. Settings' = Settings
  BY DEF Settings
<1>10. \A i \in 1 .. n + 1 : i = n + 1 \/ i \in 1 .. n
  BY <1>2
<1> QED
  BY <1>7, <1>8, <1>9, <1>10 DEF Wrote

\* A setting of the mode there is does not change it.
LEMMA ModeKept ==
  ASSUME ConfOK, NEW mode \in Mode \ {None}, NEW dir \in Dir,
         GetInstallMode = mode,
         NEW i \in 1 .. Len(SettingsFor(mode, dir)),
         conf' = [conf EXCEPT ![SettingsFor(mode, dir)[i][1]] = SettingsFor(mode, dir)[i][2]]
  PROVE  GetInstallMode' = mode
<1>1. CASE mode = "core-hooks-path"
  <2>1. i \in 1 .. 4
    BY <1>1 DEF SettingsFor
  <2>2. CASE i = 1
    BY <1>1, <2>2
       DEF SettingsFor, GetInstallMode, ConfOK, Config, None
  <2>3. CASE i = 2
    BY <1>1, <2>3
       DEF SettingsFor, GetInstallMode, ConfOK, Config, None
  <2>4. CASE i = 3
    BY <1>1, <2>4
       DEF SettingsFor, GetInstallMode, ConfOK, Config, None
  <2>5. CASE i = 4
    BY <1>1, <2>5
       DEF SettingsFor, GetInstallMode, ConfOK, Config, None
  <2> QED
    BY <2>1, <2>2, <2>3, <2>4, <2>5
<1>2. CASE mode = "template-dir"
  <2>1. i \in 1 .. 3
    BY <1>2 DEF SettingsFor
  <2>2. CASE i = 1
    BY <1>2, <2>2
       DEF SettingsFor, GetInstallMode, ConfOK, Config, None
  <2>3. CASE i = 2
    BY <1>2, <2>3
       DEF SettingsFor, GetInstallMode, ConfOK, Config, None
  <2>4. CASE i = 3
    BY <1>2, <2>4
       DEF SettingsFor, GetInstallMode, ConfOK, Config, None
  <2> QED
    BY <2>1, <2>2, <2>3, <2>4
<1>3. CASE mode = "manual"
  <2>1. i \in 1 .. 3
    BY <1>3 DEF SettingsFor
  <2>2. CASE i = 1
    BY <1>3, <2>2
       DEF SettingsFor, GetInstallMode, ConfOK, Config, None
  <2>3. CASE i = 2
    BY <1>3, <2>3
       DEF SettingsFor, GetInstallMode, ConfOK, Config, None
  <2>4. CASE i = 3
    BY <1>3, <2>4
       DEF SettingsFor, GetInstallMode, ConfOK, Config, None
  <2> QED
    BY <2>1, <2>2, <2>3, <2>4
<1> QED
  BY <1>1, <1>2, <1>3 DEF Mode

LEMMA NextConf == IndInv /\ [Next]_vars => ConfOK'
<1> SUFFICES ASSUME IndInv, [Next]_vars PROVE ConfOK'
  OBVIOUS
<1> USE DEF ConfOK, IndInv
<1>1. CASE UNCHANGED git
  BY <1>1 DEF git
<1>2. CASE setupInstallMode
  <2>1. InstallTemplates \in Dir /\ job.args \in Arguments
    BY <1>2 DEF setupInstallMode, JobOK, InstallSteps
  <2>2. \A mode \in Mode : FindHookTemplateDir(mode) \in present \cup {NoDir}
    <3>1. \A d \in Dir : CheckTemplateDir(d) \in present \cup {NoDir}
      BY DEF CheckTemplateDir
    <3>2. envDir \in Dir \cup {NoDir} /\ DefaultDir \in Dir
      OBVIOUS
    <3>3. conf.templateDir \in Dir \cup {NoDir} /\ conf.hooksPath \in Dir \cup {NoDir}
          /\ conf.manualTemplateDir \in Dir \cup {NoDir}
      BY DEF Config
    <3>4. CheckTemplateDir(NoDir) \in present \cup {NoDir}
      BY DEF CheckTemplateDir
    <3> QED
      BY <3>1, <3>2, <3>3, <3>4, FirstOf DEF FindHookTemplateDir
  <2>3. job.mode \in Mode
    BY <1>2 DEF setupInstallMode, JobOK, InstallSteps
  <2>4. HookTemplateDirs(job.args, job.mode) \subseteq Dir
    BY <2>1, <2>2, <2>3 DEF HookTemplateDirs, FindOrChoose
  <2>5. present' \subseteq Dir
    <3>1. CASE present' = present
      BY <3>1
    <3>2. ASSUME NEW d \in HookTemplateDirs(job.args, job.mode), present' = MkdirAll(d)
          PROVE  present' \subseteq Dir
      BY <2>4, <3>2 DEF MkdirAll
    <3> QED
      BY <1>2, <3>1, <3>2 DEF setupInstallMode
  <2> QED
    BY <1>2, <2>5 DEF setupInstallMode
<1>3. CASE setDirectoryForInstallMode
  <2>1. PICK n \in 0 .. Len(Settings) - 1 :
          /\ Settings \in Seq(Setting)
          /\ conf' = [conf EXCEPT ![Settings[n + 1][1]] = Settings[n + 1][2]]
    BY <1>3, SettingWritten
  <2>2. Settings[n + 1] \in Setting
    BY <2>1, ElementOfSeq, LenProperties
  <2>3. conf' \in Config
    BY <2>1, <2>2 DEF Setting, Config
  <2> QED
    BY <1>3, <2>3 DEF setDirectoryForInstallMode
<1>4. CASE SetRunnerExecutableAlias
  <2>1. job.todo[1] \in {"alias", "runner"}
    BY <1>4, ElementOfSeq, EmptySeq DEF SetRunnerExecutableAlias, TodoOK
  <2> QED
    BY <1>4, <2>1 DEF SetRunnerExecutableAlias, Config
<1>5. CASE SetMaintainedHooks
  <2>1. Selected \in Specs
    BY <1>5 DEF SetMaintainedHooks, Selected, Valid, JobOK, Arguments, Config, InstallSteps
  <2> QED
    BY <1>5, <2>1 DEF SetMaintainedHooks, Config
<1>6. CASE cleanHooksPath
  BY <1>6 DEF cleanHooksPath, Config
<1>7. CASE cleanGitConfig
  <2>1. job.todo[1] \in Cleared
    <3>1. job.todo \in Seq(Cleared) /\ job.todo # <<>>
      BY <1>7 DEF cleanGitConfig, TodoOK
    <3>2. 1 \in 1 .. Len(job.todo)
      BY <3>1, EmptySeq
    <3> QED
      BY <3>1, <3>2, ElementOfSeq
  <2>2. conf' = [conf EXCEPT ![job.todo[1]] = Unset[job.todo[1]]]
    BY <1>7 DEF cleanGitConfig
  <2>3. Unset \in Config
    BY DEF Unset, Config
  <2>4. conf' \in Config
    BY <2>1, <2>2, <2>3 DEF Config, Cleared
  <2> QED
    BY <1>7, <2>4 DEF cleanGitConfig
<1>8. CASE Edit
  <2>1. PICK e \in Edits : conf' = [conf EXCEPT ![e[1]] = e[2]]
    BY <1>8 DEF Edit
  <2>2. conf' \in Config
    BY <2>1 DEF Config
  <2> QED
    BY <1>8, <2>2 DEF Edit
<1>9. CASE CleaningStep
  BY <1>6, <1>7, <1>9 DEF CleaningStep, git, uninstallFromRegisteredRepos, uninstalledRepos,
     cleanTemplateDir, cleanTemplateDirFails, cleanBinaries, cleanRegister, UninstallFromRepo
<1>10. CASE LateStep
  BY <1>4, <1>5, <1>10 DEF LateStep, git, BackupBinary, installBinaries, setupHookTemplates,
     installIntoRegisteredRepos, InstallIntoRepo
<1>11. CASE determineInstallMode \/ storeSettings \/ runUninstall \/ Fail
  BY <1>1, <1>11 DEF determineInstallMode, storeSettings, runUninstall, Fail
<1>12. CASE UserStep
  BY <1>1, <1>12, UserSteps DEF git
<1> QED
  BY <1>2, <1>3, <1>8, <1>9, <1>10, <1>11, <1>12, Steps

-------------------------------------------------------------------------------
\* Mode and directory.
LEMMA NextWriting == IndInv /\ [Next]_vars => Writing'
<1> SUFFICES ASSUME IndInv, [Next]_vars, pc' = "settings"
             PROVE  \E n \in 0 .. Len(Settings') - 1 :
                      job'.todo = SubSeq(Settings', n + 1, Len(Settings')) /\ Wrote(n)'
  BY DEF Writing
<1>1. CASE setupInstallMode
  <2>1. job'.todo = SettingsFor(job.mode, job'.dir) /\ job'.mode = job.mode
    BY <1>1 DEF setupInstallMode, Goto, Ends, IndInv, JobOK, Keys
  <2>2. job.mode \in Mode \ {None} /\ job'.dir \in Dir
    BY <1>1, NextJob, NextConf DEF setupInstallMode, IndInv, JobOK, ConfOK, InstallSteps
  <2>3. Settings' \in Seq(Setting) /\ Len(Settings') \in {3, 4}
    BY <2>1, <2>2, SettingsType DEF Settings, SettingsFor, Mode
  <2>4. job'.todo = SubSeq(Settings', 1, Len(Settings'))
    BY <2>1, <2>3, SubSeqFull DEF Settings
  <2>5. Wrote(0)'
    BY DEF Wrote
  <2> QED
    BY <2>3, <2>4, <2>5
<1>2. CASE setDirectoryForInstallMode
  <2>1. PICK n \in 0 .. Len(Settings) - 1 :
           /\ Settings \in Seq(Setting)
           /\ Wrote(n)
           /\ conf' = [conf EXCEPT ![Settings[n + 1][1]] = Settings[n + 1][2]]
           /\ pc' = IF n + 1 = Len(Settings) THEN "binaries" ELSE "settings"
           /\ job'.todo = SubSeq(Settings, n + 2, Len(Settings))
           /\ job'.mode = job.mode /\ job'.dir = job.dir
    BY <1>2, SettingWritten
  <2>2. Settings' = Settings /\ Len(Settings) \in Nat
    BY <2>1, LenProperties DEF Settings
  <2>3. n + 1 \in 0 .. Len(Settings) - 1 /\ n + 2 = (n + 1) + 1
    BY <2>1, <2>2
  <2>4. Wrote(n + 1)'
    BY <1>2, <2>1, <2>2, WroteOne
  <2> QED
    BY <2>1, <2>2, <2>3, <2>4
<1>3. CASE UserStep
  BY <1>3, UserSteps DEF IndInv, Writing, Settings, Wrote
<1>4. CASE LateStep
  BY <1>4, LateSteps DEF Late
<1>5. CASE CleaningStep
  BY <1>5, CleaningSteps DEF UninstallSteps
<1>6. CASE determineInstallMode \/ storeSettings \/ runUninstall
  BY <1>6 DEF determineInstallMode, storeSettings, runUninstall, Goto, Ends
<1>7. CASE Edit \/ Fail
  BY <1>7 DEF Edit, Fail, Ends
<1> QED
  BY <1>1, <1>2, <1>3, <1>4, <1>5, <1>6, <1>7, Steps

LEMMA NextConfigured == IndInv /\ [Next]_vars => Configured'
<1> SUFFICES ASSUME IndInv, [Next]_vars PROVE Configured'
  OBVIOUS
<1> USE DEF Configured, IndInv
<1>1. CASE setDirectoryForInstallMode
  <2>1. PICK n \in 0 .. Len(Settings) - 1 :
           /\ Settings \in Seq(Setting)
           /\ Wrote(n)
           /\ conf' = [conf EXCEPT ![Settings[n + 1][1]] = Settings[n + 1][2]]
           /\ pc' = IF n + 1 = Len(Settings) THEN "binaries" ELSE "settings"
           /\ job'.mode = job.mode /\ job'.dir = job.dir
    BY <1>1, SettingWritten
  <2>2. outcome' # "installed" /\ UNCHANGED present /\ pc = "settings"
    BY <1>1 DEF setDirectoryForInstallMode, history
  <2>3. pc' \in Late => Chosen'
    <3> SUFFICES ASSUME n + 1 = Len(Settings) PROVE Chosen'
      BY <2>1 DEF Late
    <3>1. Wrote(n + 1)'
      BY <1>1, <2>1, WroteOne
    <3>2. \A i \in 1 .. n + 1 : conf'[Settings[i][1]] = Settings[i][2]
      BY <2>1, <3>1 DEF Wrote, Settings
    <3>3. job.mode \in Mode \ {None} /\ job.dir \in present
      BY <2>2 DEF JobOK, InstallSteps
    <3>4. Settings = SettingsFor(job.mode, job.dir)
      BY DEF Settings
    <3>5. CASE job.mode = "core-hooks-path"
      <4>1. 1 \in 1 .. n + 1 /\ 2 \in 1 .. n + 1 /\ 4 \in 1 .. n + 1
        BY <3>4, <3>5 DEF SettingsFor
      <4>2. conf'.useCoreHooksPath = "true" /\ conf'.useManual = "false"
            /\ conf'.hooksPath = job.dir
        BY <3>2, <3>4, <3>5, <4>1 DEF SettingsFor
      <4> QED
        BY <2>1, <2>2, <3>3, <3>5, <4>2 DEF Chosen, GetInstallMode
    <3>6. CASE job.mode = "template-dir"
      <4>1. 1 \in 1 .. n + 1 /\ 2 \in 1 .. n + 1 /\ 3 \in 1 .. n + 1
        BY <3>4, <3>6 DEF SettingsFor
      <4>2. conf'.useCoreHooksPath = "false" /\ conf'.useManual = "false"
            /\ conf'.templateDir = job.dir
        BY <3>2, <3>4, <3>6, <4>1 DEF SettingsFor
      <4> QED
        BY <2>1, <2>2, <3>3, <3>6, <4>2 DEF Chosen, GetInstallMode
    <3>7. CASE job.mode = "manual"
      <4>1. 2 \in 1 .. n + 1 /\ 3 \in 1 .. n + 1
        BY <3>4, <3>7 DEF SettingsFor
      <4>2. conf'.useManual = "true" /\ conf'.manualTemplateDir = job.dir
        BY <3>2, <3>4, <3>7, <4>1 DEF SettingsFor
      <4> QED
        BY <2>1, <2>2, <3>3, <3>7, <4>2 DEF Chosen, GetInstallMode
    <3> QED
      BY <3>3, <3>5, <3>6, <3>7 DEF Mode
  <2> QED
    BY <2>2, <2>3 DEF Late
<1>2. CASE LateStep
  <2>1. Chosen => Chosen'
    BY <1>2, LateSteps DEF Chosen, GetInstallMode, SameMode, SameDirs
  <2>2. pc # "idle" /\ outcome' = outcome /\ Chosen
    BY <1>2, LateSteps DEF Late, InstallSteps
  <2> QED
    BY <2>1, <2>2
<1>3. CASE storeSettings
  <2>1. Chosen
    BY <1>3 DEF storeSettings, InstallSteps
  <2>2. Chosen'
    BY <1>3, <2>1 DEF storeSettings, git, Chosen, GetInstallMode, Ends, JobOK, Keys
  <2> QED
    BY <1>3, <2>2 DEF storeSettings, Ends
<1>4. CASE UserStep
  <2>1. UNCHANGED <<conf, present, pc, job>> /\ outcome' \in {outcome, None}
    BY <1>4, UserSteps
  <2>2. Chosen => Chosen'
    BY <2>1 DEF Chosen, GetInstallMode
  <2> QED
    BY <2>1, <2>2 DEF None
<1>5. CASE CleaningStep
  BY <1>5, CleaningSteps DEF UninstallSteps, InstallSteps
<1>6. CASE determineInstallMode \/ runUninstall
  BY <1>6 DEF determineInstallMode, runUninstall, Goto, None, InstallSteps
<1>7. CASE setupInstallMode
  BY <1>7 DEF setupInstallMode, Goto, Ends, InstallSteps
<1>8. CASE Edit \/ Fail
  BY <1>8 DEF Edit, Fail, Ends, None, InstallSteps
<1> QED
  BY <1>1, <1>2, <1>3, <1>4, <1>5, <1>6, <1>7, <1>8, Steps

LEMMA NextKept == IndInv /\ [Next]_vars => Kept'
<1> SUFFICES ASSUME IndInv, [Next]_vars, settled' # None PROVE Kept'
  BY DEF Kept
<1> USE DEF Kept, IndInv
<1>1. CASE determineInstallMode
  <2>1. PICK a \in Installs, newer \in BOOLEAN :
          Accepted(a, newer) /\ pc' = "mode" /\ job'.mode = ModeOf(a, newer)
    BY <1>1 DEF determineInstallMode, Goto, NoJob
  <2>2. UNCHANGED <<conf, settled>>
    BY <1>1 DEF determineInstallMode, git
  <2>3. ModeOf(a, newer) = settled
    BY <2>1, <2>2 DEF Accepted, ModeOf
  <2> QED
    BY <2>1, <2>2, <2>3 DEF UninstallSteps, GetInstallMode
<1>2. CASE setupInstallMode
  BY <1>2 DEF setupInstallMode, Goto, Ends, GetInstallMode, UninstallSteps, InstallSteps,
     JobOK, Keys
<1>3. CASE setDirectoryForInstallMode
  <2>1. PICK n \in 0 .. Len(Settings) - 1 :
           /\ Settings \in Seq(Setting)
           /\ conf' = [conf EXCEPT ![Settings[n + 1][1]] = Settings[n + 1][2]]
           /\ pc' = IF n + 1 = Len(Settings) THEN "binaries" ELSE "settings"
           /\ job'.mode = job.mode /\ job'.dir = job.dir
    BY <1>3, SettingWritten
  <2>2. settled' = settled /\ pc = "settings"
    BY <1>3 DEF setDirectoryForInstallMode, history
  <2>3. GetInstallMode = settled /\ job.mode = settled
    BY <2>2 DEF InstallSteps
  <2>4. job.mode \in Mode \ {None} /\ job.dir \in Dir
    BY <2>2 DEF JobOK, ConfOK, InstallSteps
  <2>5. n + 1 \in 1 .. Len(SettingsFor(job.mode, job.dir))
    <3>1. Len(Settings) \in Nat
      BY <2>1, LenProperties
    <3> QED
      BY <2>1, <3>1 DEF Settings
  <2>6. conf' = [conf EXCEPT ![SettingsFor(job.mode, job.dir)[n + 1][1]]
                               = SettingsFor(job.mode, job.dir)[n + 1][2]]
    BY <2>1 DEF Settings
  <2>7. GetInstallMode' = settled
    BY <2>3, <2>4, <2>5, <2>6, ModeKept
  <2> QED
    BY <2>1, <2>2, <2>3, <2>7 DEF UninstallSteps
<1>4. CASE LateStep
  <2>1. GetInstallMode' = GetInstallMode
    BY <1>4, LateSteps DEF SameMode, GetInstallMode
  <2> QED
    BY <1>4, <2>1, LateSteps DEF Late, InstallSteps, UninstallSteps
<1>5. CASE storeSettings
  <2>1. GetInstallMode = job.mode
    BY <1>5 DEF storeSettings, Configured, Chosen, InstallSteps
  <2> QED
    BY <1>5, <2>1 DEF storeSettings, Ends, GetInstallMode, git, InstallSteps, UninstallSteps
<1>6. CASE runUninstall
  BY <1>6 DEF runUninstall
<1>7. CASE CleaningStep
  BY <1>7, CleaningSteps
<1>8. CASE UserStep
  BY <1>8, UserSteps DEF GetInstallMode
<1>9. CASE Edit
  <2>1. PICK e \in Edits : conf' = [conf EXCEPT ![e[1]] = e[2]]
    BY <1>9 DEF Edit
  <2>2. e[1] \in {"hooksPath", "templateDir", "maintained"}
    OBVIOUS
  <2>3. GetInstallMode' = GetInstallMode
    BY <2>1, <2>2 DEF GetInstallMode, ConfOK, Config
  <2> QED
    BY <1>9, <2>3 DEF Edit, InstallSteps, UninstallSteps
<1>10. CASE Fail
  BY <1>10 DEF Fail, Ends, GetInstallMode, git, InstallSteps, UninstallSteps
<1> QED
  BY <1>1, <1>2, <1>3, <1>4, <1>5, <1>6, <1>7, <1>8, <1>9, <1>10, Steps

LEMMA NextInv == IndInv /\ [Next]_vars => IndInv'
BY NextConf, NextJob, NextTodo, NextWriting, NextConfigured, NextKept DEF IndInv

-------------------------------------------------------------------------------
\* The types of the other variables.
Disk ==
  /\ wrappers \in [Dir -> SUBSET ManagedHookNames]
  /\ bin \subseteq Range(Binaries)
  /\ repos \subseteq Repo /\ registered \subseteq repos
  /\ inRepo \in [Repo -> SUBSET ManagedHookNames] /\ own \in [Repo -> Specs]

Work ==
  /\ job.args \in Arguments /\ job.home \in repos \cup {NoRepo} /\ job.mode \in Mode
  /\ job.register \subseteq repos /\ job.visit \subseteq repos /\ job.done \subseteq repos

History ==
  /\ outcome \in {None, "installed", "uninstalled", "broken"} /\ settled \in Mode
  /\ torn \in BOOLEAN /\ missed \subseteq Dir \cup Repo
  /\ commands \in 0 .. MaxCommands /\ edits \in 0 .. MaxEdits /\ faults \in 0 .. MaxFaults

\* What is left to do.
Copies == {<<"cli", "runner", "dialog">>, <<"runner", "dialog">>, <<"dialog">>}

Left ==
  /\ pc = "binaries" => job.copy \in Copies
  /\ pc = "alias" => job.todo \in {<<"alias", "runner">>, <<"runner">>}
  /\ pc \notin {"settings", "alias", "clean keys"} => job.todo = <<>>

TypeInv == IndInv /\ Disk /\ Work /\ History /\ Left

LEMMA CopyNext ==
  ASSUME NEW copy \in Copies
  PROVE  /\ copy[1] \in Range(Binaries)
         /\ Len(copy) # 1 => Tail(copy) \in Copies
<1>1. {"cli", "runner", "dialog"} \subseteq Range(Binaries)
  <2>1. DOMAIN Binaries = 1 .. 3 /\ Binaries[1] = "cli" /\ Binaries[2] = "runner"
        /\ Binaries[3] = "dialog"
    BY DEF Binaries
  <2> QED
    BY <2>1 DEF Range
<1>2. copy[1] \in {"cli", "runner", "dialog"}
  BY DEF Copies
<1>3. CASE copy = <<"cli", "runner", "dialog">>
  <2>1. Tail(copy) = <<"runner", "dialog">>
    BY <1>3
  <2> QED
    BY <1>1, <1>2, <2>1 DEF Copies
<1>4. CASE copy = <<"runner", "dialog">>
  <2>1. Tail(copy) = <<"dialog">>
    BY <1>4
  <2> QED
    BY <1>1, <1>2, <2>1 DEF Copies
<1>5. CASE copy = <<"dialog">>
  BY <1>1, <1>2, <1>5
<1> QED
  BY <1>3, <1>4, <1>5 DEF Copies

LEMMA InitType == Init => TypeInv
<1> SUFFICES ASSUME Init PROVE TypeInv
  OBVIOUS
<1>1. NoJob.args \in Arguments
  BY DEF NoJob
<1>2. Work
  BY <1>1 DEF Init, Work, NoJob, Mode
<1>3. Disk
  BY DEF Init, Disk
<1>4. History
  <2>1. 0 \in 0 .. MaxCommands /\ 0 \in 0 .. MaxEdits /\ 0 \in 0 .. MaxFaults
    OBVIOUS
  <2>2. outcome = None /\ settled = None /\ missed = {} /\ torn \in BOOLEAN
    BY DEF Init
  <2> QED
    BY <2>1, <2>2 DEF Init, History, Mode
<1>5. Left
  <2>1. NoJob.todo = <<>>
    BY DEF NoJob
  <2> QED
    BY <2>1 DEF Init, Left
<1> QED
  BY <1>2, <1>3, <1>4, <1>5, InitInv DEF TypeInv

LEMMA Selections ==
  ASSUME TypeInv
  PROVE  /\ \A names \in Specs : /\ UnwrapHookNames(names) \subseteq ManagedHookNames
                                 /\ Valid(names) \in Specs
         /\ \A h \in repos \cup {NoRepo} : GetMaintainedHooks(h) \in Specs
         /\ Selected \in Specs
<1>1. \A names \in Specs : Valid(names) \in Specs
  BY DEF Valid
<1>2. ASSUME NEW names \in Specs
      PROVE  UnwrapHookNames(names) \subseteq ManagedHookNames
  BY UnwrapDenoted DEF Denoted
<1>3. conf.maintained \in Specs
  BY DEF TypeInv, IndInv, ConfOK, Config
<1>4. \A h \in repos \cup {NoRepo} : GetMaintainedHooks(h) \in Specs
  BY <1>1, <1>3 DEF GetMaintainedHooks, TypeInv, Disk
<1>5. Selected \in Specs
  BY <1>1, <1>3 DEF Selected, TypeInv, Work, Arguments
<1> QED
  BY <1>1, <1>2, <1>4, <1>5

\* Steps that touch no run-wrapper, executable or repository.
DiskLeftAlone ==
  \/ determineInstallMode \/ setupInstallMode \/ setDirectoryForInstallMode
  \/ SetRunnerExecutableAlias \/ SetMaintainedHooks \/ installIntoRegisteredRepos
  \/ runUninstall \/ uninstallFromRegisteredRepos \/ uninstalledRepos
  \/ cleanTemplateDirFails \/ cleanHooksPath \/ cleanGitConfig \/ Edit \/ Fail
  \/ UNCHANGED vars

LEMMA SameDisk == DiskLeftAlone => UNCHANGED disk
BY DEF DiskLeftAlone, determineInstallMode, setupInstallMode, setDirectoryForInstallMode,
   SetRunnerExecutableAlias, SetMaintainedHooks, installIntoRegisteredRepos, runUninstall,
   uninstallFromRegisteredRepos, uninstalledRepos, cleanTemplateDirFails, cleanHooksPath,
   cleanGitConfig, Edit, Fail, vars

\* The others.
LEMMA DiskSteps ==
  ASSUME [Next]_vars
  PROVE  \/ DiskLeftAlone \/ BackupBinary \/ installBinaries \/ setupHookTemplates
         \/ storeSettings \/ cleanTemplateDir \/ cleanBinaries \/ cleanRegister
         \/ \E r \in Repo : \/ InstallIntoRepo(r) \/ UninstallFromRepo(r)
                            \/ runInstallIntoRepo(r) \/ runUninstallFromRepo(r)
                            \/ GitInit(r) \/ HookRun(r)
BY DEF Next, DiskLeftAlone

\* Directories that are searched exist.
LEMMA FoundType ==
  ASSUME IndInv
  PROVE  /\ \A mode \in Mode : FindHookTemplateDir(mode) \in present \cup {NoDir}
         /\ Found \in present \cup {NoDir}
         /\ TemplateOfGit \in present \cup {NoDir}
<1>1. \A d \in Dir \cup {NoDir} : CheckTemplateDir(d) \in present \cup {NoDir}
  BY DEF CheckTemplateDir
<1>2. /\ envDir \in Dir \cup {NoDir} /\ DefaultDir \in Dir
      /\ conf.templateDir \in Dir \cup {NoDir} /\ conf.hooksPath \in Dir \cup {NoDir}
      /\ conf.manualTemplateDir \in Dir \cup {NoDir}
  BY DEF IndInv, ConfOK, Config
<1>3. TemplateOfGit \in present \cup {NoDir}
  BY <1>1, <1>2, FirstOf DEF TemplateOfGit
<1>4. \A mode : FindHookTemplateDir(mode) \in present \cup {NoDir}
  BY <1>1, <1>2, <1>3 DEF FindHookTemplateDir, TemplateOfGit
<1> QED
  BY <1>3, <1>4 DEF Found

LEMMA NextDisk == TypeInv /\ [Next]_vars => Disk'
<1> SUFFICES ASSUME TypeInv, [Next]_vars PROVE Disk'
  OBVIOUS
<1>0. Disk /\ present \subseteq Dir /\ Work
  BY DEF TypeInv, IndInv, ConfOK
<1>1. CASE DiskLeftAlone
  BY <1>0, <1>1, SameDisk DEF disk, Disk
<1>2. CASE BackupBinary
  BY <1>0, <1>2 DEF BackupBinary, Disk
<1>3. CASE installBinaries
  <2>1. job.copy[1] \in Range(Binaries)
    BY <1>3, CopyNext DEF installBinaries, TypeInv, Left
  <2> QED
    BY <1>0, <1>3, <2>1 DEF installBinaries, Disk
<1>4. CASE setupHookTemplates
  <2>1. UnwrapHookNames(Selected) \subseteq ManagedHookNames
    BY Selections
  <2> QED
    BY <1>0, <1>4, <2>1 DEF setupHookTemplates, Disk
<1>5. CASE storeSettings
  BY <1>0, <1>5 DEF storeSettings, Disk, Work
<1>6. CASE cleanTemplateDir
  BY <1>0, <1>6 DEF cleanTemplateDir, Disk
<1>7. CASE cleanBinaries \/ cleanRegister
  BY <1>0, <1>7 DEF cleanBinaries, cleanRegister, Disk
<1>8. ASSUME NEW r \in Repo, InstallIntoRepo(r) PROVE Disk'
  <2>1. UnwrapHookNames(GetMaintainedHooks(job.home)) \subseteq ManagedHookNames
    BY <1>0, Selections DEF Work
  <2>2. Relevant(r, UnwrapHookNames(GetMaintainedHooks(job.home))) \subseteq ManagedHookNames
    BY <2>1 DEF Relevant
  <2> QED
    BY <1>0, <1>8, <2>2 DEF InstallIntoRepo, Disk
<1>9. ASSUME NEW r \in Repo, UninstallFromRepo(r) PROVE Disk'
  BY <1>0, <1>9 DEF UninstallFromRepo, Disk
<1>10. ASSUME NEW r \in Repo, runInstallIntoRepo(r) PROVE Disk'
  <2>1. PICK names \in Specs :
          /\ own' = IF names = <<>> THEN own ELSE [own EXCEPT ![r] = names]
          /\ inRepo' = [inRepo EXCEPT ![r] = Relevant(r, UnwrapHookNames(
                          IF names # <<>> THEN names ELSE GetMaintainedHooks(r)))]
    BY <1>10 DEF runInstallIntoRepo
  <2>2. r \in repos
    BY <1>10 DEF runInstallIntoRepo, Here
  <2>3. (IF names # <<>> THEN names ELSE GetMaintainedHooks(r)) \in Specs
    BY <2>2, Selections
  <2>4. UnwrapHookNames(IF names # <<>> THEN names ELSE GetMaintainedHooks(r))
          \subseteq ManagedHookNames
    BY <2>3, Selections
  <2>5. Relevant(r, UnwrapHookNames(IF names # <<>> THEN names ELSE GetMaintainedHooks(r)))
          \subseteq ManagedHookNames
    BY <2>4 DEF Relevant
  <2> QED
    BY <1>0, <1>10, <2>1, <2>2, <2>5 DEF runInstallIntoRepo, Here, Disk
<1>11. ASSUME NEW r \in Repo, runUninstallFromRepo(r) PROVE Disk'
  BY <1>0, <1>11 DEF runUninstallFromRepo, Here, Disk
<1>12. ASSUME NEW r \in Repo, GitInit(r) PROVE Disk'
  <2>1. TemplateOfGit \in Dir \cup {NoDir}
    BY <1>0, FoundType DEF TypeInv
  <2> QED
    BY <1>0, <1>12, <2>1 DEF GitInit, Disk
<1>13. ASSUME NEW r \in Repo, HookRun(r) PROVE Disk'
  BY <1>0, <1>13 DEF HookRun, Wrapped, Disk
<1> QED
  BY <1>1, <1>2, <1>3, <1>4, <1>5, <1>6, <1>7, <1>8, <1>9, <1>10, <1>11, <1>12, <1>13, DiskSteps

LEMMA NextHistory == TypeInv /\ [Next]_vars => History'
<1> SUFFICES ASSUME TypeInv, [Next]_vars PROVE History'
  OBVIOUS
<1>0. History /\ Found \in Dir \cup {NoDir} /\ Wrapped \subseteq Repo /\ job.mode \in Mode
  BY FoundType DEF TypeInv, IndInv, ConfOK, Disk, Wrapped, Work
<1> USE DEF History
<1>1. CASE UNCHANGED <<history, counts>>
  BY <1>0, <1>1 DEF history, counts
<1>2. CASE determineInstallMode \/ runUninstall
  <2>1. /\ UNCHANGED <<torn, missed, edits, faults>> /\ settled' \in {settled, None}
        /\ outcome' = None /\ Begin
    BY <1>2 DEF determineInstallMode, runUninstall
  <2>2. commands' \in 0 .. MaxCommands
    BY <1>0, <2>1 DEF Begin
  <2> QED
    BY <1>0, <2>1, <2>2 DEF Mode
<1>3. CASE setupInstallMode
  BY <1>0, <1>3 DEF setupInstallMode, Ends, counts
<1>4. CASE setDirectoryForInstallMode
  <2>1. Abandoned \subseteq Dir
    BY <1>0 DEF Abandoned
  <2> QED
    BY <1>0, <1>4, <2>1 DEF setDirectoryForInstallMode, counts
<1>5. CASE setupHookTemplates
  <2>1. job.dir \in Dir
    BY <1>5 DEF setupHookTemplates, TypeInv, IndInv, ConfOK, JobOK, InstallSteps
  <2> QED
    BY <1>0, <1>5, <2>1 DEF setupHookTemplates, counts
<1>6. CASE storeSettings
  BY <1>0, <1>6 DEF storeSettings, Ends, counts
<1>7. CASE cleanTemplateDir \/ cleanTemplateDirFails
  <2>1. CASE cleanTemplateDir
    BY <1>0, <2>1 DEF cleanTemplateDir, counts
  <2>2. CASE cleanTemplateDirFails
    <3>1. UNCHANGED <<outcome, settled, torn, commands, edits>> /\ faults' = faults + 1
          /\ faults < MaxFaults
      BY <2>2 DEF cleanTemplateDirFails
    <3>2. missed' \subseteq Dir \cup Repo
      BY <1>0, <2>2 DEF cleanTemplateDirFails
    <3> QED
      BY <1>0, <3>1, <3>2
  <2> QED
    BY <1>7, <2>1, <2>2
<1>8. CASE cleanGitConfig
  BY <1>0, <1>8 DEF cleanGitConfig, Ends, counts
<1>9. ASSUME NEW r \in Repo, runInstallIntoRepo(r) \/ runUninstallFromRepo(r)
      PROVE  History'
  BY <1>0, <1>9 DEF runInstallIntoRepo, runUninstallFromRepo, Here
<1>10. ASSUME NEW r \in Repo, GitInit(r)
       PROVE  History'
  BY <1>0, <1>10 DEF GitInit, counts
<1>11. CASE Edit
  <2>1. Abandoned \subseteq Dir
    BY <1>0 DEF Abandoned
  <2> QED
    BY <1>0, <1>11, <2>1 DEF Edit
<1>12. CASE Fail
  BY <1>0, <1>12 DEF Fail, Ends
<1>13. CASE \/ BackupBinary \/ installBinaries \/ SetRunnerExecutableAlias \/ SetMaintainedHooks
            \/ installIntoRegisteredRepos \/ uninstallFromRegisteredRepos \/ uninstalledRepos
            \/ cleanBinaries \/ cleanRegister \/ cleanHooksPath
            \/ \E r \in Repo : InstallIntoRepo(r) \/ UninstallFromRepo(r) \/ HookRun(r)
            \/ UNCHANGED vars
  BY <1>1, <1>13 DEF BackupBinary, installBinaries, SetRunnerExecutableAlias,
     SetMaintainedHooks, installIntoRegisteredRepos, uninstallFromRegisteredRepos,
     uninstalledRepos, cleanBinaries, cleanRegister, cleanHooksPath, InstallIntoRepo,
     UninstallFromRepo, HookRun, vars
<1> QED
  BY <1>2, <1>3, <1>4, <1>5, <1>6, <1>7, <1>8, <1>9, <1>10, <1>11, <1>12, <1>13 DEF Next

LEMMA NextWork == TypeInv /\ [Next]_vars => Work'
<1> SUFFICES ASSUME TypeInv, [Next]_vars PROVE Work'
  OBVIOUS
<1>0. /\ Work /\ DOMAIN job = Keys /\ registered \subseteq repos /\ repos \subseteq Repo
      /\ NoJob.args \in Arguments
  <2>1. NoJob.args \in Arguments
    BY DEF NoJob
  <2> QED
    BY <2>1 DEF TypeInv, IndInv, JobOK, Disk
<1> USE DEF Work, Goto, Ends, Keys
<1>1. CASE determineInstallMode
  <2>1. PICK a \in Installs, h \in Homes, newer \in BOOLEAN :
          /\ h \in repos \cup {NoRepo} /\ Accepted(a, newer)
          /\ job' = [NoJob EXCEPT !.args = a, !.home = h, !.mode = ModeOf(a, newer),
                                  !.register = registered \cap repos]
    BY <1>1 DEF determineInstallMode
  <2>2. /\ job'.args = a /\ job'.home = h /\ job'.mode = ModeOf(a, newer)
        /\ job'.register = registered \cap repos /\ job'.visit = {} /\ job'.done = {}
    BY <2>1 DEF NoJob
  <2>3. a \in Arguments /\ ModeOf(a, newer) \in Mode
    BY <2>1, StartedJob DEF TypeInv, IndInv
  <2>4. repos' = repos
    BY <1>1 DEF determineInstallMode, disk
  <2> QED
    BY <1>0, <2>1, <2>2, <2>3, <2>4
<1>2. CASE runUninstall
  <2>1. PICK found \in SUBSET repos :
          job' = [NoJob EXCEPT !.visit = found, !.register = registered \cap repos]
    BY <1>2 DEF runUninstall
  <2>2. /\ job'.args = NoJob.args /\ job'.home = NoRepo /\ job'.mode = None
        /\ job'.register = registered \cap repos /\ job'.visit = found /\ job'.done = {}
    BY <2>1 DEF NoJob
  <2>3. repos' = repos
    BY <1>2 DEF runUninstall, disk
  <2> QED
    BY <1>0, <2>1, <2>2, <2>3 DEF Mode
<1>3. CASE setupInstallMode \/ setDirectoryForInstallMode \/ SetRunnerExecutableAlias
  BY <1>0, <1>3 DEF setupInstallMode, setDirectoryForInstallMode, SetRunnerExecutableAlias, disk
<1> DEFINE Same == /\ job'.args = job.args /\ job'.home = job.home /\ job'.mode = job.mode
                   /\ job'.register = job.register /\ job'.visit = job.visit
                   /\ job'.done = job.done /\ repos' = repos
<1>4. CASE BackupBinary \/ installBinaries \/ setupHookTemplates
  <2>1. CASE BackupBinary \/ setupHookTemplates
    BY <1>0, <2>1 DEF BackupBinary, setupHookTemplates
  <2>2. CASE installBinaries
    <3>1. \/ job' = [job EXCEPT !.copy = <<>>, !.todo = <<"alias", "runner">>]
          \/ job' = [job EXCEPT !.copy = Tail(job.copy)]
      BY <2>2 DEF installBinaries
    <3>2. repos' = repos
      BY <2>2 DEF installBinaries
    <3>3. Same
      BY <1>0, <3>1, <3>2
    <3> QED
      BY <1>0, <3>3
  <2> QED
    BY <1>4, <2>1, <2>2
<1>5. CASE SetMaintainedHooks
  <2>1. PICK found \in SUBSET repos : job' = [job EXCEPT !.visit = found]
    BY <1>5 DEF SetMaintainedHooks
  <2> QED
    BY <1>0, <1>5, <2>1 DEF SetMaintainedHooks, disk
<1>6. CASE installIntoRegisteredRepos \/ uninstallFromRegisteredRepos
  <2>1. \E visit \in SUBSET repos : job' = [job EXCEPT !.visit = visit]
    BY <1>0, <1>6 DEF installIntoRegisteredRepos, uninstallFromRegisteredRepos
  <2> QED
    BY <1>0, <1>6, <2>1 DEF installIntoRegisteredRepos, uninstallFromRegisteredRepos, disk
<1>7. CASE storeSettings \/ uninstalledRepos \/ cleanTemplateDir \/ cleanTemplateDirFails
  BY <1>0, <1>7 DEF storeSettings, uninstalledRepos, cleanTemplateDir, cleanTemplateDirFails, disk
<1>8. CASE cleanBinaries \/ cleanRegister \/ cleanHooksPath \/ cleanGitConfig
  <2>1. CASE cleanBinaries \/ cleanRegister
    BY <1>0, <2>1 DEF cleanBinaries, cleanRegister
  <2>2. CASE cleanHooksPath
    BY <1>0, <2>2 DEF cleanHooksPath, disk
  <2>3. CASE cleanGitConfig
    BY <1>0, <2>3 DEF cleanGitConfig, disk
  <2> QED
    BY <1>8, <2>1, <2>2, <2>3
<1>9. ASSUME NEW r \in Repo, InstallIntoRepo(r) \/ UninstallFromRepo(r)
      PROVE  Work'
  <2>1. r \in repos /\ repos' = repos
    BY <1>0, <1>9 DEF InstallIntoRepo, UninstallFromRepo
  <2>2. \/ job' = [job EXCEPT !.visit = job.visit \ {r}, !.done = job.done \cup {r},
                              !.register = job.register \cup {r}]
        \/ job' = [job EXCEPT !.visit = job.visit \ {r}, !.done = job.done \cup {r}]
    BY <1>9 DEF InstallIntoRepo, UninstallFromRepo
  <2>3. /\ job'.args = job.args /\ job'.home = job.home /\ job'.mode = job.mode
        /\ job'.register \subseteq job.register \cup {r} /\ job'.visit \subseteq job.visit
        /\ job'.done = job.done \cup {r}
    <3>1. CASE job' = [job EXCEPT !.visit = job.visit \ {r}, !.done = job.done \cup {r},
                                  !.register = job.register \cup {r}]
      BY <1>0, <3>1
    <3>2. CASE job' = [job EXCEPT !.visit = job.visit \ {r}, !.done = job.done \cup {r}]
      BY <1>0, <3>2
    <3> QED
      BY <2>2, <3>1, <3>2
  <2> QED
    BY <1>0, <2>1, <2>3
<1>10. CASE UserStep
  <2>1. job' = job /\ repos \subseteq repos'
    BY <1>10, UserSteps DEF UserStep, vars, disk, runInstallIntoRepo, runUninstallFromRepo,
       Here, GitInit, HookRun
  <2> QED
    BY <1>0, <2>1
<1>11. CASE Edit \/ Fail
  BY <1>0, <1>11 DEF Edit, Fail, disk
<1> QED
  BY <1>1, <1>2, <1>3, <1>4, <1>5, <1>6, <1>7, <1>8, <1>9, <1>10, <1>11 DEF Next, UserStep

LEMMA OneLeft ==
  ASSUME NEW S, NEW s \in Seq(S), Len(s) = 1
  PROVE  Tail(s) = <<>>
<1>1. s # <<>>
  BY EmptySeq
<1>2. Tail(s) \in Seq(S) /\ Len(Tail(s)) = 0
  BY <1>1, HeadTailProperties
<1> QED
  BY <1>2, EmptySeq

LEMMA NextLeft == TypeInv /\ [Next]_vars => Left'
<1> SUFFICES ASSUME TypeInv, [Next]_vars PROVE Left'
  OBVIOUS
<1>0. Left /\ DOMAIN job = Keys /\ IndInv /\ NoJob.todo = <<>>
  BY DEF TypeInv, IndInv, JobOK, NoJob
<1> DEFINE Ready == {"settings", "alias", "clean keys", "binaries"}
<1>1. ASSUME pc' \notin Ready, job'.todo = <<>> PROVE Left'
  BY <1>1 DEF Left
<1>2. ASSUME pc \notin Ready, pc' \notin Ready, job'.todo = job.todo PROVE Left'
  BY <1>0, <1>2 DEF Left
<1>3. CASE UNCHANGED <<pc, job>>
  BY <1>0, <1>3 DEF Left
<1>4. CASE determineInstallMode \/ runUninstall
  <2>1. pc' \in {"mode", "drop existing"} /\ job'.todo = <<>>
    BY <1>0, <1>4 DEF determineInstallMode, runUninstall, Goto, NoJob
  <2> QED
    BY <1>1, <2>1
<1>5. CASE setupInstallMode
  <2>1. pc' = "settings" \/ (pc' = "idle" /\ job'.todo = <<>>)
    BY <1>0, <1>5 DEF setupInstallMode, Goto, Ends, Keys
  <2> QED
    BY <1>1, <2>1 DEF Left
<1>6. CASE setDirectoryForInstallMode
  <2>1. PICK n \in 0 .. Len(Settings) - 1 :
           /\ Settings \in Seq(Setting)
           /\ pc' = IF n + 1 = Len(Settings) THEN "binaries" ELSE "settings"
           /\ job'.todo = SubSeq(Settings, n + 2, Len(Settings))
    BY <1>0, <1>6, SettingWritten
  <2>2. job'.copy = Binaries
    BY <1>0, <1>6 DEF setDirectoryForInstallMode, Goto, Keys
  <2>3. Binaries \in Copies
    BY DEF Binaries, Copies
  <2>4. n + 1 = Len(Settings) => job'.todo = <<>>
    <3> SUFFICES ASSUME n + 1 = Len(Settings) PROVE SubSeq(Settings, n + 2, Len(Settings)) = <<>>
      BY <2>1
    <3>1. Len(Settings) \in Nat
      BY <2>1, LenProperties
    <3>2. n + 2 = Len(Settings) + 1
      BY <3>1
    <3> QED
      BY <2>1, <3>1, <3>2, SubSeqEmpty
  <2> QED
    BY <2>1, <2>2, <2>3, <2>4 DEF Left
<1>7. CASE installBinaries
  <2>1. job.copy \in Copies /\ job.todo = <<>> /\ pc = "binaries"
    BY <1>0, <1>7 DEF installBinaries, Left
  <2>2. CASE Len(job.copy) = 1
    <3>1. pc' = "alias" /\ job'.todo = <<"alias", "runner">>
      BY <1>0, <1>7, <2>2 DEF installBinaries, Goto, Keys
    <3> QED
      BY <3>1 DEF Left
  <2>3. CASE Len(job.copy) # 1
    <3>1. pc' = "binaries" /\ job'.copy = Tail(job.copy) /\ job'.todo = <<>>
      BY <1>0, <1>7, <2>1, <2>3 DEF installBinaries, Goto, Keys
    <3>2. Tail(job.copy) \in Copies
      BY <2>1, <2>3, CopyNext
    <3> QED
      BY <3>1, <3>2 DEF Left
  <2> QED
    BY <2>2, <2>3
<1>8. CASE SetRunnerExecutableAlias
  <2>1. job.todo \in {<<"alias", "runner">>, <<"runner">>}
    BY <1>0, <1>8 DEF SetRunnerExecutableAlias, Left
  <2>2. /\ pc' = IF Len(job.todo) = 1 THEN "templates" ELSE "alias"
        /\ job'.todo = Tail(job.todo)
    BY <1>0, <1>8 DEF SetRunnerExecutableAlias, Goto, Keys
  <2>3. CASE job.todo = <<"alias", "runner">>
    <3>1. Len(job.todo) = 2 /\ Tail(job.todo) = <<"runner">>
      BY <2>3
    <3> QED
      BY <2>2, <3>1 DEF Left
  <2>4. CASE job.todo = <<"runner">>
    <3>1. Len(job.todo) = 1 /\ Tail(job.todo) = <<>>
      BY <2>4
    <3> QED
      BY <2>2, <3>1 DEF Left
  <2> QED
    BY <2>1, <2>3, <2>4
<1>9. CASE \/ setupHookTemplates \/ SetMaintainedHooks \/ installIntoRegisteredRepos
           \/ uninstallFromRegisteredRepos \/ uninstalledRepos
           \/ cleanTemplateDir \/ cleanTemplateDirFails \/ cleanBinaries \/ cleanRegister
  <2>1. pc \notin Ready /\ pc' \notin Ready /\ job'.todo = job.todo
    BY <1>0, <1>9 DEF setupHookTemplates, SetMaintainedHooks, installIntoRegisteredRepos,
       uninstallFromRegisteredRepos, uninstalledRepos, cleanTemplateDir,
       cleanTemplateDirFails, cleanBinaries, cleanRegister, Goto, Keys
  <2> QED
    BY <1>2, <2>1
<1>10. ASSUME NEW r \in Repo, InstallIntoRepo(r) \/ UninstallFromRepo(r)
       PROVE  Left'
  <2>1. pc \notin Ready /\ pc' \notin Ready /\ job'.todo = job.todo
    BY <1>0, <1>10 DEF InstallIntoRepo, UninstallFromRepo, Goto, Keys
  <2> QED
    BY <1>2, <2>1
<1>11. CASE storeSettings \/ Fail
  <2>1. pc' = "idle" /\ job'.todo = <<>>
    BY <1>0, <1>11 DEF storeSettings, Fail, Ends, Keys
  <2> QED
    BY <1>1, <2>1
<1>12. CASE cleanHooksPath
  BY <1>12 DEF cleanHooksPath, Goto, Left
<1>13. CASE cleanGitConfig
  <2>1. pc' = "clean keys" \/ (pc' = "idle" /\ job'.todo = <<>>)
    BY <1>0, <1>13 DEF cleanGitConfig, Goto, Ends, Keys
  <2> QED
    BY <1>1, <2>1 DEF Left
<1>14. CASE UserStep \/ BackupBinary \/ Edit
  BY <1>3, <1>14, UserSteps DEF BackupBinary, Edit
<1> QED
  BY <1>4, <1>5, <1>6, <1>7, <1>8, <1>9, <1>10, <1>11, <1>12, <1>13, <1>14 DEF Next, UserStep

LEMMA NextType == TypeInv /\ [Next]_vars => TypeInv'
BY NextInv, NextDisk, NextWork, NextHistory, NextLeft DEF TypeInv

\* The types of InstallMode: only the steps that need them have settings,
\* executables or repositories left to do, and what is chosen or searched exists.
LEMMA TypeInvTypes == TypeInv => TypeOK
<1> SUFFICES ASSUME TypeInv PROVE TypeOK
  OBVIOUS
<1>1. pc = "settings" => job.todo # <<>>
  <2> SUFFICES ASSUME pc = "settings" PROVE job.todo # <<>>
    OBVIOUS
  <2>1. PICK n \in 0 .. Len(Settings) - 1 : job.todo = SubSeq(Settings, n + 1, Len(Settings))
    BY DEF TypeInv, IndInv, Writing
  <2>2. Settings \in Seq(Setting)
    BY SettingsType DEF Settings, TypeInv, IndInv, JobOK, ConfOK, InstallSteps
  <2>3. Len(job.todo) = Len(Settings) - n /\ Len(Settings) \in Nat
    BY <2>1, <2>2, RestOf, LenProperties
  <2>4. Len(job.todo) # 0
    <3>1. n \in Int /\ n <= Len(Settings) - 1
      BY <2>1, <2>3
    <3> QED
      BY <2>3, <3>1, SMT
  <2> QED
    BY <2>4, EmptySeq
<1>2. pc \in {"alias", "clean keys"} => job.todo # <<>>
  BY DEF TypeInv, IndInv, TodoOK
<1>3. pc = "binaries" => job.copy # <<>>
  <2>1. \A copy \in Copies : copy # <<>>
    BY DEF Copies
  <2> QED
    BY <2>1 DEF TypeInv, Left
<1>4. pc \notin {"settings", "alias", "clean keys"} => job.todo = <<>>
  BY DEF TypeInv, Left
<1>5. ConfOK /\ JobOK /\ Disk /\ Work /\ History
  BY DEF TypeInv, IndInv
<1>6. pc \in {"settings", "alias", "clean keys"} <=> job.todo # <<>>
  BY <1>1, <1>2, <1>4
<1> QED
  BY <1>3, <1>5, <1>6 DEF TypeOK, ConfOK, JobOK, Disk, Work, History

-------------------------------------------------------------------------------
\* Run-wrappers and the runner.
All == {"cli", "runner", "dialog"}

Installed == {"templates", "maintained", "existing", "registered"}
Cleaned == {"clean binaries", "clean register", "clean hooksPath", "clean keys"}

\* There are no run-wrappers but those that were missed.
Unreached == /\ \A d \in Dir : wrappers[d] # {} => d \in missed
             /\ \A r \in repos : inRepo[r] # {} => r \in missed

\* The uninstaller finds every other directory that has some.
Findable == \A d \in Dir : wrappers[d] # {} => d \in missed \cup {Found}

\* All executables are there, but for one that is just exchanged.
Exchanging == pc = "binaries" /\ bin \cup {job.copy[1]} = All

Whole == Exchanging \/ (pc # "binaries" /\ bin = All)

Executables ==
  /\ pc # "binaries" => bin \in {{}, All}
  /\ pc = "binaries" => Exchanging \/ bin = All \ Range(job.copy)
  /\ pc \in Installed \cup {"alias"} => bin = All
  /\ pc \in Installed => conf.runner
  /\ pc \in Cleaned \ {"clean binaries"} => bin = {}

\* The last two fields of the configuration belong together while the CLI works.
Aliased == Whole /\ "dialog" \in bin /\ pc # "alias" /\ conf.alias => conf.runner

RunnerInv ==
  ~torn => /\ Executables /\ Aliased /\ Findable
           /\ ~(Whole /\ conf.runner) => Unreached
           /\ pc \in Cleaned => Unreached
           /\ GetInstallMode = None => Unreached /\ bin = {}

LEMMA InitRunner == Init => RunnerInv
<1> SUFFICES ASSUME Init PROVE RunnerInv
  OBVIOUS
<1>1. Unreached /\ Findable
  BY DEF Init, Unreached, Findable
<1>2. pc = "idle" /\ bin = {} /\ All # {}
  BY DEF Init, All
<1>3. Executables /\ ~Whole
  BY <1>2 DEF Executables, Whole, Exchanging, Installed, Cleaned
<1> QED
  BY <1>1, <1>2, <1>3 DEF RunnerInv, Aliased

\* Steps that leave no new run-wrappers.
LEMMA UnreachedKept ==
  ASSUME Unreached, repos' = repos, missed \subseteq missed',
         \A d \in Dir : wrappers'[d] # {} => wrappers[d] # {},
         \A r \in repos : inRepo'[r] # {} => inRepo[r] # {}
  PROVE  Unreached'
BY DEF Unreached

LEMMA FindableKept ==
  ASSUME Findable, wrappers' = wrappers, missed \subseteq missed',
         Found' = Found \/ Abandoned \subseteq missed'
  PROVE  Findable'
<1> SUFFICES ASSUME NEW d \in Dir, wrappers[d] # {} PROVE d \in missed' \cup {Found'}
  BY DEF Findable
<1>1. d \in missed \/ d = Found
  BY DEF Findable
<1>2. d = Found => d = Found' \/ d \in Abandoned
  BY DEF Abandoned
<1> QED
  BY <1>1, <1>2

LEMMA ModeAndDirs ==
  ASSUME SameMode, SameDirs
  PROVE  Found' = Found /\ GetInstallMode' = GetInstallMode
BY DEF SameMode, SameDirs, Found, FindHookTemplateDir, GetInstallMode, CheckTemplateDir

\* Nothing is installed any more.
LEMMA NothingLeft ==
  ASSUME Unreached', bin' = {}, pc' \notin Installed \cup {"binaries", "alias"}
  PROVE  RunnerInv'
<1>1. All # {}
  BY DEF All
<1>2. Executables' /\ ~Whole'
  BY <1>1 DEF Executables, Whole, Exchanging
<1>3. Findable'
  BY DEF Unreached, Findable
<1> QED
  BY <1>2, <1>3 DEF RunnerInv, Aliased

\* Everything is installed.
LEMMA EverythingThere ==
  ASSUME bin' = All, conf'.runner, Findable', pc' \notin Cleaned \cup {"binaries"},
         GetInstallMode' # None
  PROVE  RunnerInv'
BY DEF RunnerInv, Executables, Aliased, Whole

\* The executables stay as they are, and run-wrappers do not become more.
LEMMA Undisturbed ==
  ASSUME RunnerInv, ~torn, bin' = bin, conf'.alias = conf.alias, conf'.runner = conf.runner,
         Unreached => Unreached', Findable',
         pc \notin {"binaries", "alias"}, pc' \notin {"binaries", "alias"},
         pc' \in Installed => pc \in Installed,
         pc' \in Cleaned => pc \in Cleaned \/ Unreached',
         pc' \in Cleaned \ {"clean binaries"} => pc \in Cleaned \ {"clean binaries"},
         GetInstallMode' = None => GetInstallMode = None
  PROVE  RunnerInv'
<1>1. Whole' <=> Whole
  BY DEF Whole, Exchanging
<1>2. Executables' /\ Aliased'
  BY <1>1 DEF RunnerInv, Executables, Aliased
<1> QED
  BY <1>1, <1>2 DEF RunnerInv

LEMMA CopyRanges ==
  /\ Range(Binaries) = All
  /\ \A copy \in Copies :
       \/ copy[1] = "cli" /\ Len(copy) = 3 /\ Range(copy) = All
          /\ Range(Tail(copy)) = {"runner", "dialog"}
       \/ copy[1] = "runner" /\ Len(copy) = 2 /\ Range(copy) = {"runner", "dialog"}
          /\ Range(Tail(copy)) = {"dialog"}
       \/ copy[1] = "dialog" /\ Len(copy) = 1 /\ Range(copy) = {"dialog"}
<1> DEFINE three == <<"cli", "runner", "dialog">>
           two == <<"runner", "dialog">>
           one == <<"dialog">>
<1>1. Range(three) = All
  <2>1. DOMAIN three = 1 .. 3 /\ three[1] = "cli" /\ three[2] = "runner" /\ three[3] = "dialog"
    OBVIOUS
  <2> QED
    BY <2>1 DEF Range, All
<1>2. Range(two) = {"runner", "dialog"}
  <2>1. DOMAIN two = 1 .. 2 /\ two[1] = "runner" /\ two[2] = "dialog"
    OBVIOUS
  <2> QED
    BY <2>1 DEF Range
<1>3. Range(one) = {"dialog"}
  <2>1. DOMAIN one = 1 .. 1 /\ one[1] = "dialog"
    OBVIOUS
  <2> QED
    BY <2>1 DEF Range
<1>4. /\ Len(three) = 3 /\ Len(two) = 2 /\ Len(one) = 1
      /\ three[1] = "cli" /\ two[1] = "runner" /\ one[1] = "dialog"
      /\ Tail(three) = two /\ Tail(two) = one
  OBVIOUS
<1>5. Binaries = three /\ Copies = {three, two, one}
  BY DEF Binaries, Copies
<1> HIDE DEF three, two, one
<1> QED
  BY <1>1, <1>2, <1>3, <1>4, <1>5

\* One executable after the other is installed or exchanged.
LEMMA BinariesRunner ==
  ASSUME TypeInv, RunnerInv, ~torn, BackupBinary \/ installBinaries
  PROVE  RunnerInv'
<1> DEFINE c == job.copy[1]
<1>0. /\ pc = "binaries" /\ job.copy \in Copies /\ DOMAIN job = Keys
      /\ bin \subseteq All
      /\ Executables /\ Aliased /\ Findable
      /\ ~(Whole /\ conf.runner) => Unreached
  <2>1. pc = "binaries"
    BY DEF BackupBinary, installBinaries
  <2> QED
    BY <2>1, CopyRanges DEF TypeInv, IndInv, JobOK, Left, Disk, RunnerInv
<1>1. /\ GetInstallMode' # None /\ Found' = Found /\ missed' = missed /\ conf' = conf
      /\ UNCHANGED <<wrappers, repos, inRepo>>
  <2>1. /\ UNCHANGED <<conf, missed, wrappers, repos, inRepo>>
    BY DEF BackupBinary, installBinaries, git, history
  <2>2. LateStep
    BY DEF LateStep
  <2>3. SameMode /\ SameDirs /\ pc \in Late
    BY <2>2, LateSteps DEF TypeInv
  <2>4. GetInstallMode # None
    BY <2>3 DEF TypeInv, IndInv, Configured, Chosen, Late
  <2> QED
    BY <2>1, <2>3, <2>4, ModeAndDirs
<1>2. Findable' /\ (Unreached => Unreached')
  BY <1>0, <1>1, FindableKept, UnreachedKept
<1>3. c \in {"cli", "runner", "dialog"}
  BY <1>0, CopyRanges
<1>4. CASE BackupBinary
  <2>1. bin' = bin \ {c} /\ c \in bin /\ pc' = pc /\ job' = job
    BY <1>4 DEF BackupBinary
  <2>2. c \in Range(job.copy)
    BY <1>0, CopyRanges DEF All
  <2>3. bin = All
    BY <1>0, <1>3, <2>1, <2>2 DEF Executables, Exchanging
  <2>4. Exchanging'
    BY <1>0, <1>3, <2>1, <2>3 DEF Exchanging, All
  <2>5. Whole /\ Whole'
    BY <1>0, <1>3, <2>3, <2>4 DEF Whole, Exchanging, All
  <2>6. Executables' /\ Aliased'
    BY <1>0, <1>1, <2>1, <2>4, <2>5 DEF Executables, Aliased, Installed, Cleaned
  <2>7. pc' \notin Cleaned
    BY <1>0, <2>1 DEF Cleaned
  <2> QED
    BY <1>0, <1>1, <1>2, <2>5, <2>6, <2>7 DEF RunnerInv
<1>5. CASE installBinaries
  <2>1. bin' = bin \cup {c} /\ c \notin bin
    BY <1>5 DEF installBinaries
  <2>2. pc' = IF Len(job.copy) = 1 THEN "alias" ELSE "binaries"
    BY <1>5 DEF installBinaries, Goto
  <2>3. Len(job.copy) # 1 => job'.copy = Tail(job.copy) /\ job'.copy[1] \in All
    <3>1. Len(job.copy) # 1 => job'.copy = Tail(job.copy)
      BY <1>0, <1>5 DEF installBinaries, Goto, Keys
    <3> QED
      BY <1>0, <3>1, CopyNext, CopyRanges
  <2>4. pc' \notin Installed \cup Cleaned /\ pc' # "idle"
    BY <2>2 DEF Installed, Cleaned
  <2>5. CASE Exchanging
    <3>1. Whole /\ bin' = All
      BY <2>1, <2>5 DEF Whole, Exchanging
    <3>2. Executables' /\ Whole'
      BY <2>2, <2>3, <2>4, <3>1 DEF Executables, Whole, Exchanging
    <3>3. Aliased'
      <4>1. CASE Len(job.copy) = 1
        BY <2>2, <4>1 DEF Aliased
      <4>2. CASE Len(job.copy) # 1
        <5>1. c # "dialog" /\ "dialog" \in All
          BY <1>0, <4>2, CopyRanges DEF All
        <5>2. "dialog" \in bin
          BY <2>1, <3>1, <5>1
        <5> QED
          BY <1>0, <1>1, <3>1, <5>2 DEF Aliased
      <4> QED
        BY <4>1, <4>2
    <3> QED
      BY <1>0, <1>1, <1>2, <2>4, <3>1, <3>2, <3>3 DEF RunnerInv
  <2>6. CASE ~Exchanging
    <3>1. ~Whole /\ bin = All \ Range(job.copy) /\ Unreached
      BY <1>0, <2>6 DEF Whole, Executables
    <3>2. Len(job.copy) # 1
      <4> SUFFICES ASSUME Len(job.copy) = 1 PROVE FALSE
        OBVIOUS
      <4>1. c = "dialog" /\ bin = All \ {"dialog"}
        BY <1>0, <3>1, CopyRanges
      <4>2. bin \cup {c} = All
        BY <4>1 DEF All
      <4> QED
        BY <1>0, <2>6, <4>2 DEF Exchanging
    <3>3. bin' = All \ Range(Tail(job.copy)) /\ "dialog" \notin bin'
      <4>1. \/ c = "cli" /\ bin = All \ All /\ Range(Tail(job.copy)) = {"runner", "dialog"}
            \/ c = "runner" /\ bin = All \ {"runner", "dialog"}
               /\ Range(Tail(job.copy)) = {"dialog"}
        BY <1>0, <3>1, <3>2, CopyRanges
      <4> QED
        BY <2>1, <4>1 DEF All
    <3>4. Executables' /\ Aliased'
      BY <2>2, <2>3, <2>4, <3>2, <3>3 DEF Executables, Aliased
    <3> QED
      BY <1>1, <1>2, <2>4, <3>1, <3>4 DEF RunnerInv
  <2> QED
    BY <2>5, <2>6
<1> QED
  BY <1>4, <1>5

LEMMA LateRunner ==
  ASSUME TypeInv, RunnerInv, ~torn, LateStep
  PROVE  RunnerInv'
<1>0. /\ SameMode /\ SameDirs /\ pc \in Late /\ pc' \in Late /\ DOMAIN job = Keys
      /\ job.dir \in present /\ present \subseteq Dir
  BY LateSteps DEF TypeInv, IndInv, ConfOK, JobOK, Configured, Chosen, Late
<1>1. Found' = Found /\ GetInstallMode' = GetInstallMode /\ GetInstallMode # None
  <2>1. GetInstallMode # None
    BY <1>0 DEF TypeInv, IndInv, Configured, Chosen, Late
  <2> QED
    BY <1>0, <2>1, ModeAndDirs
<1>2. Executables /\ Aliased /\ Findable /\ (~(Whole /\ conf.runner) => Unreached)
  BY DEF RunnerInv
<1>3. CASE BackupBinary \/ installBinaries
  BY <1>3, BinariesRunner
<1>4. CASE SetRunnerExecutableAlias
  <2>1. /\ pc = "alias" /\ UNCHANGED <<wrappers, bin, repos, inRepo, missed>>
        /\ pc' = IF Len(job.todo) = 1 THEN "templates" ELSE "alias"
        /\ conf' = [conf EXCEPT ![job.todo[1]] = TRUE]
    BY <1>4 DEF SetRunnerExecutableAlias, Goto, disk, history
  <2>2. bin' = All
    BY <1>2, <2>1 DEF Executables
  <2>3. Findable' /\ (Unreached => Unreached')
    BY <1>1, <1>2, <2>1, FindableKept, UnreachedKept
  <2>4. job.todo \in {<<"alias", "runner">>, <<"runner">>}
    BY <2>1 DEF TypeInv, Left
  <2>5. CASE job.todo = <<"runner">>
    <3>0. job.todo[1] = "runner" /\ Len(job.todo) = 1
      BY <2>5
    <3>1. conf'.runner = TRUE /\ pc' = "templates"
      BY <2>1, <3>0 DEF TypeInv, IndInv, ConfOK, Config
    <3> QED
      BY <1>1, <2>2, <2>3, <3>1, EverythingThere DEF Cleaned
  <2>6. CASE job.todo = <<"alias", "runner">>
    <3>0. job.todo[1] = "alias" /\ Len(job.todo) = 2
      BY <2>6
    <3>1. conf'.runner = conf.runner /\ pc' = "alias"
      <4>1. conf' = [conf EXCEPT !["alias"] = TRUE] /\ pc' = "alias"
        BY <2>1, <3>0
      <4> QED
        BY <4>1
    <3>2. Executables' /\ Aliased'
      BY <2>2, <3>1 DEF Executables, Aliased, Installed, Cleaned
    <3>3. Whole
      BY <2>1, <2>2 DEF Whole
    <3>4. pc' \notin Cleaned
      BY <3>1 DEF Cleaned
    <3>5. conf.runner \/ Unreached
      BY <1>2
    <3>6. Whole'
      BY <2>2, <3>1 DEF Whole
    <3> QED
      BY <1>1, <2>3, <3>1, <3>2, <3>4, <3>5, <3>6 DEF RunnerInv
  <2> QED
    BY <2>4, <2>5, <2>6
<1>5. ASSUME pc \in Installed, pc' \in Installed, bin' = bin, conf'.runner = conf.runner, Findable'
      PROVE  RunnerInv'
  <2>1. bin = All /\ conf.runner
    BY <1>2, <1>5 DEF Executables
  <2>2. pc' \notin Cleaned \cup {"binaries"}
    BY <1>5 DEF Installed, Cleaned
  <2> QED
    BY <1>1, <1>5, <2>1, <2>2, EverythingThere
<1>6. CASE setupHookTemplates
  <2>1. /\ wrappers' = [wrappers EXCEPT ![job.dir] = UnwrapHookNames(Selected)]
        /\ missed' = missed \cup ({job.dir} \ {Found})
        /\ pc \in Installed /\ pc' \in Installed /\ bin' = bin /\ conf' = conf
    BY <1>6 DEF setupHookTemplates, Goto, Installed, git
  <2>2. Findable'
    <3> SUFFICES ASSUME NEW d \in Dir, wrappers'[d] # {} PROVE d \in missed' \cup {Found'}
      BY DEF Findable
    <3>1. CASE d = job.dir
      BY <1>1, <2>1, <3>1
    <3>2. CASE d # job.dir
      <4>1. wrappers'[d] = wrappers[d]
        BY <2>1, <3>2 DEF TypeInv, Disk
      <4> QED
        BY <1>1, <1>2, <2>1, <4>1 DEF Findable
    <3> QED
      BY <3>1, <3>2
  <2> QED
    BY <1>5, <2>1, <2>2
<1>7. CASE SetMaintainedHooks \/ installIntoRegisteredRepos
  <2>1. /\ UNCHANGED <<wrappers, bin, missed>> /\ pc \in Installed /\ pc' \in Installed
    BY <1>7 DEF SetMaintainedHooks, installIntoRegisteredRepos, Goto, Installed, disk, history
  <2>2. conf'.runner = conf.runner
    BY <1>7 DEF SetMaintainedHooks, installIntoRegisteredRepos, git, TypeInv, IndInv, ConfOK, Config
  <2> QED
    BY <1>1, <1>2, <1>5, <2>1, <2>2, FindableKept
<1>8. ASSUME NEW r \in Repo, InstallIntoRepo(r) PROVE RunnerInv'
  <2>1. /\ UNCHANGED <<wrappers, bin, missed, conf>> /\ pc \in Installed /\ pc' \in Installed
    BY <1>8 DEF InstallIntoRepo, Goto, Installed, git, history
  <2> QED
    BY <1>1, <1>2, <1>5, <2>1, FindableKept
<1> QED
  BY <1>3, <1>4, <1>6, <1>7, <1>8 DEF LateStep

\* Git and hooks act at any time.
LEMMA Standing ==
  ASSUME RunnerInv, ~torn, UNCHANGED <<pc, job, bin, conf, envDir, present, wrappers>>,
         missed \subseteq missed', Unreached => Unreached'
  PROVE  RunnerInv'
<1>1. Found' = Found /\ GetInstallMode' = GetInstallMode
  BY DEF Found, FindHookTemplateDir, GetInstallMode, CheckTemplateDir
<1>2. Findable'
  BY <1>1, FindableKept DEF RunnerInv
<1>3. (Whole' <=> Whole) /\ Executables' /\ Aliased'
  BY DEF RunnerInv, Whole, Exchanging, Executables, Aliased
<1> QED
  BY <1>1, <1>2, <1>3 DEF RunnerInv

LEMMA UserRunner ==
  ASSUME TypeInv, RunnerInv, ~torn, UserStep
  PROVE  RunnerInv'
<1>0. TemplateOfGit \in Dir \cup {NoDir} /\ Disk
  BY FoundType DEF TypeInv, IndInv, ConfOK
<1>1. UNCHANGED <<conf, envDir, present, pc, job>>
  BY UserSteps
<1>2. CASE UNCHANGED vars
  BY <1>1, <1>2, Standing, UnreachedKept DEF vars, disk, history
<1>3. ASSUME NEW r \in Repo, runInstallIntoRepo(r) PROVE RunnerInv'
  <2>1. pc = "idle" /\ CliWorks /\ UNCHANGED <<wrappers, bin, missed>>
    BY <1>3 DEF runInstallIntoRepo, Here
  <2>2. bin = All /\ GetInstallMode # None
    BY <2>1 DEF RunnerInv, Executables, CliWorks
  <2>3. conf.runner
    BY <2>1, <2>2 DEF RunnerInv, Aliased, Whole, CliWorks, All
  <2>4. Found' = Found /\ GetInstallMode' = GetInstallMode
    BY <1>1 DEF Found, FindHookTemplateDir, GetInstallMode, CheckTemplateDir
  <2>5. Findable'
    BY <2>1, <2>4, FindableKept DEF RunnerInv
  <2> QED
    BY <1>1, <2>1, <2>2, <2>3, <2>4, <2>5, EverythingThere DEF Cleaned
<1>4. ASSUME NEW r \in Repo, runUninstallFromRepo(r) PROVE RunnerInv'
  <2>1. /\ UNCHANGED <<wrappers, bin, missed, repos>>
        /\ inRepo' = [inRepo EXCEPT ![r] = {}]
    BY <1>4 DEF runUninstallFromRepo, Here
  <2>2. Unreached => Unreached'
    BY <1>0, <2>1, UnreachedKept DEF Disk
  <2> QED
    BY <1>1, <2>1, <2>2, Standing
<1>5. ASSUME NEW r \in Repo, GitInit(r) PROVE RunnerInv'
  <2>1. /\ UNCHANGED <<wrappers, bin>> /\ repos' = repos \cup {r} /\ r \notin repos
        /\ inRepo' = [inRepo EXCEPT ![r] =
                        IF TemplateOfGit = NoDir THEN {} ELSE wrappers[TemplateOfGit]]
        /\ missed' = missed \cup IF TemplateOfGit \in missed THEN {r} ELSE {}
    BY <1>5 DEF GitInit
  <2>2. ASSUME Unreached PROVE Unreached'
    <3>1. inRepo'[r] # {} => r \in missed'
      BY <1>0, <2>1, <2>2 DEF Unreached, Disk
    <3>2. \A q \in repos : inRepo'[q] = inRepo[q]
      BY <1>0, <2>1 DEF Disk
    <3> QED
      BY <2>1, <2>2, <3>1, <3>2 DEF Unreached
  <2> QED
    BY <1>1, <2>1, <2>2, Standing
<1>6. ASSUME NEW r \in Repo, HookRun(r) PROVE RunnerInv'
  <2>1. UNCHANGED <<wrappers, bin, missed, repos, inRepo>>
    BY <1>6 DEF HookRun, history
  <2> QED
    BY <1>1, <2>1, Standing, UnreachedKept
<1> QED
  BY <1>2, <1>3, <1>4, <1>5, <1>6 DEF UserStep

\* Steps that only begin or end something, or remove run-wrappers from a repository.
LEMMA QuietRunner ==
  ASSUME TypeInv, RunnerInv, ~torn,
         \/ determineInstallMode \/ storeSettings \/ runUninstall
         \/ uninstallFromRegisteredRepos \/ uninstalledRepos
         \/ \E r \in Repo : UninstallFromRepo(r)
  PROVE  RunnerInv'
<1>1. /\ UNCHANGED <<conf, envDir, present, wrappers, bin, repos, missed>>
      /\ \A r \in repos : inRepo'[r] # {} => inRepo[r] # {}
  <2>1. CASE \E r \in Repo : UninstallFromRepo(r)
    BY <2>1 DEF UninstallFromRepo, git, history, TypeInv, Disk
  <2>2. CASE determineInstallMode \/ runUninstall
    BY <2>2 DEF determineInstallMode, runUninstall, git, disk
  <2>3. CASE storeSettings \/ uninstallFromRegisteredRepos \/ uninstalledRepos
    BY <2>3 DEF storeSettings, uninstallFromRegisteredRepos, uninstalledRepos, git, disk, history
  <2> QED
    BY <2>1, <2>2, <2>3
<1>2. /\ pc \in {"idle", "registered", "drop existing", "drop registered"}
      /\ pc' \in {"mode", "idle", "drop existing", "drop registered", "clean template"}
  <2>1. CASE \E r \in Repo : UninstallFromRepo(r)
    BY <2>1 DEF UninstallFromRepo, Goto
  <2>2. CASE determineInstallMode \/ runUninstall
    BY <2>2 DEF determineInstallMode, runUninstall, Begin, Goto
  <2>3. CASE storeSettings \/ uninstallFromRegisteredRepos \/ uninstalledRepos
    BY <2>3 DEF storeSettings, uninstallFromRegisteredRepos, uninstalledRepos, Goto, Ends
  <2> QED
    BY <2>1, <2>2, <2>3
<1>3. Found' = Found /\ GetInstallMode' = GetInstallMode
  BY <1>1 DEF Found, FindHookTemplateDir, GetInstallMode, CheckTemplateDir
<1>4. Findable'
  BY <1>1, <1>3, FindableKept DEF RunnerInv
<1>5. Unreached => Unreached'
  BY <1>1, UnreachedKept
<1>6. pc' \notin Installed \cup Cleaned
  BY <1>2 DEF Installed, Cleaned
<1> QED
  BY <1>1, <1>2, <1>3, <1>4, <1>5, <1>6, Undisturbed

\* A directory is created only where nothing is installed.
LEMMA SetupRunner ==
  ASSUME TypeInv, RunnerInv, ~torn, setupInstallMode
  PROVE  RunnerInv'
<1>1. /\ pc = "mode" /\ pc' \in {"settings", "idle"}
      /\ UNCHANGED <<conf, envDir, wrappers, bin, repos, inRepo, missed>>
  BY DEF setupInstallMode, Goto, Ends, disk
<1>2. GetInstallMode' = GetInstallMode
  BY <1>1 DEF GetInstallMode
<1>3. Unreached => Unreached'
  BY <1>1, UnreachedKept
<1>4. CASE GetInstallMode = None
  <2>1. Unreached'
    BY <1>3, <1>4 DEF RunnerInv
  <2> QED
    BY <1>1, <1>2, <2>1, Undisturbed DEF Installed, Cleaned, Unreached, Findable
<1>5. CASE GetInstallMode # None
  <2>1. job.mode \in Mode
    BY DEF TypeInv, Work
  <2>2. HookTemplateDirs(job.args, job.mode) \subseteq present
    BY <1>5, <2>1, FoundType DEF HookTemplateDirs, FindOrChoose, TypeInv
  <2>3. present' = present
    <3>1. \/ present' = present
          \/ \E d \in HookTemplateDirs(job.args, job.mode) : present' = present \cup {d}
      BY DEF setupInstallMode, MkdirAll
    <3>2. \A d \in present : present \cup {d} = present
      OBVIOUS
    <3> QED
      BY <2>2, <3>1, <3>2
  <2>4. Found' = Found
    BY <1>1, <1>2, <2>3 DEF Found, FindHookTemplateDir, CheckTemplateDir
  <2>5. Findable'
    BY <1>1, <2>4, FindableKept DEF RunnerInv
  <2> QED
    BY <1>1, <1>2, <1>3, <2>5, Undisturbed DEF Installed, Cleaned
<1> QED
  BY <1>4, <1>5

\* The mode is known from the first setting on, and its directory is not lost.
LEMMA SettingsRunner ==
  ASSUME TypeInv, RunnerInv, ~torn, setDirectoryForInstallMode
  PROVE  RunnerInv'
<1>1. PICK n \in 0 .. Len(Settings) - 1 :
        /\ Settings \in Seq(Setting)
        /\ Wrote(n)
        /\ conf' = [conf EXCEPT ![Settings[n + 1][1]] = Settings[n + 1][2]]
        /\ pc' = IF n + 1 = Len(Settings) THEN "binaries" ELSE "settings"
        /\ job'.mode = job.mode /\ job'.dir = job.dir
  BY SettingWritten DEF TypeInv
<1>2. /\ pc = "settings" /\ UNCHANGED <<wrappers, bin, repos, inRepo>>
      /\ missed' = missed \cup Abandoned /\ job'.copy = Binaries
  BY DEF setDirectoryForInstallMode, Goto, disk, TypeInv, IndInv, JobOK, Keys
<1>3. Len(Settings) \in Nat /\ n \in Nat /\ n + 1 \in 1 .. Len(Settings)
  <2>1. Len(Settings) \in Nat
    BY <1>1, LenProperties
  <2> QED
    BY <1>1, <2>1
<1>4. GetInstallMode' # None
  <2>1. Wrote(n + 1)'
    BY <1>1, WroteOne DEF TypeInv
  <2>2. 1 \in 1 .. n + 1
    BY <1>3
  <2>3. conf'[Settings'[1][1]] = Settings'[1][2]
    BY <2>1, <2>2 DEF Wrote
  <2>4. job.mode \in Mode \ {None}
    BY <1>2 DEF TypeInv, IndInv, JobOK, InstallSteps
  <2>5. Settings'[1] \in {<<"useCoreHooksPath", "true">>, <<"useCoreHooksPath", "false">>}
    BY <1>1, <2>4 DEF Settings, SettingsFor, Mode
  <2>6. conf'.useCoreHooksPath \in {"true", "false"}
    BY <2>3, <2>5
  <2> QED
    BY <2>6 DEF GetInstallMode, None
<1>5. conf'.alias = conf.alias /\ conf'.runner = conf.runner
  <2>1. Settings[n + 1] \in Setting
    BY <1>1, <1>3, ElementOfSeq
  <2>2. Settings[n + 1][1] \notin {"alias", "runner"}
    BY <2>1 DEF Setting
  <2> QED
    BY <1>1, <2>2 DEF TypeInv, IndInv, ConfOK, Config
<1>6. Findable' /\ (Unreached => Unreached')
  BY <1>2, FindableKept, UnreachedKept DEF RunnerInv
<1>7. CASE pc' = "settings"
  BY <1>2, <1>4, <1>5, <1>6, <1>7, Undisturbed DEF Installed, Cleaned
<1>8. CASE pc' = "binaries"
  <2>1. bin \in {{}, All}
    BY <1>2 DEF RunnerInv, Executables
  <2>2. job'.copy[1] \in All /\ Range(job'.copy) = All /\ {job'.copy[1]} # All
    <3>1. Binaries[1] = "cli"
      BY DEF Binaries
    <3>2. {"cli"} # All /\ "cli" \in All
      <4>1. "runner" \in All /\ "cli" \in All
        BY DEF All
      <4>2. "runner" \notin {"cli"}
        OBVIOUS
      <4> QED
        BY <4>1, <4>2
    <3> QED
      BY <1>2, <3>1, <3>2, CopyRanges
  <2>3. Whole' <=> Whole
    <3>1. {} \cup {job'.copy[1]} # All /\ {} # All
      BY <2>2 DEF All
    <3>2. All \cup {job'.copy[1]} = All
      BY <2>2
    <3>3. Whole <=> bin = All
      BY <1>2 DEF Whole, Exchanging
    <3>4. Whole' <=> bin \cup {job'.copy[1]} = All
      BY <1>2, <1>8 DEF Whole, Exchanging
    <3>5. CASE bin = All
      BY <3>2, <3>3, <3>4, <3>5
    <3>6. CASE bin = {}
      BY <3>1, <3>3, <3>4, <3>6
    <3> QED
      BY <2>1, <3>5, <3>6
  <2>4. Executables'
    BY <1>2, <1>8, <2>1, <2>2 DEF Executables, Exchanging, Installed, Cleaned
  <2>5. Aliased'
    BY <1>2, <1>5, <2>3 DEF RunnerInv, Aliased
  <2>6. pc' \notin Cleaned
    BY <1>8 DEF Cleaned
  <2> QED
    BY <1>4, <1>5, <1>6, <2>3, <2>4, <2>5, <2>6 DEF RunnerInv
<1> QED
  BY <1>1, <1>7, <1>8

\* The uninstaller leaves no run-wrappers, but in what it misses, before it removes the
\* executables.
LEMMA CleaningRunner ==
  ASSUME TypeInv, RunnerInv, ~torn,
         \/ cleanTemplateDir \/ cleanTemplateDirFails \/ cleanBinaries
         \/ cleanRegister \/ cleanHooksPath \/ cleanGitConfig
  PROVE  RunnerInv'
<1>0. Found \in Dir \cup {NoDir} /\ Disk
  BY FoundType DEF TypeInv, IndInv, ConfOK
<1>1. CASE cleanTemplateDir \/ cleanTemplateDirFails
  <2>1. /\ pc = "clean template" /\ pc' = "clean binaries"
        /\ UNCHANGED <<conf, envDir, present, bin, repos, inRepo>>
    BY <1>1 DEF cleanTemplateDir, cleanTemplateDirFails, Goto, git, disk
  <2>2. /\ missed \cup Wrapped \subseteq missed'
        /\ \A d \in Dir : wrappers'[d] # {} =>
                            wrappers[d] # {} /\ (d # Found \/ d \in missed')
    <3>1. CASE cleanTemplateDir
      BY <1>0, <3>1 DEF cleanTemplateDir, Disk
    <3>2. CASE cleanTemplateDirFails
      BY <1>0, <3>2 DEF cleanTemplateDirFails, disk
    <3> QED
      BY <1>1, <3>1, <3>2
  <2>3. Unreached'
    <3>1. \A r \in repos' : inRepo'[r] # {} => r \in missed'
      BY <2>1, <2>2 DEF Wrapped
    <3>2. \A d \in Dir : wrappers'[d] # {} => d \in missed'
      BY <2>2 DEF RunnerInv, Findable
    <3> QED
      BY <3>1, <3>2 DEF Unreached
  <2>4. Findable'
    BY <2>3 DEF Unreached, Findable
  <2>5. GetInstallMode' = GetInstallMode
    BY <2>1 DEF GetInstallMode
  <2> QED
    BY <2>1, <2>3, <2>4, <2>5, Undisturbed DEF Installed, Cleaned
<1>2. CASE cleanBinaries \/ cleanRegister
  <2>1. /\ pc \in Cleaned /\ pc' \in {"clean register", "clean hooksPath"}
        /\ UNCHANGED <<wrappers, repos, inRepo, missed>>
        /\ bin' = {} \/ (bin' = bin /\ pc = "clean register")
    BY <1>2 DEF cleanBinaries, cleanRegister, Goto, Cleaned, history
  <2>2. bin' = {} /\ Unreached
    BY <2>1 DEF RunnerInv, Executables, Cleaned
  <2>3. Unreached'
    BY <2>1, <2>2, UnreachedKept
  <2> QED
    BY <2>1, <2>2, <2>3, NothingLeft DEF Installed
<1>3. CASE cleanHooksPath \/ cleanGitConfig
  <2>1. /\ pc \in {"clean hooksPath", "clean keys"} /\ pc' \in {"clean keys", "idle"}
        /\ UNCHANGED <<wrappers, bin, repos, inRepo, missed>>
    <3>1. CASE cleanHooksPath
      BY <3>1 DEF cleanHooksPath, Goto, disk, history
    <3>2. CASE cleanGitConfig
      BY <3>2 DEF cleanGitConfig, Goto, Ends, disk
    <3> QED
      BY <1>3, <3>1, <3>2
  <2>2. bin' = {} /\ Unreached
    BY <2>1 DEF RunnerInv, Executables, Cleaned
  <2>3. Unreached'
    BY <2>1, <2>2, UnreachedKept
  <2> QED
    BY <2>1, <2>2, <2>3, NothingLeft DEF Installed
<1> QED
  BY <1>1, <1>2, <1>3

LEMMA EditRunner ==
  ASSUME TypeInv, RunnerInv, ~torn, Edit
  PROVE  RunnerInv'
<1>1. /\ pc = "idle" /\ pc' = "idle" /\ missed' = missed \cup Abandoned
      /\ UNCHANGED <<wrappers, bin, repos, inRepo>>
  BY DEF Edit, disk
<1>2. PICK e \in Edits : conf' = [conf EXCEPT ![e[1]] = e[2]]
  BY DEF Edit
<1>3. e[1] \in {"hooksPath", "templateDir", "maintained"}
  OBVIOUS
<1>4. conf'.alias = conf.alias /\ conf'.runner = conf.runner /\ GetInstallMode' = GetInstallMode
  BY <1>2, <1>3 DEF GetInstallMode, TypeInv, IndInv, ConfOK, Config
<1>5. Findable' /\ (Unreached => Unreached')
  BY <1>1, FindableKept, UnreachedKept DEF RunnerInv
<1> QED
  BY <1>1, <1>4, <1>5, Undisturbed DEF Installed, Cleaned

\* Only the exchange of an executable must not be interrupted.
LEMMA FailRunner ==
  ASSUME TypeInv, RunnerInv, ~torn, Fail, ~torn'
  PROVE  RunnerInv'
<1>1. /\ pc # "alias" /\ (pc = "binaries" => job.copy[1] \in bin) /\ pc' = "idle"
      /\ UNCHANGED <<conf, envDir, present, wrappers, bin, repos, inRepo, missed>>
  BY DEF Fail, Ends, git, disk
<1>2. Found' = Found /\ GetInstallMode' = GetInstallMode
  BY <1>1 DEF Found, FindHookTemplateDir, GetInstallMode, CheckTemplateDir
<1>3. Findable' /\ (Unreached => Unreached')
  BY <1>1, <1>2, FindableKept, UnreachedKept DEF RunnerInv
<1>4. CASE pc # "binaries"
  BY <1>1, <1>2, <1>3, <1>4, Undisturbed DEF Installed, Cleaned
<1>5. CASE pc = "binaries"
  <2>1. job.copy \in Copies
    BY <1>5 DEF TypeInv, Left
  <2>2. job.copy[1] \in Range(job.copy)
    BY <2>1, CopyRanges DEF All
  <2>3. bin = All
    <3>1. Exchanging
      BY <1>1, <1>5, <2>2 DEF RunnerInv, Executables
    <3> QED
      BY <1>1, <1>5, <3>1 DEF Exchanging
  <2>4. Whole /\ Whole'
    BY <1>1, <1>5, <2>3 DEF Whole, Exchanging
  <2>5. Executables' /\ Aliased'
    BY <1>1, <1>5, <2>3, <2>4 DEF RunnerInv, Executables, Aliased, Installed, Cleaned
  <2> QED
    BY <1>1, <1>2, <1>3, <2>4, <2>5 DEF RunnerInv, Cleaned
<1> QED
  BY <1>4, <1>5

\* An interrupted exchange is not mended.
LEMMA TornStays ==
  ASSUME [Next]_vars, torn \in BOOLEAN
  PROVE  torn => torn'
BY DEF Next, determineInstallMode, setupInstallMode, setDirectoryForInstallMode,
   BackupBinary, installBinaries, SetRunnerExecutableAlias, setupHookTemplates,
   SetMaintainedHooks, installIntoRegisteredRepos, storeSettings, runUninstall,
   uninstallFromRegisteredRepos, uninstalledRepos, cleanTemplateDir, cleanTemplateDirFails,
   cleanBinaries, cleanRegister, cleanHooksPath, cleanGitConfig, InstallIntoRepo,
   UninstallFromRepo, runInstallIntoRepo, runUninstallFromRepo, Here, GitInit, HookRun,
   Edit, Fail, vars, history

LEMMA NextRunner == TypeInv /\ RunnerInv /\ [Next]_vars => RunnerInv'
<1> SUFFICES ASSUME TypeInv, RunnerInv, [Next]_vars, ~torn' PROVE RunnerInv'
  BY DEF RunnerInv
<1>1. ~torn
  BY TornStays DEF TypeInv, History
<1> QED
  BY <1>1, Steps, UserRunner, QuietRunner, SetupRunner, SettingsRunner, LateRunner,
     CleaningRunner, EditRunner, FailRunner DEF CleaningStep

-------------------------------------------------------------------------------
\* What has been selected.  The run-wrappers come before the setting.
Used ==
  /\ conf.maintained # <<>> /\ CheckHookNames(conf.maintained)
  /\ job.args.maintained # <<>> => conf.maintained = job.args.maintained
  /\ wrappers[job.dir] = UnwrapHookNames(conf.maintained)
  /\ \A r \in job.done :
       (own[r] = <<>> /\ job.home \in {r, NoRepo}) =>
         inRepo[r] = Relevant(r, UnwrapHookNames(conf.maintained))

UsedInv ==
  /\ pc = "maintained" => wrappers[job.dir] = UnwrapHookNames(Selected)
  /\ pc \in {"existing", "registered"} \/ outcome = "installed" => Used
  /\ pc \in InstallSteps \ {"existing", "registered"} => job.done = {}

\* What an installer takes for selected is a valid selection.
LEMMA SelectedValid ==
  ASSUME TypeInv
  PROVE  /\ Selected # <<>> /\ CheckHookNames(Selected)
         /\ job.args.maintained # <<>> => Selected = job.args.maintained
<1>1. CheckHookNames(job.args.maintained)
  BY DEF TypeInv, Work, Arguments
<1> DEFINE all == <<[name |-> "all", minus |-> FALSE]>>
<1>2. all # <<>> /\ CheckHookNames(all)
  BY DEF CheckHookNames
<1> QED
  BY <1>1, <1>2 DEF Selected, Valid

\* Steps that change nothing the selection is about.
LEMMA UsedKept ==
  ASSUME UsedInv, UNCHANGED <<wrappers, inRepo, own>>, conf'.maintained = conf.maintained,
         job'.args = job.args, job'.home = job.home, job'.dir = job.dir, job'.done = job.done,
         pc' = "maintained" => pc = "maintained",
         pc' \in {"existing", "registered"} \/ outcome' = "installed" =>
           pc \in {"existing", "registered"} \/ outcome = "installed",
         pc' \in InstallSteps \ {"existing", "registered"} =>
           pc \in InstallSteps \ {"existing", "registered"}
  PROVE  UsedInv'
<1>1. Used => Used'
  BY DEF Used
<1>2. Selected' = Selected
  BY DEF Selected
<1> QED
  BY <1>1, <1>2 DEF UsedInv

LEMMA InitUsed == Init => UsedInv
BY DEF Init, UsedInv, InstallSteps, None

LEMMA NextUsed == TypeInv /\ UsedInv /\ [Next]_vars => UsedInv'
<1> SUFFICES ASSUME TypeInv, UsedInv, [Next]_vars PROVE UsedInv'
  OBVIOUS
<1>0. /\ DOMAIN job = Keys /\ Disk /\ Work
      /\ conf \in Config
      /\ outcome = "installed" => pc = "idle"
      /\ NoJob.done = {}
      /\ pc \in {"idle"} \cup InstallSteps \cup UninstallSteps
  BY DEF TypeInv, IndInv, ConfOK, JobOK, Configured, NoJob
<1>1. CASE determineInstallMode
  <2>1. pc' = "mode" /\ outcome' = None /\ job'.done = {}
    BY <1>1 DEF determineInstallMode, Goto, NoJob
  <2> QED
    BY <2>1 DEF UsedInv, None
<1>2. CASE setupInstallMode \/ setDirectoryForInstallMode
  <2>1. CASE setupInstallMode
    <3>1. /\ pc = "mode" /\ job'.done = job.done
          /\ (pc' = "settings" /\ outcome' = outcome) \/ (pc' = "idle" /\ outcome' = "broken")
      BY <1>0, <2>1 DEF setupInstallMode, Goto, Ends, Keys
    <3> QED
      BY <1>0, <3>1 DEF UsedInv, InstallSteps
  <2>2. CASE setDirectoryForInstallMode
    <3>1. /\ pc = "settings" /\ job'.done = job.done
          /\ pc' \in {"settings", "binaries"} /\ outcome' = outcome
      BY <1>0, <2>2 DEF setDirectoryForInstallMode, Goto, Keys
    <3> QED
      BY <1>0, <3>1 DEF UsedInv, InstallSteps
  <2> QED
    BY <1>2, <2>1, <2>2
<1>3. CASE BackupBinary \/ installBinaries \/ SetRunnerExecutableAlias
  <2>1. /\ pc \in {"binaries", "alias"} /\ pc' \in {"binaries", "alias", "templates"}
        /\ job'.done = job.done /\ outcome' = outcome
    <3>1. CASE BackupBinary
      BY <3>1 DEF BackupBinary, history
    <3>2. CASE installBinaries
      BY <1>0, <3>2 DEF installBinaries, Goto, Keys, history
    <3>3. CASE SetRunnerExecutableAlias
      BY <1>0, <3>3 DEF SetRunnerExecutableAlias, Goto, Keys, history
    <3> QED
      BY <1>3, <3>1, <3>2, <3>3
  <2> QED
    BY <1>0, <2>1 DEF UsedInv, InstallSteps
<1>4. CASE setupHookTemplates
  <2>1. /\ pc = "templates" /\ pc' = "maintained" /\ UNCHANGED <<job, conf, outcome>>
        /\ wrappers' = [wrappers EXCEPT ![job.dir] = UnwrapHookNames(Selected)]
    BY <1>4 DEF setupHookTemplates, Goto, git
  <2>2. job.dir \in Dir
    BY <2>1 DEF TypeInv, IndInv, ConfOK, JobOK, InstallSteps
  <2>3. wrappers'[job.dir] = UnwrapHookNames(Selected)
    BY <1>0, <2>1, <2>2 DEF Disk
  <2>4. Selected' = Selected
    BY <2>1 DEF Selected
  <2> QED
    BY <1>0, <2>1, <2>3, <2>4 DEF UsedInv, InstallSteps
<1>5. CASE SetMaintainedHooks
  <2>1. /\ pc = "maintained" /\ pc' = "existing" /\ UNCHANGED <<wrappers, outcome>>
        /\ conf'.maintained = Selected
        /\ UNCHANGED <<job.args, job.dir, job.done>>
    BY <1>0, <1>5 DEF SetMaintainedHooks, Goto, Keys, disk, history, Config
  <2>2. job'.done = {}
    BY <2>1 DEF UsedInv, InstallSteps
  <2>3. Used'
    BY <2>1, <2>2, SelectedValid DEF Used, UsedInv
  <2> QED
    BY <1>0, <2>1, <2>3 DEF UsedInv, InstallSteps
<1>6. ASSUME NEW r \in Repo, InstallIntoRepo(r) PROVE UsedInv'
  <2>1. /\ pc \in {"existing", "registered"} /\ pc' = pc
        /\ UNCHANGED <<wrappers, conf, own, outcome, job.args, job.dir, job.home>>
        /\ job'.done = job.done \cup {r} /\ r \in repos
        /\ inRepo' = [inRepo EXCEPT ![r] =
                        Relevant(r, UnwrapHookNames(GetMaintainedHooks(job.home)))]
    BY <1>0, <1>6 DEF InstallIntoRepo, Goto, Keys, git, history, Work
  <2>2. Used
    BY <2>1 DEF UsedInv
  <2>3. \A q \in job'.done :
          (own[q] = <<>> /\ job.home \in {q, NoRepo}) =>
            inRepo'[q] = Relevant(q, UnwrapHookNames(conf.maintained))
    <3> SUFFICES ASSUME NEW q \in job'.done, own[q] = <<>>, job.home \in {q, NoRepo}
                 PROVE  inRepo'[q] = Relevant(q, UnwrapHookNames(conf.maintained))
      OBVIOUS
    <3>1. CASE q = r
      <4>1. GetMaintainedHooks(job.home) = conf.maintained
        BY <2>2 DEF GetMaintainedHooks, Valid, Used
      <4> QED
        BY <1>0, <2>1, <3>1, <4>1 DEF Disk
    <3>2. CASE q # r
      BY <1>0, <2>1, <2>2, <3>2 DEF Disk, Used
    <3> QED
      BY <3>1, <3>2
  <2>4. Used'
    BY <2>1, <2>2, <2>3 DEF Used
  <2> QED
    BY <2>1, <2>4 DEF UsedInv
<1>7. CASE installIntoRegisteredRepos \/ storeSettings
  <2>1. /\ pc \in {"existing", "registered"} /\ pc' \in {"registered", "idle"}
        /\ UNCHANGED <<conf, wrappers, inRepo, own>>
        /\ UNCHANGED <<job.args, job.home, job.dir, job.done>>
    <3>1. CASE installIntoRegisteredRepos
      BY <1>0, <3>1 DEF installIntoRegisteredRepos, Goto, Keys, git, disk
    <3>2. CASE storeSettings
      BY <1>0, <3>2 DEF storeSettings, Ends, Keys, git
    <3> QED
      BY <1>7, <3>1, <3>2
  <2> QED
    BY <2>1, UsedKept DEF InstallSteps
<1>8. CASE runUninstall
  <2>1. pc' = "drop existing" /\ outcome' = None
    BY <1>8 DEF runUninstall, Goto
  <2> QED
    BY <2>1 DEF UsedInv, InstallSteps, None
<1>9. CASE CleaningStep
  <2>1. pc' \in UninstallSteps \cup {"idle"} /\ outcome' # "installed"
    BY <1>9, CleaningSteps DEF TypeInv
  <2> QED
    BY <2>1 DEF UsedInv, InstallSteps, UninstallSteps
<1>10. CASE UserStep
  <2>1. UNCHANGED <<conf, pc, job>> /\ outcome' \in {outcome, None}
    BY <1>10, UserSteps
  <2>2. ASSUME NEW r \in Repo, runInstallIntoRepo(r) \/ runUninstallFromRepo(r)
        PROVE  UsedInv'
    <3>1. pc' = "idle" /\ outcome' = None
      BY <2>2 DEF runInstallIntoRepo, runUninstallFromRepo, Here
    <3> QED
      BY <3>1 DEF UsedInv, InstallSteps, None
  <2>3. ASSUME NEW r \in Repo, GitInit(r) PROVE UsedInv'
    <3>1. /\ UNCHANGED <<wrappers, own, outcome>>
          /\ \A q \in repos : inRepo'[q] = inRepo[q]
      BY <1>0, <2>3 DEF GitInit, Disk
    <3>2. Used => Used'
      BY <1>0, <2>1, <3>1 DEF Used, Work
    <3>3. Selected' = Selected
      BY <2>1 DEF Selected
    <3> QED
      BY <2>1, <3>1, <3>2, <3>3 DEF UsedInv
  <2>4. CASE UNCHANGED vars \/ \E r \in Repo : HookRun(r)
    <3>1. UNCHANGED <<wrappers, own, inRepo, outcome>>
      BY <2>4 DEF HookRun, vars, disk, history
    <3> QED
      BY <2>1, <3>1, UsedKept
  <2> QED
    BY <1>10, <2>2, <2>3, <2>4 DEF UserStep
<1>11. CASE Edit \/ Fail
  <2>1. pc' = "idle" /\ outcome' \in {None, "broken"}
    BY <1>11 DEF Edit, Fail, Ends
  <2> QED
    BY <2>1 DEF UsedInv, InstallSteps, None
<1> QED
  BY <1>1, <1>2, <1>3, <1>4, <1>5, <1>6, <1>7, <1>8, <1>9, <1>10, <1>11, Steps DEF LateStep

-------------------------------------------------------------------------------
\* The values of all variables, between the steps of installer, uninstaller, Git and users.
THEOREM TypesAreKept == Spec => []TypeOK
BY InitType, NextType, TypeInvTypes, PTL DEF Spec

\* Git comes upon no run-wrapper without its runner, in any repository and for any new one,
\* wherever installers and uninstallers have stopped, but for the exceptions it names.
THEOREM NoWrapperAlone == Spec => []WrapperHasRunner
<1>1. TypeInv /\ RunnerInv => WrapperHasRunner
  <2> SUFFICES ASSUME TypeInv, RunnerInv, pc = "idle", ~torn, ~RunnerWorks
               PROVE  WrapperHasRunner
    BY DEF WrapperHasRunner
  <2>1. Unreached
    BY DEF RunnerInv, RunnerWorks, Whole, Exchanging, All
  <2>2. conf.hooksPath \in Dir \cup {NoDir} /\ TemplateOfGit \in Dir \cup {NoDir}
    BY FoundType DEF TypeInv, IndInv, ConfOK, Config
  <2>3. \A r \in repos : HooksOfGit(r) # {} => {r, conf.hooksPath} \cap missed # {}
    BY <2>1, <2>2 DEF HooksOfGit, Unreached
  <2>4. TemplateOfGit # NoDir /\ wrappers[TemplateOfGit] # {} => TemplateOfGit \in missed
    BY <2>1, <2>2 DEF Unreached
  <2> QED
    BY <2>3, <2>4 DEF WrapperHasRunner
<1> QED
  BY InitType, NextType, InitRunner, NextRunner, <1>1, PTL DEF Spec

-------------------------------------------------------------------------------
\* An install mode lasts from one complete installation to the next uninstallation,
\* however many installers, updates and interruptions come between.
THEOREM ModeIsKept == Spec => []ModeLasts
<1>1. IndInv => ModeLasts
  BY DEF IndInv, Kept, ModeLasts
<1> QED
  BY InitInv, NextInv, <1>1, PTL DEF Spec

\* The installer has configured what updates and the uninstaller look for.
LEMMA FoundAgain == IndInv => InstalledIsFound
<1> SUFFICES ASSUME IndInv, outcome = "installed", envDir \in {NoDir, job.dir}
             PROVE  InstalledIsFound
  BY DEF InstalledIsFound
<1>1. Chosen
  BY DEF IndInv, Configured
<1>2. job.dir # NoDir /\ job.dir \in present
  BY <1>1 DEF Chosen, IndInv, ConfOK
<1>3. CheckTemplateDir(job.dir) = job.dir
      /\ CheckTemplateDir(envDir) \in {NoDir, job.dir}
  BY <1>2 DEF CheckTemplateDir
<1>4. CASE job.mode = "template-dir"
  <2>1. conf.templateDir = job.dir
    BY <1>1, <1>4 DEF Chosen
  <2>2. FirstDir(<<CheckTemplateDir(envDir), CheckTemplateDir(conf.templateDir),
                   CheckTemplateDir(DefaultDir)>>) = job.dir
    BY <1>2, <1>3, <2>1, FirstOf
  <2> QED
    BY <1>1, <1>4, <2>2 DEF InstalledIsFound, Chosen, Found, FindHookTemplateDir, TemplateOfGit
<1>5. CASE job.mode = "core-hooks-path"
  <2>1. conf.useCoreHooksPath = "true"
    BY <1>1, <1>5 DEF Chosen, GetInstallMode, None
  <2> QED
    BY <1>1, <1>2, <1>3, <1>5, <2>1
       DEF InstalledIsFound, Chosen, Found, FindHookTemplateDir, CheckGithooksSetup
<1>6. CASE job.mode = "manual"
  BY <1>1, <1>3, <1>6 DEF InstalledIsFound, Chosen, Found, FindHookTemplateDir
<1> QED
  BY <1>1, <1>4, <1>5, <1>6 DEF Chosen, Mode

\* After an installation without errors, updates and the uninstaller find the mode
\* and the directory that the installer has chosen, and Git uses that directory.
THEOREM InstallationIsFound == Spec => []InstalledIsFound
BY InitInv, NextInv, FoundAgain, PTL DEF Spec

\* And Git finds there, and in the repositories that were visited, run-wrappers for
\* exactly the hooks the user has selected.
THEOREM InstallationIsUsed == Spec => []InstalledIsUsed
<1>1. TypeInv /\ UsedInv => InstalledIsUsed
  <2> SUFFICES ASSUME TypeInv, UsedInv, outcome = "installed", envDir \in {NoDir, job.dir}
               PROVE  InstalledIsUsed
    BY FoundAgain DEF InstalledIsUsed, TypeInv
  <2>1. InstalledIsFound /\ Used
    BY FoundAgain DEF UsedInv, TypeInv
  <2>2. Valid(conf.maintained) = conf.maintained
    BY <2>1 DEF Used, Valid
  <2>3. conf.maintained \in Seq(Word)
    BY DEF TypeInv, IndInv, ConfOK, Config
  <2>4. UnwrapHookNames(conf.maintained) = Denoted(Valid(conf.maintained))
    BY <2>2, <2>3, UnwrapDenoted
  <2> QED
    BY <2>1, <2>4 DEF Used, InstalledIsUsed
<1> QED
  BY InitType, NextType, InitUsed, NextUsed, <1>1, PTL DEF Spec
===============================================================================
