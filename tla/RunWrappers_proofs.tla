-------------------------- MODULE RunWrappers_proofs --------------------------
(***************************************************************************)
(* Proofs about RunWrappers for any hooks, contents, runs and              *)
(* interruptions.                                                          *)
(***************************************************************************)
EXTENDS RunWrappers, TLAPS

USE WrapperAssumption DEF WrapperAssumption, None, Wrapper, Empty, Lfs, Content

\* The parts of TypeOK.
FilesOK == /\ hook \in [Hook -> Content]
           /\ replaced \in [Hook -> UserHook \cup {None, Empty}]
           /\ disabled \in [Hook -> CallsLfs \cup {None, Lfs}]

LoopOK == /\ pc \in Steps
          /\ maintained \subseteq Hook
          /\ todo \subseteq Hook
          /\ current \in Hook
          /\ failed \in BOOLEAN

HistoryOK == /\ outcome \in Outcomes
             /\ written \subseteq UserHook
             /\ given \subseteq UserHook

CountsOK == /\ torn \in BOOLEAN
            /\ runs \in 0 .. MaxRuns
            /\ faults \in 0 .. MaxFaults

\* A step between two operations is about a hook that is free, or empty.
Between ==
  /\ pc \in {"restore", "create"} => hook[current] = None /\ current \in todo
  /\ pc = "write" => hook[current] = Empty /\ current \in todo

\* A hook of the user stands at its place, and an empty file only where a
\* run-wrapper is being written.
Placed ==
  \A h \in Hook :
    /\ hook[h] \in UserHook => Place[hook[h]] = h /\ hook[h] \in written
    /\ replaced[h] \in UserHook => Place[replaced[h]] = h /\ replaced[h] \in written
    /\ ~torn /\ hook[h] = Empty => pc = "write" /\ h = current
    /\ ~torn => replaced[h] # Empty

\* How far the command is: what it has dropped, put back and wrapped.
Progress ==
  /\ outcome \in {"installed", "uninstalled", "incomplete"} => pc = "idle"
  /\ pc \in {"drop", "restore"} =>
       /\ todo \subseteq Hook \ maintained
       /\ failed => faults # 0
       /\ ~failed => \A h \in Hook \ maintained : hook[h] = Wrapper => h \in todo
  /\ pc = "lfs" =>
       /\ todo \subseteq LfsHook \ maintained
       /\ ~failed \/ faults = 0 => \A h \in Hook \ maintained : hook[h] # Wrapper
       /\ ~failed => \A h \in LfsHook \ maintained : h \in todo \/ hook[h] = Lfs
  /\ pc \in {"move", "create", "write"} =>
       /\ todo \subseteq maintained
       /\ \A h \in Hook \ maintained : hook[h] # Wrapper
       /\ \A h \in LfsHook \ maintained : hook[h] = Lfs
       /\ \A h \in maintained \ todo : hook[h] = Wrapper

\* Without faults a hook is left aside only behind another file.
Aside ==
  faults = 0 => \A h \in Hook :
    replaced[h] # None => \/ hook[h] \in UserHook \cup {Wrapper}
                          \/ pc \in {"restore", "create", "write"} /\ h = current

TypeInv == FilesOK /\ LoopOK /\ HistoryOK /\ CountsOK

IndInv == /\ TypeInv
          /\ Between /\ Placed /\ Progress /\ Aside
          /\ NothingLost /\ InstallRepairs /\ UninstallRestores

LEMMA TypeParts == TypeInv <=> TypeOK
BY DEF TypeInv, FilesOK, LoopOK, HistoryOK, CountsOK, TypeOK

LEMMA InitInv == Init => IndInv
<1> SUFFICES ASSUME Init PROVE IndInv
  OBVIOUS
<1>1. FilesOK
  BY DEF Init, FilesOK
<1>2. LoopOK
  BY DEF Init, LoopOK, Steps
<1>3. HistoryOK
  BY DEF Init, HistoryOK, Outcomes
<1>4. runs \in 0 .. MaxRuns /\ faults \in 0 .. MaxFaults
  BY DEF Init
<1>5. CountsOK
  BY <1>4 DEF Init, CountsOK
<1>6. Between /\ Placed /\ Progress /\ Aside
  BY DEF Init, Between, Placed, Progress, Aside
<1>7. NothingLost /\ InstallRepairs /\ UninstallRestores
  BY DEF Init, NothingLost, InstallRepairs, UninstallRestores
<1> QED
  BY <1>1, <1>2, <1>3, <1>5, <1>6, <1>7 DEF IndInv, TypeInv

-------------------------------------------------------------------------------
\* Types.
LEMMA NextFiles == TypeInv /\ [Next]_vars => FilesOK'
<1> SUFFICES ASSUME TypeInv, [Next]_vars PROVE FilesOK'
  OBVIOUS
<1> USE DEF FilesOK, TypeInv
<1>1. CASE UNCHANGED files
  BY <1>1 DEF files
<1>2. ASSUME NEW u \in UserHook, UserWrites(u)
      PROVE  FilesOK'
  BY <1>2 DEF UserWrites
<1>3. ASSUME NEW h \in Hook, LfsInstall(h) \/ Drop(h) \/ ReinstallLfs(h)
      PROVE  FilesOK'
  BY <1>3 DEF LfsInstall, Drop, ReinstallLfs
<1>4. ASSUME NEW h \in Hook, Move(h)
      PROVE  FilesOK'
  <2>1. hook' \in [Hook -> Content]
    BY <1>4 DEF Move, MoveExisting
  <2>2. replaced' \in [Hook -> UserHook \cup {None, Empty}]
    BY <1>4 DEF Move, MoveExisting
  <2>3. disabled' \in [Hook -> CallsLfs \cup {None, Lfs}]
    BY <1>4 DEF Move, MoveExisting
  <2> QED
    BY <2>1, <2>2, <2>3
<1>5. CASE Restore
  BY <1>5 DEF Restore, LoopOK
<1>6. CASE Create \/ Write
  BY <1>6 DEF Create, Write
<1>7. ASSUME NEW names \in SUBSET Hook, Start(names)
      PROVE  UNCHANGED files
  BY <1>7 DEF Start
<1>8. CASE Dropped \/ LfsDone \/ Stop
  BY <1>1, <1>8 DEF Dropped, LfsDone, Stop
<1>9. ASSUME NEW h \in Hook, GoOn(h)
      PROVE  UNCHANGED files
  BY <1>9 DEF GoOn
<1> QED
  BY <1>1, <1>2, <1>3, <1>4, <1>5, <1>6, <1>7, <1>8, <1>9 DEF Next, vars

LEMMA NextLoop == LoopOK /\ [Next]_vars => LoopOK'
<1> SUFFICES ASSUME LoopOK, [Next]_vars PROVE LoopOK'
  OBVIOUS
<1> USE DEF LoopOK
<1>1. CASE UNCHANGED <<pc, loop>>
  BY <1>1 DEF loop
<1>2. ASSUME NEW h \in Hook, Drop(h) \/ Move(h)
      PROVE  LoopOK'
  BY <1>2 DEF Drop, Move, Steps
<1>3. ASSUME NEW h \in Hook, ReinstallLfs(h)
      PROVE  LoopOK'
  <2>1. failed' \in BOOLEAN
    BY <1>3 DEF ReinstallLfs
  <2> QED
    BY <1>3, <2>1 DEF ReinstallLfs
<1>9. ASSUME NEW h \in Hook, GoOn(h)
      PROVE  LoopOK'
  BY <1>9 DEF GoOn, Steps
<1>4. ASSUME NEW names \in SUBSET Hook, Start(names)
      PROVE  LoopOK'
  BY <1>4 DEF Start, Steps
<1>5. CASE Restore \/ Dropped \/ LfsDone \/ Stop
  BY <1>5 DEF Restore, Dropped, LfsDone, Stop, Steps, loop
<1>6. CASE Create \/ Write
  BY <1>6 DEF Create, Write, Steps, loop
<1>7. ASSUME NEW u \in UserHook, UserWrites(u)
      PROVE  UNCHANGED <<pc, loop>>
  BY <1>7 DEF UserWrites
<1>8. ASSUME NEW h \in Hook, LfsInstall(h)
      PROVE  UNCHANGED <<pc, loop>>
  BY <1>8 DEF LfsInstall
<1> QED
  BY <1>1, <1>2, <1>3, <1>4, <1>5, <1>6, <1>7, <1>8, <1>9 DEF Next, vars

LEMMA NextHistory == HistoryOK /\ [Next]_vars => HistoryOK'
<1> SUFFICES ASSUME HistoryOK, [Next]_vars PROVE HistoryOK'
  OBVIOUS
<1> USE DEF HistoryOK, user, Outcomes
<1>1. CASE UNCHANGED vars
  BY <1>1 DEF vars
<1>2. ASSUME NEW u \in UserHook, UserWrites(u)
      PROVE  HistoryOK'
  BY <1>2 DEF UserWrites
<1>3. ASSUME NEW h \in Hook, LfsInstall(h) \/ Drop(h) \/ ReinstallLfs(h) \/ GoOn(h)
      PROVE  HistoryOK'
  BY <1>3 DEF LfsInstall, Drop, ReinstallLfs, GoOn
<1>4. ASSUME NEW h \in Hook, Move(h)
      PROVE  HistoryOK'
  <2>1. given' \subseteq UserHook
    BY <1>4 DEF Move, MoveExisting
  <2> QED
    BY <1>4, <2>1 DEF Move
<1>5. ASSUME NEW names \in SUBSET Hook, Start(names)
      PROVE  HistoryOK'
  BY <1>5 DEF Start
<1>6. CASE Restore \/ Dropped \/ LfsDone \/ Create \/ Write \/ Stop
  BY <1>6 DEF Restore, Dropped, LfsDone, Create, Write, Stop
<1> QED
  BY <1>1, <1>2, <1>3, <1>4, <1>5, <1>6 DEF Next

LEMMA NextCounts == CountsOK /\ [Next]_vars => CountsOK'
<1> SUFFICES ASSUME CountsOK, [Next]_vars PROVE CountsOK'
  OBVIOUS
<1> USE DEF CountsOK
<1>1. CASE UNCHANGED counts
  BY <1>1 DEF counts
<1>2. ASSUME NEW names \in SUBSET Hook, Start(names)
      PROVE  CountsOK'
  BY <1>2 DEF Start
<1>3. CASE Stop
  <2>1. torn' \in BOOLEAN
    BY <1>3 DEF Stop
  <2>2. runs' \in 0 .. MaxRuns /\ faults' \in 0 .. MaxFaults
    BY <1>3 DEF Stop
  <2> QED
    BY <2>1, <2>2
<1>4. ASSUME NEW u \in UserHook, UserWrites(u)
      PROVE  UNCHANGED counts
  BY <1>4 DEF UserWrites
<1>5. ASSUME NEW h \in Hook, LfsInstall(h) \/ Drop(h) \/ ReinstallLfs(h) \/ Move(h)
      PROVE  UNCHANGED counts
  BY <1>5 DEF LfsInstall, Drop, ReinstallLfs, Move
<1>6. CASE Restore \/ Dropped \/ LfsDone \/ Create \/ Write
  BY <1>1, <1>6 DEF Restore, Dropped, LfsDone, Create, Write
<1>7. ASSUME NEW h \in Hook, GoOn(h)
      PROVE  CountsOK'
  BY <1>7 DEF GoOn
<1> QED
  BY <1>1, <1>2, <1>3, <1>4, <1>5, <1>6, <1>7 DEF Next, vars

LEMMA NextType == TypeInv /\ [Next]_vars => TypeInv'
BY NextFiles, NextLoop, NextHistory, NextCounts DEF TypeInv
-------------------------------------------------------------------------------
\* Nothing happens to a hook between two operations on it.
LEMMA NextBetween == TypeInv /\ Between /\ [Next]_vars => Between'
<1> SUFFICES ASSUME TypeInv, Between, [Next]_vars PROVE Between'
  OBVIOUS
<1> USE DEF TypeInv, FilesOK, LoopOK, Between
<1>0. CASE UNCHANGED vars
  BY <1>0 DEF vars, files, loop, user, counts
<1>1. ASSUME NEW u \in UserHook, UserWrites(u)
      PROVE  Between'
  BY <1>1 DEF UserWrites, files, loop, user, counts
<1>2. ASSUME NEW h \in Hook, LfsInstall(h)
      PROVE  Between'
  BY <1>2 DEF LfsInstall, files, loop, user, counts
<1>3. ASSUME NEW names \in SUBSET Hook, Start(names)
      PROVE  Between'
  BY <1>3 DEF Start, files, loop, user, counts
<1>4. ASSUME NEW h \in Hook, Drop(h)
      PROVE  Between'
  BY <1>4 DEF Drop, files, loop, user, counts
<1>5. ASSUME NEW h \in Hook, ReinstallLfs(h)
      PROVE  Between'
  BY <1>5 DEF ReinstallLfs, files, loop, user, counts
<1>6. ASSUME NEW h \in Hook, Move(h)
      PROVE  Between'
  BY <1>6 DEF Move, MoveExisting, files, loop, user, counts
<1>7. CASE Restore
  BY <1>7 DEF Restore, files, loop, user, counts
<1>8. CASE Dropped
  BY <1>8 DEF Dropped, files, loop, user, counts
<1>9. CASE LfsDone
  BY <1>9 DEF LfsDone, files, loop, user, counts
<1>10. CASE Create
  BY <1>10 DEF Create, files, loop, user, counts
<1>11. CASE Write
  BY <1>11 DEF Write, files, loop, user, counts
<1>12. CASE Stop
  BY <1>12 DEF Stop, files, loop, user, counts
<1>13. ASSUME NEW h \in Hook, GoOn(h)
      PROVE  Between'
  BY <1>13 DEF GoOn, files, loop, user, counts
<1> QED
  BY <1>0, <1>1, <1>2, <1>3, <1>4, <1>5, <1>6, <1>7, <1>8, <1>9, <1>10, <1>11, <1>12, <1>13
     DEF Next

\* Files move only between a hook and what is kept beside it.
LEMMA NextPlaced == TypeInv /\ Between /\ Placed /\ [Next]_vars => Placed'
<1> SUFFICES ASSUME TypeInv, Between, Placed, [Next]_vars PROVE Placed'
  OBVIOUS
<1> USE DEF TypeInv, FilesOK, LoopOK, HistoryOK, Between, Placed
<1>0. CASE UNCHANGED vars
  BY <1>0 DEF vars, files, loop, user, counts
<1>1. ASSUME NEW u \in UserHook, UserWrites(u)
      PROVE  Placed'
  BY <1>1 DEF UserWrites, files, loop, user, counts
<1>2. ASSUME NEW h \in Hook, LfsInstall(h)
      PROVE  Placed'
  BY <1>2 DEF LfsInstall, files, loop, user, counts
<1>3. ASSUME NEW names \in SUBSET Hook, Start(names)
      PROVE  Placed'
  BY <1>3 DEF Start, files, loop, user, counts
<1>4. ASSUME NEW h \in Hook, Drop(h)
      PROVE  Placed'
  BY <1>4 DEF Drop, files, loop, user, counts
<1>5. ASSUME NEW h \in Hook, ReinstallLfs(h)
      PROVE  Placed'
  BY <1>5 DEF ReinstallLfs, files, loop, user, counts
<1>6. ASSUME NEW h \in Hook, Move(h)
      PROVE  Placed'
  BY <1>6 DEF Move, MoveExisting, files, loop, user, counts
<1>7. CASE Restore
  BY <1>7 DEF Restore, files, loop, user, counts
<1>8. CASE Dropped
  BY <1>8 DEF Dropped, files, loop, user, counts
<1>9. CASE LfsDone
  BY <1>9 DEF LfsDone, files, loop, user, counts
<1>10. CASE Create
  BY <1>10 DEF Create, files, loop, user, counts
<1>11. CASE Write
  BY <1>11 DEF Write, files, loop, user, counts
<1>12. CASE Stop
  BY <1>12 DEF Stop, files, loop, user, counts
<1>13. ASSUME NEW h \in Hook, GoOn(h)
      PROVE  Placed'
  BY <1>13 DEF GoOn, files, loop, user, counts
<1> QED
  BY <1>0, <1>1, <1>2, <1>3, <1>4, <1>5, <1>6, <1>7, <1>8, <1>9, <1>10, <1>11, <1>12, <1>13
     DEF Next

\* Each loop does what it has to do.
LEMMA NextProgress == TypeInv /\ Between /\ Progress /\ [Next]_vars => Progress'
<1> SUFFICES ASSUME TypeInv, Between, Progress, [Next]_vars PROVE Progress'
  OBVIOUS
<1> USE DEF TypeInv, FilesOK, LoopOK, CountsOK, Between, Progress
<1>0. CASE UNCHANGED vars
  BY <1>0 DEF vars, files, loop, user, counts
<1>1. ASSUME NEW u \in UserHook, UserWrites(u)
      PROVE  Progress'
  BY <1>1 DEF UserWrites, files, loop, user, counts
<1>2. ASSUME NEW h \in Hook, LfsInstall(h)
      PROVE  Progress'
  BY <1>2 DEF LfsInstall, files, loop, user, counts
<1>3. ASSUME NEW names \in SUBSET Hook, Start(names)
      PROVE  Progress'
  BY <1>3 DEF Start, files, loop, user, counts
<1>4. ASSUME NEW h \in Hook, Drop(h)
      PROVE  Progress'
  BY <1>4 DEF Drop, files, loop, user, counts
<1>5. ASSUME NEW h \in Hook, ReinstallLfs(h)
      PROVE  Progress'
  BY <1>5 DEF ReinstallLfs, files, loop, user, counts
<1>6. ASSUME NEW h \in Hook, Move(h)
      PROVE  Progress'
  BY <1>6 DEF Move, MoveExisting, files, loop, user, counts
<1>7. CASE Restore
  BY <1>7 DEF Restore, files, loop, user, counts
<1>8. CASE Dropped
  BY <1>8 DEF Dropped, files, loop, user, counts
<1>9. CASE LfsDone
  BY <1>9 DEF LfsDone, files, loop, user, counts
<1>10. CASE Create
  BY <1>10 DEF Create, files, loop, user, counts
<1>11. CASE Write
  BY <1>11 DEF Write, files, loop, user, counts
<1>12. CASE Stop
  BY <1>12 DEF Stop, files, loop, user, counts
<1>13. ASSUME NEW h \in Hook, GoOn(h)
      PROVE  Progress'
  BY <1>13 DEF GoOn, files, loop, user, counts
<1> QED
  BY <1>0, <1>1, <1>2, <1>3, <1>4, <1>5, <1>6, <1>7, <1>8, <1>9, <1>10, <1>11, <1>12, <1>13
     DEF Next

\* A replaced hook is put back with the removal of its run-wrapper.
LEMMA NextAside == TypeInv /\ Between /\ Aside /\ [Next]_vars => Aside'
<1> SUFFICES ASSUME TypeInv, Between, Aside, [Next]_vars PROVE Aside'
  OBVIOUS
<1> USE DEF TypeInv, FilesOK, LoopOK, CountsOK, Between, Aside
<1>0. CASE UNCHANGED vars
  BY <1>0 DEF vars, files, loop, user, counts
<1>1. ASSUME NEW u \in UserHook, UserWrites(u)
      PROVE  Aside'
  BY <1>1 DEF UserWrites, files, loop, user, counts
<1>2. ASSUME NEW h \in Hook, LfsInstall(h)
      PROVE  Aside'
  BY <1>2 DEF LfsInstall, files, loop, user, counts
<1>3. ASSUME NEW names \in SUBSET Hook, Start(names)
      PROVE  Aside'
  BY <1>3 DEF Start, files, loop, user, counts
<1>4. ASSUME NEW h \in Hook, Drop(h)
      PROVE  Aside'
  BY <1>4 DEF Drop, files, loop, user, counts
<1>5. ASSUME NEW h \in Hook, ReinstallLfs(h)
      PROVE  Aside'
  BY <1>5 DEF ReinstallLfs, files, loop, user, counts
<1>6. ASSUME NEW h \in Hook, Move(h)
      PROVE  Aside'
  BY <1>6 DEF Move, MoveExisting, files, loop, user, counts
<1>7. CASE Restore
  BY <1>7 DEF Restore, files, loop, user, counts
<1>8. CASE Dropped
  BY <1>8 DEF Dropped, files, loop, user, counts
<1>9. CASE LfsDone
  BY <1>9 DEF LfsDone, files, loop, user, counts
<1>10. CASE Create
  BY <1>10 DEF Create, files, loop, user, counts
<1>11. CASE Write
  BY <1>11 DEF Write, files, loop, user, counts
<1>12. CASE Stop
  BY <1>12 DEF Stop, files, loop, user, counts
<1>13. ASSUME NEW h \in Hook, GoOn(h)
      PROVE  Aside'
  BY <1>13 DEF GoOn, files, loop, user, counts
<1> QED
  BY <1>0, <1>1, <1>2, <1>3, <1>4, <1>5, <1>6, <1>7, <1>8, <1>9, <1>10, <1>11, <1>12, <1>13
     DEF Next

-------------------------------------------------------------------------------
\* The hook that NothingLost is about, if it counts: u is the only one of its
\* place that does not call Git LFS, and is neither deleted nor overwritten.
Kept(u) ==
  /\ u \in (written \ CallsLfs) \ given
  /\ \A v \in written \ CallsLfs : Place[v] = Place[u] => v = u

Found(u) == u \in {hook[Place[u]], replaced[Place[u]]}

LEMMA NothingLostParts ==
  ASSUME HistoryOK
  PROVE  NothingLost <=> (~torn => \A u \in UserHook : Kept(u) => Found(u))
BY DEF HistoryOK, NothingLost, Kept, Found

LEMMA NothingLostPartsNext ==
  ASSUME HistoryOK', ~torn' => \A u \in UserHook : Kept(u)' => Found(u)'
  PROVE  NothingLost'
BY DEF HistoryOK, NothingLost, Kept, Found

\* What counts after a step counted before it, or has just been written.
LEMMA KeptBefore ==
  ASSUME HistoryOK, [Next]_vars, NEW u \in UserHook, Kept(u)'
  PROVE  Kept(u) \/ UserWrites(u)
<1> USE DEF HistoryOK, Kept
<1>0. CASE UNCHANGED user
  BY <1>0 DEF user
<1>1. ASSUME NEW v \in UserHook, UserWrites(v)
      PROVE  Kept(u) \/ UserWrites(u)
  <2>1. CASE v = u
    BY <1>1, <2>1
  <2>2. CASE v # u
    BY <1>1, <2>2 DEF UserWrites
  <2> QED
    BY <2>1, <2>2
<1>2. ASSUME NEW h \in Hook, Move(h)
      PROVE  Kept(u)
  BY <1>2 DEF Move, MoveExisting
<1>3. ASSUME NEW h \in Hook, LfsInstall(h) \/ Drop(h) \/ ReinstallLfs(h) \/ GoOn(h)
      PROVE  UNCHANGED user
  BY <1>3 DEF LfsInstall, Drop, ReinstallLfs, GoOn
<1>4. ASSUME NEW names \in SUBSET Hook, Start(names)
      PROVE  UNCHANGED user
  BY <1>4 DEF Start
<1>5. CASE Restore \/ Dropped \/ LfsDone \/ Create \/ Write \/ Stop
  BY <1>0, <1>5 DEF Restore, Dropped, LfsDone, Create, Write, Stop
<1> QED
  BY <1>0, <1>1, <1>2, <1>3, <1>4, <1>5 DEF Next, vars

LEMMA NextLost ==
  TypeInv /\ Between /\ Placed /\ NothingLost /\ [Next]_vars => NothingLost'
<1> SUFFICES ASSUME TypeInv, Between, Placed, NothingLost, [Next]_vars PROVE NothingLost'
  OBVIOUS
<1>0. HistoryOK /\ HistoryOK' /\ FilesOK /\ LoopOK
  BY NextHistory DEF TypeInv
<1>1. ASSUME ~torn', NEW u \in UserHook, Kept(u)'
      PROVE  Found(u)'
  <2>0. Place[u] \in Hook
    OBVIOUS
  <2>1. CASE UserWrites(u)
    BY <1>0, <2>0, <2>1 DEF UserWrites, Found, FilesOK
  <2>2. CASE Kept(u)
    <3>0. ~torn
      BY <1>1 DEF Next, UserWrites, LfsInstall, Start, Drop, Restore, Dropped,
                  ReinstallLfs, GoOn, LfsDone, Move, Create, Write, Stop, counts, vars
    <3>1. Found(u)
      BY <1>0, <2>2, <3>0, NothingLostParts
    <3> USE DEF Found, FilesOK, LoopOK, Between, Placed
    <3>2. CASE UNCHANGED files
      BY <3>1, <3>2 DEF files
    <3>3. ASSUME NEW v \in UserHook, UserWrites(v)
          PROVE  Found(u)'
      BY <1>0, <1>1, <2>0, <3>1, <3>3 DEF UserWrites, Kept
    <3>4. ASSUME NEW h \in Hook, LfsInstall(h) \/ Drop(h) \/ ReinstallLfs(h)
          PROVE  Found(u)'
      BY <1>0, <2>0, <3>1, <3>4 DEF LfsInstall, Drop, ReinstallLfs
    <3>5. ASSUME NEW h \in Hook, Move(h)
          PROVE  Found(u)'
      <4>1. CASE h # Place[u]
        BY <1>0, <2>0, <3>1, <3>5, <4>1 DEF Move, MoveExisting
      <4>2. CASE h = Place[u] /\ hook[h] \in UserHook \ CallsLfs
        BY <1>0, <2>0, <2>2, <3>1, <3>5, <4>2 DEF Move, MoveExisting, Kept
      <4>3. CASE h = Place[u] /\ hook[h] \in {None, Wrapper, Lfs} \cup CallsLfs
        BY <1>0, <2>0, <2>2, <3>1, <3>5, <4>3 DEF Move, MoveExisting, Kept
      <4>4. hook[h] # Empty
        BY <1>0, <3>0, <3>5 DEF Move
      <4> QED
        BY <1>0, <4>1, <4>2, <4>3, <4>4
    <3>6. CASE Restore \/ Create \/ Write
      BY <1>0, <2>0, <3>1, <3>6 DEF Restore, Create, Write
    <3>7. ASSUME NEW names \in SUBSET Hook, Start(names)
          PROVE  UNCHANGED files
      BY <3>7 DEF Start
    <3>8. CASE Dropped \/ LfsDone \/ Stop
      BY <3>2, <3>8 DEF Dropped, LfsDone, Stop
    <3>9. ASSUME NEW h \in Hook, GoOn(h)
          PROVE  UNCHANGED files
      BY <3>9 DEF GoOn
    <3> QED
      BY <3>2, <3>3, <3>4, <3>5, <3>6, <3>7, <3>8, <3>9 DEF Next, vars
  <2> QED
    BY <1>0, <1>1, <2>1, <2>2, KeptBefore
<1> QED
  BY <1>0, <1>1, NothingLostPartsNext

-------------------------------------------------------------------------------
\* A command ends with what its last loop has done.
LEMMA NextOutcome ==
  TypeInv /\ Progress /\ Aside /\ InstallRepairs /\ UninstallRestores /\ [Next]_vars
    => InstallRepairs' /\ UninstallRestores'
<1> SUFFICES ASSUME TypeInv, Progress, Aside, InstallRepairs, UninstallRestores, [Next]_vars
             PROVE  InstallRepairs' /\ UninstallRestores'
  OBVIOUS
<1> USE DEF InstallRepairs, UninstallRestores
<1>0. CASE UNCHANGED vars
  BY <1>0 DEF vars, files, loop, counts
<1>1. CASE outcome' \notin {"installed", "uninstalled", "incomplete"}
  BY <1>1
<1>2. CASE Write
  BY <1>2 DEF Write, Progress, TypeInv, FilesOK, LoopOK, counts
<1>3. CASE LfsDone
  BY <1>3 DEF LfsDone, Progress, Aside, TypeInv, FilesOK, LoopOK, files, counts
<1>4. ASSUME NEW u \in UserHook, UserWrites(u)
      PROVE  outcome' = "none"
  BY <1>4 DEF UserWrites
<1>5. ASSUME NEW h \in Hook, LfsInstall(h) \/ Drop(h) \/ ReinstallLfs(h) \/ GoOn(h) \/ Move(h)
      PROVE  outcome' \notin {"installed", "uninstalled", "incomplete"}
  BY <1>5 DEF LfsInstall, Drop, ReinstallLfs, GoOn, Move, Progress
<1>6. ASSUME NEW names \in SUBSET Hook, Start(names)
      PROVE  outcome' = "none"
  BY <1>6 DEF Start
<1>7. CASE Restore \/ Dropped \/ Create \/ Stop
  BY <1>1, <1>7 DEF Restore, Dropped, Create, Stop, Progress
<1> QED
  BY <1>0, <1>1, <1>2, <1>3, <1>4, <1>5, <1>6, <1>7 DEF Next

LEMMA NextInv == IndInv /\ [Next]_vars => IndInv'
BY NextType, NextBetween, NextPlaced, NextProgress, NextAside, NextLost, NextOutcome
   DEF IndInv

-------------------------------------------------------------------------------
\* A run-wrapper is never kept as a replaced hook, nor anything but Git LFS hooks
\* as a disabled one.
THEOREM TypeCorrect == Spec => []TypeOK
<1>1. IndInv => TypeOK
  BY TypeParts DEF IndInv
<1> QED
  BY InitInv, NextInv, <1>1, PTL DEF Spec

\* moveExistingHooks and uninstallRunWrappers lose no hook of the user, wherever
\* they are interrupted, except while a run-wrapper is written.
THEOREM NoHookLost == Spec => []NothingLost
<1>1. IndInv => NothingLost
  BY DEF IndInv
<1> QED
  BY InitInv, NextInv, <1>1, PTL DEF Spec

\* An installation that succeeds leaves the run-wrappers and Git LFS hooks it
\* should, whatever runs and interruptions came before.
THEOREM InstallationRepairs == Spec => []InstallRepairs
<1>1. IndInv => InstallRepairs
  BY DEF IndInv
<1> QED
  BY InitInv, NextInv, <1>1, PTL DEF Spec

\* An uninstallation that succeeds leaves no run-wrapper and puts replaced hooks
\* back.
THEOREM UninstallationRestores == Spec => []UninstallRestores
<1>1. IndInv => UninstallRestores
  BY DEF IndInv
<1> QED
  BY InitInv, NextInv, <1>1, PTL DEF Spec
===============================================================================
