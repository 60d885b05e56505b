----------------------------- MODULE RunWrappers -----------------------------
(***************************************************************************)
(* Installing and uninstalling the run-wrappers in one Git hooks directory *)
(* (hooks/wrapper.go), step by step: each step is one operation on a file, *)
(* at which the process may be killed or meet an error.                    *)
(*                                                                         *)
(* A file `<hook>` is the user's, a Git LFS hook, a run-wrapper or, when   *)
(* writing a run-wrapper was interrupted, empty.  What stood in the way of *)
(* a run-wrapper is renamed to `<hook>.replaced.githook`, or, when it      *)
(* calls Git LFS, to `<hook>.disabled.githooks`.                           *)
(*                                                                         *)
(* One process works on the directory at a time.  Copying a Git LFS hook   *)
(* and making a run-wrapper executable are not separate steps, and no file *)
(* is open elsewhere (the code for Windows).                               *)
(***************************************************************************)
EXTENDS Naturals

CONSTANTS
  Hook,          \* the managed hooks
  LfsHook,       \* those for which Git LFS has one, {} without Git LFS
  UserHook,      \* contents of hooks a user writes
  CallsLfs,      \* those which contain a Git LFS statement
  Place,         \* the hook for which the user writes each content
  MaxRuns,       \* bound: installations and uninstallations
  MaxFaults      \* bound: runs which are killed or fail

None == "none"
Wrapper == "wrapper"
Empty == "empty"
Lfs == "lfs"
Content == UserHook \cup {None, Wrapper, Empty, Lfs}

ASSUME WrapperAssumption ==
  /\ LfsHook \subseteq Hook
  /\ CallsLfs \subseteq UserHook
  /\ Place \in [UserHook -> Hook]
  /\ UserHook \cap {None, Wrapper, Empty, Lfs} = {}
  /\ MaxRuns \in Nat
  /\ MaxFaults \in Nat

VARIABLES
  hook,        \* content of each file `<hook>`
  replaced,    \* content of each `<hook>.replaced.githook`
  disabled,    \* content of each `<hook>.disabled.githooks`
  pc,          \* next step
  maintained,  \* hooks the running command maintains, {} for an uninstallation
  todo,        \* hooks the current loop has still to do
  current,     \* the hook the current step is about
  failed,      \* has uninstallRunWrappers met an error?
  outcome,     \* history: how the last command ended
  written,     \* history: contents the user has written
  given,       \* history: contents the user overwrote or let be deleted
  torn,        \* history: a run ended while it wrote a run-wrapper
  runs, faults

files == <<hook, replaced, disabled>>
loop == <<maintained, todo, current, failed>>
user == <<written, given>>
counts == <<runs, faults, torn>>
vars == <<files, pc, loop, outcome, user, counts>>

Steps == {"idle", "drop", "restore", "lfs", "move", "create", "write"}
Outcomes == {"none", "installed", "uninstalled", "incomplete", "broken"}

Init == /\ hook = [h \in Hook |-> None]
        /\ replaced = [h \in Hook |-> None]
        /\ disabled = [h \in Hook |-> None]
        /\ pc = "idle"
        /\ maintained = {}
        /\ todo = {}
        /\ current \in Hook
        /\ failed = FALSE
        /\ outcome = "none"
        /\ written = {}
        /\ given = {}
        /\ torn = FALSE
        /\ runs = 0
        /\ faults = 0

-----------------------------------------------------------------------------
(* The user writes a hook, `git lfs install` one of its own. *)
UserWrites(u) == /\ pc = "idle"
                 /\ u \notin written
                 /\ hook' = [hook EXCEPT ![Place[u]] = u]
                 /\ written' = written \cup {u}
                 /\ given' = given \cup ({hook[Place[u]]} \cap UserHook)
                 /\ outcome' = "none"
                 /\ UNCHANGED <<replaced, disabled, pc, loop, counts>>

LfsInstall(h) == /\ pc = "idle"
                 /\ h \in LfsHook
                 /\ hook[h] = None
                 /\ hook' = [hook EXCEPT ![h] = Lfs]
                 /\ outcome' = "none"
                 /\ UNCHANGED <<replaced, disabled, pc, loop, user, counts>>

(* InstallRunWrappers for some hooks, UninstallRunWrappers for all: both   *)
(* begin with uninstallRunWrappers for the hooks not maintained. *)
Start(names) == /\ pc = "idle"
                /\ runs < MaxRuns
                /\ runs' = runs + 1
                /\ pc' = "drop"
                /\ maintained' = names
                /\ todo' = Hook \ names
                /\ failed' = FALSE
                /\ outcome' = "none"
                /\ UNCHANGED <<files, current, user, faults, torn>>

(* uninstallRunWrappers: a run-wrapper is removed, then the replaced hook  *)
(* renamed back. *)
Drop(h) == /\ pc = "drop"
           /\ h \in todo
           /\ IF hook[h] = Wrapper
              THEN /\ hook' = [hook EXCEPT ![h] = None]
                   /\ current' = h
                   /\ pc' = "restore"
                   /\ UNCHANGED todo
              ELSE /\ todo' = todo \ {h}
                   /\ UNCHANGED <<hook, current, pc>>
           /\ UNCHANGED <<replaced, disabled, maintained, failed, outcome, user, counts>>

(* Mutant: the replaced hook is not put back. *)
RestoreNothing == /\ pc = "restore"
                  /\ pc' = "drop"
                  /\ todo' = todo \ {current}
                  /\ UNCHANGED <<files, maintained, current, failed, outcome, user, counts>>

Restore == /\ pc = "restore"
           /\ IF replaced[current] # None
              THEN /\ hook' = [hook EXCEPT ![current] = replaced[current]]
                   /\ replaced' = [replaced EXCEPT ![current] = None]
              ELSE UNCHANGED <<hook, replaced>>
           /\ pc' = "drop"
           /\ todo' = todo \ {current}
           /\ UNCHANGED <<disabled, maintained, current, failed, outcome, user, counts>>

Dropped == /\ pc = "drop"
           /\ todo = {}
           /\ pc' = "lfs"
           /\ todo' = LfsHook \ maintained
           /\ UNCHANGED <<files, maintained, current, failed, outcome, user, counts>>

(* Mutant: another file in its place is no error. *)
ReinstallLfsForgiving(h) ==
  /\ pc = "lfs"
  /\ h \in todo
  /\ hook' = IF hook[h] = None THEN [hook EXCEPT ![h] = Lfs] ELSE hook
  /\ todo' = todo \ {h}
  /\ UNCHANGED <<replaced, disabled, pc, maintained, current, failed, outcome, user, counts>>

(* reinstallLFSHooks: another file in its place is an error. *)
ReinstallLfs(h) ==
  /\ pc = "lfs"
  /\ h \in todo
  /\ hook' = IF hook[h] = None THEN [hook EXCEPT ![h] = Lfs] ELSE hook
  /\ failed' = (failed \/ hook[h] \notin {None, Lfs})
  /\ todo' = todo \ {h}
  /\ UNCHANGED <<replaced, disabled, pc, maintained, current, outcome, user, counts>>

(* An operation of uninstallRunWrappers fails: the error is noted and the  *)
(* next hook follows. *)
GoOn(h) == /\ faults < MaxFaults
           /\ faults' = faults + 1
           /\ h \in todo
           /\ \/ pc = "drop" /\ hook[h] # None
              \/ pc = "restore" /\ h = current /\ replaced[h] # None
              \/ pc = "lfs"
           /\ failed' = TRUE
           /\ todo' = todo \ {h}
           /\ pc' = IF pc = "restore" THEN "drop" ELSE pc
           /\ UNCHANGED <<files, maintained, current, outcome, user, torn, runs>>

(* An uninstallation ends here, an installation too if there was an error. *)
LfsDone == /\ pc = "lfs"
           /\ todo = {}
           /\ \/ /\ maintained # {}
                 /\ ~failed
                 /\ pc' = "move"
                 /\ todo' = maintained
                 /\ UNCHANGED outcome
              \/ /\ maintained = {} \/ failed
                 /\ pc' = "idle"
                 /\ outcome' = CASE maintained # {}          -> "broken"
                                 [] maintained = {} /\ failed  -> "incomplete"
                                 [] maintained = {} /\ ~failed -> "uninstalled"
                 /\ UNCHANGED todo
           /\ UNCHANGED <<files, maintained, current, failed, user, counts>>

(* Mutant: every file is removed, not only run-wrappers. *)
RemoveExisting(h) == /\ hook' = [hook EXCEPT ![h] = None]
                     /\ UNCHANGED <<replaced, disabled, given>>

(* Mutant: a run-wrapper is moved aside like any other file. *)
MoveAnything(h) == /\ hook' = [hook EXCEPT ![h] = None]
                   /\ replaced' = IF hook[h] = None THEN replaced
                                  ELSE [replaced EXCEPT ![h] = hook[h]]
                   /\ UNCHANGED <<disabled, given>>

(* moveExistingHooks and, for a run-wrapper, the removal after it.  A hook *)
(* which calls Git LFS is backed up or, if the user agrees, deleted.       *)
MoveExisting(h) ==
  /\ hook' = [hook EXCEPT ![h] = None]
  /\ CASE hook[h] \in {None, Wrapper} -> UNCHANGED <<replaced, disabled, given>>
       [] hook[h] \in CallsLfs \cup {Lfs} ->
            /\ \/ disabled' = [disabled EXCEPT ![h] = hook[h]] /\ UNCHANGED given
               \/ given' = given \cup ({hook[h]} \cap UserHook) /\ UNCHANGED disabled
            /\ UNCHANGED replaced
       [] OTHER -> /\ replaced' = [replaced EXCEPT ![h] = hook[h]]
                   /\ UNCHANGED <<disabled, given>>

Move(h) == /\ pc = "move"
           /\ h \in todo
           /\ MoveExisting(h)
           /\ current' = h
           /\ pc' = "create"
           /\ UNCHANGED <<maintained, todo, failed, outcome, written, counts>>

(* WriteRunWrapper: create, write. *)
Create == /\ pc = "create"
          /\ hook' = [hook EXCEPT ![current] = Empty]
          /\ pc' = "write"
          /\ UNCHANGED <<replaced, disabled, loop, outcome, user, counts>>

Write == /\ pc = "write"
         /\ hook' = [hook EXCEPT ![current] = Wrapper]
         /\ todo' = todo \ {current}
         /\ pc' = IF todo = {current} THEN "idle" ELSE "move"
         /\ outcome' = IF todo = {current} THEN "installed" ELSE outcome
         /\ UNCHANGED <<replaced, disabled, maintained, current, failed, user, counts>>

(* The process is killed, or an operation of the installation fails: the   *)
(* run ends. *)
Stop == /\ pc # "idle"
        /\ faults < MaxFaults
        /\ faults' = faults + 1
        /\ pc' = "idle"
        /\ outcome' = "broken"
        /\ torn' = (torn \/ pc = "write")
        /\ UNCHANGED <<files, loop, user, runs>>

Next == \/ \E u \in UserHook : UserWrites(u)
        \/ \E names \in SUBSET Hook : Start(names)
        \/ \E h \in Hook : LfsInstall(h) \/ Drop(h) \/ ReinstallLfs(h) \/ GoOn(h) \/ Move(h)
        \/ Restore \/ Dropped \/ LfsDone \/ Create \/ Write \/ Stop

Spec == Init /\ [][Next]_vars
-----------------------------------------------------------------------------
(* Properties. *)

(* The shapes of the variables. *)
TypeOK == /\ hook \in [Hook -> Content]
          /\ replaced \in [Hook -> UserHook \cup {None, Empty}]
          /\ disabled \in [Hook -> CallsLfs \cup {None, Lfs}]
          /\ pc \in Steps
          /\ maintained \subseteq Hook
          /\ todo \subseteq Hook
          /\ current \in Hook
          /\ failed \in BOOLEAN
          /\ outcome \in Outcomes
          /\ written \subseteq UserHook
          /\ given \subseteq UserHook
          /\ torn \in BOOLEAN
          /\ runs \in 0 .. MaxRuns
          /\ faults \in 0 .. MaxFaults

(* A hook the user wrote, not calling Git LFS, can always be found again,  *)
(* at every moment and after every interruption except one while a         *)
(* run-wrapper is written, unless the user put another in the same place.  *)
NothingLost ==
  LET kept == written \ CallsLfs
  IN  ~torn => \A u \in kept \ given :
                 (\A v \in kept : Place[v] = Place[u] => v = u)
                   => u \in {hook[Place[u]], replaced[Place[u]]}

(* A hook which calls Git LFS and which the user did not let be deleted is *)
(* "backed up" (disable-hooks.go): without faults it can be found again.   *)
BackupKept ==
  faults = 0 => \A u \in (written \cap CallsLfs) \ given :
    u \in {hook[Place[u]], replaced[Place[u]], disabled[Place[u]]}

(* An installation which succeeds leaves run-wrappers for exactly the      *)
(* maintained hooks and Git LFS hooks for the others, whatever earlier     *)
(* runs and interruptions left behind.                                     *)
InstallRepairs ==
  outcome = "installed" =>
    /\ {h \in Hook : hook[h] = Wrapper} = maintained
    /\ \A h \in LfsHook \ maintained : hook[h] = Lfs

(* Uninstalling without an error leaves no run-wrapper behind, whatever    *)
(* failed before.  Without faults it puts the user's hooks back, also if a *)
(* Git LFS hook has no place: one is left aside only for a newer one.      *)
UninstallRestores ==
  /\ outcome = "uninstalled" => \A h \in Hook : hook[h] # Wrapper
  /\ outcome \in {"uninstalled", "incomplete"} /\ faults = 0 =>
       \A h \in Hook : /\ hook[h] # Wrapper
                       /\ replaced[h] # None => hook[h] \in UserHook
=============================================================================
