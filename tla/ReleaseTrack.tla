---------------------------- MODULE ReleaseTrack ----------------------------
(***************************************************************************)
(* What Githooks promises about updates (README.md, "Update Mechanics"):   *)
(* the installed version follows the version tags of one branch.  A        *)
(* version marked `Update-NoSkip: true` is never jumped over, prerelease   *)
(* versions are taken only on request, and the version never goes back.    *)
(*                                                                         *)
(* Commits of the branch are numbered 1, 2, ... from its root; `Release`   *)
(* are those that carry a version tag.                                     *)
(***************************************************************************)
EXTENDS Naturals

CONSTANTS
  LastCommit,   \* bound: the branch has at most this many commits
  Release,      \* commits with a version tag
  Prerelease,   \* releases whose version has a prerelease part
  NoSkip        \* releases whose tag says `Update-NoSkip: true`

VARIABLES
  tip,          \* the newest commit of the branch on the server
  installed     \* the commit of the installed version

track == <<tip, installed>>

Commits == 1 .. LastCommit

(* The versions a user may be offered. *)
Eligible(pre) == IF pre THEN Release ELSE Release \ Prerelease

(* The versions that may follow `from` when `seen` is the newest commit    *)
(* known: the first one that must not be skipped, else the newest one.     *)
Successors(from, seen, pre) ==
  LET newer == {c \in Eligible(pre) : from < c /\ c <= seen}
      stops == newer \cap NoSkip
  IN  {c \in newer : IF stops = {} THEN \A d \in newer : d <= c
                                   ELSE c \in stops /\ \A d \in stops : c <= d}

Init == /\ installed \in Release
        /\ tip = installed

Publish == /\ tip < LastCommit
           /\ tip' = tip + 1
           /\ UNCHANGED installed

Upgrade == /\ \E seen \in 1 .. tip, pre \in BOOLEAN :
                installed' \in Successors(installed, seen, pre)
           /\ UNCHANGED tip

Next == Publish \/ Upgrade

Spec == Init /\ [][Next]_track
=============================================================================
