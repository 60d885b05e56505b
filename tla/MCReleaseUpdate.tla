--------------------------- MODULE MCReleaseUpdate --------------------------
(***************************************************************************)
(* TLC instances of ReleaseUpdate: a branch of five commits.  Commit 2 has *)
(* no version, 3 must not be skipped, 4 is a prerelease, 5 starts a new    *)
(* major version.                                                          *)
(***************************************************************************)
EXTENDS ReleaseUpdate, TLC

MCRelease == {1, 3, 4, 5} \cap Commits
MCPrerelease == {4} \cap Commits
MCNoSkip == {3} \cap Commits
MCMajorOf == [c \in MCRelease |-> IF c = 5 THEN 2 ELSE 1]

(* Three plain versions, the second one starting a new major version.      *)
PlainRelease == {1, 2, 3} \cap Commits
PlainMajorOf == [c \in PlainRelease |-> IF c = 3 THEN 2 ELSE 1]

Symmetry == Permutations(Proc)
=============================================================================
