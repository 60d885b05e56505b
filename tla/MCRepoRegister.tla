---------------------------- MODULE MCRepoRegister ---------------------------
(* TLC instances of RepoRegister. *)
EXTENDS RepoRegister, TLC

Symmetry == Permutations(Repo) \cup Permutations(Proc)
=============================================================================
