---------------------------- MODULE MCRunWrappers ----------------------------
(* TLC instance of RunWrappers: two hooks, one of them a Git LFS hook; a    *)
(* user hook for each, a second one for the first and one which calls LFS. *)
EXTENDS RunWrappers, TLC

CONSTANTS commit, push, lint, build, check, large

MCPlace == (lint :> commit @@ build :> commit @@ check :> push @@ large :> push)
=============================================================================
