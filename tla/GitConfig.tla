------------------------------ MODULE GitConfig ------------------------------
(***************************************************************************)
(* Git's configuration as Githooks uses it (git/git.go) and the cache of   *)
(* it that a process may hold (git/gitconfig-cache.go).                    *)
(*                                                                         *)
(* A configuration maps each scope and key to the list of its values.  The *)
(* operators with a name of Git, GitSet, GitAdd and GitUnset, are what the *)
(* `git config` command does to the file of a scope; Listing is what it    *)
(* reads, the values of included files among them.  Names that begin with  *)
(* Cached are the same operations on the cache.  Keys stand for their      *)
(* lowercase form, which both sides compare.                               *)
(***************************************************************************)
EXTENDS Integers, Sequences

CONSTANTS
  Keys,       \* the keys of the configuration
  Values,     \* the values of keys
  Included    \* what the files each scope's file includes at its end add

(* The scopes, the one that takes precedence first. *)
Precedence == <<"command", "worktree", "local", "global", "system">>

Scopes == {"command", "worktree", "local", "global", "system"}

Traverse == "traverse"

Config == [Scopes -> [Keys -> Seq(Values)]]

NoValue == "no value"

ASSUME ConfigAssumption ==
  /\ Included \in Config
  /\ NoValue \notin Values

Last(s) == s[Len(s)]

(***************************************************************************)
(* Reading.                                                                *)
(***************************************************************************)

(* `git config --includes --list --null --show-scope`, which fills the     *)
(* cache. *)
Listing(file) == [s \in Scopes |-> [k \in Keys |-> file[s][k] \o Included[s][k]]]

(* The places in Precedence of the scopes that set key k. *)
SetIn(c, k) == {i \in 1..5 : c[Precedence[i]][k] # <<>>}

First(S) == CHOOSE i \in S : \A j \in S : i <= j

(* All values, in the order in which Git lists them. *)
GetAll(c, k, scope) ==
  IF scope = Traverse
  THEN c["system"][k] \o c["global"][k] \o c["local"][k]
         \o c["worktree"][k] \o c["command"][k]
  ELSE c[scope][k]

(* The last value of the scope, or of the first scope which has one. *)
Get(c, k, scope) ==
  LET s == IF scope = Traverse /\ SetIn(c, k) # {}
           THEN Precedence[First(SetIn(c, k))] ELSE scope
  IN  IF s = Traverse \/ c[s][k] = <<>> THEN NoValue ELSE Last(c[s][k])

IsSet(c, k, scope) == Get(c, k, scope) # NoValue

(***************************************************************************)
(* Writing.                                                                *)
(***************************************************************************)
Put(c, s, k, vals) == [c EXCEPT ![s] = [c[s] EXCEPT ![k] = vals]]

(* `git config` fails to overwrite more than one value. *)
CanGitSet(file, s, k) == Len(file[s][k]) <= 1
GitSet(file, s, k, v) == Put(file, s, k, <<v>>)
GitAdd(file, s, k, v) == Put(file, s, k, Append(file[s][k], v))
GitUnset(file, s, k) == Put(file, s, k, <<>>)

(* The cache panics instead. *)
CanCachedSet(cache, s, k) == Len(cache[s][k]) <= 1
\* Mutant: a value there is stays.
CachedSetOnce(cache, s, k, v) ==
  IF cache[s][k] = <<>> THEN Put(cache, s, k, Append(cache[s][k], v)) ELSE cache

CachedSet(cache, s, k, v) ==
  IF cache[s][k] = <<>>
  THEN Put(cache, s, k, Append(cache[s][k], v))
  ELSE Put(cache, s, k, [cache[s][k] EXCEPT ![1] = v])
=============================================================================
