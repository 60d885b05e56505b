----------------------------- MODULE Preferences -----------------------------
(***************************************************************************)
(* What the settings of Githooks promise a user: each scope says of each   *)
(* preference that it is on, that it is off, or nothing; a run of the hook *)
(* runner acts on what all scopes said at one moment, its start, the most  *)
(* specific scope first, and on what it was told itself since.             *)
(***************************************************************************)
EXTENDS Integers

CONSTANTS
  Scopes,       \* the scopes
  Pref,         \* the preferences
  ScopesOf,     \* the scopes that count for each, most specific first
  EnvOf         \* what an environment says of each that overrides all scopes

Word == {"on", "off", "unsaid"}

VARIABLES
  said,     \* what each scope says of each preference
  known,    \* what the current run knows of it
  env,      \* the environment of the current run
  acts      \* what the run acts on: "on", "off", or "open" as long as it has not

vars == <<said, known, env, acts>>

Places(w, p) == {i \in DOMAIN ScopesOf[p] : w[ScopesOf[p][i]][p] # "unsaid"}

Least(S) == CHOOSE i \in S : \A j \in S : i <= j

(* What counts: the environment, else the most specific word, else "off". *)
Effective(w, e, p) ==
  IF EnvOf[e][p] # "unsaid" THEN EnvOf[e][p]
  ELSE IF Places(w, p) = {} THEN "off"
  ELSE w[ScopesOf[p][Least(Places(w, p))]][p]

Init ==
  /\ said \in [Scopes -> [Pref -> Word]]
  /\ known = said
  /\ env \in DOMAIN EnvOf
  /\ acts = [p \in Pref |-> "open"]

(* Somebody, the run perhaps, changes what the scopes say. *)
Say ==
  /\ said' \in [Scopes -> [Pref -> Word]]
  /\ UNCHANGED <<known, env, acts>>

(* A run begins and learns what is said now. *)
Begin ==
  /\ known' = said
  /\ env' \in DOMAIN EnvOf
  /\ acts' = [p \in Pref |-> "open"]
  /\ UNCHANGED said

(* The run asks about a preference no word counts for. *)
Ask ==
  /\ \E p \in Pref, s \in Scopes, w \in {"on", "off"} :
       /\ known[s][p] = "unsaid"
       /\ known' = [known EXCEPT ![s][p] = w]
  /\ UNCHANGED <<said, env, acts>>

(* The run decides on some preferences, each once. *)
Act ==
  /\ acts' \in [Pref -> {"open", "on", "off"}]
  /\ \A p \in Pref : acts'[p] # acts[p] =>
       acts[p] = "open" /\ acts'[p] = Effective(known, env, p)
  /\ UNCHANGED <<said, known, env>>

Next == Say \/ Begin \/ Ask \/ Act

Spec == Init /\ [][Next]_vars
=============================================================================
