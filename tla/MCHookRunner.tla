----------------------------- MODULE MCHookRunner -----------------------------
\* Instances of HookRunner for TLC. The replaced hook `old` belongs to no
\* directory; `lint` and `test` form one batch of the repository's directory,
\* `final` the next one, and `shared` is in a shared repository.
EXTENDS HookRunner, TLC

CONSTANTS old, lint, test, final, shared

DirsAll == (lint :> 1 @@ test :> 1 @@ final :> 1 @@ shared :> 2)
BatchesAll == (lint :> 1 @@ test :> 1 @@ final :> 2 @@ shared :> 1)

DirsOne == (lint :> 1)
BatchesOne == (lint :> 1)

\* Both settings to skip hooks are on, or none is; with any of the other two.
Alike == {s \in Conf : s.skipUntrusted = s.skipNonExistingShared}
\* At first there is no ignore file, or one for the first batch.
Nothing == {{}}
NothingOrFirst == {{}, {lint, test}}
\* A runner which collects hooks, with at most one of the settings to skip some.
Enabled == {s \in Conf : ~s.disabled /\ ~(s.skipUntrusted /\ s.skipNonExistingShared)}
\* A user at the terminal, with and without skip-untrusted-hooks.
Interactive == {s \in Conf : ~s.nonInteractive /\ ~s.disabled
                             /\ ~s.skipNonExistingShared}
===============================================================================
