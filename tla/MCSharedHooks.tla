---------------------------- MODULE MCSharedHooks ----------------------------
\* TLC instances of SharedHooks.
EXTENDS SharedHooks, TLC

\* Strict with an update on every hook; lenient with updates disabled.
Two == {c \in Config : c.skip = c.noUpdate /\ c.noUpdate # c.trigger}

Symmetry == Permutations(Url) \cup Permutations(Proc)
==============================================================================
