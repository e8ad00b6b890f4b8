----------------------------- MODULE MCApplications -----------------------------
\* Applications for TLC.
EXTENDS Applications, TLC

Symmetry == Permutations(Handlers) \cup Permutations(Users) \cup Permutations(Ids)
            \cup Permutations(Names)
=============================================================================
