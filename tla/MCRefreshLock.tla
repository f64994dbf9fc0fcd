------------------------------ MODULE MCRefreshLock ------------------------------
\* Small instances of RefreshLock for TLC.
EXTENDS RefreshLock, TLC

\* Calls are interchangeable, and so are tabs.
Symmetry == Permutations(Calls) \cup Permutations(Tabs)
=================================================================================
