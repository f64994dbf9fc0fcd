------------------------------ MODULE MCMemberships ------------------------------
\* Small instances of Memberships for TLC.
EXTENDS Memberships, TLC

\* Calls, users and projects are interchangeable.
Symmetry == Permutations(Calls) \cup Permutations(Users) \cup Permutations(Projects)
=================================================================================
