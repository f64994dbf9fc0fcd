------------------------------ MODULE MCSocialGraph ------------------------------
\* Small instances of SocialGraph for TLC.
EXTENDS SocialGraph, TLC

\* Calls are interchangeable, and so are the two users.
Symmetry == Permutations(Requests) \cup Permutations(Users)
=================================================================================
