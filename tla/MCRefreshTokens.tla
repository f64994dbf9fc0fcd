----------------------------- MODULE MCRefreshTokens -----------------------------
\* Small instances of RefreshTokens for TLC.
EXTENDS RefreshTokens, TLC

\* Requests are interchangeable, and so are users.
Symmetry == Permutations(Requests) \cup Permutations(Users)
=================================================================================
