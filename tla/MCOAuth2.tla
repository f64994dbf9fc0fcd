-------------------------------- MODULE MCOAuth2 --------------------------------
\* Small instances of OAuth2 for TLC.
EXTENDS OAuth2, TLC

\* Requests are interchangeable, and so are scopes.
Symmetry == Permutations(Requests) \cup Permutations(Scopes)
=================================================================================
