--------------------------------- MODULE MCMfa ---------------------------------
\* Small instances of Mfa for TLC.
EXTENDS Mfa, TLC

\* Requests are interchangeable.
Symmetry == Permutations(Requests)
=================================================================================
