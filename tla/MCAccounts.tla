------------------------------- MODULE MCAccounts -------------------------------
\* Small instances of Accounts for TLC.
EXTENDS Accounts, TLC

\* Requests are interchangeable, and so are addresses.
Symmetry == Permutations(Requests) \cup Permutations(Emails)
=================================================================================
