SPECIFICATION Spec
CONSTANTS
  Requests = {r1, r2, r3, r4}
  Users = {u1, u2}
  NoClaims = NoClaims
SYMMETRY Symmetry
INVARIANTS
  AllSessionsEnded
