SPECIFICATION Spec
CONSTANTS
  Requests = {r1, r2, r3}
  Scopes = {s1, s2}
  None = None
SYMMETRY Symmetry
INVARIANTS
  UnexpectedIsUnexpected
