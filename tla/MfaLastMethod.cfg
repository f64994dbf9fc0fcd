SPECIFICATION Spec
CONSTANTS
  Requests = {r1, r2, r3}
  Null = Null
  Wrong = Wrong
  Before = Before
SYMMETRY Symmetry
INVARIANTS
  NeverDisabledCompletely
