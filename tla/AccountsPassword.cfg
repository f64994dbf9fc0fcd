SPECIFICATION Spec
CONSTANTS
  Requests = {r1, r2}
  Emails = {e1, e2}
  Before = Before
  None = None
SYMMETRY Symmetry
INVARIANTS
  PasswordWorks
