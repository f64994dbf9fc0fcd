SPECIFICATION Spec
CONSTANTS
  Requests = {r1, r2, r3}
  Emails = {e1, e2, e3}
  Before = Before
  None = None
SYMMETRY Symmetry
INVARIANTS
  TypeOK
  VerifiedByItsMailbox
  ChangeCodeUsedOnce
  UnexpectedOnlyByRace
