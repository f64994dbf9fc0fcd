SPECIFICATION Spec
CONSTANTS
  Requests = {r1, r2, r3, r4}
  Null = Null
  Wrong = Wrong
  Before = Before
SYMMETRY Symmetry
INVARIANTS
  TypeOK
  LockedOutOnlyByRace
  VerifiedIsConfirmed
  NewestMailIsTheCode
PROPERTIES
  UsedCodeIsRefused
  ErasedOnlyByItsUser
