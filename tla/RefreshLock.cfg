SPECIFICATION Spec
CONSTANTS
  Calls = {c1, c2, c3}
  Tabs = {t1, t2}
  MaxCount = 1
  MaxRetries = 1
  Before = Before
  None = None
SYMMETRY Symmetry
INVARIANTS
  TypeOK
  OneRefreshUnlessRaced
  LockIsReleased
  StoredIsNewest
