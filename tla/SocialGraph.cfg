SPECIFICATION Spec
CONSTANTS
  Requests = {r1, r2, r3}
  Users = {a, b}
  Before = Before
  None = None
SYMMETRY Symmetry
INVARIANTS
  TypeOK
  FriendsBothWays
  RelationsExclude
  DeadlockOnlyCrosswise
PROPERTIES
  FriendsByRequest
