SPECIFICATION Spec
CONSTANTS
  Calls = {r1, r2}
  Users = {a, b, c}
  Organization = Organization
  Projects = {p1, p2, p3}
  MaxRequests = 2
  Before = Before
  None = None
SYMMETRY Symmetry
INVARIANTS
  TypeOK
  RequestsFit
PROPERTIES
  LastOwnerStays
  JoinedAsAsked
  RoleWhenActing
