SPECIFICATION FairSpec
CONSTANTS
  Requests = {r1, r2, r3, r4}
  Users = {u1, u2}
  NoClaims = NoClaims
INVARIANTS
  TypeOK
  RotationIsExclusive
  OverIsOver
  SessionKept
  SurvivorsWereRotated
PROPERTIES
  ImplementsSessions
  EveryRequestAnswered
