SPECIFICATION FairRevocationSpec
CONSTANTS
  s1 = s1
  r1 = r1
  r2 = r2
  r3 = r3
  k1 = k1
  i1 = i1
  NoSession = NoSession
  NoInstance = NoInstance
  NoRoute = NoRoute
  Session = {s1}
  Route = {r1, r2, r3}
  Token = {k1}
  Instance = {i1}
  RoleOf <- LoneRole
  RouteOf <- LoneRoute
  TokenOf <- OneToken
  InstanceOf <- LoneInstance
  FirstRoute <- FirstValue
  Changes = {"disable", "lifetime", "delete", "rotate"}
  MaxTime = 2
  MaxChanges = 2
  Events = {"break"}
  Kickable = {}
  Labelling = {}
INVARIANTS
  RevocationInv
PROPERTIES
  RevokedSessionsLeave
  LegacySessionsLeave
  DropsDeliver
