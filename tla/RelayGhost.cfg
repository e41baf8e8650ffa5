SPECIFICATION Spec
CONSTANTS
  s1 = s1
  s2 = s2
  s3 = s3
  r1 = r1
  r2 = r2
  k1 = k1
  i1 = i1
  i2 = i2
  NoSession = NoSession
  NoInstance = NoInstance
  Session = {s1, s2}
  Route = {r1, r2}
  Token = {k1}
  Instance = {i1, i2}
  RoleOf <- PairRole
  RouteOf <- OneRoute
  TokenOf <- OneToken
  InstanceOf <- PairInstance
  Events = {"break"}
  Kickable = {}
  Labelling = {}
INVARIANTS
  NoGhostPeer
