SPECIFICATION EdgeSpec
CONSTANTS
  g1 = g1
  g2 = g2
  k1 = k1
  k2 = k2
  p1 = p1
  p2 = p2
  c1 = c1
  NoPort = NoPort
  NoCatalog = NoCatalog
  Group = {g1, g2}
  Key = {k1, k2}
  GroupOf <- OneKeyEach
  Port = {p1, p2}
  Conn = {c1}
  MappingLists <- MovedPort
  Attempts <- OneReconnect
  Contested = {p2}
  Pending = 1
INVARIANTS
  EdgeInv
  ListenersMatch
  NoListenerOnceStopped
  NoForwardingAfterReturn
PROPERTIES
  FailsOnlyOnForeignPorts
  DroppedConnectionsEnd
  FailedListenersRecover
  StoppedEdgeReturns
