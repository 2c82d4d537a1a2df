\* Three connections, two of them from one address; two are accepted in a run.
CONSTANTS
  a1 = a1
  a2 = a2
  t1 = t1
  NoConn = NoConn
  NoTopic = NoTopic
  Addrs = {a1, a2}
  Conns = {1, 2, 3}
  AddrOf <- AddrOfConn
  Topics = {t1}
  Users <- OneUser
  Scripts <- ScriptsToCheck
  Sizes = {1, 4}
  MaxConns = 2
  MaxBuf = 4
  MaxQueue = 2
SPECIFICATION FairSpec
INVARIANTS
  TypeOK
  SessionFollowsConnection
  HandledInOrder
  OrderOnItsWay
PROPERTIES
  OwnSession
  WillPublished
  OrderedIsClosed
  SilentClientEnds
  ImplementsSessions
