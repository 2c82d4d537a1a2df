\* Two clients that change their addresses: sessions, wills and the timer's walk.
CONSTANTS
  c1 = c1
  c2 = c2
  a1 = a1
  a2 = a2
  t1 = t1
  t2 = t2
  t3 = t3
  NoAddr = NoAddr
  NoTopic = NoTopic
  Clients = {c1, c2}
  Addrs = {a1, a2}
  Topics = {t1}
  Wildcards <- NoWildcards
  Wills <- EmptyOrRetained
  RetainFlags = {FALSE}
  QoS = {0}
  Durations = {1}
  SendTimeout = 1
  MaxMsgId = 1
  MaxTopicId = 1
SPECIFICATION Spec
SYMMETRY Symmetry
INVARIANTS
  AddrUnique
  WalkFollowsList
PROPERTY
  WillDelivered
