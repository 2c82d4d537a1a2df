\* One client, a wildcard, and more topics than topic ids: the lists and the store.
CONSTANTS
  c1 = c1
  c2 = c2
  a1 = a1
  a2 = a2
  t1 = t1
  t2 = t2
  t3 = t3
  NoAddr = NoAddr
  NoTopic = NoTopic
  Clients = {c1}
  Addrs = {a1}
  Topics = {t1, t2, t3}
  Wildcards <- OneWildcard
  Wills <- NoWills
  RetainFlags = {FALSE}
  QoS = {1}
  Durations = {1}
  SendTimeout = 1
  MaxMsgId = 1
  MaxTopicId = 2
SPECIFICATION Spec
SYMMETRY TopicSymmetry
INVARIANTS
  OneInFlight
  TopicsExist
  TopicIdsUnique
PROPERTY
  TopicIdTold
