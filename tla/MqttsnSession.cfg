\* One client and one topic: the whole life of a session, under the timer's fairness.
CONSTANTS
  c1 = c1
  c2 = c2
  a1 = a1
  a2 = a2
  t1 = t1
  t2 = t2
  t3 = t3
  NoAddr = NoAddr
  NoTopic = NoTopic
  Clients = {c1}
  Addrs = {a1}
  Topics = {t1}
  Wildcards <- NoWildcards
  Wills <- NoWills
  RetainFlags = {TRUE}
  QoS = {0, 1, 2}
  Durations = {0, 1, 2}
  SendTimeout = 1
  MaxMsgId = 2
  MaxTopicId = 1
SPECIFICATION FairSpec
INVARIANTS
  TypeOK
  KeepaliveArmed
PROPERTIES
  DrainedBeforeAnswer
  SleepersUndisturbed
  
  SilentClientExpires
  Retransmission
