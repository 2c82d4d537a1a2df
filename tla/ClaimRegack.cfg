\* Two REGISTERs of one topic may be on their way with different ids.
CONSTANTS
  c1 = c1
  a1 = a1
  t1 = t1
  Clients = {c1}
  Addrs = {a1}
  NoAddr = NoAddr
  Topics = {t1}
  NoTopic = NoTopic
  Wildcards = {}
  Wills <- NoWills
  RetainFlags = {FALSE}
  QoS = {1}
  Durations = {1}
  SendTimeout = 1
  MaxMsgId = 5
  MaxTopicId = 1
SPECIFICATION ClaimSpec
INVARIANT RegackFindsRegister
