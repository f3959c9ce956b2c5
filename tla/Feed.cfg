SPECIFICATION FairSpec
CONSTANTS
  u1 = u1
  u2 = u2
  Caller = {u1, u2}
  MaxConn = 2
  MaxVersion = 2
CHECK_DEADLOCK FALSE
INVARIANTS ExactDelivery ChannelsClosedOnce
PROPERTIES NoLostWakeup UpdateReachesConsumer CloseEnds
