CONSTANTS
  Messages = {m1, m2, m3, m4}
  Reachable = {m1, m2, m3}
  Senders = {s1, s2}
  Workers = {w1, w2}
  Capacity = 1
  NoMsg = NoMsg
SPECIFICATION SendersSpec
INVARIANT PushedOnce
PROPERTIES SendersNeverWait QueuePushed SignalEnds
CHECK_DEADLOCK FALSE
