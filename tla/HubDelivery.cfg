SPECIFICATION HubSpec
CONSTANTS
  Client = {c1}
  Sender = {s1}
  Msg = {m1, m2, m3}
  Dir = {d1, d2}
  None = None
  MaxFeedLen = 2
  BroadcastCap = 1
  SendCap = 2
  Hazard = {"net", "switch"}
SYMMETRY Symmetry
INVARIANTS
  OpenWhileListed
  ContiguousDelivery
  NothingMissed
CHECK_DEADLOCK FALSE
