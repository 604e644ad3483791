SPECIFICATION HubFairSpec
CONSTANTS
  Client = {c1}
  Sender = {s1}
  Msg = {m1, m2}
  Dir = {d1}
  None = None
  MaxFeedLen = 1
  BroadcastCap = 1
  SendCap = 1
  Hazard = {"net"}
PROPERTIES
  PostReturns
  Delivered
  PumpsEndTogether
  ShutdownEnds
CHECK_DEADLOCK FALSE
