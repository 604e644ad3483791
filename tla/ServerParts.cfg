SPECIFICATION ServerSpec
CONSTANTS
  Msg = {m1, m2, m3, m4}
  Dir = {d1, d2}
  None = None
  MaxFeedLen = 2
  Hazard = {"fault", "crash", "switch"}
  Writer = {w1, w2, w3}
  Volume = {v1, v2}
  Size = {1, 3}
  MinFree = 1
  Capacity = 9
  MaxLost = 1
  MaxInt64 = 7
  Address = {a1, a2}
  Token = {t1, t2}
  MaxFailures = 2
  LockDuration = 2
  SessionTTL = 2
  Clock = {1, 2, 3, 4, 5, 6}
  File = {1, 2, 3}
  ModTime <- TwoTimes
  Changer = {r1}
  Lister = {l1}
  Absent = Absent
  MaxTime = 1
  MaxPageSize = 4
  Length = {0, 125, 126, 65535, 65536, 1048576, 1048577}
  maxWSMessageSize = 1048576
  MaxWire = 5
  Text <- BoundaryTexts
SYMMETRY Symmetry
INVARIANTS
  FeedDurable
  FeedSeparate
  NoOvercommit
  GuessesSpaced
  SessionExact
  ListingFresh
  PagesPartition
  FramesWhole
  Readable
CHECK_DEADLOCK FALSE
