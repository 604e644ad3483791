SPECIFICATION BackgroundSpec
CONSTANTS
  Request = {r1, r2}
  FileID = {f1}
  Dir = {d1, d2}
  Meta <- OneChunkFile
  Data <- OneChunk
  None = None
  MaxSlots = 2
  MaxChunks = 1
  MaxActive = 1
  MaxTombs = 1
  MaxPubs = 0
  MaxSkips = 0
  MaxCrashes = 0
  Op = {"chunk", "sweep"}
  Hazard = {"switch", "age"}
  Advert = {1, 2, 3}
  Caller = {c1, c2, c3}
  LockID = {id1, id2}
  LockObj = {o1, o2, o3}
  Null = Null
INVARIANTS
  RefsExact
  SuccessorHeard
PROPERTIES
  AbandonedSwept
  EventuallyHeard
  ProgramEnds
  EventuallyInside
  ImplementsKeyedMutex
