SPECIFICATION FairSpec
CONSTANTS
  Request = {r1, r2}
  FileID = {f1, f2}
  Dir = {d1}
  Meta <- OneChunkFile
  Data <- OneChunk
  None = None
  MaxSlots = 2
  MaxChunks = 1
  MaxActive = 1
  MaxTombs = 1
  MaxPubs = 1
  MaxSkips = 1
  MaxCrashes = 0
  Op = {"chunk", "complete"}
  Hazard = {"fault", "read"}
INVARIANTS
  ActiveLimit
PROPERTIES
  EveryRequestAnswered
