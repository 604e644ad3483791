SPECIFICATION Spec
CONSTANTS
  Request = {r1, r2}
  FileID = {f1}
  Dir = {d1}
  Meta <- OneChunkFile
  Data <- OneChunk
  None = None
  MaxSlots = 2
  MaxChunks = 1
  MaxActive = 1
  MaxTombs = 1
  MaxPubs = 1
  MaxSkips = 0
  MaxCrashes = 0
  Op = {"chunk", "cancel"}
  Hazard = {"expire"}
INVARIANTS
  QueuedChunkStaysOut
