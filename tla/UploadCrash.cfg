SPECIFICATION Spec
CONSTANTS
  Request = {r1, r2}
  FileID = {f1}
  Dir = {d1}
  Meta <- MixedFile
  Data <- TwoSizes
  None = None
  MaxSlots = 2
  MaxChunks = 2
  MaxActive = 2
  MaxTombs = 1
  MaxPubs = 1
  MaxSkips = 1
  MaxCrashes = 1
  Op = {"chunk", "complete", "cancel"}
  Hazard = {"fault", "removal", "read", "expire"}
SYMMETRY Symmetry
INVARIANTS
  AckedChunkKept
PROPERTIES
  PublishedWhole
