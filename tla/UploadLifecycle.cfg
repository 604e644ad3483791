SPECIFICATION Spec
CONSTANTS
  Request = {r1, r2, r3}
  FileID = {f1}
  Dir = {d1, d2}
  Meta <- TwoMetas
  Data <- OneChunk
  None = None
  MaxSlots = 2
  MaxChunks = 2
  MaxActive = 2
  MaxTombs = 1
  MaxPubs = 1
  MaxSkips = 0
  MaxCrashes = 0
  Op = {"chunk", "complete", "cancel", "sweep"}
  Hazard = {"switch", "age"}
SYMMETRY Symmetry
INVARIANTS
  BindingExact
  QueuedChunkStaysOut
PROPERTIES
  ImplementsUploadView
