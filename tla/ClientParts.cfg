SPECIFICATION ClientSpec
CONSTANTS
  Chunk = {0, 1, 2}
  PARALLEL_CHUNKS = 2
  CHUNK_RETRY_LIMIT = 1
  MaxToken = 4
  MaxGeneration = 5
  MaxEvents = 3
  Name = {0, 1}
  Filters <- TwoFilters
  FILE_PAGE_SIZE = 1
  MaxLoads = 3
  MaxDeletes = 1
  MaxNews = 1
  Service = {s1, s2}
  MaxSearches = 4
  MaxResolves = 5
  MaxPosts = 2
  IP = {a1, a2, a3}
  UploadDir = {u1, u2}
  NoIP = NoIP
INVARIANTS
  OneRunSends
  NeverStuck
  NeverStranded
  ListSettles
  OneResolve
  ShownAreCurrent
  SearchWhileHome
  DesktopAgrees
CHECK_DEADLOCK FALSE
