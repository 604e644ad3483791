SPECIFICATION AppSpec
CONSTANTS
  Service = {s1}
  MaxSearches = 2
  MaxResolves = 4
  MaxPosts = 2
INVARIANT FoundAreListed
CHECK_DEADLOCK FALSE
