SPECIFICATION CacheSpec
CONSTANTS
  Ops = {o1, o2, o3}
  Requests = {commit, load}
  Commits = {commit}
  CacheCap = 2
  CacheTtl = 2
  MaxTime = 3
  MaxRuns = 3
  Nothing = Nothing
INVARIANT CacheConsistent
PROPERTY RememberedNotRerun
CHECK_DEADLOCK FALSE
