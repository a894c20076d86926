SPECIFICATION Spec
CONSTANTS
  c1 = c1
  c2 = c2
  c3 = c3
  s1 = s1
  s2 = s2
  s3 = s3
  Callers = {c1}
  LibraryCallers = {c1}
  Refreshers = {c1, c2}
  Discarders = {}
  Mortal = {c1, c2}
  Closer = Closer
  Servers = {s1, s2}
  NoServer = NoServer
  ServersCrash = TRUE
  MAX_SERVERS_PER_GENERATION = 1
  MaxRefreshes = 2
  MaxLibraries = 1
SYMMETRY Sym
INVARIANT ExclusiveServer
INVARIANT LockHeldOnce
INVARIANT EveryRefreshCounts
CHECK_DEADLOCK FALSE
