SPECIFICATION LiveSpec
CONSTANTS
  c1 = c1
  c2 = c2
  c3 = c3
  s1 = s1
  s2 = s2
  s3 = s3
  Callers = {c1, c2}
  LibraryCallers = {c1}
  Refreshers = {c2}
  Discarders = {}
  Mortal = {}
  Closer = Closer
  Servers = {s1, s2}
  NoServer = NoServer
  ServersCrash = FALSE
  MAX_SERVERS_PER_GENERATION = 1
  MaxRefreshes = 1
  MaxLibraries = 1
PROPERTY RunsEnd
CHECK_DEADLOCK FALSE
