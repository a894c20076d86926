SPECIFICATION Spec
CONSTANTS
  c1 = c1
  c2 = c2
  s1 = s1
  s2 = s2
  Clients = {c1, c2}
  Servers = {s1}
  NoServer = NoServer
  MAX_SERVERS_PER_GENERATION = 1
  MaxLives = 2
  MaxIds = 6
  MaxDiscards = 1
  Slow = TRUE
INVARIANT ScriptRunsOnce
INVARIANT NoLeaseLeft
INVARIANT IdTokenNotLost
SYMMETRY Sym
