SPECIFICATION LiveSpec
CONSTANTS
  w1 = w1
  w2 = w2
  r1 = r1
  r2 = r2
  n1 = n1
  n2 = n2
  a = a
  b = b
  Writers = {w1, w2}
  Readers = {r1, r2}
  Names = {n1}
  Scripts = {a, b}
  NoScript = NoScript
  NoName = NoName
  Mortal = {w1, r1}
  MaxStores = 3
INVARIANT OneScriptPerName
INVARIANT LibraryLock
PROPERTY ImplementsDictionary
PROPERTY LibraryProgress
CHECK_DEADLOCK FALSE
