\* Two frames, up to four pages, one failing read or write.
SPECIFICATION Spec
CONSTANTS
  POOL_SIZE = 2
  MaxPages = 4
  MaxVersion = 3
  MaxFaults = 1
INVARIANTS PoolTypeOK OneCopy NoHole
PROPERTIES ImplementsPages KeepsLast
