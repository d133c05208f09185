SPECIFICATION Spec
CONSTANTS
  ClientThreads = {c1, c2}
  PrefetchThreads = {p1}
  Keys = {k1}
  TTL = 2
  MaxReaders = 3
  NoKey = NoKey
  Chunks = 2
  Faults = {"connect"}
  HeaderComesWhole = TRUE
  Garbage = {"null", "wild"}
SYMMETRY Interchangeable
INVARIANT RecordsAreReleased
