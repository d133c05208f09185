SPECIFICATION Spec
CONSTANTS
  ClientThreads = {c1, c2}
  PrefetchThreads = {p1}
  Keys = {k1}
  TTL = 2
  MaxReaders = 2
  NoKey = NoKey
  Chunks = 2
  Faults = {"open", "connect", "client", "server", "length"}
  HeaderComesWhole = FALSE
  Garbage = {"null", "wild"}
SYMMETRY Interchangeable
INVARIANTS
  TypeOK
  ExclusiveWriter
PROPERTY
  StableWhileRead
