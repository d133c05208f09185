SPECIFICATION FairSpec
CONSTANTS
  Main = main
  ClientWorkers = {c1, c2}
  PrefetchWorkers = {p1}
  Connections = {a1, a2}
  Phantoms = {}
  PrefetchJobs = {l1, l2}
  ClientMax = 1
  PrefetchMax = 2
  MaxLinks = 1
  NoThread = NoThread
  NoJob = NoJob
PROPERTIES
  HeardIsClosed
  ShutdownCompletes
