SPECIFICATION Spec
CONSTANTS
  Main = main
  ClientWorkers = {c1, c2}
  PrefetchWorkers = {p1, p2}
  Connections = {a1, a2}
  Phantoms = {f1}
  PrefetchJobs = {l1, l2, l3, l4}
  ClientMax = 1
  PrefetchMax = 2
  MaxLinks = 2
  NoThread = NoThread
  NoJob = NoJob
SYMMETRY Interchangeable
INVARIANTS
  TypeOK
  WithinSlots
  OneOwner
  NoLostWakeup
  NoStrandedProducer
  CleanShutdown
PROPERTY ImplementsLifecycle
