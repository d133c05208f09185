SPECIFICATION FairSpec
CONSTANTS
  Workers = {w1, w2}
  Names = {n1}
  Addresses = {a1, a2}
  Ports = {p80}
  MaxLines = 2
  MaxAddresses = 2
  NoPort = NoPort
  NoName = NoName
  NoThread = NoThread
INVARIANTS TypeOK BlockedIsNotServed RefusedIsBlocked OneLookupAtATime OnlyBlockedLeak
PROPERTY RequestsAreResolved
