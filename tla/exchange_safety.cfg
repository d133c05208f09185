SPECIFICATION FairSpec
CONSTANTS
  Requests <- MCRequests
  OkHosts <- MCOkHosts
  BlockedHosts <- MCBlockedHosts
  Pages <- MCPageSet
  Memory <- MCMemory
  Size = 20
  MAX_URL_SIZE = 10
  MAX_NAME_LENGTH = 4
  KeepAlive = 1
  Unset = Unset
  NoReply = NoReply
  NoPage = NoPage
INVARIANTS
  TypeOK
  QueuedIsIncomplete
  HeardExpires
  NoSilentEnd
  RightAnswer
  CrashNeedsBlank
  WholePage
  CloseLinksAreFound
  PrefetchesAreRight
PROPERTIES
  HeardEnds
  PageEnds
