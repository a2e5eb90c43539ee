SPECIFICATION FairSpec
CONSTANTS
  Boots = 2
  MaxSeq = 1
  DeadS = 2
  Backoff <- MCBackoff
  OkS = 1
  RejoinS = 2
INVARIANTS
  OffIsMeant
PROPERTIES
  RejoinsBackOff
  DeadLinkIsCycled
  LostWifiIsJoined
