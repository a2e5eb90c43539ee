SPECIFICATION FairSpec
CONSTANTS
  SilentS = 2
  DeadS = 3
  SettleS = 2
  CalmS = 2
  PicoS = 3
  HoldS = 1
  GatewayN = 2
  StallN = 2
  Late = {1}
  Worlds = {{"wifi", "client"}, {"stall"}, {"gateway"}}
PROPERTIES
  WedgedIsReset
  ServerReturns
