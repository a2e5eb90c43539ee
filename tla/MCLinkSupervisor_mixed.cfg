SPECIFICATION Spec
CONSTANTS
  SilentS = 3
  DeadS = 4
  SettleS = 3
  CalmS = 3
  PicoS = 4
  HoldS = 2
  GatewayN = 2
  StallN = 2
  Late = {1}
  Worlds = {{"client", "wifi", "gateway"}, {"client", "wifi", "stall"}, {"wifi", "gateway", "stall"}}
INVARIANTS
  AskedIsWanted
PROPERTIES
  CyclesHaveEvidence
  ResetIsEarned
