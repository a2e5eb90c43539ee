SPECIFICATION FairSpec
CONSTANTS
  MaxLevel = 3
  HoldS <- MCHoldS
  CalmS <- MCCalmS
  DrainS = 3
  AgeCap = 4
INVARIANTS
  SendInv
PROPERTIES
  LevelIsGivenUpSlowly
  KeepsPromiseFairly
  Recovers
