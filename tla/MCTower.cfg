SPECIFICATION Spec
CONSTANTS
  NChannels = 2
  QueueLen = 2
  GapMs = 1
  RearmMs = 1
  TrigGapMs = 1
  StuckMs = 1
  MaxAge = 1
  Scenes <- MCScenes
INVARIANTS
  NothingLostUnsaid
  PlugIsNotForgotten
  HeadsAreLit
  OnlyTakenNotesStay
