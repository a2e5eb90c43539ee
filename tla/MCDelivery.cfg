SPECIFICATION Spec
CONSTANTS
  a = a
  b = b
  Clients = {a, b}
  N = 3
  StrokeKeep = 2
  ReplayN = 1
  ReplaySizes = {0, 1}
  TodoMax = 2
  BatchMax = 2
  MaxWire = 1
  Scenes <- AllScenes
SYMMETRY Symmetry
INVARIANTS
  InOrder
  NoStrokeForgotten
  QueuesAreBounded
PROPERTIES
  InnocentsStay
  SensePathNeverWrites
  SealedSendsNothing
  ConfirmedWithReason
