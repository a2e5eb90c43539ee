SPECIFICATION FairSpec
CONSTANTS
  a = a
  b = b
  Clients = {a}
  N = 2
  StrokeKeep = 2
  ReplayN = 1
  ReplaySizes = {0, 1}
  TodoMax = 2
  BatchMax = 2
  MaxWire = 1
  Scenes <- OneDisplay
PROPERTIES
  StrokesArrive
  StrokesAreConfirmed
