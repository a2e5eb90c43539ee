SPECIFICATION Spec
CONSTANTS
  p1 = p1
  p2 = p2
  s1 = s1
  t1 = t1
  t2 = t2
  Peers = {p1, p2}
  Patched = {p1}
  Sections = {s1}
  Texts = {t1, t2}
  RebuildS = 1
  DeadlineS = 1
  HintS = 1
  FullMinS = 1
  NomemS = 1
  WindowS = 1
  PeerN = 1
  MaxPeers = 1
  QueueMax = 2
  MaxUpsets = 2
SYMMETRY Symmetry
INVARIANTS
  CopiesAgree
  RepliesGiveWay
