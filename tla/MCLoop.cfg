SPECIFICATION Spec
CONSTANTS
  NBells = 3
  Duties = {1, 2}
  Confirm = 2
  DriveOk <- DriveOkDef
  Finds <- FindsDef
  Bound = 1
  RecvWait = 2
  SendWait = 3
  HeadLen = 2
  FrameLen = 3
  MaxSpan = 7
  Timeout = 3
  MaxAge = 2
  Scenes <- ThreeScenes
INVARIANTS HeldAsMeant LookRestoresThresholds  
PROPERTIES NamedForItsCause NobodyIsResetEarly HungIsReset
CHECK_DEADLOCK FALSE
