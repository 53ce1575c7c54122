SPECIFICATION Spec
CONSTANTS
  c1 = c1
  c2 = c2
  b1 = b1
  Conn = {c1}
  NoConn = NoConn
  ReadLoop = readLoop
  Beat = {b1}
  MsgCount = 0
  OfflineMax = 2
  ConflictRetries = 1
  FailLimit = 5
INVARIANT
  FreshWindow
CHECK_DEADLOCK FALSE
