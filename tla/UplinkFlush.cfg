SPECIFICATION Spec
CONSTANTS
  c1 = c1
  c2 = c2
  b1 = b1
  Conn = {c1}
  NoConn = NoConn
  ReadLoop = readLoop
  Beat = {b1}
  MsgCount = 3
  OfflineMax = 2
  ConflictRetries = 1
  FailLimit = 1
INVARIANT
  FlushKeepsRemaining
CHECK_DEADLOCK FALSE
