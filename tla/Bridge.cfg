SPECIFICATION BridgeSpec
CONSTANTS
  p1 = p1
  p2 = p2
  q1 = q1
  t1 = t1
  s1 = s1
  s2 = s2
  r1 = r1
  r2 = r2
  r3 = r3
  Prompt = {p1, p2}
  Question = {q1}
  Terminal = {t1}
  NoPrompt = NoPrompt
  MaxErrors = 2
  MaxPipe = 1
  MaxFrames = 2
  Session = {s1, s2}
  Id = {1}
  NoSession = NoSession
  ChannelCap = 1
  MaxEmits = 3
  MaxAttempts = 2
  MaxQuestions = 2
  Report = {r1, r2, r3}
  ReportedTask <- MCReportedTask
  NoReport = NoReport
  MaxRetries = 2
INVARIANTS
  BridgeTypeOK
  TurnLatch
  NoDeafWaiter
  
  
  
  
PROPERTIES
  PromptGoesThrough
CHECK_DEADLOCK FALSE
