SPECIFICATION FairSpec
CONSTANTS
  s1 = s1
  s2 = s2
  l1 = l1
  l2 = l2
  Session = {s1, s2}
  Worker = Worker
  Lane = {l1, l2}
  NoLane = NoLane
  MsgCount = 4
  QueueCap = 2
INVARIANTS
  TypeOK
  PromptOrder
PROPERTIES
  MessagesAreHandled
  ImplementsSessionPrompts
CHECK_DEADLOCK FALSE
