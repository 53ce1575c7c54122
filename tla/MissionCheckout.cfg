SPECIFICATION MissionSpec
CONSTANTS
  w1 = w1
  w2 = w2
  i1 = i1
  MissionTask = {w1, w2}
  Isolated = {i1}
  NoBranch = NoBranch
  ExplicitProject = TRUE
  MaxChanges = 2
  MaxAssigns = 4
INVARIANTS
  CheckoutIsTheUsers
CHECK_DEADLOCK FALSE
