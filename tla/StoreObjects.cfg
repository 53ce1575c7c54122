SPECIFICATION StoreSpec
CONSTANTS
  Task = {1, 2}
  Sha = {1, 2, 3}
  Inode = {1, 2, 3, 4, 5}
  Wants <- WantsOf
  Extra <- ComposeFile
  Plain = {2}
  Local = {3}
  Scratch <- ScratchOf
  Length = 2
  MaxTries = 3
  MaxAttempts = 2
  MaxTrouble = 0
INVARIANTS
  ObjectsAreVerified
CHECK_DEADLOCK FALSE
