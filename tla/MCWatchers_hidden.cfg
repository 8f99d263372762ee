SPECIFICATION Spec
CONSTANTS
  a = a
  b = b
  Names = {a, b}
  HiddenNames = {b}
  BaseHidden = FALSE
  MaxDepth = 2
  InitialTrees <- AllTrees
  UserOps = {"rmdir"}
  PipeCap = 1
  QueueCap = 2
  ReadCap = 2
  HtbSize = 5
  MaxMade = 1
  MaxRefused = 1
INVARIANTS
  RemovesOwnOnly
CHECK_DEADLOCK FALSE
