SPECIFICATION Spec
CONSTANTS
  a = a
  b = b
  Names = {a, b}
  HiddenNames = {}
  BaseHidden = FALSE
  MaxDepth = 2
  InitialTrees <- SmallTrees
  UserOps = {"mkdir", "rmdir", "rename", "moveout"}
  PipeCap = 1
  QueueCap = 2
  ReadCap = 2
  HtbSize = 5
  MaxMade = 2
  MaxRefused = 1
INVARIANTS
  TypeOK
  EachAlone
  NoneLeadsToFreed
  RemovesOwnOnly
SYMMETRY Swap
CHECK_DEADLOCK FALSE
