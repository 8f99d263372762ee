SPECIFICATION FairSpec
CONSTANTS
  a = a
  b = b
  Names = {a, b}
  HiddenNames = {}
  BaseHidden = FALSE
  MaxDepth = 2
  InitialTrees <- AllTrees
  UserOps = {"mkdir", "cleanup"}
  PipeCap = 1
  QueueCap = 2
  ReadCap = 2
  HtbSize = 5
  MaxMade = 2
  MaxRefused = 1
INVARIANTS
  StackRising
  OneWatcherPerPath
  TreeMirrorsPaths
  Followed
  CleanupSafe
PROPERTIES
  EventuallyWatched
CHECK_DEADLOCK FALSE
