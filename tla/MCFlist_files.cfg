SPECIFICATION Spec
CONSTANTS
  d = d
  f = f
  g = g
  Paths = {d, f}
  Base = base
  Parent <- Siblings
  Hidden = {}
  FssPrefixed = {}
  Unreadable = {}
  LFPaths = {}
  CutTo <- CutSibling
  Contents = {c1, c2}
  EmptyDigest = nil
  ForceUseDigest = FALSE
  IncludeHidden = FALSE
  MtimeTellsVersions = FALSE
  UserOps = {"create", "modify", "remove"}
  MaxClock = 3
  MaxUpdates = 2
INVARIANTS
  AssertFiles
CHECK_DEADLOCK FALSE
