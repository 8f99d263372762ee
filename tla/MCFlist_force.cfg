SPECIFICATION Spec
CONSTANTS
  d = d
  f = f
  g = g
  Paths = {d, f}
  Base = base
  Parent <- Siblings
  Hidden = {}
  FssPrefixed = {}
  Unreadable = {}
  LFPaths = {}
  CutTo <- CutSibling
  Contents = {c1, c2}
  EmptyDigest = nil
  ForceUseDigest = TRUE
  IncludeHidden = FALSE
  MtimeTellsVersions = TRUE
  UserOps = {"create", "modify", "remove"}
  MaxClock = 3
  MaxUpdates = 2
INVARIANTS
  DigestFresh
CHECK_DEADLOCK FALSE
