SPECIFICATION Spec
CONSTANTS
  d = d
  f = f
  g = g
  Paths = {d, f}
  Base = base
  Parent <- Nested
  Hidden = {}
  FssPrefixed = {}
  Unreadable = {}
  LFPaths = {}
  CutTo <- NoCut
  Contents = {c1, c2}
  EmptyDigest = nil
  ForceUseDigest = FALSE
  IncludeHidden = FALSE
  MtimeTellsVersions = TRUE
  UserOps = {"create", "modify", "remove"}
  MaxClock = 3
  MaxUpdates = 2
INVARIANTS
  TypeOK
  UniqueValid
  MirrorsTree
  DigestFresh
  SavedWasVisited
SYMMETRY Swap
