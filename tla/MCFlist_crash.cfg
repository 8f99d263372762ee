SPECIFICATION Spec
CONSTANTS
  d = d
  f = f
  g = g
  Paths = {d, f, g}
  Base = base
  Parent <- Siblings
  Hidden = {g}
  FssPrefixed = {}
  Unreadable = {g}
  LFPaths = {}
  CutTo <- CutSibling
  Contents = {c1}
  EmptyDigest = nil
  ForceUseDigest = TRUE
  IncludeHidden = FALSE
  MtimeTellsVersions = TRUE
  UserOps = {"create", "mknod", "remove"}
  MaxClock = 2
  MaxUpdates = 1
INVARIANTS
  LinesPaired
  LoadRestoresSave
  LoadDamageConfined
  MirrorsNames
  UndisturbedUpdateSurvives
