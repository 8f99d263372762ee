SPECIFICATION FairSpec
CONSTANTS
  d = d
  e = e
  h = h
  s = s
  Nil = Nil
  Word = 65536
  ProcUmask = 18
  BasePaths <- MCBasePaths
  FileNames <- MCFileNames
  FssDir <- MCFssDir
  PathMax = 9
  WalkDepth = 2
  Argvs <- MCArgvs
  MaxSignals = 2
INVARIANTS
  ParsedAsGiven
  StreamThere
  FailureSaid
  SpellingsMeet
  BuffersKept
  MkdirInOrder
PROPERTIES
  EndsOnSignal
