SPECIFICATION DigestsSpec
CONSTANTS
  Unset = Unset
  BlockSizes = {0, 1, 2, 3}
  FileSizes <- MCFileSizes
  ReadFiles <- MCReadFiles
  MappedFiles <- MCMappedFiles
  SHA1_BUF_LEN = 1024
  Known <- MCKnown
INVARIANTS
  BlocksFit
  Tiled
  Windows
  PaddedIsCompressed
  KnownDigests
CHECK_DEADLOCK FALSE
