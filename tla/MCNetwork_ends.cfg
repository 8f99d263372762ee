SPECIFICATION FairSpec
CONSTANTS
  c1 = c1
  c2 = c2
  Clients = {c1, c2}
  MAX_CLIENTS = 2
  LISTEN_BACKLOG = 1
  AddrNum = 1
  FdLimit = 1
  BUF_LEN = 2
  SockBuf = 1
  FileSizes = {2}
  LittleEndian = TRUE
  UninitN <- AnySign
  MayHang = {c1}
  Restarts = 1
INVARIANTS
  TypeOK
  SlotsAgree
  ReadyIsReal
  NothingLost
PROPERTIES
  LowestServed
CHECK_DEADLOCK FALSE
