SPECIFICATION Spec
CONSTANTS
  c1 = c1
  c2 = c2
  Clients = {c1, c2}
  MAX_CLIENTS = 2
  LISTEN_BACKLOG = 1
  AddrNum = 1
  FdLimit = 1
  BUF_LEN = 2
  SockBuf = 1
  FileSizes = {2}
  LittleEndian = TRUE
  UninitN <- AnySign
  MayHang = {}
  Restarts = 0
INVARIANTS
  TimeoutReported
CHECK_DEADLOCK FALSE
