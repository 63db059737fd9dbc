CONSTANTS
  DP_PAGESIZE = 3
  HDR = 1
  recv_startpage = 5
  recv_stoppage = 8
  SENDQ_LEN = 2
  ETH_MIN_SIZE = 1
  ETH_MAX_SIZE = 2
  Lengths = {1}
  BufSizes = {}
  OutSizes = {1}
  MaxIn = 0
  MaxOut = 2
SPECIFICATION Spec
INVARIANTS SentIsWritten
CHECK_DEADLOCK FALSE
