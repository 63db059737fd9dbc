CONSTANTS
  DP_PAGESIZE = 3
  HDR = 1
  recv_startpage = 5
  recv_stoppage = 9
  SENDQ_LEN = 2
  ETH_MIN_SIZE = 1
  ETH_MAX_SIZE = 4
  Lengths = {1, 4}
  BufSizes = {1, 4}
  OutSizes = {0, 1}
  MaxIn = 4
  MaxOut = 5
SPECIFICATION MCSpec
INVARIANTS SendQueueSound ReadsArrived
PROPERTIES HandlerEnds
CHECK_DEADLOCK FALSE
