CONSTANTS
  NoProc = NoProc
  Readers = {p1, p2}
  Killable = {p1}
  Chars = {"a", "nl", "eof"}
  INPUT_BUF = 3
  WRAP = 6
  MaxN = 2
  c1 = c1
  c2 = c2
  NoCpu = NoCpu
SPECIFICATION MCSpec
INVARIANTS ScreenShows
PROPERTIES ImplementsLines ReadReturns
CHECK_DEADLOCK FALSE
