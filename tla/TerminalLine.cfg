CONSTANTS
  Terms = {t0, t1}
  Chars = {"a"}
  Blank = "a"
  KB_BUF_SIZE = 2
  LF = 1
  TAB_STOP = 2
  ReadCounts = {1, 3}
  KeyPoints = {"user", "peek", "show", "test", "hlt", "halted"}
SPECIFICATION FairSpec
INVARIANTS TypeOK
PROPERTIES ReadDeliversLine ReadTakesLine EnterEndsRead
