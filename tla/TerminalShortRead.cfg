CONSTANTS
  Terms = {t0, t1}
  Chars = {"a", "b"}
  Blank = "blank"
  KB_BUF_SIZE = 3
  LF = 1
  TAB_STOP = 2
  ReadCounts = {2, 3}
  KeyPoints = {"user", "peek", "show", "test", "hlt", "halted"}
SPECIFICATION Spec
PROPERTIES NewlineFits
