SPECIFICATION FairSpec
CONSTANTS
  Byte = {1, 2, 3, 4, 5, 6, 7, 8, 9, 10, 11, 12, 13, 14, 15, 16, 17}
  NUL = 0
  JUNK = 0
  B_SHIFT = 1
  MaxLen = 4
  OutSize = 2
  HeaderLen = 4
  AnswerLen = 17
  PAGE_READ_BUFSIZE = 5
  KernelSize = 4
  Pressure = FALSE
INVARIANTS TypeOK StreamIntact ClosedWhenSent AnswerInv
PROPERTIES Answered
CHECK_DEADLOCK FALSE
