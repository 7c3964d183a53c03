SPECIFICATION Spec
CONSTANTS
  Byte = {1, 2, 3, 4, 5, 6, 7, 8, 9, 10, 11}
  NUL = 0
  JUNK = 0
  B_SHIFT = 1
  MaxLen = 4
  OutSize = 2
  HeaderLen = 3
  AnswerLen = 11
  PAGE_READ_BUFSIZE = 4
  KernelSize = 3
  Pressure = TRUE
INVARIANTS UsersMaskRestored
CHECK_DEADLOCK FALSE
