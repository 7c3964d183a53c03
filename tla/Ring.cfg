\* A queue of 4 bytes that may grow once, to 8: data that wraps is moved.
\* Fresh memory holds zeros.
SPECIFICATION Spec
CONSTANTS
  Byte = {1, 2}
  NUL = 0
  JUNK = 0
  B_SHIFT = 1
  MaxLen = 8
  InitSizes = {2}
  MaxSizes = {8}
  MaxBlock = 2
INVARIANTS TypeOK
PROPERTIES IsByteQueue PutsProgress
