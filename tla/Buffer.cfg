SPECIFICATION FairSpec
CONSTANTS
  Thread = {reader, timed, sender}
  Reader = {reader}
  Timed = {timed}
  Elem = {e1, e2, e3}
  NULL = NULL
INVARIANTS BufferInv
PROPERTIES FirstInFirstOut TimedReturns OnlyReaderNotified
