SPECIFICATION FairSpec
CONSTANTS
  Thread = {reader, reader2, sender}
  Reader = {reader, reader2}
  Timed = {}
  Elem = {e1, e2}
  NULL = NULL
PROPERTIES ReaderNotified
