CONSTANTS
  r1 = r1
  r2 = r2
  w1 = w1
  w2 = w2
  NULL = NULL
  Reader <- Readers
  Writer <- Writers
  INTQ_BUFSIZE = 3
  MaxString = 2
  MaxInput = 2
SPECIFICATION FairSpec
INVARIANTS BytesInOrder
PROPERTIES EverythingArrives
CHECK_DEADLOCK FALSE
