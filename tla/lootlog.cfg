SPECIFICATION FairSpec
CONSTANTS
  c1 = c1
  c2 = c2
  NoOne = NoOne
  Caller <- Callers
  RowSizes = {1, 3}
  HeaderSize = 2
  BufferSize = 2
  MaxRows = 3
  MaxStarts = 2
INVARIANTS
  FileInOrder
  Durable
  RInv
PROPERTIES
  RowLogSpec
  CallsReturn
CHECK_DEADLOCK FALSE
