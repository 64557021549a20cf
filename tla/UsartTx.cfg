\* Strings shorter and longer than a FIFO of four bytes, counters that wrap at
\* twelve. The program stops sending after MaxBytes.
CONSTANTS
  Size = 4
  Mod = 12
  Lens = {2, 3, 5}
  MaxBytes = 14
SPECIFICATION FairSpec
INVARIANTS
  TypeOK
  TxBounds
  NothingStranded
  WireInOrder
PROPERTY SendReturns
CHECK_DEADLOCK FALSE
