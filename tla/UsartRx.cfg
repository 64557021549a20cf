\* A telegram of two bytes, a FIFO of four, counters that wrap at sixteen and a
\* line that outruns them; the build loads fifo->in before fifo->out.
CONSTANTS
  Size = 4
  Mod = 16
  RecvLen = 2
  Burst = 2
  FirstLoads = {"in"}
  MaxRcvd = 17
SPECIFICATION FairSpec
INVARIANTS
  TypeOK
  FifoBounds
  StreamIntact
PROPERTY TelegramServed
