\* One byte at most during a kfifo call, as on the board; the FIFO may be full
\* when the reader comes.
CONSTANTS
  Size = 4
  Mod = 16
  RecvLen = 2
  Burst = 1
  FirstLoads = {"in"}
  MaxRcvd = 6
SPECIFICATION Spec
INVARIANT OrderKept
