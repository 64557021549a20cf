SPECIFICATION Spec
CONSTANTS
  Ids = 4
  TelegramTime = 2
  WdTime = 3
  HsTime = 1
  PollEvery = 1
  RxSize = 3
  WireSize = 1
  Frags = {2}
  FragsUp = {2}
  MaxQueued = 1
  Bufs = 1
  IgnoresR = TRUE
  Ready = {TRUE}
  Spoils = FALSE
  Works = FALSE
  Heals = FALSE
INVARIANT TypeOK
PROPERTIES LinkIsStopAndWait FragmentsWhole BufferKeptUntilTaken LossReportedOnce MessageUpWhole
