SPECIFICATION FairSpec
CONSTANTS
  Ids = 4
  TelegramTime = 3
  WdTime = 4
  HsTime = 1
  PollEvery = 2
  RxSize = 3
  WireSize = 1
  Frags = {1}
  FragsUp = {}
  MaxQueued = 0
  Bufs = 1
  IgnoresR = FALSE
  Ready = {TRUE}
  Spoils = TRUE
  Works = FALSE
  Heals = TRUE
PROPERTIES TelegramAnswered LinkIsStopAndWait
