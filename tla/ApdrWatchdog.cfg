SPECIFICATION SpecSilence
CONSTANTS
  Ids = 4
  TelegramTime = 2
  WdTime = 4
  HsTime = 1
  PollEvery = 1
  RxSize = 3
  WireSize = 1
  Frags = {2}
  FragsUp = {}
  MaxQueued = 1
  Bufs = 1
  IgnoresR = FALSE
  Ready = {TRUE}
  Spoils = TRUE
  Works = FALSE
  Heals = FALSE
PROPERTY WdTimeoutMeansSilence
