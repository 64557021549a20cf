\* The settings whose variables are loaded from each other's place.
CONSTANTS
  Cmds = {"CMD_GATEWAY", "CMD_NETMASK"}
  Numbers = {1}
  Dates <- MCDates
  MaxPending = 1
  RecvFrames = 11
  TCP_SND_QUEUELEN = 22
  MaxTicks = 0
SPECIFICATION Spec
INVARIANT ReadsBack
