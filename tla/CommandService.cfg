\* One setting, the clock; the third frame of a segment is cut off, and TCP's
\* queue takes two answers.
CONSTANTS
  Cmds = {"CMD_LOCAL_IP", "CMD_READ_DATE"}
  Numbers = {1}
  Dates <- MCDates
  MaxPending = 3
  RecvFrames = 2
  TCP_SND_QUEUELEN = 4
  MaxTicks = 2
SPECIFICATION Spec
INVARIANTS TypeOK ReadsBack OneAnswerEach ClockKept InterfaceAsShown
CONSTRAINT Bound
