\* Up to two periodic timers, one whose timeout is not a whole number of ticks.
CONSTANTS
  NumSlots = 2
  Period = 2
  Timeouts = {3, 4}
  Flags = {1}
  Procs = {watchdog_task}
  NoProc = NULL
  Horizon = 7
SPECIFICATION FairSpec
INVARIANTS
  TypeOK
  NeverEarly
PROPERTY TimerServed
