\* Up to two timers of either kind.
CONSTANTS
  NumSlots = 2
  Period = 2
  Timeouts = {3, 4}
  Flags = {0, 1}
  Procs = {watchdog_task}
  NoProc = NULL
  Horizon = 7
SPECIFICATION Spec
INVARIANT CallTargetValid
