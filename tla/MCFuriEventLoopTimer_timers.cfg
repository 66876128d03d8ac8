SPECIFICATION Spec
CONSTANTS
  Timers = {t1, t2}
  Intervals = {1, 2}
  TickPeriods = {}
  Wrap = 4
  MaxLate = 1
  MaxPending = 0
  Signals = {"Event", "Stop"}
  UserOps <- TimerOps
SYMMETRY Symmetry
INVARIANT ListsSound
PROPERTIES EarliestDeadlineFires PeriodicCatchesUp
CHECK_DEADLOCK FALSE
