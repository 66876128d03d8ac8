SPECIFICATION Spec
CONSTANTS
  Timers = {t1}
  Intervals = {1}
  TickPeriods = {}
  Wrap = 3
  MaxLate = 1
  MaxPending = 0
  Signals = {"Event"}
  UserOps <- StopOps
PROPERTIES StoppedStaysSilent
CHECK_DEADLOCK FALSE
