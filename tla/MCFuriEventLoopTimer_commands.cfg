SPECIFICATION FairSpec
CONSTANTS
  Timers = {t1, t2}
  Intervals = {1}
  TickPeriods = {1}
  Wrap = 3
  MaxLate = 1
  MaxPending = 1
  Signals = {"Custom"}
  UserOps <- PassOps
INVARIANTS StartupOrder
PROPERTIES CommandsServed DueTimesServed
CHECK_DEADLOCK FALSE
