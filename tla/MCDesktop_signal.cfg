SPECIFICATION Spec
CONSTANTS
  Threads = {t1, t2}
  ScrubCapacity = 1
  AppCapacity = 2
  Nil = Nil
INVARIANTS SignalFindsLoop
