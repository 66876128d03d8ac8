SPECIFICATION ThreadSpec
CONSTANTS
  Threads = {t1, t2}
  ScrubCapacity = 1
  Nil = Nil
INVARIANTS StoppedIsSafeToRelease
