SPECIFICATION FairSpec
CONSTANTS
  Threads = {t1, t2}
  ScrubCapacity = 1
  AppCapacity = 2
  Nil = Nil
INVARIANTS DesktopTypeOK TaskMatchesState ForeignCallsFindThread OneApplication
PROPERTIES AppCollected StopEndsApp GuiNeverStuck
