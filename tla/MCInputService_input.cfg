SPECIFICATION FairSpec
CONSTANTS
  Keys = {k3, ok}
  MenuKey = k3
  DebounceTicks = 2
  QueueSize = 1
  TimerQueue = 2
  MaxReadErrors = 1
INVARIANTS InputSound
PROPERTIES KeysFollowProtocol SettledKeyReported
