SPECIFICATION MCSpec
CONSTANTS
  c1 = c1
  c2 = c2
  v1 = v1
  v2 = v2
  uart0 = uart0
  uart1 = uart1
  u1 = u1
  u2 = u2
  desktopView = desktopView
  appView = appView
  menuView = menuView
  Clients <- MCClients
  Values <- MCValues
  Failed = Failed
  MaxMessages = 1
  MaxEffects = 2
  OffTicks = 3
  Ports <- MCPorts
  NoPort = NoPort
  Users <- MCUsers
  SerialQueue = 2
  OtherInputs <- MCOtherInputs
  RegionStart = 3
  RegionSize = 72
  Alignment = 4
  LinkSize = 3
  WantedSizes <- MCWantedSizes
  Lines = 2
  LedsPerLine = 2
  LedMessages <- MCLedMessages
  LedQueue = 1
  Views <- MCViews
  Priority <- MCPriority
  Transparent <- MCTransparent
  Ground = desktopView
  MaxTouchFaults = 2
  FrameQueue = 3
  NoFrame = NoFrame
  Characters <- MCCharacters
  Blank = " "
  LineLimit = 3
  Commands <- MCCommands
  Stale = Stale
INVARIANTS
  PartsTypeOK
  PortsExclusive
  HeapSound
  LedsShowAsked
  ScreenCurrent
  NewestFrameWhole
  ShownIsEdited
PROPERTIES
  CallsAnswered
  MotorStops
  
  TouchRecovers
