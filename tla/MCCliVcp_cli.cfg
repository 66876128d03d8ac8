SPECIFICATION CliSpec
CONSTANTS
  Stream <- MCStream
  MaxMissed <- MCMaxMissed
CHECK_DEADLOCK FALSE
INVARIANT CliTypeOK
PROPERTIES
  StreamsGoOn
  CloseNoticed
