SPECIFICATION StreamSpec
CONSTANTS
  LastEvent = 4
  PollSize = 1
  RecoverySize = 2
  MaxDrops = 1
  MaxPackets = 2
  MaxRecoveries = 2
PROPERTIES
  EventuallyCurrent
CHECK_DEADLOCK FALSE
