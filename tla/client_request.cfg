CONSTANTS
  MaxRecv = 2
  MaxSend = 3
  MaxPort = 3
  Headers <- HeaderSet
  Bodies <- BodySet
  URLs <- URLSet
  MaxFails = 2
SPECIFICATION Spec
INVARIANTS RecvHasRoom BodyRight ServerRight
CHECK_DEADLOCK FALSE
