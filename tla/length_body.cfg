CONSTANTS
  MaxRecv = 2
  MaxSend = 5
  MaxBody = 14
SPECIFICATION FairSpec
INVARIANTS RecvHasRoom EveryByteOnce SuccessIsAll NoNeedlessWait
PROPERTIES Returns
CHECK_DEADLOCK FALSE
