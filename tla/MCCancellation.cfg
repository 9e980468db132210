CONSTANTS
  Execution = {1}
  Future = {1, 2}
  Owner <- MCAlone
  Waker = {1, 2}
  Timeout = 1
  LastInstant = 1
  MaxTime = 1
SPECIFICATION FairSpec
INVARIANTS
  ControlSound
  SleeperIsReachable
PROPERTIES
  InterruptsEnd
