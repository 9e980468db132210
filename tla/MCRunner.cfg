CONSTANTS
  Guest <- MCGuests
  MaxTasks = 1
  MaxPendingCalls = 2
  MaxReady = 1
  MaxOwnedBytes = 2
SPECIFICATION FairSpec
INVARIANTS
  CallsSound
  WithinBudgets
PROPERTIES
  InterruptsStop
