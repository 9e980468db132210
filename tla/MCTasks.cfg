CONSTANTS
  MaxTasks = 4
  MaxCalls = 2
  TaskQuantum = 2
  TraceLimit = 2
  TaskLimit = 4
SPECIFICATION FairSpec
INVARIANTS
  SchedulerConsistent
  JoinCounts
  CallsConsistent
  PendingCanResume
  TraceExact
PROPERTIES
  FirstInFirstOut
  WaitingTasksUndisturbed
  ImplementsStructuredTasks
  QueuedTasksRun
