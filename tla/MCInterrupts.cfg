SPECIFICATION Spec
CONSTANTS
  ta = ta
  tu = tu
  Startup = Startup
  Threads <- MCThreads
  UserThreads <- MCUserThreads
  HeapPages <- MCHeapPages
  MaxFrames = 7
INVARIANTS TypeOK StacksKeepContext SchedulerAlone StrayOnlyInConstructor
PROPERTY TicksKeepComing
CHECK_DEADLOCK FALSE
