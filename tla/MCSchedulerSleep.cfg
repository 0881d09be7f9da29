CONSTANTS
  Idle = Idle
  A = A
  B = B
  StartupThread = Startup
  Threads = {Idle, A, B}
  NumPriorities = 2
  Priority <- MCPriority
  DefaultSlice <- MCSlice
  Interval = 2
  SleepTimes = {1, 3, 4}
  Modulus = 8
SPECIFICATION Spec
PROPERTIES SleepNotShortened
