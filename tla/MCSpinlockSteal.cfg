CONSTANTS
  A = A
  B = B
  C = C
  Threads = {A, B}
  NoThread = NoThread
  NoLock = NoLock
  Locks = {1, 2}
  Apart = {}
  MaxNest = 2
  Recursive = FALSE
  Priority <- MCEqual
SPECIFICATION Spec
INVARIANTS MutualExclusion
