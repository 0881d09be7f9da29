CONSTANTS
  A = A
  B = B
  C = C
  Threads = {A, B, C}
  NoThread = NoThread
  NoLock = NoLock
  Locks = {1, 2, 3}
  Apart = {3}
  MaxNest = 2
  Recursive = TRUE
  Priority <- MCMixed
SPECIFICATION FairSpec
INVARIANTS TypeOK ApartExclusion SectionsUninterrupted OwnerInside NeverLeftDeaf
PROPERTIES ImplementsAbs FreedUnlessInverted
