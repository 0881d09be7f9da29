CONSTANTS
  A = A
  B = B
  Threads = {A, B}
  NoThread = NoThread
  AddressSpaceSize = 128
  Megabyte = 24
  ELF_MAX = 6
  MOD_MAX = 2
  MMAP_MAX = 6
  ElfStr = 33
  PageSize = 8
  LastPage = 12
  HighBase = 9
  FirstDword = {1, 2}
  Kilobyte = 2
  BitmapSize = 1
  SectionSize = 1
  KernelPts = 2
  Loaders <- MCLoaders
  StoredWords = {0, 6, 10}
SPECIFICATION Spec
CHECK_DEADLOCK FALSE
INVARIANTS UsedPagesMarked
