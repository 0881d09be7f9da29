SPECIFICATION Spec
CONSTANTS
    Word = 128
    PageSize = 2
    KernelStart = 4
    KernelEnd = 51
    ProcessStart = 52
    ProcessEnd = 119
    BootSections <- MCBootSections
    KernelPts = 8
    KernelPtsLength = 2
    StackSize = 2
    Junk = {10}
    Increments <- MCIncrements
    MaxStacks = 2
    Unused = {60, 61, 62}
INVARIANTS
    TypeOK
    LiveDisjoint
    FindFreeExact
    BitsPagesTrue
    AccessResolved
CHECK_DEADLOCK FALSE
