# TLA+ models of the Tysos kernel

Tysos-cxx is a small C++ kernel for one 32-bit x86 processor: a preemptive
priority scheduler, spinlocks, a physical page allocator, a virtual memory
manager driven by page faults, a heap, and the drivers of timer, interrupt
controller and text console. This directory holds TLA+ modules that model its
core, TLC configurations that check them on small machines, and proofs checked
by TLAPS for machines of any size.

`PROJECT.json` maps every definition of a module to the lines it models, lists
the hazards of the code with the properties that watch them, and the runs, the
mutants and the theorems. Paths below are relative to `src/`.

## The system

| component | state | operations | interacts with |
|---|---|---|---|
| Scheduler, `include/sys/sched.h` | one run queue per priority, sleeping and blocking lists; per thread `location`, `time_to_run` | `Deschedule` `Reschedule` `Block` `Sleep`, called by threads; `TimerTick` `ScheduleNext`, by the timer handler | lists, spinlock, thread switch, heap (a list node is allocated for every move) |
| Lists, `include/linkedlist.h`, `queue.h`, `arraylist.h` | nodes with `prev`, `next`, for a delta queue also `d`; an array list: a fixed array and a count | `Add` `Remove` `Insert` `RemoveAt` `GetFirst`, `InsertAtDelta` `GetZero` `DecreaseDelta`, enumerator | used by all |
| Lock, `include/i386/concurrent.h`, `kernel/i386/concurrent.cpp` | a lock word, the interrupt flag, `eax` | `Lock` `Unlock` | timer interrupt, which is the only source of preemption |
| Physical memory, `kernel/core/pmem.cpp`, `kernel/i386/i386_pmem.cpp` | a stack of free pages linked through the pages themselves (16 MB and up), a bitmap (below) | `Init` `UpdateUsed` at boot; `BeginAlloc` ... `EndAlloc`, `AllocRange`, `Free` | multiboot map, sections, `MapPage` |
| Virtual memory, `kernel/i386/i386_vmem.cpp`, `kernel/core/vmem.cpp` | page directory, page tables, two temporary mappings under a lock | `Init` `Enable` `MapPage` `ResolvePageFault` | physical memory, sections, faulting threads |
| Sections, `kernel/core/section.cpp` | the list of an address space's sections, an array list until the heap exists | `Add` `FindFree` `CheckExtents` `ConvertToLinkedList` | page faults, thread creation, heap |
| Heap, `kernel/core/sbrk.cpp` | length and reserve of the heap section | `sbrk` | sections, page faults |
| Allocator, `kernel/core/malloc.cpp` (dlmalloc, configured for the kernel) | chunks with boundary tags, bins, tries, designated victim, top chunk | `malloc` `calloc` `realloc` `memalign` `free` `malloc_trim` | `sbrk` |
| Threads, `kernel/core/task.cpp`, `kernel/i386/i386_task.cpp`, `*.asm` | saved stack, `esp0`, `CurrentThread` | `Thread::Create`, `Switch` | scheduler, timer handler |
| Timer and interrupts, `pit_8253.cpp`, `pic_8259a.cpp`, `i386_interrupt.cpp` | divisor, mask, request and service registers of two controllers, gates | `SetFrequency`, `pit_stub`, `Enable` `Disable` `Acknowledge`, `AddGate` | scheduler, page faults |
| Multiboot, `kernel/core/multiboot.cpp` | copies of the loader's memory map, ELF sections and modules | `Parse` `CheckRange` `FindRange` | physical memory |
| Console and formatter | cursor, screen | `Puts`, `printf`-like formatting | locks itself, also recursively |

What is hard in it:

- **Interleaving.** The timer can come between any two instructions that do
  not run with interrupts disabled, and its handler takes no lock
  (`NO_LOCK_TIMER_TICK`). Everything then rests on the spinlock disabling
  interrupts, and on nothing inside a section enabling them again. Two things
  do: an inner `Unlock` of another object, and a page fault that allocates.
- **Locks without a count.** A thread may enter a lock it owns; the first
  `Unlock` frees it.
- **Free memory as data.** The free list lives in the free pages, and a page
  becomes readable, and its link available, only once it has been mapped. So
  an allocation is two calls around a mapping.
- **Relative time.** A sleeper's time is the sum of the deltas in front of it.
  Every insertion and removal has to preserve the sums of all the others, in
  unsigned arithmetic.
- **Reserved space.** A section's extent covers more than its memory: padding,
  and room to grow in. The heap counts its length twice in it, so extents
  may overlap where memory does not, and a fault has to find the right section.
- **Boot order.** Pages are freed, then memory is placed in some of them, then
  they are to be marked used. Controllers are programmed with interrupts
  enabled, gates are added one by one.
- **Nested handlers.** `do_switch` enables interrupts before the handler has
  returned, so a tick can come on the way out of another one, on a stack that
  another thread's handler has left; and list code in the handler can
  page-fault on the heap.
- **Tables of fixed size**, 64-bit map entries cut to 32 bits, a limit in KiB
  compared with one in bytes.
- **Two kinds of list behind one interface**, exchanged while in use.

What makes each correct: a thread is in exactly the list its location names;
sleepers wake neither early nor never; ready threads of the highest priority
take turns (scheduler); one thread between `Lock` and `Unlock`, interrupts
come back, waiting ends (lock); free list and pages in use partition memory,
one owner per page (physical memory); a mapped page is the page allocated for
it and tables survive (virtual memory); sections do not overlap (sections);
chunks tile the heap and every free one is in its bin (allocator); no free page
holds a byte of what was loaded (multiboot); every thread finds its frames
again, and ticks keep coming (interrupts).

## The modules

**Scheduling.** `DeltaQueue` - the containers as sequences, their operations as
operators. A list is the sequence of its items, a delta queue the sequence of
nodes `[item, d]`. Counters are modulo `Modulus` (2^64 in the kernel), so that
underflow is what it is in the build. A walk along the list is a recursive
function of the position (`Values`, `Left`).

`Scheduler` - `Scheduler<priorities>` with `pit_stub` and `Switch`. The four
calls are one action each, on any thread. The handler is a sequence of steps:
`TimerTick` (let the time pass), `WakeNext` once per due sleeper, `WakeDone`,
then `ScheduleNext` or `ScheduleNone`; `phase` says where it is. Calls are
enabled in phase `"thread"` only: this is the module's one assumption about
its surroundings, and `Spinlock` and `Interrupts` are about when it is true.

`AbsScheduler` - what a scheduler promises: no queues, no slices, no time. Calls
change the status of a thread; a tick wakes sleepers, nothing else, then
dispatches a ready thread of the highest priority there is.

**Locks.** `Spinlock` - `obtain_spinlock` and `release_spinlock` between threads
that the timer switches whenever the interrupt flag allows, always to a ready thread of
the highest priority (`Eligible`, as `_GetNextThread` chooses); a thread inside no lock
may go to sleep and be woken. A step is a maximal
group of instructions nothing can come in between: `cli; lock cmpxchg; jz` and
the `sti` of a failure are one, the load of `eax`, the first test and each
round of the loop are others. `held` is the nesting of `Lock` calls a thread
has returned from. The kernel nests in one order (scheduler, section list,
console and `temp_lock` outside, the lock of the page stack innermost), so
locks are numbers and `MayNest` takes them in increasing order; `Apart` are those that
are never nested with others. `Lock` is not
counted: a thread that locks again what it has locked frees it with the inner
`Unlock` (`Recursive`; `kernel/i386/vga.cpp:83` nests so).

`AbsLock` - what `Lockable` promises: request, acquire when free, release by
the holder.

**Physical memory.** `Multiboot` - the loader's tables and what the kernel asks
of them: `Parse` into tables of bounded room, `Overlap` in wrapping arithmetic,
`CheckRange`, `FindRange`, and the two entries `i386_PhysMemAllocator::Init`
appends. What the code does with odd tables is kept: `FindRange` returns 0 both
for address 0 and for failure; `mem_upper` is compared in KiB with bytes;
64-bit fields lose their upper halves, so that a region above 4 GB is seen at
its low alias, and only the bound of `mem_upper` keeps it out. The room is a
premise: an entry too many would be written over the table behind (`mmap[40]`
lies on `elf[0]`, `elf[40]` on `elfstr`; the number of ELF entries is not
capped at all).

`PhysMem` - from the loader's header to exhausted memory: `ParseHeader`,
placing the bitmap, freeing page after page what `CheckRange` accepts, placing
the section objects, `UpdateUsed`, `AllocRange` and `Alloc` for the kernel's
page tables and directory, and then threads in `BeginPop`, `BeginPopLocked`,
`BitmapAlloc`, `EndAlloc`, and `Store`, by which an owner puts anything into
its page. `word` is the first word of every page, the link while it is free.
`BeginPop` reads `top` before it locks, as the code does. When `AllocRange` finds no
range, or the stack is empty at `Alloc`, the code prints a message or returns null and goes on:
`boot` is then `"lost"`, and no thread ever allocates. That a holder of the
stack's lock is not preempted (`CanRun`) is for the reason that `SectionsUninterrupted` of
`Spinlock` has: the lock is innermost, so that nothing inside enables interrupts. `MapPage` stands for the
time between `BeginAlloc` and `EndAlloc`. `freepages`, a counter in the code,
is the set it counts. The section of the frame buffer, which is no RAM, is not
among the sections of this module.

**Virtual memory.** `Sections` - extents of sections, their comparison and the
search for free space, as operators on a list. Sums are exact integers where
the code compares in stages so as not to overflow, and modulo `Word` where it
does not care.

`AddressSpace` - the kernel's address space after `VirtMemManager::Init`:
`KernelSections`, the heap section, stacks, the kernel's page tables `pt`, the
unused pages `pool`. `Sbrk` with the placing of the heap at its first call,
`Create` (the part of `Thread::Create` that places a stack), `Touch`: an access
to memory the kernel owns but which is not mapped, hence a fault,
`ResolvePageFault` and `MapPage`, to their end. Addresses are small numbers,
pages of two bytes. The expansion of a stack is modelled (`Expanded`) but no
step uses it: a kernel thread that faults on its own stack has no stack to take
the fault on.

**Section lists.** `LinkedList` and `ArrayList` - the two list classes as they
are in memory, pointer by pointer and slot by slot, each as operators on a
record. `LinkedList` keeps the nodes in the record, so that the use of a
deleted node has no value. `ArrayList` has one slot more than its capacity:
`Insert` and the shifts store and read behind the array, and `Remove` removes
at the place of the item twice.

`SectionList` - `SectionList` composed of the kernel's list and a process' list,
each an array until `ConvertToLinkedList`, with every call of `IList` and the
walk of `Serialize` by `SectionList::Enumerator`. Kept as in the code:
`GetItem`, `SetItem` and `RemoveAt` with an index in the process' part look in
the kernel's list at the reduced index (`KernelIndex`), where there may be another section, a slot behind
the last item, or no node, and then the call goes through a null pointer (`Panic`); `Remove` of an
array takes the next section too; `IndexOf` of a process' section is not offset by the
kernel's; the enumerator tries the kernel's part again at each step and so
repeats the process' sections. `SetItem` of a linked list copies the contents into
the section, of an array it replaces the pointer; it is called with sections of the
kernel, so that the contents carry the same flag. Indices are those below `Count`.

`AbsSectionList` - the same calls on a pair of sequences. A removal is described by its
result, the sequence with one element fewer that no longer has the section. The calls by which
`SectionList` breaks this promise are listed in `Departs`, and only those are excepted
from `ImplementsAbs`.

**Heap.** `Malloc` - the allocator over `sbrk`. The allocator is a record `m` of
the words it keeps in the heap and the fields of `malloc_state`; every routine
is an operator from one such record to the next, so `realloc`, `memalign` and
the independent blocks are composed of `malloc` and `free` as in the code. The
bins of one size, the designated victim, the splitting of remainders,
tries on the bits of the size, trimming of the top, the two ways to get memory
from the system are all there. A trie is a function from the turns that lead to
a node from the root (0 left, 1 right) to the node's size and its ring of chunks;
the loops that go down a trie are the sets of nodes they pass (`Descent`,
`Route`, `Passed`), and a node that leaves gives its place to the last leaf on
its right (`ReplaceByLeaf`). The macros at the head of the file decide what
is compiled: no mmap, no footers, no locks, one space. `sbrk` is the model of
`AddressSpace` reduced to one section and its limit.

**Interrupts.** `Interrupts` - from the first instruction of `kmain` to nested
ticks: masks, requests and service of both controllers, the gates, the interrupt
flag, the frames on every stack, `esp0` and `tss.esp0`, `do_switch` and
`perform_iret`, the page faults list code takes on fresh heap pages. A stack is
a function from depths to frames and the stack pointer a stack and a depth, so
that a frame pushed to a wrong place overwrites another. Which thread comes
next is left open; that is `Scheduler`. `activities` is a history variable: what
each thread is in the middle of.

**Proofs.** `SchedulerProofs` (with the lemmas on the containers of `DeltaQueue`),
`SpinlockProofs`, `PhysMemProofs` (with the range search of `Multiboot`),
`AddressSpaceProofs`, `SectionListProofs`, `InterruptsProofs`, `MallocHeapProofs`
(sizes, words, bins, tries, tilings of the heap, and what taking, freeing and
cutting a chunk do to them) and `MallocProofs` (the calls, the invariant and the
theorems). A few facts on least and greatest elements of sets of numbers, and
on walks of so many steps, stand at the head of each module that needs them.
The instances are `MCScheduler`, `MCSpinlock`,
`MCPhysMem`, `MCAddressSpace`, `MCMalloc`, `MCSectionList`, `MCInterrupts`.

How they depend on each other. `PhysMem` extends `Multiboot`, `AddressSpace`
extends `Sections`, `SectionList` composes `LinkedList` and `ArrayList`.
`PhysMem` and `Scheduler` assume of a lock what `Spinlock` shows of it without
nesting. With nesting of different locks the assumption is false, as
`spinlock_steal` shows. One nesting the kernel has by construction: a tick's
list code may fault on the heap, and the allocation of a page ends with `sti`.
`Interrupts` shows in `SchedulerAlone` that nobody enters the lists meanwhile -
but because of `kernel/core/vmem.cpp:76`, by which only page 0 of the heap is
ever allocated (at boot), and the other pages are mapped without a lock. The mutant of that
property repairs line 76, and the property falls. Another behaviour hidden in
that composition is the constructor of the interrupt controllers, which
unmasks all lines, with interrupts enabled, before it masks the master again: a
request in this window finds no gate (`StrayOnlyInConstructor`). The slave's mask
stays clear, and only the cascade line of the master keeps its devices out.

## The runs

| run | what it shows | bounds |
|---|---|---|
| `scheduler` | 114 164 states. `QueueCoherent`: `_Release` finds every thread in the list its location names and only there. `TickExact`: a tick takes exactly its length off every sleeper. `SleepersUndisturbed`: sleeping, early and due wake-ups of others do not change the time a sleeper still has, counted as `DecreaseDelta` counts it, node by node and not modulo the counter, except where the sums no longer fit a counter (`Fits`). `NoOverdueSleeper`. `ImplementsAbs`. Under fairness `RoundRobin`, `SleeperWakes` | idle thread of priority 0 and two of priority 1, slices 1, 3 and 2, tick 2, sleep times 1, 3, 4, counters modulo 8 |
| `scheduler_sleep` | counterexample to `SleepNotShortened`, the first finding | same |
| `spinlock` | 43 508 states. Of a lock that is not nested: `ApartExclusion`, `SectionsUninterrupted`, `ImplementsAbs`, while others are nested, entered again and stolen. Of all: `OwnerInside`, `NeverLeftDeaf`, and under fairness `FreedUnlessInverted`: a lock that is waited for is freed, or an owner is outranked | three threads, two of the higher priority; locks 1 and 2 nested up to `MaxNest` 2 and entered again, lock 3 apart |
| `spinlock_steal` | counterexample to `MutualExclusion`, second finding | two threads, two locks, nested, no re-entry |
| `physmem` | 13 130 states. `StackIsUnused`: the free list, threaded through the pages, is loop-free and exactly the unused pages. `OneOwner`. `StuckOnlyWhenExhausted`. `FreePagesAreRam`: no free or allocated page holds a byte of a reserved region, an image, a module or the bitmap | twelve pages, five loaders, two of which the boot does not survive, two threads |
| `physmem_used` | counterexample to `UsedPagesMarked`, third finding | same |
| `address_space` | 10 754 states. `LiveDisjoint`, `FindFreeExact`: `_findfree` finds a place exactly when there is one. `AccessResolved`: owned memory can be touched, even under the grown extent of the heap. `BitsPagesTrue` | 24 pages, four loaded sections, two stacks |
| `address_space_shared` | counterexample to `MappedOnce`, fourth finding | same |
| `malloc` | 49 541 states. `ChunksTile`, `BinsExact`: boundary tags, bins, bit maps and tries are exact after every call. `LiveBlocks`: blocks in use are those handed out, apart, large enough, aligned, and those `mallinfo` counts. `GrowsOnlyWhenNothingFits`, `BestFit`. `BreakInStep`: allocator and section agree on the end of the heap | four heaps, up to four blocks that may be freed |
| `section_list` | 109 304 states. `ListsCoherent`: forward chain, backward chain, ends, counter and nodes agree after every call. `DumpMissesNone`: a dump shows the kernel's sections once and in order, and then all of the process' and nothing else. `ImplementsAbs`: but for `Departs`, arrays, linked lists and the conversion are the pair of sequences | four sections of the kernel for arrays of three, two of a process |
| `section_list_dump` | counterexample to `DumpOnce`, fifth finding | same |
| `interrupts` | 118 276 states. `StacksKeepContext`: however ticks nest, frames are complete and unharmed. `SchedulerAlone`. `StrayOnlyInConstructor`. Under fairness `TicksKeepComing` | a kernel thread and a user thread, three heap pages, seven frames to a stack |

Why these bounds. *Scheduler:* three sleepers give a node with a neighbour on
either side, which is what every case of the delta walks needs; sleep times and
tick are coprime or equal or multiples, so that deltas of 0, spreading over
several nodes and exact fits all occur; modulo 8 wraps whenever the walk of
`InsertAtDelta` underflows. One slice is shorter than a tick, one equal to it
and one longer. Two priorities and two threads in one of them are what
preemption and rotation need. *Locks:* an owner, a first and a second waiter;
nesting deeper than two repeats the same pairs.

*Physical memory:* an ordinary machine; one with memory above 4 GB, holes and a
module across the 16 MB line; one without a memory map; one with nothing above the line and one with
no range below it. Four pages lie above
the line of the model, so the stack goes from full to empty and one allocation
beyond; one page is exactly at the line. `StoredWords` bounds what an owner
writes: null, the number of a page below the line and of one above.

*Address space:* the heap fits at the second attempt, with room for just one
stack behind it in the same piece; loaded sections start inside a page and lie
before, behind and (one) below the space. The heap's extent can come to cover
the stack behind it, so that a fault on the stack matches two sections.

*Heap:* widths, page and bins are scaled down together (`MallocAssumption` states
the relations the file fixes by its numbers), so that sizes fall into exact
bins and into shared tries, with a trie of three sizes in one instance.
`MaxLive` bounds the blocks that may be freed, per heap; `MaxSpecial`, also per
heap, the calls the kernel itself does not make. There is a heap without a
section, one that fails after two pages, one that ends inside a page.

*Lists:* three slots and four sections, so that an array is empty, full and
asked for one more; the middle element has neighbours on either side.
*Interrupts:* seven frames hold a tick on the way out of another, one more on
top and a fault inside it; `MaxFrames` bounds the depth, in the kernel the size
of the stack does.

`physmem` and `physmem_used` do not check for deadlock: when memory is
exhausted `PhysMemBitmap::Alloc` loops for ever, and if it holds the stack's
lock, with interrupts disabled, the kernel really stops;
`StuckOnlyWhenExhausted` says it does so only then. In `address_space` and
`address_space_shared` a panic is the end, in `interrupts` a halt (an interrupt without a
gate is a general protection fault, whose gate panics), in the runs of the section list a
call through a null pointer.

Fairness. `Scheduler` has `WF_vars(Tick)`: the PIT interrupts periodically, and a
handler runs to its end. Threads are not obliged to call anything.
`Spinlock` asks of the scheduler no more than `sched.h:141` gives: a thread that is
from some time on always ready, and never outranked by a ready thread of a higher
priority, gets the processor again and again (`SchedulerFairness`: that is `RoundRobin`; a tick that falls into
a section stays latched in the interrupt controller until the `sti`). A thread below
another one is promised nothing, and priority inversion is real: a spinning thread of a higher
priority keeps a preempted owner from the processor for ever. `FreedUnlessInverted` says that this
is the only way in which waiting does not end. Among threads of one priority there is none, so that every
lock that is waited for is freed; all threads of the kernel that lock anything are
created with `DEF_PRIORITY`, and the idle thread locks nothing. In the instance the thread below may sleep
for ever, which leaves two of one priority. `ThreadFairness`: a thread that is given the processor
again and again executes the loop's instructions (a slice is
longer than an instruction, but a thread may always be preempted just there) and
unlocks what it has locked. Nothing is obliged to take a lock, and a
thread sleeps only when it is inside none.
`Interrupts` has weak fairness of the processor's own steps (boot, leaving a section,
handlers, faults) and of the timer's edge; strong fairness of the delivery of
the timer, which stays requested while interrupts are off and is
taken between two instructions as soon as they are on and nothing of a higher
priority is in service.

`SleeperWakes` is about the counter of the model: a sleeper whose counter has underflowed wakes too,
after 2^64 ns in the kernel (see the end of the findings).

Every property of a passing run has a mutant of the code that breaks it.
The mutated definitions stand in the modules, each above the definition it
alters, and say what the slip is.

## What is proved

**Scheduler.** For any set of threads, number of priorities, priorities, slices,
tick length, sleep times and counter width (`SchedulerAssumption`: a tick is
at least 1 ns, sleep times fit the counter, `kmain`'s own thread is not scheduled):

- `SchedulerTypeCorrect`, `SchedulerQueueCoherent`. The invariant `TypeOK /\
  QueueCoherent` is inductive once `WakeNext` is understood: `GetZero` unlinks a
  thread whose `location` still says `LOC_SLEEPING`, `_Release` then searches
  for a node that is gone, and only because no thread is twice in the list does it
  remove nobody else (`WokenThread`). Each action is a lemma; those rest on
  lemmas on the containers about what `_remove`, `InsertAtDelta`, `DecreaseDelta`
  and the list operations do to the set of items and its distinctness.
- `SchedulerImplementsAbs`. The mapping takes `location` to a status. Needed on top:
  `InOwnQueue`, a ready thread is in the queue of its own priority - else
  the head of the highest queue would not be a thread of the highest priority.
- `SchedulerNoOverdueSleeper`. The loop of `TimerTick` looks at the head only. It is
  enough because sums of counters do not decrease along the list
  (`HeadIsFirstDue`).
- `SchedulerTickExact`. By `DecreaseDeltaSums`: at every node, what the walk has
  taken off so far and what it still has to take off make up the tick, and one
  of time left and rest is 0.
- `SchedulerSleepersUndisturbed`. A node that leaves gives its counter to the next. If
  the time of some sleeper behind it fits a counter (`Fits`), so does the sum of these two, which is
  part of it: nothing wraps, and no sum behind the node changes (`_removeSums`). A node that enters is
  the last one or has a counter of 0 (`InsertAtDeltaSums`, which is what is left of the intention of
  `InsertAtDelta`, see finding 1). `Sleep` does the two one after the other, and that
  composes since the list in between holds everybody else (`KeepsTimesTwice`). Without `Fits` the
  statement is false: with counters modulo 8 and sleepers of 4 and, behind it, 9 ns, waking the first
  leaves the second 1 ns.

**Locks.** For any set of threads and locks and any nesting: `SpinlockTypeCorrect`,
`SpinlockOwnerInside` (a taken lock belongs to a thread inside it) and
`SpinlockNeverLeftDeaf` (interrupts are disabled only for a current thread that owns
something: with it goes that every waiting thread is where interrupts are enabled).
Of the locks in `Apart`, whatever is done with the others: `SpinlockSectionsUninterrupted`,
from it `SpinlockApartExclusion`, and `SpinlockImplementsAbs`. The invariant there (`Flat`) relates the
nesting of the one thread inside, the processor and the flag: a
thread inside such a lock is inside no other and has been at the processor ever since. It cannot be
had of nested locks, which is what the counterexample is. The refinement of `AbsLock`
adds `EaxFree`: on such a lock no `cmpxchg` ever fails, so that `eax` never holds
an owner's id there, and a `cmpxchg` that succeeds found the lock free. What
`spinlock_steal` exploits is the very opposite.

**Multiboot.** Of the range search, for any header: `OverlapDisjoint` and
`OverlapWithin` (what the four comparisons of `Overlap` mean, in terms of addresses,
for ranges that do not wrap) and `CheckRangeIsFree` (what
`CheckRange` accepts shares no byte with a section or module, and lies in one
free region of the map if there is one). From it `BitmapIsFree`: where the bitmap is
placed at boot there is free memory and nothing the loader put there.

**Physical memory.** For any threads, machine and loaders: `PhysMemTypeCorrect`,
`PhysMemStackIsUnused`, `PhysMemOneOwner`, `PhysMemStuckOnlyWhenExhausted`,
`PhysMemFreePagesAreRam`. The inductive invariant `IInv` is the conjunction of

- `BootInv`: the kernel's tables are a function of the loader's until the kernel runs;
- `PagesInv`: what has been collected lies behind `nextpage` and is memory of
  the machine as the loader, not the kernel's copy, describes it;
- `OwnersInv`: no page has two owners, and owned pages are above the line;
- `LockInv`: under the lock, the page `BeginPop` found is still `top`. This is what
  makes reading `top` before locking harmless;
- `ChainInv`: there is a sequence from `top` to null that visits the unused pages once.

`StackIsUnused` itself follows the links by a function (`Hops`) whose equality with
the chain needs an induction, by least counterexample (`SmallestElement`), since
the library's induction theorems take operators. `LoaderAssumption` is what the proofs ask of a
header: its tables fit with room for the two entries the kernel adds
(`TablesFit`), `mem_upper` counts memory of one available region
(`UpperMemoryIsRam`), regions do not cross the end of 32-bit
addresses and leave room for the bitmap behind them (`RegionsInSpace`), and the section
objects find a place below 16 MB (`ObjectsBelowHighBase`) - `UpdateUsed`
marks nothing, and were they above it the free list would run through them.

**Address space.** For any sizes, requests and loaded sections:

- `FindFreeSound`, `FindFreeComplete`: on any list of sections, `_findfree`, which
  tries only the start of the space and the ends of sections, returns an aligned
  place apart from every extent, and finds one if there is any. The second rests on
  this: of all places that fit the lowest one starts at the space's start or at the page behind an
  extent.
- `AddressSpaceTypeCorrect` and `AccessAlwaysResolved`, without a further premise. The
  second needs that a fault on memory in use never expands a section (`TouchKeeps`).
- `LiveSectionsDisjoint`, `FindFreeIsExact`, `LoadedPagesTrue`, in the form `Spec /\
  []ExtentsKept => []...`. A section's extent is what keeps others away from it, and a
  section whose reach goes beyond the space has none (`CheckExtents`). `ExtentsKept` says that heap and
  stacks always have theirs. It holds in every state of the run's instance; in the kernel it fails only
  when the heap grows to some 504 of its 510 MB, for its extent counts its
  length twice, or when a stack is placed at the very last page. The invariant (`ListInv`) says that
  loaded sections never change, that placed ones are as they were placed or grown
  within their reserve, and that any two are apart with everything they may grow into, except
  for what the heap's doubled length adds.

`SectionsAssumption` fixes alignment and range of the two spaces, `AddressSpaceAssumption` that
loaded sections lie below or within the kernel's space (`InKernelOrBelow`; an empty
one has no extent), `KernelSpaceAssumption` that the space does not start with
page 0 and is less than half of the addresses, so that sums of two extents do not wrap.

**Section lists.** For any sections of the two parts (a section belongs to one) and any
capacity: `SectionListCoherent`, `SectionListDumpMissesNone`, `SectionListImplementsAbs`.
What a list keeps is one idea for both kinds (`Keeps`): slots 0 to count - 1
of an array hold the sequence (`Slots`), or there is a chain of distinct nodes between two
nulls which are all nodes of the list, whose items are the sequence and whose `prev`,
`next`, `f`, `l` and `count` are what the chain says (`Links`).

- For each operation of the two classes a lemma says which sequence is kept afterwards.
  The chain after an insertion or removal is given explicitly (`ChainPut`,
  `ChainDrop`), from what the pointer assignments did to each node
  (`InsertBeforeLinks`, `InsertEndLinks`, `RemoveUnlinks`). `Clear` and `CopyTo` are walks.
- `ListsInv` is kept by every call: both lists keep sequences of their own sections, without
  repetition, and are of the same kind. Without repetition is what makes `Remove`, which looks for the
  first occurrence, take away the section. `ArrayList::Remove`, which removes at the same place twice, is
  right for the last section and for one that is absent (`RemovedOnce`); for any other place it takes the
  neighbour as well, which keeps `ListsInv` and not the promise (`RemovesTwo`). Likewise the
  calls with an index in the process' part: a store behind the last item of an array is never
  seen (`ArraySetSpareSlots`).
- `DumpInv` counts: with the enumerators before steps a and b of lists of n and m
  sections, b (n + 1) + a sections have been shown, and `Due` says which. `proc` tells b = 0
  from b > 0. At the end that is every section of the kernel once and each of the process
  n + 1 times in a row: `DumpMissesNone` follows, and `DumpOnce` does not.

**Interrupts.** For any threads, heap and depth of stacks: `InterruptsTypeCorrect`,
`InterruptsStacksKeepContext`, `InterruptsStrayOnlyInConstructor`,
`InterruptsSchedulerAlone`. The four are proved by one invariant. It speaks of what
the processor is doing apart from page faults (`Doing`), since a fault may come in
the middle of boot, of a section or of a tick, and everything but the fault's own frame
is then as it was:

- `Shape`: a thread's activities are its own code and around it handlers on their way out
  (`unwind`, `perform_iret`), nothing else. Only a page fault can have list code below it,
  and only the current thread can be in one. `SchedulerAlone` follows from this.
- `Suspended`: the thread that does not run has a frame of `do_switch` on a frame of an
  interrupt, and `esp0` says how deep.
- `Booting`: until the timer is enabled `kmain`'s thread alone runs; which lines are
  masked and which gates are there is a function of how far it has got.
- `Masked`: list code runs with interrupts disabled, and a fault inside returns to that.
- `FirstPage`: page 0 of the heap is mapped by `kmain`'s first allocation, so that no
  later fault gets to `BeginAlloc` and `EndAlloc`, the latter with the `sti` that would
  open the section it interrupted. That premise is finding 4 put to use.
- `Room` and `KernelStack`: frames fit, and a user thread's interrupt lands on its own stack.

The assumption `MaxFrames >= 2` is what a new thread starts with, the frames
of `do_switch` and of the interrupt it pretends to return from.

**Heap.** For any width of a word from 12 to 32 bits, page, number of bins, heap
and calls: `MallocInvariant`, and from it every property of the run:
`MallocTypes` (`TypeOK`), `ChunksFollow` (`ChunksTile`), `BinsHoldTheFree`
(`BinsExact`), `LiveAreInUse` (`LiveBlocks`), `BreakFollows` (`BreakInStep`),
`ChoosesBest` (`BestFit`) and `GrowsLast` (`GrowsOnlyWhenNothingFits`).

None of these is inductive: the properties say what following the words
finds, an induction needs what there is. The invariant `MInv` says that there is a
function `sz` from addresses to sizes which is the shape of the heap (`Shaped`):

- `Tiling`, `Words`, `Merged` (together `Laid`): the chunks of `sz` cover the
  segment up to the top without a gap, the head of each and the foot of a free one
  say its size and both flags, and no two free chunks touch. In the middle of a call the heads of
  a set `o` of chunks need not be right yet (one taken out of its bin and not yet
  marked, or freed and not yet merged); between calls `o` is empty.
- `Housed`, `Holding`: the chunks in use are those of the blocks handed out,
  each with room for what was asked for.
- `Pieces`, `Victim`, `Bins`: the top is the last chunk, the designated victim is a
  free chunk or absent, and the bins hold exactly the remaining free ones (`InBins`),
  a small bin those of its size, a trie those of its range.
- `Segment`, `Frame`: the segment ends where the break is, nothing has been
  aborted or has arrived elsewhere, and the parameters are in range.

`Later` adds that an untouched allocator is at the beginning of its boot's calls, which
is where `FirstCallFits` is used.

The argument goes upwards in the order of the modules. *Bits:* a size is its way
through the trie (`Turns`), and two sizes of a bin that share a way of full length are
equal. *Tries:* every node stands on the way of its own size (`Way`), with all nodes
before it; insertion finds the first free place of that way, removal moves a leaf up
its own way, so both keep it (`TreeInsert`, `ReplaceByLeaf`). *Best fit:*
what lies below a passed right child (`Below`) is not smaller than the request, and
less than what lies below one passed earlier; so the deepest one passed, and in it the
leftmost nodes, hold the smallest size that fits, if the request's own way
does not. *Chunks:* taking one, carving one off the victim or the top, and freeing one with
its neighbours, each turn one shape into another, with the other chunks in use
untouched (`Kept`). *Calls:* every one of the family is a composition of
those, `realloc` in place included, and the words it leaves inside a chunk are
dead (`Settle`). What `mallinfo` and `malloc_stats` count are sums over the tiling,
by induction on subsets of the chunks.

The assumptions are `MallocAssumption` (what `init_mparams` checks and how
the numbers of the file relate), `InputAssumption` and `FirstCallFits`. The last two state
what the code does not check: `dlpvalloc` rounds a size up to pages and the
independent calls add sizes up, both without a test for overflow; and the very
first allocation (`kernel/core/malloc.cpp:3348`), if its size is just below
`MAX_REQUEST`, has its extension rounded up to 0 by `granularity_align`, which `sbrk`
grants: a segment without a byte, and a block outside the heap. The kernel's own
first allocation is a small one, made at boot. A later call of that size extends
the segment by 0 as well, but then finds the top too small and fails; the theorems cover it.

**Only model-checked:** liveness (`RoundRobin`, `SleeperWakes`, `FreedUnlessInverted`,
`TicksKeepComing`), which is beyond the prover. Every other property of a passing run is
stated by a theorem.

Recursive functions on positions (`DeltaQueue`, the chain of a list, the chunks of a
segment) are shown to exist by an explicit construction (`WalkExists`, `WalkInduction`).

## Findings

1. `include/queue.h:93`: a thread put to sleep between two sleepers gets delta 0
   and wakes with the one before it (`SleepNotShortened`). By then `c->next` is the new node.
2. `include/i386/concurrent.h:61`: after a failed `cmpxchg`, `eax` holds the owner's id,
   and a retry replaces that owner (`spinlock_steal`). It takes an owner preempted inside,
   hence an inner section that enabled interrupts.
3. `kernel/core/pmem.cpp:150`: the test `(Flags & Defined) & (Flags & Bits)` is always
   0, so that `UpdateUsed` marks nothing (`UsedPagesMarked`).
4. `kernel/core/vmem.cpp:76`: `MapPage` is not passed the `paddr` computed before it. Page n of the
   heap is mapped to physical page n (`MappedOnce`).
5. `include/sys/sectionlist.h:46`: the enumerator starts the kernel's list again at every step after its end,
   so that a dump repeats the process' sections (`DumpOnce`). The kernel has no such sections yet.

The models also do the following, as the code does, and the properties say where they leave it out:

- `include/queue.h:98`: a thread due before the first sleeper goes behind it, and the subtraction
   underflows: with one sleeper due in 3 ns, `Sleep` for 1 sleeps 3 + (2^64 - 2) ns. `TickExact` and
   `SleeperWakes` include such a sleeper, `SleepersUndisturbed` does not (`Fits`).
- `include/i386/concurrent.h:83`: a lock does not count its owner's calls; the inner `Unlock` lets
   others in. Exclusion is stated of `Apart` only.
- `include/arraylist.h:56`: `Remove` takes the next element too; `kernel/core/section.cpp:283`, 298 and 333:
   an index in the process' part is looked up in the kernel's list. Both are in `Departs`.

## Not modelled

- Console and formatter: a cursor that wraps and scrolls, and the text of
  numbers. Output only; no decision of the kernel depends on it.
- C and C++ run-time support, port instructions, system call stubs, the segment
  descriptors and the entry code of the loader, build files. `Interrupts` starts where
  `head.asm` ends. `Pit::SetFrequency` computes one divisor once.
- `MapPage` on another address space and the temporary mappings under
  `temp_lock`: nothing passes another address space. User processes likewise:
  `SectionList::GetItem` cannot return their sections, so no fault of theirs
  can be resolved; their threads' second stacks and the switch of page directories go with them.
- `DeltaQueue::Add`, `Queue::GetFirst(true)`, `PhysMemBitmap::Free` after boot, the `_noint` lock
  variants: nothing calls them.
- Of the allocator, what the configuration compiles out (mmap, spaces, footers,
  locks). `prepend_alloc` and `add_segment` are compiled but not reached:
  memory always follows the segment (`BreakInStep`).
- A machine with less than 16 MB and a page: `Alloc` of the boot thread loops
  at once. A loader whose tables overflow the kernel's room.
- Hazards the models do not reach. `Lockable` has no constructor
  (`include/sys/concurrent.h:41`); the objects the kernel locks lie in zeroed memory.
  `AllocRange` leaves the bits of what it returns set (`kernel/core/pmem.cpp:185`);
  it has one caller, once. A stack that expands keeps its length (`kernel/core/vmem.cpp:54`); no
  kernel thread can take that fault. `MapPage` for another address space takes
  `temp_lock` again (`kernel/i386/i386_vmem.cpp:220`); nothing passes one. `sbrk` searches and
  extends the section list without its lock (`kernel/core/sbrk.cpp:69`), at the first
  allocation only, which the boot thread makes before there are others (`kernel/core/main.cpp:120`).
