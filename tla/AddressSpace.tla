---------------------------- MODULE AddressSpace ----------------------------
(***************************************************************************)
(* The kernel's address space after boot: its list of sections, shared by  *)
(* Thread::Create, which places stacks in it, sbrk, which keeps the heap   *)
(* in it, and ResolvePageFault, which finds in it what to map where memory *)
(* is touched for the first time.                                          *)
(*                                                                         *)
(* FindFree and Add of a new stack are one step: the list is locked and    *)
(* the timer masked (Spinlock.tla).  BeginAlloc ... EndAlloc are one step  *)
(* too, in which a page leaves the pool of unused pages (PhysMem.tla).     *)
(***************************************************************************)
EXTENDS Sections, FiniteSets

CONSTANTS
    BootSections,   \* the list when VirtMemManager::Init is called
    KernelPts,      \* what AllocRange returned for the kernel page tables
    KernelPtsLength,
    StackSize,      \* stacksize of Thread::Create
    Junk,           \* what Section::MemSource may hold in a new Section
    Increments,     \* the d a caller passes to sbrk
    MaxStacks,      \* bound: how many threads are created
    Unused          \* the pages on the stack of the physical allocator

(* What Kernel::InitKernel and VirtMemManager::Init put into the list, each *)
(* below the kernel's space or within it.                                  *)
InKernelOrBelow(s) ==
    /\ s \in Section
    /\ s = Loaded(s.Base, s.Length)
    /\ \/ s.Base + s.Length <= KernelStart
       \/ KernelStart <= s.Base /\ s.Base + s.Length <= KernelEnd

ASSUME AddressSpaceAssumption ==
    /\ BootSections \in Seq(Section) /\ BootSections # <<>>
    /\ \A i \in 1 .. Len(BootSections) : InKernelOrBelow(BootSections[i])
    /\ {KernelPts, KernelPtsLength, StackSize} \subseteq Address
    /\ InKernelOrBelow(Loaded(KernelPts, KernelPtsLength))
    /\ Junk \subseteq Address
    /\ Increments \subseteq Int /\ MaxStacks \in Nat
    /\ Unused \subseteq 1 .. Word \div PageSize

(* The kernel's space does not start with page 0, and takes up less than   *)
(* half of the addresses.                                                  *)
ASSUME KernelSpaceAssumption ==
    /\ PageSize <= KernelStart /\ KernelStart <= KernelEnd
    /\ 2 * (KernelEnd + 1) + StackSize + 10 * PageSize <= Word

VARIABLES
    KernelSections,  \* the kernel's list of Section
    heap,            \* k.Heap: its index in KernelSections, 0 for NULL
    stacks,          \* the indices of the stacks of threads
    pt,              \* kernel_pts: the physical page of each page, or 0
    pool,            \* the pages that are still unused
    panicked         \* a fault found no section

vars == <<KernelSections, heap, stacks, pt, pool, panicked>>

VirtualPages == 0 .. KernelEnd \div PageSize

PageOf(a) == a \div PageSize

-----------------------------------------------------------------------------
(* VirtMemManager::Init adds the page tables and three temporary pages.    *)
PtsSection == Loaded(KernelPts, KernelPtsLength)

TempSection ==
    [Base |-> 0, Length |-> PageSize, ExpandDown |-> 0, ExpandUp |-> 0,
     LowerPadding |-> 0, UpperPadding |-> 0, MemSource |-> 0,
     Flags |-> {"Defined", "KernelSection"}]

With(lists, request) ==
    UNION {{Append(l, s) : s \in FindFree(l, request)} : l \in lists}

AfterTemps ==
    With(With(With({Append(BootSections, PtsSection)},
                   TempSection), TempSection), TempSection)

(* Mutant: Init starts with the page in which a section starts.            *)
MappedFrom(s) == RoundDown(s.Base)

(* The pages Init maps start behind the section's first byte, if that is   *)
(* not the first of a page.                                                *)
FirstMapped(s) == RoundUp(s.Base)

InitMaps(s, v) ==
    /\ "Bits" \in s.Flags
    /\ v * PageSize >= FirstMapped(s)
    /\ v * PageSize < s.Base + s.Length

InitEntry(s, v) == PageOf(RoundUp((s.MemSource + v * PageSize - FirstMapped(s)) % Word))

(* Init goes through the list: the last section to map a page prevails.    *)
InitialPt(list) ==
    [v \in VirtualPages |->
        LET by == {i \in 1 .. Len(list) : InitMaps(list[i], v)}
        IN  IF by = {} THEN 0 ELSE InitEntry(list[Max(by)], v)]

Init ==
    /\ KernelSections \in AfterTemps
    /\ pt = InitialPt(KernelSections)
    /\ heap = 0
    /\ stacks = {}
    /\ pool = Unused
    /\ panicked = FALSE

-----------------------------------------------------------------------------
(* sbrk.  The first call asks for a section half as large as the kernel's  *)
(* space, then for a half of that, until one fits.                         *)
HeapRequest(size) ==
    [Base |-> 0, Length |-> 0, ExpandDown |-> 0, ExpandUp |-> size,
     LowerPadding |-> PageSize, UpperPadding |-> PageSize, MemSource |-> 0,
     Flags |-> {"Defined", "KernelSection"}]

HeapSizes ==
    LET half == RoundDown((KernelEnd - KernelStart) \div 2)
    IN  {size \in PageSize .. half :
            /\ \E n \in 0 .. half : size = half \div 2^n
            /\ FindFree(KernelSections, HeapRequest(size)) # {}}

(* The lists with a heap in them: the present one once there is a heap.    *)
WithHeap ==
    IF heap # 0 THEN {KernelSections}
    ELSE IF HeapSizes = {} THEN {}
    ELSE With({KernelSections}, HeapRequest(Max(HeapSizes)))

(* Mutant: the reserve is not reduced by what is in use.                   *)
MayGrowAnew(s, d) == d <= s.ExpandUp

MayGrow(s, d) == d <= (s.ExpandUp - s.Length) % Word

(* Mutant: sbrk gives back what it does not have.                          *)
MayShrinkAny(s, d) == TRUE

MayShrink(s, d) == d <= s.Length

(* A call that asks for too much, or gives back more than there is, fails  *)
(* and changes nothing else.                                               *)
Sbrk(d) ==
    /\ ~ panicked
    /\ \E list \in WithHeap :
          LET h == IF heap = 0 THEN Len(list) ELSE heap
          IN  /\ heap' = h
              /\ \/ /\ IF d >= 0 THEN MayGrow(list[h], d) ELSE MayShrink(list[h], -d)
                    /\ KernelSections' = [list EXCEPT ![h].Length = @ + d]
                 \/ /\ ~ IF d >= 0 THEN MayGrow(list[h], d) ELSE MayShrink(list[h], -d)
                    /\ KernelSections' = list
    /\ UNCHANGED <<stacks, pt, pool, panicked>>

-----------------------------------------------------------------------------
(* Thread::Create of a kernel thread, whose first new has created the      *)
(* heap.  Nothing gives a value to the MemSource of the new Section.  A    *)
(* creation for which there is no place returns NULL and changes nothing.  *)
StackRequest(source) ==
    [Base |-> 0, Length |-> PageSize, ExpandDown |-> StackSize, ExpandUp |-> 0,
     LowerPadding |-> PageSize, UpperPadding |-> PageSize, MemSource |-> source,
     Flags |-> {"Defined", "AutoExpand", "KernelSection"}]

Create(source) ==
    /\ ~ panicked
    /\ heap # 0
    /\ Cardinality(stacks) < MaxStacks
    /\ \E s \in FindFree(KernelSections, StackRequest(source)) :
          KernelSections' = Append(KernelSections, s)
    /\ stacks' = stacks \cup {Len(KernelSections')}
    /\ UNCHANGED <<heap, pt, pool, panicked>>

-----------------------------------------------------------------------------
(* MapPage of the running address space, whose page tables are all there;  *)
(* a physaddr of 0 asks for an unused page.  That is the highest, which    *)
(* boot has put on the stack last.                                         *)
MapPage(a, physaddr) ==
    \/ /\ physaddr # 0
       /\ pt' = [pt EXCEPT ![PageOf(a)] = PageOf(physaddr)]
       /\ UNCHANGED pool
    \/ /\ physaddr = 0
       /\ pool # {}
       /\ pt' = [pt EXCEPT ![PageOf(a)] = Max(pool)]
       /\ pool' = pool \ {Max(pool)}

(* A section that may expand moves its Base down to the fault, or its end  *)
(* up behind it, as far as it has room.                                    *)
ExpandedDown(s, a) ==
    IF "AutoExpand" \in s.Flags /\ a < s.Base /\ s.Base - a <= s.ExpandDown
    THEN [s EXCEPT !.ExpandDown = @ - (s.Base - a), !.Base = a]
    ELSE s

ExpandedUp(s, a) ==
    LET end == s.Base + s.Length
    IN  IF "AutoExpand" \in s.Flags /\ a >= end /\ a - end <= s.ExpandUp
        THEN [s EXCEPT !.ExpandUp = @ - (a - end), !.Length = a - s.Base + 1]
        ELSE s

Expanded(s, a) == ExpandedUp(ExpandedDown(s, a), a)

Holds(s, a) == s.Base <= a /\ a < s.Base + s.Length

Matches(s, a) == HasExtent(s) /\ Equal([Lower |-> a, Upper |-> a], Extent(s))

Resolves(s, a) == Matches(s, a) /\ (Expanded(s, a) # s \/ Holds(s, a))

(* The first section that resolves the fault: one whose extent holds the   *)
(* address in its padding or in a reserve it may not use is passed over.   *)
(* Mutant: the first section whose extent holds the address is the only    *)
(* one that may resolve it.                                                *)
FoundFirst(list, a) ==
    LET matching == {i \in 1 .. Len(list) : Matches(list[i], a)}
    IN  {i \in matching : i = Min(matching) /\ Resolves(list[i], a)}

Found(list, a) ==
    LET resolving == {i \in 1 .. Len(list) : Resolves(list[i], a)}
    IN  {i \in resolving : i = Min(resolving)}

(* The source of the page is the same expression for sections with and     *)
(* without Bits.                                                           *)
ResolvePageFault(a) ==
    \/ \E i \in Found(KernelSections, a) :
          LET s == Expanded(KernelSections[i], a)
          IN  /\ KernelSections' = [KernelSections EXCEPT ![i] = s]
              /\ MapPage(a, RoundDown((a - s.Base + s.MemSource) % Word))
              /\ UNCHANGED panicked
    \/ /\ Found(KernelSections, a) = {}
       /\ panicked' = TRUE
       /\ UNCHANGED <<KernelSections, pt, pool>>

(* The memory the kernel uses: what the boot loader placed, the heap below *)
(* its break, and the page in which tsi->Init prepares a stack.  Not what  *)
(* a stack may expand to: a kernel thread that faults on its own stack has *)
(* no stack to take the fault on.                                          *)
InUse == (1 .. Len(BootSections)) \cup {heap} \cup stacks

Touch(i, a) ==
    /\ ~ panicked
    /\ i # 0
    /\ Holds(KernelSections[i], a)
    /\ pt[PageOf(a)] = 0
    /\ ResolvePageFault(a)
    /\ UNCHANGED <<heap, stacks>>

Next ==
    \/ \E d \in Increments : Sbrk(d)
    \/ \E source \in Junk : Create(source)
    \/ \E i \in InUse : \E a \in KernelStart .. KernelEnd : Touch(i, a)

Spec == Init /\ [][Next]_vars

-----------------------------------------------------------------------------
TypeOK ==
    /\ KernelSections \in Seq(Section)
    /\ heap \in 0 .. Len(KernelSections)
    /\ stacks \subseteq 1 .. Len(KernelSections)
    /\ pt \in [VirtualPages -> Nat]
    /\ pool \subseteq Unused
    /\ panicked \in BOOLEAN

(* What was placed by FindFree: the temporary pages, the heap, stacks.     *)
Placed == {i \in 1 .. Len(KernelSections) : i > Len(BootSections) + 1}

(* The memory of a section placed by FindFree belongs to no other section  *)
(* that has an extent: the growing heap stays within what was reserved for *)
(* it, and no stack is placed where something grows.                       *)
LiveDisjoint ==
    \A i \in Placed : \A j \in 1 .. Len(KernelSections) \ {i} :
        LET s == KernelSections[i]
            t == KernelSections[j]
        IN  HasExtent(s) /\ HasExtent(t) =>
                \/ s.Base + s.Length <= t.Base
                \/ t.Base + t.Length <= s.Base

(* Searching only at the start of the range and behind sections, _findfree *)
(* finds a place exactly when there is one: page aligned, in the range and *)
(* without a byte of any section's extent.                                 *)
Taken ==
    UNION {Lower(KernelSections[i]) .. Limit(KernelSections[i]) - 1 :
              i \in {j \in 1 .. Len(KernelSections) : HasExtent(KernelSections[j])}}

FindFreeExact ==
    LET free == (KernelStart .. KernelEnd) \ Taken
        Room(length) == {low \in free : /\ low % PageSize = 0
                                        /\ low .. low + length - 1 \subseteq free}
    IN  \A request \in {StackRequest(0), TempSection,
                         HeapRequest(3 * PageSize), HeapRequest(7 * PageSize)} :
            LET places == {Lower(s) : s \in FindFree(KernelSections, request)}
                room   == Room(ExtentLength(request))
            IN  /\ places \subseteq room
                /\ places = {} => room = {}

(* Memory the kernel owns can be touched at any time, as long as its       *)
(* section has an extent: ResolvePageFault finds a section to resolve the  *)
(* fault, even where the extent of the heap, which counts its length       *)
(* twice, has grown over it.                                               *)
AccessResolved ==
    \A i \in InUse \ {0} :
        LET s == KernelSections[i]
        IN  HasExtent(s) => \A a \in s.Base .. s.Base + s.Length - 1 :
                                Found(KernelSections, a) # {}

(* Every page of a section with Bits, the first, partial one included, is  *)
(* mapped to the page it was loaded in, by Init or by a fault.             *)
BitsPagesTrue ==
    \A i \in 1 .. Len(BootSections) + 1 : \A v \in VirtualPages :
        LET s == KernelSections[i]
        IN  (/\ s.Length > 0
             /\ v * PageSize < s.Base + s.Length
             /\ (v + 1) * PageSize > s.Base
             /\ pt[v] # 0)
            => pt[v] = PageOf((v * PageSize - s.Base + s.MemSource) % Word)

(* No page of memory is mapped twice: what is mapped for the heap and for  *)
(* stacks, sections without Bits, is a page that was created for them.     *)
(* "Create the page if we need to", i386_vmem.cpp.                         *)
MappedOnce ==
    \A v, w \in VirtualPages : v # w /\ pt[v] # 0 => pt[v] # pt[w]
=============================================================================
