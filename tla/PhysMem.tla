------------------------------ MODULE PhysMem ------------------------------
(***************************************************************************)
(* The physical memory allocator: PhysMemStack and PhysMemBitmap           *)
(* (kernel/core/pmem.cpp) under i386_PhysMemAllocator                      *)
(* (kernel/i386/i386_pmem.cpp), from the boot loop that frees the pages    *)
(* the loader left over to the allocations of the running kernel.          *)
(*                                                                         *)
(* Pages from HighBase on are a stack linked through the first word of     *)
(* each free page; pages below it have a bit in the bitmap, set when the   *)
(* page is free.  A page in use holds whatever its owner wrote.            *)
(*                                                                         *)
(* An address is a number in units of BitmapSize, 512 bytes, or smaller;   *)
(* page p has the PageSize addresses from p * PageSize on.                 *)
(***************************************************************************)
EXTENDS Multiboot, FiniteSets

CONSTANTS
    Threads,
    NoThread,
    PageSize,
    LastPage,     \* the last page of the largest machine
    HighBase,     \* the page at 16 MB, the end of the bitmap
    FirstDword,   \* the pages whose bits are in the first word of the bitmap
    Kilobyte,     \* the unit of mem_upper
    BitmapSize,   \* what Init asks FindRange for
    SectionSize,  \* sizeof(Section)
    KernelPts,    \* KernelPtsLength in pages
    Loaders,      \* the headers a loader may pass to kmain
    StoredWords   \* what a thread may store at the start of a page

FirstPage == Megabyte \div PageSize

Pages == 1 .. LastPage

ASSUME PhysMemAssumption ==
    /\ NoThread \notin Threads
    /\ PageSize \in Nat \ {0} /\ LastPage \in Nat /\ HighBase \in Pages
    /\ FirstPage \in Pages /\ Megabyte = FirstPage * PageSize
    /\ Kilobyte \in Nat /\ BitmapSize \in Addresses /\ SectionSize \in Nat
    /\ AddressSpaceSize > (LastPage + 1) * PageSize
    /\ FirstDword \subseteq 1 .. FirstPage - 1
    /\ KernelPts \in Nat \ {0, 1}
    /\ StoredWords \subseteq Pages \cup {0}

Entry == [base_addr : Nat, length : Nat, type : Nat]    \* 64-bit fields

Given ==
    [flags : SUBSET HeaderFlags, mem_upper : Nat, mmap : Seq(Entry),
     elf : Seq(ElfSection), elf_shndx : Nat, mods : Seq(Mod)]

(* The tables of a loader fit, with room for the entries the kernel adds.  *)
TablesFit(h) ==
    /\ Len(h.mmap) < MMAP_MAX /\ Len(h.elf) < ELF_MAX /\ Len(h.mods) <= MOD_MAX
    /\ h.elf_shndx \in DOMAIN h.elf
    /\ "ELF" \in h.flags
    /\ "MODS" \notin h.flags => h.mods = <<>>
    /\ "MMAP" \notin h.flags => h.mmap = <<>>

(* mem_upper counts what one available region has from the first megabyte  *)
(* on.                                                                     *)
UpperMemory(h) == h.mem_upper * Kilobyte + Megabyte

UpperMemoryIsRam(h) ==
    /\ UpperMemory(h) <= (LastPage + 1) * PageSize
    /\ "MMAP" \in h.flags =>
          \E i \in DOMAIN h.mmap :
              /\ h.mmap[i].type = MB_MMAP_AVAIL
              /\ h.mmap[i].base_addr <= Megabyte
              /\ UpperMemory(h) <= h.mmap[i].base_addr + h.mmap[i].length

(* No region crosses the end of the 32-bit addresses, and what FindRange   *)
(* may start from has room for the bitmap behind it.                       *)
RegionsInSpace(h) ==
    /\ \A i \in DOMAIN h.mmap :
          /\ \/ /\ h.mmap[i].base_addr + h.mmap[i].length <= AddressSpaceSize
                /\ h.mmap[i].length # AddressSpaceSize
             \/ h.mmap[i].base_addr >= AddressSpaceSize
          /\ Wrap(h.mmap[i].base_addr) + BitmapSize <= AddressSpaceSize
    /\ \A i \in DOMAIN h.elf :
          /\ h.elf[i].sh_addr + h.elf[i].sh_size + BitmapSize <= AddressSpaceSize
          /\ ElfStr + h.elf[i].sh_size + BitmapSize <= AddressSpaceSize
    /\ \A i \in DOMAIN h.mods :
          /\ h.mods[i].mod_start <= h.mods[i].mod_end
          /\ h.mods[i].mod_end + BitmapSize <= AddressSpaceSize

(* mboot's tables when Init begins to collect pages.                       *)
PlaceOfBitmap(h) == FindRange(WithReserved(Parse(h)), BitmapSize)

Placed(h) == WithSection(WithReserved(Parse(h)), PlaceOfBitmap(h), BitmapSize)

(* The Section objects find a place below 16 MB.                           *)
SectionObjectsSize(h) == Len(h.elf) * SectionSize

ObjectsBelowHighBase(h) ==
    FindRange(Placed(h), SectionObjectsSize(Placed(h))) + SectionObjectsSize(Placed(h))
        <= HighBase * PageSize

ASSUME LoaderAssumption ==
    /\ Loaders \subseteq Given
    /\ \A h \in Loaders :
          TablesFit(h) /\ UpperMemoryIsRam(h) /\ RegionsInSpace(h) /\ ObjectsBelowHighBase(h)

VARIABLES
    given,      \* the header of the loader
    header,     \* mboot's copy of it
    bmp,        \* the address of the bitmap's words
    top,        \* PhysMemStack::top
    word,       \* the first word of each page
    bitmap,     \* the pages whose bit in PhysMemBitmap::bmp is set
    sections,   \* k.Sections when UpdateUsed is called
    lock,       \* the spinlock of the stack
    boot,       \* how far kmain has got
    nextpage,   \* i386_PageProvider::nextpage
    freepages,  \* the pages Init counts as free
    pts,        \* the pages of VirtMemManager's kernel_pts
    pd,         \* the page of the kernel's page directory
    pc,         \* where in BeginAlloc ... EndAlloc each thread is
    page,       \* what its BeginAlloc returned
    owned       \* the pages each thread has mapped

tables == <<given, header, bmp, sections>>

running == <<pc, page, owned>>

vars == <<tables, top, word, bitmap, lock, boot, nextpage, freepages, pts, pd, running>>

-----------------------------------------------------------------------------
(* kmain copies the loader's header, and Init marks the first megabyte in  *)
(* the copy and looks for a place for the bitmap.  Without one, Free would *)
(* write through a null bmp.                                               *)
ParseHeader ==
    /\ boot = "parse"
    /\ header' = Parse(given)
    /\ boot' = "bitmap"
    /\ UNCHANGED <<given, bmp, sections, top, word, bitmap, lock, nextpage, freepages, pts, pd, running>>

PlaceBitmap ==
    /\ boot = "bitmap"
    /\ LET h    == WithReserved(header)
            base == FindRange(h, BitmapSize)
       IN  IF base = NULL
           THEN header' = h /\ boot' = "lost" /\ UNCHANGED bmp
           ELSE /\ header' = WithSection(h, base, BitmapSize)
                /\ bmp' = base
                /\ boot' = "init"
    /\ UNCHANGED <<given, sections, top, word, bitmap, lock, nextpage, freepages, pts, pd, running>>

(* Mutant: the page at the end of the bitmap goes into the bitmap.         *)
FreeAbove(p) ==
    IF p > HighBase
    THEN /\ word' = [word EXCEPT ![p] = top]
         /\ top' = p
         /\ UNCHANGED bitmap
    ELSE /\ bitmap' = bitmap \cup {p}
         /\ UNCHANGED <<top, word>>

(* i386_PhysMemAllocator::Free.                                            *)
Free(p) ==
    IF p >= HighBase
    THEN /\ word' = [word EXCEPT ![p] = top]
         /\ top' = p
         /\ UNCHANGED bitmap
    ELSE /\ bitmap' = bitmap \cup {p}
         /\ UNCHANGED <<top, word>>

(* Boot: Init takes the pages of GetPage one by one and frees those that   *)
(* CheckRange accepts.                                                     *)
GetPage == (nextpage + 1) * PageSize <= UpperMemory(header)

IsFreePage(p) == CheckRange(header, p * PageSize, PageSize)

InitPage ==
    /\ boot = "init"
    /\ GetPage
    /\ \/ /\ IsFreePage(nextpage)
          /\ freepages' = freepages \cup {nextpage}
          /\ Free(nextpage)
       \/ /\ ~ IsFreePage(nextpage)
          /\ UNCHANGED <<freepages, top, word, bitmap>>
    /\ nextpage' = nextpage + 1
    /\ UNCHANGED <<tables, lock, boot, pts, pd, running>>

InitDone ==
    /\ boot = "init"
    /\ ~ GetPage
    /\ boot' = "kernel"
    /\ nextpage' = nextpage + 1
    /\ UNCHANGED <<tables, top, word, bitmap, lock, freepages, pts, pd, running>>

(* Section::Defined and its like as the sets of their bits, so that & is   *)
(* \cap, | is \cup and a condition is true when the result is not empty.   *)
Defined == {0}
Read == {1}
Write == {2}
Bits == {7}
KernelSection == {14}

(* InitKernel: the kernel's list gets a section for the Section objects    *)
(* themselves, placed after the free pages were collected, and one for     *)
(* every ELF section that is not empty.  Storing the objects overwrites    *)
(* what the free pages among them hold.                                    *)
PagesOf(base, length) ==
    {p \in Pages : p * PageSize < base + length /\ (p + 1) * PageSize > base}

FromElf(e) == [Flags |-> Defined \cup Bits \cup KernelSection \cup Read,
               pages |-> PagesOf(e.sh_addr, e.sh_size)]

ElfHeaders(base, length) ==
    [Flags |-> Defined \cup Bits \cup Read \cup Write \cup KernelSection,
     pages |-> PagesOf(base, length)]

InitKernel ==
    /\ boot = "kernel"
    /\ LET length == SectionObjectsSize(header)
           base   == FindRange(header, length)
           filled == {i \in DOMAIN header.elf : header.elf[i].sh_size # 0}
       IN  IF base = NULL
           THEN boot' = "lost" /\ UNCHANGED <<sections, word>>
           ELSE /\ sections' = {ElfHeaders(base, length)}
                                 \cup {FromElf(header.elf[i]) : i \in filled}
                /\ \E w \in StoredWords :
                      word' = [p \in Pages |->
                                  IF p * PageSize \in base .. base + length - 1
                                  THEN w ELSE word[p]]
                /\ boot' = "sections"
    /\ UNCHANGED <<given, header, bmp, top, bitmap, lock, nextpage, freepages, pts, pd, running>>

Selected(s) == (s.Flags \cap Defined) \cap (s.Flags \cap Bits) # {}

(* PhysMemBitmap::Alloc(paddr) clears the bit of the page in the words at  *)
(* base, the address of the page of bit 0, where it means those at bmp.    *)
BitmapBase == 0

BitOf(p) == IF bmp = BitmapBase THEN {p} ELSE {}

UpdateUsed ==
    /\ boot = "sections"
    /\ LET used == UNION {s.pages : s \in {x \in sections : Selected(x)}}
       IN  bitmap' = bitmap \ UNION {BitOf(p) : p \in {q \in used : q < HighBase}}
    /\ boot' = "AllocRange"
    /\ UNCHANGED <<tables, top, word, lock, nextpage, freepages, pts, pd, running>>

(* PhysMemBitmap::AllocRange: the first run of set bits that is long       *)
(* enough.  The bits stay set.  VirtMemManager::Init asks for its page     *)
(* tables so; without them it prints an error and returns, and the kernel  *)
(* goes on with page tables that are nowhere.                              *)
Fits(i) == i + KernelPts < HighBase /\ i .. i + KernelPts - 1 \subseteq bitmap

AllocRange ==
    /\ boot = "AllocRange"
    /\ IF \A i \in Pages : ~ Fits(i)
       THEN boot' = "lost" /\ UNCHANGED pts
       ELSE /\ \E i \in Pages :
                  /\ Fits(i)
                  /\ \A j \in 1 .. i - 1 : ~ Fits(j)
                  /\ pts' = i .. i + KernelPts - 1
            /\ boot' = "Alloc"
    /\ UNCHANGED <<tables, top, word, bitmap, lock, nextpage, freepages, pd, running>>

(* AddressSpace::Init: PopPage, with no thread to disturb it.  From an     *)
(* empty stack it gets 0 and turns to PhysMemBitmap::Alloc(), which        *)
(* examines the first word of the bitmap for ever: no bit of it is set,    *)
(* its pages are below 1 MB.                                               *)
Alloc ==
    /\ boot = "Alloc"
    /\ IF top = NULL
       THEN boot' = "lost" /\ UNCHANGED <<pd, top>>
       ELSE /\ pd' = top
            /\ top' = word[top]
            /\ boot' = "up"
    /\ UNCHANGED <<tables, word, bitmap, lock, nextpage, freepages, pts, running>>

-----------------------------------------------------------------------------
(* MapPage, which takes a page with BeginAlloc, maps it, and completes the *)
(* allocation with EndAlloc through the new mapping.  While a thread has   *)
(* the lock, interrupts are disabled and no other thread runs.             *)
CanRun(t) == boot = "up" /\ lock \in {NoThread, t}

SetPc(t, label) == pc' = [pc EXCEPT ![t] = label]

(* BeginPop looks at top before it takes the lock, and uses what it finds  *)
(* there after taking it.                                                  *)
BeginPop(t) ==
    /\ CanRun(t)
    /\ pc[t] = "idle"
    /\ SetPc(t, IF top = NULL THEN "bitmap" ELSE "lock")
    /\ UNCHANGED <<tables, top, word, bitmap, lock, boot, nextpage, freepages, pts, pd, page, owned>>

(* Mutant: BeginPop does not take the lock.                                *)
BeginPopUnlocked(t) ==
    /\ CanRun(t)
    /\ pc[t] = "lock"
    /\ page' = [page EXCEPT ![t] = top]
    /\ SetPc(t, IF top = NULL THEN "bitmap" ELSE "mapped")
    /\ UNCHANGED <<tables, top, word, bitmap, lock, boot, nextpage, freepages, pts, pd, owned>>

BeginPopLocked(t) ==
    /\ CanRun(t)
    /\ pc[t] = "lock"
    /\ lock' = t
    /\ page' = [page EXCEPT ![t] = top]
    /\ SetPc(t, IF top = NULL THEN "bitmap" ELSE "mapped")
    /\ UNCHANGED <<tables, top, word, bitmap, boot, nextpage, freepages, pts, pd, owned>>

(* BeginAlloc turns to PhysMemBitmap::Alloc(), with or without the lock.   *)
(* Its loop examines the first word of the bitmap, and for ever when no    *)
(* bit of it is set; the pages of that word are below 1 MB and not free.   *)
BitmapAlloc(t) ==
    /\ CanRun(t)
    /\ pc[t] = "bitmap"
    /\ IF bitmap \cap FirstDword = {}
       THEN SetPc(t, "looping") /\ UNCHANGED <<bitmap, page>>
       ELSE \E p \in bitmap \cap FirstDword :
               /\ \A q \in bitmap \cap FirstDword : p <= q
               /\ bitmap' = bitmap \ {p}
               /\ page' = [page EXCEPT ![t] = p]
               /\ SetPc(t, "mapped")
    /\ UNCHANGED <<tables, top, word, lock, boot, nextpage, freepages, pts, pd, owned>>

(* Mutant: EndAlloc clears the page before EndPop reads its link.          *)
EndAllocCleared(t) ==
    /\ CanRun(t)
    /\ pc[t] = "mapped"
    /\ top' = 0
    /\ lock' = NoThread
    /\ word' = [word EXCEPT ![page[t]] = 0]
    /\ owned' = [owned EXCEPT ![t] = @ \cup {page[t]}]
    /\ SetPc(t, "idle")
    /\ UNCHANGED <<tables, bitmap, boot, nextpage, freepages, pts, pd, page>>

(* EndAlloc: EndPop unlinks the page, wherever it came from, and unlocks;  *)
(* the page is cleared.                                                    *)
EndAlloc(t) ==
    /\ CanRun(t)
    /\ pc[t] = "mapped"
    /\ top' = word[page[t]]
    /\ lock' = NoThread
    /\ word' = [word EXCEPT ![page[t]] = 0]
    /\ owned' = [owned EXCEPT ![t] = @ \cup {page[t]}]
    /\ SetPc(t, "idle")
    /\ UNCHANGED <<tables, bitmap, boot, nextpage, freepages, pts, pd, page>>

(* A thread stores into a page of its own what looks like a page address.  *)
Store(t, p, w) ==
    /\ CanRun(t)
    /\ pc[t] = "idle"
    /\ p \in owned[t]
    /\ word' = [word EXCEPT ![p] = w]
    /\ UNCHANGED <<tables, top, bitmap, lock, boot, nextpage, freepages, pts, pd, running>>

-----------------------------------------------------------------------------
Init ==
    /\ given \in Loaders
    /\ header = [flags |-> {}, mem_upper |-> 0, mmap |-> <<>>,
                 elf |-> <<>>, elf_shndx |-> 0, mods |-> <<>>]
    /\ bmp = NULL
    /\ sections = {}
    /\ top = NULL
    /\ word = [p \in Pages |-> 0]
    /\ bitmap = {}
    /\ lock = NoThread
    /\ boot = "parse"
    /\ nextpage = FirstPage
    /\ freepages = {}
    /\ pts = {}
    /\ pd = NULL
    /\ pc = [t \in Threads |-> "idle"]
    /\ page = [t \in Threads |-> NULL]
    /\ owned = [t \in Threads |-> {}]

Boot ==
    \/ ParseHeader \/ PlaceBitmap \/ InitPage \/ InitDone
    \/ InitKernel \/ UpdateUsed \/ AllocRange \/ Alloc

Next ==
    \/ Boot
    \/ \E t \in Threads :
          \/ BeginPop(t)
          \/ BeginPopLocked(t)
          \/ BitmapAlloc(t)
          \/ EndAlloc(t)
          \/ \E p \in owned[t], w \in StoredWords : Store(t, p, w)

Spec == Init /\ [][Next]_vars

-----------------------------------------------------------------------------
(* The types of the allocator's fields.                                    *)
TypeOK ==
    /\ given \in Loaders
    /\ header \in Header
    /\ bmp \in Addresses
    /\ sections \subseteq [Flags : SUBSET (0 .. 14), pages : SUBSET Pages]
    /\ top \in Pages \cup {NULL}
    /\ word \in [Pages -> Pages \cup {0}]
    /\ bitmap \subseteq 1 .. HighBase - 1
    /\ lock \in Threads \cup {NoThread}
    /\ boot \in {"parse", "bitmap", "init", "kernel", "sections", "AllocRange", "Alloc", "up", "lost"}
    /\ nextpage \in Nat
    /\ freepages \subseteq Pages
    /\ pts \subseteq Pages
    /\ pd \in Pages \cup {NULL}
    /\ pc \in [Threads -> {"idle", "lock", "bitmap", "mapped", "looping"}]
    /\ page \in [Threads -> Pages \cup {NULL}]
    /\ owned \in [Threads -> SUBSET Pages]

(* The pages on the stack, found by following the words of free pages.     *)
High == {p \in freepages : p >= HighBase}

Hops[n \in 0 .. Cardinality(High)] ==
    IF n = 0 THEN top ELSE IF Hops[n - 1] = NULL THEN NULL ELSE word[Hops[n - 1]]

OnStack == {Hops[n] : n \in DOMAIN Hops} \ {NULL}

InUse == {pd} \cup UNION {owned[t] : t \in Threads}

(* Nothing is lost and nothing is there twice: the free list, threaded     *)
(* through the free pages themselves, ends, without meeting the same page  *)
(* twice, and holds exactly the high pages that nobody has, however        *)
(* allocations interleave and whatever owners write into their pages.      *)
StackIsUnused ==
    /\ Hops[Cardinality(High)] = NULL
    /\ OnStack = High \ InUse

(* No page is given to two threads, nor is the kernel's page directory.    *)
OneOwner ==
    /\ \A t \in Threads : pd \notin owned[t]
    /\ \A t, u \in Threads : t # u => owned[t] \cap owned[u] = {}

(* An allocation gets stuck in the loop of PhysMemBitmap::Alloc only when  *)
(* the pages of the stack are used up.                                     *)
StuckOnlyWhenExhausted ==
    (\E t \in Threads : pc[t] = "looping") => High \subseteq InUse

(* What the loader says of the memory behind a page, in its own terms and  *)
(* without the kernel's copy and comparisons.                              *)
Bytes(base, length) == base .. base + length - 1

PageBytes(p) == Bytes(p * PageSize, PageSize)

IsRam(p) ==
    \E i \in DOMAIN given.mmap :
        /\ given.mmap[i].type = MB_MMAP_AVAIL
        /\ PageBytes(p) \subseteq Bytes(given.mmap[i].base_addr, given.mmap[i].length)

NotFree ==
    UNION ({Bytes(given.elf[i].sh_addr, given.elf[i].sh_size) :
                i \in DOMAIN given.elf \ {given.elf_shndx}}
           \cup {Bytes(given.mmap[i].base_addr, given.mmap[i].length) :
                i \in {j \in DOMAIN given.mmap : given.mmap[j].type # MB_MMAP_AVAIL}}
           \cup {given.mods[i].mod_start .. given.mods[i].mod_end - 1 : i \in DOMAIN given.mods})

(* Every page that is free or was given out is memory of the machine, with *)
(* no byte of a reserved region, of the kernel's image, of a module or of  *)
(* the bitmap in it: for tables of any shape, with regions above 4 GB,     *)
(* inside a page or across pages.                                          *)
FreePagesAreRam ==
    LET taken == NotFree \cup Bytes(bmp, BitmapSize)
    IN  \A p \in (bitmap \cup OnStack \cup InUse \cup pts) \ {NULL} :
            ("MMAP" \in given.flags => IsRam(p)) /\ PageBytes(p) \cap taken = {}

(* "Set all pages defined in a section as used": after UpdateUsed no page  *)
(* of a section is free.                                                   *)
SectionPages == UNION {s.pages : s \in sections}

UsedPagesMarked ==
    boot \in {"AllocRange", "Alloc", "up"} => SectionPages \cap bitmap = {}
=============================================================================
