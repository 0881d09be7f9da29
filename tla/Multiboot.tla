----------------------------- MODULE Multiboot -----------------------------
(***************************************************************************)
(* What the loader left in memory: class Multiboot                         *)
(* (include/sys/multiboot.h, kernel/core/multiboot.cpp).  Parse copies the *)
(* loader's tables into the kernel, CheckRange says whether a range of     *)
(* physical addresses is free according to the copy, FindRange finds one.  *)
(*                                                                         *)
(* A header is the record of the copied tables; an address is a number     *)
(* below AddressSpaceSize, which stands for 2^32.                          *)
(***************************************************************************)
EXTENDS Integers, Sequences

CONSTANTS
    AddressSpaceSize,   \* the number of addresses of a uintptr
    Megabyte,           \* 0x100000, in the unit of the model
    ELF_MAX, MOD_MAX, MMAP_MAX,   \* the room for entries of each table
    ElfStr              \* the address of Multiboot::elfstr

ASSUME MultibootAssumption ==
    /\ AddressSpaceSize \in Nat \ {0}
    /\ Megabyte \in 0 .. AddressSpaceSize - 1
    /\ ELF_MAX \in Nat /\ MOD_MAX \in Nat /\ MMAP_MAX \in Nat
    /\ ElfStr \in 0 .. AddressSpaceSize - 1

Addresses == 0 .. AddressSpaceSize - 1

(* MULTIBOOT_MEM_AVAIL and its like: the tables the loader filled in.      *)
HeaderFlags == {"MEM", "MODS", "ELF", "MMAP"}

MB_MMAP_AVAIL == 1

Mmap == [base_addr : Addresses, length : Addresses, type : Nat]
ElfSection == [sh_addr : Addresses, sh_size : Addresses]
Mod == [mod_start : Addresses, mod_end : Addresses]

Header ==
    [flags : SUBSET HeaderFlags, mem_upper : Nat, mmap : Seq(Mmap),
     elf : Seq(ElfSection), elf_shndx : Nat, mods : Seq(Mod)]

-----------------------------------------------------------------------------
(* What uintptr arithmetic makes of a sum or difference.                   *)
Wrap(n) == n % AddressSpaceSize

(* Multiboot::Overlap compares region 1 with region 2; the result is the   *)
(* set of the OVERLAP_ bits.                                               *)
OutsideBits(b1, e1, b2, e2) ==
    (IF b1 < b2 THEN {"LESS"} ELSE {}) \cup (IF e1 > e2 THEN {"MORE"} ELSE {})

(* Mutant: a region 1 that has region 2 in its middle does not overlap it. *)
MeetsAtAnEnd(b1, e1, b2, e2) ==
    b1 \in b2 .. e2 \/ e1 \in b2 .. e2

Meets(b1, e1, b2, e2) ==
    \/ b1 \in b2 .. e2
    \/ e1 \in b2 .. e2
    \/ b1 < b2 /\ e1 > e2

Overlap(base1, length1, base2, length2) ==
    LET end1 == Wrap(base1 + length1 - 1)
        end2 == Wrap(base2 + length2 - 1)
        out  == OutsideBits(base1, end1, base2, end2)
    IN  IF length1 = 0 \/ length2 = 0 THEN {}
        ELSE IF ~ Meets(base1, end1, base2, end2) THEN out
        ELSE IF out = {} THEN {"EQUAL", "WITHIN"}
        ELSE out \cup {"EQUAL"}

-----------------------------------------------------------------------------
(* The three tables against a range.  A length of 0 meets nothing, which   *)
(* CheckRange takes for free.                                              *)
FreeInMmap(h, base, length) ==
    LET with(e) == Overlap(base, length, e.base_addr, e.length)
    IN  /\ \E i \in DOMAIN h.mmap :
              h.mmap[i].type = MB_MMAP_AVAIL /\ "WITHIN" \in with(h.mmap[i])
        /\ \A i \in DOMAIN h.mmap :
              h.mmap[i].type # MB_MMAP_AVAIL => "EQUAL" \notin with(h.mmap[i])

(* mem_upper is in KiB, the range in bytes.                                *)
BelowMemUpper(h, base, length) == Wrap(base + length) <= h.mem_upper + Megabyte

FreeOfElf(h, base, length) ==
    \A i \in DOMAIN h.elf :
        "EQUAL" \notin Overlap(base, length, h.elf[i].sh_addr, h.elf[i].sh_size)

FreeOfMods(h, base, length) ==
    \A i \in DOMAIN h.mods :
        "EQUAL" \notin Overlap(base, length, h.mods[i].mod_start,
                               Wrap(h.mods[i].mod_end - h.mods[i].mod_start))

CheckRange(h, base, length) ==
    /\ "MMAP" \in h.flags => FreeInMmap(h, base, length)
    /\ "MMAP" \notin h.flags /\ "MEM" \in h.flags => BelowMemUpper(h, base, length)
    /\ "ELF" \in h.flags => FreeOfElf(h, base, length)
    /\ "MODS" \in h.flags => FreeOfMods(h, base, length)

(* FindRange tries the start of every available region, then what follows  *)
(* every ELF section and every module.  0 is also its failure.             *)
NULL == 0

RegionStarts(h) == [i \in DOMAIN h.mmap |-> h.mmap[i].base_addr]

ElfEnds(h) == [i \in DOMAIN h.elf |-> Wrap(h.elf[i].sh_addr + h.elf[i].sh_size)]

ModEnds(h) == [i \in DOMAIN h.mods |-> h.mods[i].mod_end]

Candidates(h) == RegionStarts(h) \o ElfEnds(h) \o ModEnds(h)

IsRange(h, length, i) ==
    /\ i \in DOMAIN h.mmap => h.mmap[i].type = MB_MMAP_AVAIL
    /\ CheckRange(h, Candidates(h)[i], length)

FindRange(h, length) ==
    LET found == {i \in DOMAIN Candidates(h) : IsRange(h, length, i)}
    IN  IF found = {} THEN NULL
        ELSE Candidates(h)[CHOOSE i \in found : \A j \in found : i <= j]

-----------------------------------------------------------------------------
(* Parse: the first entries of each table are copied, as many as there is  *)
(* room for; what the loader did not give is empty.  A memory map entry    *)
(* keeps the low halves of its 64-bit fields.  The string table moves into *)
(* the kernel, and its header with it.                                     *)
FirstOf(s, max) == SubSeq(s, 1, IF Len(s) < max THEN Len(s) ELSE max)

LowHalves(e) == [e EXCEPT !.base_addr = Wrap(@), !.length = Wrap(@)]

Parse(given) ==
    LET elf  == FirstOf(given.elf, ELF_MAX)
        mmap == FirstOf(given.mmap, MMAP_MAX)
    IN  [given EXCEPT
            !.elf = IF "ELF" \in given.flags
                    THEN [elf EXCEPT ![given.elf_shndx].sh_addr = ElfStr]
                    ELSE <<>>,
            !.mods = IF "MODS" \in given.flags THEN FirstOf(given.mods, MOD_MAX) ELSE <<>>,
            !.mmap = IF "MMAP" \in given.flags
                     THEN [i \in DOMAIN mmap |-> LowHalves(mmap[i])]
                     ELSE <<>>]

(* How i386_PhysMemAllocator::Init adds to the tables: an entry of the     *)
(* memory map for the first megabyte, a section header for the bitmap.     *)
(* Without a map the entry is stored through the loader's mmap_addr and    *)
(* not into the copy, whose entries nothing looks at then.                 *)
WithReserved(h) ==
    IF "MMAP" \in h.flags
    THEN [h EXCEPT !.mmap = Append(@, [base_addr |-> 0, length |-> Megabyte, type |-> 2])]
    ELSE h

WithSection(h, base, length) ==
    [h EXCEPT !.elf = Append(@, [sh_addr |-> base, sh_size |-> length])]
=============================================================================
