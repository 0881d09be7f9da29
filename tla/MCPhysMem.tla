----------------------------- MODULE MCPhysMem -----------------------------
(* A small machine for TLC: pages 1 and 2 are below 1 MB, pages 3 to 8     *)
(* below 16 MB.  A page has 8 addresses of 512 bytes, a uintptr 7 bits.    *)
EXTENDS PhysMem

CONSTANTS A, B

Avail(base, length) == [base_addr |-> base, length |-> length, type |-> 1]
Other(base, length) == [base_addr |-> base, length |-> length, type |-> 2]
Elf(addr, size) == [sh_addr |-> addr, sh_size |-> size]

(* An ordinary machine: the kernel in pages 3 and 4, its string table in   *)
(* page 5, a module in the middle of page 7.                               *)
Ordinary ==
    [flags     |-> {"MEM", "MODS", "ELF", "MMAP"},
     mem_upper |-> 40,
     mmap      |-> <<Avail(0, 19), Other(19, 5), Avail(24, 80), Other(112, 16)>>,
     elf       |-> <<Elf(0, 0), Elf(24, 7), Elf(32, 4), Elf(44, 2)>>,
     elf_shndx |-> 4,
     mods      |-> <<[mod_start |-> 60, mod_end |-> 62]>>]

(* A machine with memory above 4 GB and a hole in the middle of its        *)
(* reserved regions; the kernel fills page 3 to its end, and the module    *)
(* crosses a page boundary at 16 MB.                                       *)
Large ==
    [Ordinary EXCEPT
        !.mem_upper = 36,
        !.mmap = <<Avail(0, 19), Avail(24, 74), Other(98, 6), Other(120, 8),
                   Avail(128, 150)>>,
        !.elf = <<Elf(0, 0), Elf(24, 8), Elf(33, 3), Elf(36, 1), Elf(40, 2)>>,
        !.elf_shndx = 5,
        !.mods = <<[mod_start |-> 71, mod_end |-> 74], [mod_start |-> 0, mod_end |-> 0]>>]

(* No memory map: the null section ends at 0, which FindRange finds free.   *)
NoMap == [Ordinary EXCEPT !.flags = {"MEM", "ELF"}, !.mmap = <<>>, !.mods = <<>>]

(* Too little memory: none above 16 MB, and none that is free above 1 MB.  *)
NoneAbove == [Ordinary EXCEPT !.mem_upper = 20]

NoneBelow == [Ordinary EXCEPT !.elf = <<Elf(0, 0), Elf(24, 40), Elf(44, 2)>>, !.elf_shndx = 3]

MCLoaders == {Ordinary, Large, NoMap, NoneAbove, NoneBelow}
=============================================================================
