--------------------------- MODULE PhysMemProofs ---------------------------
(* The physical memory allocator, for any loader's tables, any number of   *)
(* threads and a machine of any size: first what the range operators of    *)
(* class Multiboot decide, for tables and address spaces of any size, then *)
(* the free list as a chain of pages, then the allocator's invariant.      *)
EXTENDS PhysMem, NaturalsInduction, FiniteSetTheorems, TLAPS

(* A nonempty set of natural numbers has a smallest element.               *)
LEMMA SmallestElement ==
  ASSUME NEW S, S \subseteq Nat, S # {}
  PROVE  \E m \in S : \A n \in S : m <= n
<1>1. PICK m \in S : \A n \in S : <<n, m>> \notin OpToRel(<, Nat)
  BY NatLessThanWellFounded, WFMin, Zenon
<1>2. ASSUME NEW n \in S PROVE ~ n < m
  BY <1>1, Zenon DEF OpToRel
<1>. QED BY <1>2

-----------------------------------------------------------------------------
(* What 32-bit arithmetic does to a number.                                *)
LEMMA WrapType ==
  ASSUME NEW n \in Int
  PROVE  Wrap(n) \in Addresses
BY MultibootAssumption DEF Wrap, Addresses

LEMMA WrapSmall ==
  ASSUME NEW n \in Addresses
  PROVE  Wrap(n) = n
BY MultibootAssumption DEF Wrap, Addresses

LEMMA WrapLess ==
  ASSUME NEW n \in Nat
  PROVE  Wrap(n) <= n
BY MultibootAssumption DEF Wrap

(* The last address of a range that ends within the address space.         *)
LEMMA WrapEnd ==
  ASSUME NEW b \in Nat, NEW l \in Nat \ {0}, b + l <= AddressSpaceSize
  PROVE  Wrap(b + l - 1) = b + l - 1
<1>1. b + l - 1 \in Addresses
  BY MultibootAssumption DEF Addresses
<1>. QED BY <1>1, WrapSmall

(* Ranges that Overlap does not find EQUAL have no address in common.      *)
THEOREM OverlapDisjoint ==
  ASSUME NEW b1 \in Nat, NEW l1 \in Nat, b1 + l1 <= AddressSpaceSize,
         NEW b2 \in Nat, NEW l2 \in Nat, b2 + l2 <= AddressSpaceSize,
         "EQUAL" \notin Overlap(b1, l1, b2, l2)
  PROVE  (b1 .. b1 + l1 - 1) \cap (b2 .. b2 + l2 - 1) = {}
<1>1. CASE l1 = 0 \/ l2 = 0
  BY <1>1
<1>2. CASE l1 # 0 /\ l2 # 0
  <2>1. Wrap(b1 + l1 - 1) = b1 + l1 - 1 /\ Wrap(b2 + l2 - 1) = b2 + l2 - 1
    BY <1>2, WrapEnd
  <2>2. ~ Meets(b1, b1 + l1 - 1, b2, b2 + l2 - 1)
    BY <1>2, <2>1 DEF Overlap
  <2>. QED BY <1>2, <2>2 DEF Meets
<1>. QED BY <1>1, <1>2

(* A range that Overlap finds WITHIN another is part of it.                *)
THEOREM OverlapWithin ==
  ASSUME NEW b1 \in Nat, NEW l1 \in Nat, b1 + l1 <= AddressSpaceSize,
         NEW b2 \in Nat, NEW l2 \in Nat, b2 + l2 <= AddressSpaceSize,
         "WITHIN" \in Overlap(b1, l1, b2, l2)
  PROVE  b1 .. b1 + l1 - 1 \subseteq b2 .. b2 + l2 - 1
<1>1. l1 # 0 /\ l2 # 0
  BY DEF Overlap
<1>2. Wrap(b1 + l1 - 1) = b1 + l1 - 1 /\ Wrap(b2 + l2 - 1) = b2 + l2 - 1
  BY <1>1, WrapEnd
<1>3. OutsideBits(b1, b1 + l1 - 1, b2, b2 + l2 - 1) = {}
  BY <1>1, <1>2 DEF Overlap, OutsideBits
<1>4. ~ (b1 < b2) /\ ~ (b1 + l1 - 1 > b2 + l2 - 1)
  BY <1>3 DEF OutsideBits
<1>. QED BY <1>4

-----------------------------------------------------------------------------
LEMMA HeaderFields ==
  ASSUME NEW h \in Header
  PROVE  /\ h.mmap \in Seq(Mmap) /\ h.elf \in Seq(ElfSection) /\ h.mods \in Seq(Mod)
         /\ h.flags \subseteq HeaderFlags
         /\ h.mem_upper \in Nat /\ h.elf_shndx \in Nat
BY DEF Header

LEMMA FunctionSeq ==
  ASSUME NEW T, NEW n \in Nat, NEW f \in [1 .. n -> T]
  PROVE  f \in Seq(T) /\ Len(f) = n /\ DOMAIN f = 1 .. n
OBVIOUS

LEMMA ConcatSeq ==
  ASSUME NEW T, NEW s \in Seq(T), NEW t \in Seq(T)
  PROVE  /\ s \o t \in Seq(T) /\ Len(s \o t) = Len(s) + Len(t)
         /\ DOMAIN (s \o t) = 1 .. Len(s) + Len(t)
         /\ \A i \in 1 .. Len(s) + Len(t) :
              (s \o t)[i] = IF i <= Len(s) THEN s[i] ELSE t[i - Len(s)]
OBVIOUS

(* Where a candidate of FindRange comes from.                              *)
LEMMA CandidateCases ==
  ASSUME NEW h \in Header
  PROVE  /\ DOMAIN Candidates(h) \subseteq Nat
         /\ \A i \in DOMAIN Candidates(h) :
               \/ i \in DOMAIN h.mmap /\ Candidates(h)[i] = h.mmap[i].base_addr
               \/ \E j \in DOMAIN h.elf :
                     Candidates(h)[i] = Wrap(h.elf[j].sh_addr + h.elf[j].sh_size)
               \/ \E j \in DOMAIN h.mods : Candidates(h)[i] = h.mods[j].mod_end
<1>. DEFINE r == RegionStarts(h)
            e == ElfEnds(h)
            m == ModEnds(h)
<1>1. h.mmap \in Seq(Mmap) /\ h.elf \in Seq(ElfSection) /\ h.mods \in Seq(Mod)
  BY HeaderFields
<1>2. r \in Seq(Int) /\ DOMAIN r = DOMAIN h.mmap /\ DOMAIN r = 1 .. Len(r)
  <2>1. ASSUME NEW i \in DOMAIN h.mmap PROVE h.mmap[i].base_addr \in Int
    <3>1. h.mmap[i] \in Mmap
      BY <1>1
    <3>. QED BY <3>1 DEF Mmap, Addresses
  <2>2. r \in [1 .. Len(h.mmap) -> Int] /\ DOMAIN r = DOMAIN h.mmap
    BY <1>1, <2>1 DEF RegionStarts
  <2>3. Len(h.mmap) \in Nat
    BY <1>1
  <2>4. DOMAIN h.mmap = 1 .. Len(h.mmap)
    BY <1>1
  <2>. QED BY <2>2, <2>3, <2>4, FunctionSeq
<1>3. e \in Seq(Int) /\ DOMAIN e = DOMAIN h.elf /\ DOMAIN e = 1 .. Len(e)
  <2>1. ASSUME NEW i \in DOMAIN h.elf
        PROVE  Wrap(h.elf[i].sh_addr + h.elf[i].sh_size) \in Int
    <3>1. h.elf[i] \in ElfSection
      BY <1>1
    <3>2. h.elf[i].sh_addr + h.elf[i].sh_size \in Int
      BY <3>1 DEF ElfSection, Addresses
    <3>. QED BY <3>2, WrapType DEF Addresses
  <2>2. e \in [1 .. Len(h.elf) -> Int] /\ DOMAIN e = DOMAIN h.elf
    BY <1>1, <2>1 DEF ElfEnds
  <2>3. Len(h.elf) \in Nat
    BY <1>1
  <2>4. DOMAIN h.elf = 1 .. Len(h.elf)
    BY <1>1
  <2>. QED BY <2>2, <2>3, <2>4, FunctionSeq
<1>4. m \in Seq(Int) /\ DOMAIN m = DOMAIN h.mods /\ DOMAIN m = 1 .. Len(m)
  <2>1. ASSUME NEW i \in DOMAIN h.mods PROVE h.mods[i].mod_end \in Int
    <3>1. h.mods[i] \in Mod
      BY <1>1
    <3>. QED BY <3>1 DEF Mod, Addresses
  <2>2. m \in [1 .. Len(h.mods) -> Int] /\ DOMAIN m = DOMAIN h.mods
    BY <1>1, <2>1 DEF ModEnds
  <2>3. Len(h.mods) \in Nat
    BY <1>1
  <2>4. DOMAIN h.mods = 1 .. Len(h.mods)
    BY <1>1
  <2>. QED BY <2>2, <2>3, <2>4, FunctionSeq
<1>5. Candidates(h) = (r \o e) \o m
  BY DEF Candidates
<1>6. /\ \A i \in DOMAIN r : r[i] = h.mmap[i].base_addr
      /\ \A i \in DOMAIN e : e[i] = Wrap(h.elf[i].sh_addr + h.elf[i].sh_size)
      /\ \A i \in DOMAIN m : m[i] = h.mods[i].mod_end
  BY DEF RegionStarts, ElfEnds, ModEnds
<1>. HIDE DEF r, e, m
<1>7. /\ Len(r) \in Nat /\ Len(e) \in Nat /\ Len(m) \in Nat
  BY <1>2, <1>3, <1>4
<1>8. /\ r \o e \in Seq(Int) /\ Len(r \o e) = Len(r) + Len(e)
      /\ \A i \in 1 .. Len(r) + Len(e) :
           (r \o e)[i] = IF i <= Len(r) THEN r[i] ELSE e[i - Len(r)]
  BY <1>2, <1>3, ConcatSeq
<1>9. /\ DOMAIN Candidates(h) = 1 .. Len(r) + Len(e) + Len(m)
      /\ \A i \in 1 .. Len(r) + Len(e) + Len(m) :
           Candidates(h)[i] = IF i <= Len(r) + Len(e) THEN (r \o e)[i]
                              ELSE m[i - (Len(r) + Len(e))]
  BY <1>4, <1>5, <1>8, ConcatSeq
<1>10. ASSUME NEW i \in DOMAIN Candidates(h)
       PROVE  \/ i \in DOMAIN r /\ Candidates(h)[i] = r[i]
              \/ \E j \in DOMAIN e : Candidates(h)[i] = e[j]
              \/ \E j \in DOMAIN m : Candidates(h)[i] = m[j]
  <2>1. CASE i <= Len(r)
    BY <2>1, <1>2, <1>7, <1>8, <1>9
  <2>2. CASE i > Len(r) /\ i <= Len(r) + Len(e)
    <3>1. i - Len(r) \in DOMAIN e
      BY <2>2, <1>3, <1>7, <1>9
    <3>2. Candidates(h)[i] = e[i - Len(r)]
      BY <2>2, <1>7, <1>8, <1>9
    <3>. QED BY <3>1, <3>2
  <2>3. CASE i > Len(r) + Len(e)
    <3>1. i - (Len(r) + Len(e)) \in DOMAIN m
      BY <2>3, <1>4, <1>7, <1>9
    <3>2. Candidates(h)[i] = m[i - (Len(r) + Len(e))]
      BY <2>3, <1>7, <1>9
    <3>. QED BY <3>1, <3>2
  <2>. QED BY <2>1, <2>2, <2>3, <1>7, <1>9
<1>11. DOMAIN Candidates(h) \subseteq Nat
  BY <1>7, <1>9
<1>12. ASSUME NEW i \in DOMAIN Candidates(h)
       PROVE  \/ i \in DOMAIN h.mmap /\ Candidates(h)[i] = h.mmap[i].base_addr
              \/ \E j \in DOMAIN h.elf :
                    Candidates(h)[i] = Wrap(h.elf[j].sh_addr + h.elf[j].sh_size)
              \/ \E j \in DOMAIN h.mods : Candidates(h)[i] = h.mods[j].mod_end
  <2>1. CASE i \in DOMAIN r /\ Candidates(h)[i] = r[i]
    BY <2>1, <1>2, <1>6
  <2>2. CASE \E j \in DOMAIN e : Candidates(h)[i] = e[j]
    BY <2>2, <1>3, <1>6
  <2>3. CASE \E j \in DOMAIN m : Candidates(h)[i] = m[j]
    BY <2>3, <1>4, <1>6
  <2>. QED BY <2>1, <2>2, <2>3, <1>10
<1>. QED BY <1>11, <1>12

(* What FindRange returns, if not 0, is a candidate that CheckRange found  *)
(* free.                                                                   *)
LEMMA FindRangeIsRange ==
  ASSUME NEW h \in Header, NEW length, FindRange(h, length) # NULL
  PROVE  \E i \in DOMAIN Candidates(h) :
            /\ FindRange(h, length) = Candidates(h)[i]
            /\ IsRange(h, length, i)
<1>. DEFINE found == {i \in DOMAIN Candidates(h) : IsRange(h, length, i)}
<1>1. found # {} /\ found \subseteq Nat
  BY CandidateCases DEF FindRange
<1>2. PICK m \in found : \A j \in found : m <= j
  <2>. HIDE DEF found
  <2>. QED BY <1>1, SmallestElement
<1>. DEFINE i == CHOOSE i \in found : \A j \in found : i <= j
<1>3. i \in found
  <2>. HIDE DEF found
  <2>. QED BY <1>2
<1>4. FindRange(h, length) = Candidates(h)[i]
  BY <1>1 DEF FindRange
<1>. QED BY <1>3, <1>4

LEMMA FindRangeType ==
  ASSUME NEW h \in Header, NEW length
  PROVE  FindRange(h, length) \in Addresses
<1>1. CASE FindRange(h, length) = NULL
  BY <1>1, MultibootAssumption DEF Addresses, NULL
<1>2. CASE FindRange(h, length) # NULL
  <2>1. PICK i \in DOMAIN Candidates(h) : FindRange(h, length) = Candidates(h)[i]
    BY <1>2, FindRangeIsRange
  <2>2. h.mmap \in Seq(Mmap) /\ h.elf \in Seq(ElfSection) /\ h.mods \in Seq(Mod)
    BY HeaderFields
  <2>3. CASE i \in DOMAIN h.mmap /\ Candidates(h)[i] = h.mmap[i].base_addr
    <3>1. h.mmap[i] \in Mmap
      BY <2>2, <2>3
    <3>. QED BY <2>1, <2>3, <3>1 DEF Mmap
  <2>4. CASE \E j \in DOMAIN h.elf :
                Candidates(h)[i] = Wrap(h.elf[j].sh_addr + h.elf[j].sh_size)
    <3>1. PICK j \in DOMAIN h.elf : Candidates(h)[i] = Wrap(h.elf[j].sh_addr + h.elf[j].sh_size)
      BY <2>4
    <3>2. h.elf[j] \in ElfSection
      BY <2>2
    <3>3. h.elf[j].sh_addr + h.elf[j].sh_size \in Int
      BY <3>2 DEF ElfSection, Addresses
    <3>. QED BY <2>1, <3>1, <3>3, WrapType
  <2>5. CASE \E j \in DOMAIN h.mods : Candidates(h)[i] = h.mods[j].mod_end
    <3>1. PICK j \in DOMAIN h.mods : Candidates(h)[i] = h.mods[j].mod_end
      BY <2>5
    <3>2. h.mods[j] \in Mod
      BY <2>2
    <3>. QED BY <2>1, <3>1, <3>2 DEF Mod
  <2>. QED BY <2>3, <2>4, <2>5, CandidateCases
<1>. QED BY <1>1, <1>2

-----------------------------------------------------------------------------
(* What CheckRange accepts lies within an available region, and has no     *)
(* address in common with a reserved region, an ELF section or a module,   *)
(* as far as these do not cross the end of the address space.              *)
THEOREM CheckRangeIsFree ==
  ASSUME NEW h \in Header, NEW base \in Nat, NEW length \in Nat,
         base + length <= AddressSpaceSize, CheckRange(h, base, length)
  PROVE
    LET range == base .. base + length - 1
    IN  /\ "MMAP" \in h.flags =>
              /\ \E i \in DOMAIN h.mmap :
                    /\ h.mmap[i].type = MB_MMAP_AVAIL
                    /\ h.mmap[i].base_addr + h.mmap[i].length <= AddressSpaceSize =>
                          range \subseteq h.mmap[i].base_addr
                                             .. h.mmap[i].base_addr + h.mmap[i].length - 1
              /\ \A i \in DOMAIN h.mmap :
                    /\ h.mmap[i].type # MB_MMAP_AVAIL
                    /\ h.mmap[i].base_addr + h.mmap[i].length <= AddressSpaceSize
                    => range \cap (h.mmap[i].base_addr
                                      .. h.mmap[i].base_addr + h.mmap[i].length - 1) = {}
        /\ "ELF" \in h.flags =>
              \A i \in DOMAIN h.elf :
                  h.elf[i].sh_addr + h.elf[i].sh_size <= AddressSpaceSize =>
                      range \cap (h.elf[i].sh_addr
                                     .. h.elf[i].sh_addr + h.elf[i].sh_size - 1) = {}
        /\ "MODS" \in h.flags =>
              \A i \in DOMAIN h.mods :
                  h.mods[i].mod_start <= h.mods[i].mod_end =>
                      range \cap (h.mods[i].mod_start .. h.mods[i].mod_end - 1) = {}
<1>. DEFINE range == base .. base + length - 1
<1>1. h.mmap \in Seq(Mmap) /\ h.elf \in Seq(ElfSection) /\ h.mods \in Seq(Mod)
  BY HeaderFields
<1>2. ASSUME NEW i \in DOMAIN h.mmap
      PROVE  h.mmap[i].base_addr \in Nat /\ h.mmap[i].length \in Nat
  <2>1. h.mmap[i] \in Mmap
    BY <1>1
  <2>. QED BY <2>1 DEF Mmap, Addresses
<1>3. ASSUME NEW i \in DOMAIN h.elf
      PROVE  h.elf[i].sh_addr \in Nat /\ h.elf[i].sh_size \in Nat
  <2>1. h.elf[i] \in ElfSection
    BY <1>1
  <2>. QED BY <2>1 DEF ElfSection, Addresses
<1>4. ASSUME NEW i \in DOMAIN h.mods
      PROVE  /\ h.mods[i].mod_start \in Nat /\ h.mods[i].mod_end \in Nat
             /\ h.mods[i].mod_end < AddressSpaceSize
  <2>1. h.mods[i] \in Mod
    BY <1>1
  <2>. QED BY <2>1, MultibootAssumption DEF Mod, Addresses
<1>5. ASSUME "MMAP" \in h.flags
      PROVE  \E i \in DOMAIN h.mmap :
                /\ h.mmap[i].type = MB_MMAP_AVAIL
                /\ h.mmap[i].base_addr + h.mmap[i].length <= AddressSpaceSize =>
                      range \subseteq h.mmap[i].base_addr
                                         .. h.mmap[i].base_addr + h.mmap[i].length - 1
  <2>1. PICK i \in DOMAIN h.mmap :
           /\ h.mmap[i].type = MB_MMAP_AVAIL
           /\ "WITHIN" \in Overlap(base, length, h.mmap[i].base_addr, h.mmap[i].length)
    BY <1>5 DEF CheckRange, FreeInMmap
  <2>. DEFINE b == h.mmap[i].base_addr
              l == h.mmap[i].length
  <2>2. b \in Nat /\ l \in Nat /\ "WITHIN" \in Overlap(base, length, b, l)
    BY <1>2, <2>1
  <2>3. b + l <= AddressSpaceSize => range \subseteq b .. b + l - 1
    <3>. HIDE DEF b, l
    <3>. QED BY <2>2, OverlapWithin
  <2>. QED BY <2>1, <2>3
<1>6. ASSUME "MMAP" \in h.flags, NEW i \in DOMAIN h.mmap,
             h.mmap[i].type # MB_MMAP_AVAIL,
             h.mmap[i].base_addr + h.mmap[i].length <= AddressSpaceSize
      PROVE  range \cap (h.mmap[i].base_addr
                            .. h.mmap[i].base_addr + h.mmap[i].length - 1) = {}
  <2>1. "EQUAL" \notin Overlap(base, length, h.mmap[i].base_addr, h.mmap[i].length)
    BY <1>6 DEF CheckRange, FreeInMmap
  <2>. QED BY <1>2, <1>6, <2>1, OverlapDisjoint
<1>7. ASSUME "ELF" \in h.flags, NEW i \in DOMAIN h.elf,
             h.elf[i].sh_addr + h.elf[i].sh_size <= AddressSpaceSize
      PROVE  range \cap (h.elf[i].sh_addr .. h.elf[i].sh_addr + h.elf[i].sh_size - 1) = {}
  <2>1. "EQUAL" \notin Overlap(base, length, h.elf[i].sh_addr, h.elf[i].sh_size)
    BY <1>7 DEF CheckRange, FreeOfElf
  <2>. QED BY <1>3, <1>7, <2>1, OverlapDisjoint
<1>8. ASSUME "MODS" \in h.flags, NEW i \in DOMAIN h.mods,
             h.mods[i].mod_start <= h.mods[i].mod_end
      PROVE  range \cap (h.mods[i].mod_start .. h.mods[i].mod_end - 1) = {}
  <2>1. "EQUAL" \notin Overlap(base, length, h.mods[i].mod_start,
                               Wrap(h.mods[i].mod_end - h.mods[i].mod_start))
    BY <1>8 DEF CheckRange, FreeOfMods
  <2>2. h.mods[i].mod_end - h.mods[i].mod_start \in Addresses
    BY <1>4, <1>8, MultibootAssumption DEF Addresses
  <2>3. Wrap(h.mods[i].mod_end - h.mods[i].mod_start)
          = h.mods[i].mod_end - h.mods[i].mod_start
    BY <2>2, WrapSmall
  <2>4. PICK l \in Nat : l = h.mods[i].mod_end - h.mods[i].mod_start
    BY <1>4, <1>8
  <2>5. h.mods[i].mod_start + l = h.mods[i].mod_end
    BY <1>4, <2>4
  <2>6. "EQUAL" \notin Overlap(base, length, h.mods[i].mod_start, l)
    BY <2>1, <2>3, <2>4
  <2>7. h.mods[i].mod_start + l <= AddressSpaceSize
    BY <1>4, <2>5, MultibootAssumption
  <2>8. range \cap (h.mods[i].mod_start .. h.mods[i].mod_start + l - 1) = {}
    <3>. HIDE DEF range
    <3>1. h.mods[i].mod_start \in Nat
      BY <1>4
    <3>. QED BY <3>1, <2>4, <2>6, <2>7, OverlapDisjoint DEF range
  <2>. HIDE DEF range
  <2>. QED BY <1>4, <2>5, <2>8
<1>. QED BY <1>5, <1>6, <1>7, <1>8

-----------------------------------------------------------------------------

(***************************************************************************)
(* The free list as a chain: from its first page, each page of S once, to  *)
(* NULL.                                                                   *)
(***************************************************************************)
IsChain(first, next, S, n, c) ==
    /\ c \in [0 .. n -> Pages \cup {NULL}]
    /\ c[0] = first
    /\ c[n] = NULL
    /\ \A i \in 0 .. n - 1 : c[i] \in S /\ next[c[i]] = c[i + 1]
    /\ \A i, j \in 0 .. n - 1 : c[i] = c[j] => i = j
    /\ \A p \in S : \E i \in 0 .. n - 1 : c[i] = p

Chain(first, next, S) == \E n \in Nat : \E c : IsChain(first, next, S, n, c)

LEMMA PagesNotNull == NULL \notin Pages
BY DEF NULL, Pages

LEMMA ChainEmpty ==
  ASSUME NEW next
  PROVE  Chain(NULL, next, {})
<1>. DEFINE c == [i \in 0 .. 0 |-> NULL]
<1>1. IsChain(NULL, next, {}, 0, c)
  BY DEF IsChain
<1>. QED BY <1>1 DEF Chain

LEMMA ChainPush ==
  ASSUME NEW first, NEW next \in [Pages -> Pages \cup {0}], NEW S, S \subseteq Pages,
         Chain(first, next, S), NEW p \in Pages \ S
  PROVE  Chain(p, [next EXCEPT ![p] = first], S \cup {p})
<1>0. PICK n \in Nat : \E c : IsChain(first, next, S, n, c)
  BY DEF Chain
<1>1. PICK c : IsChain(first, next, S, n, c)
  BY <1>0
<1>. DEFINE d == [i \in 0 .. n + 1 |-> IF i = 0 THEN p ELSE c[i - 1]]
            w == [next EXCEPT ![p] = first]
<1>2. d \in [0 .. n + 1 -> Pages \cup {NULL}]
  BY <1>1 DEF IsChain
<1>3. d[0] = p /\ d[n + 1] = NULL
  BY <1>1 DEF IsChain
<1>4. ASSUME NEW i \in 0 .. n PROVE d[i] \in S \cup {p} /\ w[d[i]] = d[i + 1]
  <2>1. CASE i = 0
    BY <1>1, <2>1 DEF IsChain
  <2>2. CASE i # 0
    <3>1. i - 1 \in 0 .. n - 1
      BY <2>2
    <3>2. d[i] = c[i - 1] /\ d[i + 1] = c[i]
      BY <2>2
    <3>3. c[i - 1] \in S /\ next[c[i - 1]] = c[i - 1 + 1]
      BY <1>1, <3>1 DEF IsChain
    <3>. QED BY <3>2, <3>3
  <2>. QED BY <2>1, <2>2
<1>5. ASSUME NEW i \in 0 .. n, NEW j \in 0 .. n, d[i] = d[j] PROVE i = j
  <2>1. CASE i = 0 /\ j = 0
    BY <2>1
  <2>2. CASE i # 0 /\ j # 0
    <3>1. i - 1 \in 0 .. n - 1 /\ j - 1 \in 0 .. n - 1 /\ c[i - 1] = c[j - 1]
      BY <1>5, <2>2
    <3>. QED BY <1>1, <3>1 DEF IsChain
  <2>3. ASSUME NEW k \in 0 .. n, k # 0 PROVE d[k] \in S
    <3>1. k - 1 \in 0 .. n - 1 /\ d[k] = c[k - 1]
      BY <2>3
    <3>. QED BY <1>1, <3>1 DEF IsChain
  <2>. QED BY <1>3, <1>5, <2>1, <2>2, <2>3
<1>6. ASSUME NEW q \in S \cup {p} PROVE \E i \in 0 .. n : d[i] = q
  <2>1. CASE q = p
    BY <1>3, <2>1
  <2>2. CASE q \in S
    <3>1. PICK i \in 0 .. n - 1 : c[i] = q
      BY <1>1, <2>2 DEF IsChain
    <3>2. i + 1 \in 0 .. n /\ d[i + 1] = q
      BY <3>1
    <3>. QED BY <3>2
  <2>. QED BY <2>1, <2>2
<1>7. IsChain(p, w, S \cup {p}, n + 1, d)
  <2>. HIDE DEF d, w
  <2>1. (n + 1) - 1 = n
    OBVIOUS
  <2>. QED BY <1>2, <1>3, <1>4, <1>5, <1>6, <2>1 DEF IsChain
<1>. QED BY <1>7 DEF Chain

LEMMA ChainPop ==
  ASSUME NEW first, NEW next, NEW S, S \subseteq Pages,
         Chain(first, next, S), first # NULL
  PROVE  first \in S /\ Chain(next[first], next, S \ {first})
<1>0. PICK n \in Nat : \E c : IsChain(first, next, S, n, c)
  BY DEF Chain
<1>1. PICK c : IsChain(first, next, S, n, c)
  BY <1>0
<1>2. n # 0
  BY <1>1 DEF IsChain
<1>3. c[0] = first /\ first \in S /\ next[first] = c[1]
  BY <1>1, <1>2 DEF IsChain
<1>. DEFINE d == [i \in 0 .. n - 1 |-> c[i + 1]]
<1>4. d \in [0 .. n - 1 -> Pages \cup {NULL}] /\ d[0] = next[first] /\ d[n - 1] = NULL
  BY <1>1, <1>2, <1>3 DEF IsChain
<1>5. ASSUME NEW i \in 0 .. n - 2
      PROVE  d[i] \in S \ {first} /\ next[d[i]] = d[i + 1]
  <2>1. i + 1 \in 0 .. n - 1 /\ 0 \in 0 .. n - 1 /\ i \in 0 .. n - 1 /\ i + 1 # 0
    BY <1>2
  <2>2. d[i] = c[i + 1] /\ d[i + 1] = c[i + 1 + 1]
    BY <2>1
  <2>. QED BY <1>1, <1>3, <2>1, <2>2 DEF IsChain
<1>6. ASSUME NEW i \in 0 .. n - 2, NEW j \in 0 .. n - 2, d[i] = d[j] PROVE i = j
  <2>1. i + 1 \in 0 .. n - 1 /\ j + 1 \in 0 .. n - 1 /\ c[i + 1] = c[j + 1]
    BY <1>6
  <2>2. i + 1 = j + 1
    BY <1>1, <2>1 DEF IsChain
  <2>. QED BY <2>2
<1>7. ASSUME NEW q \in S \ {first} PROVE \E i \in 0 .. n - 2 : d[i] = q
  <2>1. PICK i \in 0 .. n - 1 : c[i] = q
    BY <1>1 DEF IsChain
  <2>2. i # 0
    BY <1>3, <2>1
  <2>3. i - 1 \in 0 .. n - 2 /\ d[i - 1] = q
    BY <2>1, <2>2
  <2>. QED BY <2>3
<1>8. IsChain(next[first], next, S \ {first}, n - 1, d)
  <2>. HIDE DEF d
  <2>1. n - 1 \in Nat /\ (n - 1) - 1 = n - 2
    BY <1>2
  <2>. QED BY <1>4, <1>5, <1>6, <1>7, <2>1 DEF IsChain
<1>9. n - 1 \in Nat
  BY <1>2
<1>. QED BY <1>3, <1>8, <1>9 DEF Chain

LEMMA ChainOtherWords ==
  ASSUME NEW first, NEW next, NEW S, Chain(first, next, S),
         NEW other, \A p \in S : other[p] = next[p]
  PROVE  Chain(first, other, S)
<1>0. PICK n \in Nat : \E c : IsChain(first, next, S, n, c)
  BY DEF Chain
<1>1. PICK c : IsChain(first, next, S, n, c)
  BY <1>0
<1>2. \A i \in 0 .. n - 1 : c[i] \in S /\ other[c[i]] = c[i + 1]
  BY <1>1 DEF IsChain
<1>3. IsChain(first, other, S, n, c)
  BY <1>1, <1>2 DEF IsChain
<1>. QED BY <1>3 DEF Chain

LEMMA ChainNull ==
  ASSUME NEW next, NEW S, S \subseteq Pages, Chain(NULL, next, S)
  PROVE  S = {}
<1>0. PICK n \in Nat : \E c : IsChain(NULL, next, S, n, c)
  BY DEF Chain
<1>1. PICK c : IsChain(NULL, next, S, n, c)
  BY <1>0
<1>2. n = 0
  <2>1. SUFFICES ASSUME n # 0 PROVE FALSE
    OBVIOUS
  <2>2. c[0] \in S
    BY <1>1, <2>1 DEF IsChain
  <2>. QED BY <1>1, <2>2, PagesNotNull DEF IsChain
<1>. QED BY <1>1, <1>2 DEF IsChain

(* A chain of n pages of a finite set has no more pages than the set.      *)
LEMMA ChainLength ==
  ASSUME NEW first, NEW next, NEW S, NEW T, S \subseteq T, IsFiniteSet(T),
         NEW n \in Nat, NEW c, IsChain(first, next, S, n, c)
  PROVE  n <= Cardinality(T) /\ Cardinality(T) \in Nat
<1>. DEFINE d == [i \in 0 .. n - 1 |-> c[i]]
<1>1. d \in Injection(0 .. n - 1, T)
  <2>1. d \in [0 .. n - 1 -> T]
    BY DEF IsChain
  <2>2. \A i, j \in 0 .. n - 1 : d[i] = d[j] => i = j
    BY DEF IsChain
  <2>. HIDE DEF d
  <2>. QED BY <2>1, <2>2 DEF Injection, IsInjective
<1>2. Cardinality(0 .. n - 1) <= Cardinality(T)
  BY <1>1, FS_Injection
<1>3. Cardinality(0 .. n - 1) = n
  BY FS_Interval
<1>4. Cardinality(T) \in Nat
  BY FS_CardinalityType
<1>. QED BY <1>2, <1>3, <1>4

(* Following the words from top visits a chain's pages and then stays at   *)
(* NULL.  Hops is defined by recursion: it satisfies its equation because  *)
(* the chain does, and two functions that satisfy it cannot differ at a    *)
(* smallest place.                                                         *)
LEMMA HopsFollowChain ==
  ASSUME NEW S, S \subseteq High, IsFiniteSet(High), High \subseteq Pages,
         Chain(top, word, S)
  PROVE  Hops[Cardinality(High)] = NULL /\ OnStack = S
<1>0. PICK n \in Nat : \E c : IsChain(top, word, S, n, c)
  BY DEF Chain
<1>1. PICK c : IsChain(top, word, S, n, c)
  BY <1>0
<1>. DEFINE k == Cardinality(High)
            F(f) == [i \in 0 .. k |->
                        IF i = 0 THEN top
                        ELSE IF f[i - 1] = NULL THEN NULL ELSE word[f[i - 1]]]
            g == [i \in 0 .. k |-> IF i <= n THEN c[i] ELSE NULL]
<1>2. n <= k /\ k \in Nat
  BY <1>1, ChainLength
<1>3. g = F(g)
  <2>1. ASSUME NEW i \in 0 .. k PROVE g[i] = F(g)[i]
    <3>1. CASE i = 0
      BY <1>1, <1>2, <3>1 DEF IsChain
    <3>2. CASE i # 0 /\ i <= n
      <4>1. i - 1 \in 0 .. n - 1 /\ i - 1 \in 0 .. k
        BY <1>2, <3>2
      <4>2. c[i - 1] \in S /\ word[c[i - 1]] = c[i - 1 + 1]
        BY <1>1, <4>1 DEF IsChain
      <4>3. c[i - 1] # NULL
        BY <4>2, PagesNotNull
      <4>4. g[i - 1] = c[i - 1] /\ g[i] = c[i]
        BY <1>2, <3>2, <4>1
      <4>. QED BY <3>2, <4>2, <4>3, <4>4
    <3>3. CASE i > n
      <4>1. i - 1 \in 0 .. k /\ i # 0
        BY <1>2, <3>3
      <4>2. g[i - 1] = NULL
        BY <1>1, <1>2, <3>3, <4>1 DEF IsChain
      <4>3. g[i] = NULL
        BY <3>3
      <4>. QED BY <4>1, <4>2, <4>3
    <3>. QED BY <1>2, <3>1, <3>2, <3>3
  <2>. QED BY <2>1
<1>4. Hops = F(Hops)
  <2>1. Hops = CHOOSE f : f = F(f)
    BY DEF Hops
  <2>. HIDE DEF F, g
  <2>. QED BY <1>3, <2>1
<1>5. \A i \in 0 .. k : Hops[i] = g[i]
  <2>. DEFINE D == {i \in 0 .. k : Hops[i] # g[i]}
  <2>1. SUFFICES ASSUME D # {} PROVE FALSE
    OBVIOUS
  <2>2. PICK m \in D : \A i \in D : m <= i
    <3>1. D \subseteq Nat
      OBVIOUS
    <3>. HIDE DEF D
    <3>. QED BY <2>1, <3>1, SmallestElement
  <2>3. Hops[m] = F(Hops)[m] /\ g[m] = F(g)[m]
    BY <1>3, <1>4
  <2>4. m # 0
    BY <2>2, <2>3
  <2>5. m - 1 \in 0 .. k /\ m - 1 \notin D
    BY <1>2, <2>2, <2>4
  <2>6. Hops[m - 1] = g[m - 1]
    BY <2>5
  <2>. HIDE DEF g
  <2>. QED BY <2>2, <2>3, <2>4, <2>6
<1>6. DOMAIN Hops = 0 .. k
  <2>1. DOMAIN F(Hops) = 0 .. k
    OBVIOUS
  <2>. HIDE DEF F
  <2>. QED BY <1>4, <2>1
<1>7. Hops[k] = NULL
  <2>1. g[k] = NULL
    BY <1>1, <1>2 DEF IsChain
  <2>. QED BY <1>2, <1>5, <2>1
<1>8. ASSUME NEW p \in OnStack PROVE p \in S
  <2>1. PICK i \in 0 .. k : p = Hops[i] /\ p # NULL
    BY <1>6 DEF OnStack
  <2>2. p = g[i]
    BY <1>5, <2>1
  <2>3. i \in 0 .. n - 1 /\ p = c[i]
    BY <1>1, <1>2, <2>1, <2>2 DEF IsChain
  <2>. QED BY <1>1, <2>3 DEF IsChain
<1>9. ASSUME NEW p \in S PROVE p \in OnStack
  <2>1. PICK i \in 0 .. n - 1 : c[i] = p
    BY <1>1 DEF IsChain
  <2>2. i \in 0 .. k /\ g[i] = p
    BY <1>2, <2>1
  <2>3. Hops[i] = p /\ p # NULL
    BY <1>5, <2>2, PagesNotNull
  <2>. QED BY <1>6, <2>2, <2>3 DEF OnStack
<1>. QED BY <1>7, <1>8, <1>9

(***************************************************************************)
(* The kernel's copy of the loader's tables.                               *)
(***************************************************************************)
LEMMA FirstOfAll ==
  ASSUME NEW T, NEW s \in Seq(T), NEW max \in Nat, Len(s) <= max
  PROVE  FirstOf(s, max) = s
<1>1. FirstOf(s, max) = SubSeq(s, 1, Len(s))
  BY DEF FirstOf
<1>. QED BY <1>1

LEMMA GivenFields ==
  ASSUME NEW h \in Given
  PROVE  /\ h.mmap \in Seq(Entry) /\ h.elf \in Seq(ElfSection) /\ h.mods \in Seq(Mod)
         /\ h.flags \subseteq HeaderFlags
         /\ h.mem_upper \in Nat /\ h.elf_shndx \in Nat
BY DEF Given

LEMMA ParseCopies ==
  ASSUME NEW h \in Given, TablesFit(h)
  PROVE  /\ Parse(h) \in Header
         /\ Parse(h).flags = h.flags
         /\ Parse(h).mem_upper = h.mem_upper
         /\ Parse(h).mods = h.mods
         /\ Len(Parse(h).elf) = Len(h.elf)
         /\ DOMAIN Parse(h).elf = DOMAIN h.elf
         /\ \A i \in DOMAIN h.elf :
               /\ i # h.elf_shndx => Parse(h).elf[i] = h.elf[i]
               /\ Parse(h).elf[i].sh_addr \in {h.elf[i].sh_addr, ElfStr}
               /\ Parse(h).elf[i].sh_size = h.elf[i].sh_size
         /\ DOMAIN Parse(h).mmap = DOMAIN h.mmap
         /\ \A i \in DOMAIN h.mmap :
               /\ Parse(h).mmap[i].base_addr = Wrap(h.mmap[i].base_addr)
               /\ Parse(h).mmap[i].length = Wrap(h.mmap[i].length)
               /\ Parse(h).mmap[i].type = h.mmap[i].type
<1>. DEFINE elf  == [h.elf EXCEPT ![h.elf_shndx].sh_addr = ElfStr]
            mmap == [i \in DOMAIN h.mmap |-> LowHalves(h.mmap[i])]
<1>1. /\ h.mmap \in Seq(Entry) /\ h.elf \in Seq(ElfSection) /\ h.mods \in Seq(Mod)
      /\ h.elf_shndx \in DOMAIN h.elf
  BY GivenFields DEF TablesFit
<1>2. /\ FirstOf(h.elf, ELF_MAX) = h.elf
      /\ FirstOf(h.mods, MOD_MAX) = h.mods
      /\ FirstOf(h.mmap, MMAP_MAX) = h.mmap
  BY <1>1, MultibootAssumption, FirstOfAll DEF TablesFit
<1>3. Parse(h) = [h EXCEPT !.elf = elf, !.mods = h.mods,
                           !.mmap = IF "MMAP" \in h.flags THEN mmap ELSE <<>>]
  BY <1>2 DEF Parse, TablesFit
<1>4. mmap = <<>> \/ "MMAP" \in h.flags
  BY DEF TablesFit
<1>5. /\ Parse(h).elf = elf /\ Parse(h).mods = h.mods /\ Parse(h).mmap = mmap
      /\ Parse(h).flags = h.flags /\ Parse(h).mem_upper = h.mem_upper
      /\ Parse(h).elf_shndx = h.elf_shndx
  BY <1>3, <1>4 DEF Given
<1>6. /\ elf \in Seq(ElfSection) /\ Len(elf) = Len(h.elf) /\ DOMAIN elf = DOMAIN h.elf
      /\ \A i \in DOMAIN h.elf :
            /\ i # h.elf_shndx => elf[i] = h.elf[i]
            /\ elf[i].sh_addr \in {h.elf[i].sh_addr, ElfStr}
            /\ elf[i].sh_size = h.elf[i].sh_size
  <2>1. ASSUME NEW i \in DOMAIN h.elf
        PROVE  /\ elf[i] \in ElfSection
               /\ i # h.elf_shndx => elf[i] = h.elf[i]
               /\ elf[i].sh_addr \in {h.elf[i].sh_addr, ElfStr}
               /\ elf[i].sh_size = h.elf[i].sh_size
    <3>1. h.elf[i] \in ElfSection
      BY <1>1
    <3>2. ElfStr \in Addresses
      BY MultibootAssumption DEF Addresses
    <3>3. elf[i] = IF i = h.elf_shndx THEN [h.elf[i] EXCEPT !.sh_addr = ElfStr] ELSE h.elf[i]
      OBVIOUS
    <3>. QED BY <3>1, <3>2, <3>3 DEF ElfSection
  <2>2. DOMAIN elf = DOMAIN h.elf
    OBVIOUS
  <2>3. elf \in [1 .. Len(h.elf) -> ElfSection]
    <3>1. DOMAIN h.elf = 1 .. Len(h.elf)
      BY <1>1
    <3>. QED BY <2>1, <2>2, <3>1
  <2>4. elf \in Seq(ElfSection) /\ Len(elf) = Len(h.elf)
    <3>1. Len(h.elf) \in Nat
      BY <1>1
    <3>. HIDE DEF elf
    <3>. QED BY <2>3, <3>1, FunctionSeq
  <2>. QED BY <2>1, <2>2, <2>4
<1>7. /\ mmap \in Seq(Mmap) /\ DOMAIN mmap = DOMAIN h.mmap
      /\ \A i \in DOMAIN h.mmap :
            /\ mmap[i].base_addr = Wrap(h.mmap[i].base_addr)
            /\ mmap[i].length = Wrap(h.mmap[i].length)
            /\ mmap[i].type = h.mmap[i].type
  <2>1. ASSUME NEW i \in DOMAIN h.mmap
        PROVE  /\ mmap[i] \in Mmap
               /\ mmap[i].base_addr = Wrap(h.mmap[i].base_addr)
               /\ mmap[i].length = Wrap(h.mmap[i].length)
               /\ mmap[i].type = h.mmap[i].type
    <3>1. h.mmap[i] \in Entry
      BY <1>1
    <3>2. Wrap(h.mmap[i].base_addr) \in Addresses /\ Wrap(h.mmap[i].length) \in Addresses
      BY <3>1, WrapType DEF Entry
    <3>3. mmap[i] = [h.mmap[i] EXCEPT !.base_addr = Wrap(h.mmap[i].base_addr),
                                      !.length = Wrap(h.mmap[i].length)]
      BY DEF LowHalves
    <3>. QED BY <3>1, <3>2, <3>3 DEF Entry, Mmap
  <2>2. mmap \in [1 .. Len(h.mmap) -> Mmap] /\ DOMAIN mmap = DOMAIN h.mmap
    <3>1. DOMAIN h.mmap = 1 .. Len(h.mmap)
      BY <1>1
    <3>. QED BY <2>1, <3>1
  <2>3. mmap \in Seq(Mmap)
    <3>1. Len(h.mmap) \in Nat
      BY <1>1
    <3>. HIDE DEF mmap
    <3>. QED BY <2>2, <3>1, FunctionSeq
  <2>. QED BY <2>1, <2>2, <2>3
<1>8. Parse(h) \in Header
  <2>. HIDE DEF elf, mmap
  <2>. QED BY <1>3, <1>4, <1>6, <1>7 DEF Given, Header
<1>. QED BY <1>5, <1>6, <1>7, <1>8

LEMMA AppendSeq ==
  ASSUME NEW T, NEW s \in Seq(T), NEW e \in T
  PROVE  /\ Append(s, e) \in Seq(T)
         /\ DOMAIN s = 1 .. Len(s) /\ Len(s) \in Nat
         /\ DOMAIN Append(s, e) = DOMAIN s \cup {Len(s) + 1}
         /\ \A i \in DOMAIN s : Append(s, e)[i] = s[i]
         /\ Append(s, e)[Len(s) + 1] = e
OBVIOUS

(* What Init adds to them.                                                 *)
LEMMA ReservedAdds ==
  ASSUME NEW h \in Header
  PROVE  /\ WithReserved(h) \in Header
         /\ WithReserved(h).flags = h.flags
         /\ WithReserved(h).mem_upper = h.mem_upper
         /\ WithReserved(h).mods = h.mods
         /\ WithReserved(h).elf = h.elf
         /\ DOMAIN h.mmap \subseteq DOMAIN WithReserved(h).mmap
         /\ \A i \in DOMAIN h.mmap : WithReserved(h).mmap[i] = h.mmap[i]
         /\ \A i \in DOMAIN WithReserved(h).mmap :
               i \notin DOMAIN h.mmap => WithReserved(h).mmap[i].type # MB_MMAP_AVAIL
<1>0. CASE "MMAP" \notin h.flags
  <2>1. WithReserved(h) = h
    BY <1>0 DEF WithReserved
  <2>. QED BY <2>1
<1>. SUFFICES ASSUME "MMAP" \in h.flags
              PROVE  /\ WithReserved(h) \in Header
                     /\ WithReserved(h).flags = h.flags
                     /\ WithReserved(h).mem_upper = h.mem_upper
                     /\ WithReserved(h).mods = h.mods
                     /\ WithReserved(h).elf = h.elf
                     /\ DOMAIN h.mmap \subseteq DOMAIN WithReserved(h).mmap
                     /\ \A i \in DOMAIN h.mmap : WithReserved(h).mmap[i] = h.mmap[i]
                     /\ \A i \in DOMAIN WithReserved(h).mmap :
                           i \notin DOMAIN h.mmap =>
                               WithReserved(h).mmap[i].type # MB_MMAP_AVAIL
  BY <1>0
<1>. DEFINE e == [base_addr |-> 0, length |-> Megabyte, type |-> 2]
<1>1. h.mmap \in Seq(Mmap)
  BY HeaderFields
<1>2. e \in Mmap
  BY MultibootAssumption DEF Mmap, Addresses
<1>. HIDE DEF e
<1>3. /\ Append(h.mmap, e) \in Seq(Mmap)
      /\ DOMAIN Append(h.mmap, e) = DOMAIN h.mmap \cup {Len(h.mmap) + 1}
      /\ \A i \in DOMAIN h.mmap : Append(h.mmap, e)[i] = h.mmap[i]
      /\ Append(h.mmap, e)[Len(h.mmap) + 1] = e
  BY <1>1, <1>2, AppendSeq
<1>4. WithReserved(h) = [h EXCEPT !.mmap = Append(h.mmap, e)]
  BY DEF WithReserved, e
<1>5. WithReserved(h) \in Header /\ WithReserved(h).mmap = Append(h.mmap, e)
      /\ WithReserved(h).flags = h.flags /\ WithReserved(h).mem_upper = h.mem_upper
      /\ WithReserved(h).mods = h.mods /\ WithReserved(h).elf = h.elf
  BY <1>3, <1>4 DEF Header
<1>6. e.type # MB_MMAP_AVAIL
  BY DEF e, MB_MMAP_AVAIL
<1>. QED BY <1>3, <1>5, <1>6

LEMMA SectionAdds ==
  ASSUME NEW h \in Header, NEW base \in Addresses, NEW length \in Addresses
  PROVE  LET k == WithSection(h, base, length)
         IN  /\ k \in Header
             /\ k.flags = h.flags /\ k.mem_upper = h.mem_upper
             /\ k.mods = h.mods /\ k.mmap = h.mmap
             /\ DOMAIN h.elf \subseteq DOMAIN k.elf
             /\ \A i \in DOMAIN h.elf : k.elf[i] = h.elf[i]
             /\ \E i \in DOMAIN k.elf : k.elf[i].sh_addr = base /\ k.elf[i].sh_size = length
<1>. DEFINE e == [sh_addr |-> base, sh_size |-> length]
            k == WithSection(h, base, length)
<1>1. h.elf \in Seq(ElfSection)
  BY HeaderFields
<1>2. e \in ElfSection
  BY DEF ElfSection
<1>3. e.sh_addr = base /\ e.sh_size = length
  OBVIOUS
<1>. HIDE DEF e
<1>4. /\ Append(h.elf, e) \in Seq(ElfSection)
      /\ DOMAIN Append(h.elf, e) = DOMAIN h.elf \cup {Len(h.elf) + 1}
      /\ \A i \in DOMAIN h.elf : Append(h.elf, e)[i] = h.elf[i]
      /\ Append(h.elf, e)[Len(h.elf) + 1] = e
  BY <1>1, <1>2, AppendSeq
<1>5. k = [h EXCEPT !.elf = Append(h.elf, e)]
  BY DEF WithSection, e
<1>. HIDE DEF k
<1>6. /\ k \in Header /\ k.elf = Append(h.elf, e)
      /\ k.flags = h.flags /\ k.mem_upper = h.mem_upper
      /\ k.mods = h.mods /\ k.mmap = h.mmap
  BY <1>4, <1>5 DEF Header
<1>7. \E i \in DOMAIN k.elf : k.elf[i].sh_addr = base /\ k.elf[i].sh_size = length
  BY <1>3, <1>4, <1>6
<1>. QED BY <1>4, <1>6, <1>7 DEF k

LEMMA LoaderParts ==
  ASSUME NEW h \in Loaders
  PROVE  h \in Given /\ TablesFit(h) /\ UpperMemoryIsRam(h) /\ RegionsInSpace(h)
         /\ ObjectsBelowHighBase(h)
BY LoaderAssumption

(* The bitmap lies in the address space, wherever FindRange puts it.       *)
LEMMA BitmapPlace ==
  ASSUME NEW h \in Loaders
  PROVE  PlaceOfBitmap(h) \in Addresses /\ PlaceOfBitmap(h) + BitmapSize <= AddressSpaceSize
<1>. DEFINE q == WithReserved(Parse(h))
            b == PlaceOfBitmap(h)
<1>1. h \in Given /\ TablesFit(h) /\ RegionsInSpace(h)
  BY LoaderParts
<1>2. /\ q \in Header
      /\ q.mods = h.mods /\ DOMAIN q.elf = DOMAIN h.elf
      /\ \A i \in DOMAIN h.elf :
            /\ q.elf[i].sh_addr \in {h.elf[i].sh_addr, ElfStr}
            /\ q.elf[i].sh_size = h.elf[i].sh_size
      /\ \A i \in DOMAIN q.mmap :
            q.mmap[i].type = MB_MMAP_AVAIL =>
                i \in DOMAIN h.mmap /\ q.mmap[i].base_addr = Wrap(h.mmap[i].base_addr)
  BY <1>1, ParseCopies, ReservedAdds
<1>3. 0 \in Addresses /\ BitmapSize \in Nat /\ BitmapSize < AddressSpaceSize
      /\ AddressSpaceSize \in Nat /\ ElfStr \in Nat
  BY MultibootAssumption, PhysMemAssumption DEF Addresses
<1>4. CASE b = NULL
  BY <1>3, <1>4 DEF NULL
<1>5. CASE b # NULL
  <2>. HIDE DEF q
  <2>1. PICK i \in DOMAIN Candidates(q) : b = Candidates(q)[i] /\ IsRange(q, BitmapSize, i)
    BY <1>2, <1>5, FindRangeIsRange DEF PlaceOfBitmap, q
  <2>2. CASE i \in DOMAIN q.mmap /\ Candidates(q)[i] = q.mmap[i].base_addr
    <3>1. q.mmap[i].type = MB_MMAP_AVAIL
      BY <2>1, <2>2 DEF IsRange
    <3>2. i \in DOMAIN h.mmap /\ b = Wrap(h.mmap[i].base_addr)
      BY <1>2, <2>1, <2>2, <3>1
    <3>3. h.mmap[i].base_addr \in Int
      <4>1. h.mmap[i] \in Entry
        BY <1>1, <3>2, GivenFields
      <4>. QED BY <4>1 DEF Entry
    <3>. QED BY <1>1, <3>2, <3>3, WrapType DEF RegionsInSpace
  <2>3. CASE \E j \in DOMAIN q.elf :
                Candidates(q)[i] = Wrap(q.elf[j].sh_addr + q.elf[j].sh_size)
    <3>1. PICK j \in DOMAIN h.elf : b = Wrap(q.elf[j].sh_addr + q.elf[j].sh_size)
      BY <1>2, <2>1, <2>3
    <3>2. h.elf[j].sh_addr \in Nat /\ h.elf[j].sh_size \in Nat
      <4>1. h.elf[j] \in ElfSection
        BY <1>1, GivenFields
      <4>. QED BY <4>1 DEF ElfSection, Addresses
    <3>. DEFINE n == q.elf[j].sh_addr + q.elf[j].sh_size
    <3>3. n \in Nat /\ n + BitmapSize <= AddressSpaceSize
      BY <1>1, <1>2, <1>3, <3>2 DEF RegionsInSpace
    <3>4. b = Wrap(n)
      BY <3>1
    <3>. HIDE DEF n, b
    <3>5. Wrap(n) \in Addresses /\ Wrap(n) <= n
      BY <3>3, WrapType, WrapLess
    <3>6. Wrap(n) \in Int
      BY <3>5 DEF Addresses
    <3>7. b \in Addresses /\ b + BitmapSize <= AddressSpaceSize
      BY <1>3, <3>3, <3>4, <3>5, <3>6
    <3>. QED BY <3>7 DEF b
  <2>4. CASE \E j \in DOMAIN q.mods : Candidates(q)[i] = q.mods[j].mod_end
    <3>1. PICK j \in DOMAIN h.mods : b = h.mods[j].mod_end
      BY <1>2, <2>1, <2>4
    <3>2. h.mods[j] \in Mod
      BY <1>1, GivenFields
    <3>. QED BY <1>1, <3>1, <3>2 DEF RegionsInSpace, Mod
  <2>. QED BY <1>2, <2>1, <2>2, <2>3, <2>4, CandidateCases
<1>. QED BY <1>4, <1>5

(* The tables as they are when Init collects pages.                        *)
LEMMA PlacedTables ==
  ASSUME NEW h \in Loaders
  PROVE  LET k == Placed(h)
         IN  /\ k \in Header
             /\ k.flags = h.flags /\ k.mem_upper = h.mem_upper /\ k.mods = h.mods
             /\ DOMAIN h.mmap \subseteq DOMAIN k.mmap
             /\ \A i \in DOMAIN h.mmap :
                   /\ k.mmap[i].base_addr = Wrap(h.mmap[i].base_addr)
                   /\ k.mmap[i].length = Wrap(h.mmap[i].length)
                   /\ k.mmap[i].type = h.mmap[i].type
             /\ DOMAIN h.elf \subseteq DOMAIN k.elf
             /\ \A i \in DOMAIN h.elf : i # h.elf_shndx => k.elf[i] = h.elf[i]
             /\ \E i \in DOMAIN k.elf :
                   k.elf[i].sh_addr = PlaceOfBitmap(h) /\ k.elf[i].sh_size = BitmapSize
<1>1. h \in Given /\ TablesFit(h)
  BY LoaderParts
<1>2. PlaceOfBitmap(h) \in Addresses /\ BitmapSize \in Addresses
  BY BitmapPlace, PhysMemAssumption
<1>3. /\ Parse(h) \in Header
      /\ Parse(h).flags = h.flags /\ Parse(h).mem_upper = h.mem_upper
      /\ Parse(h).mods = h.mods
      /\ DOMAIN Parse(h).elf = DOMAIN h.elf
      /\ \A i \in DOMAIN h.elf : i # h.elf_shndx => Parse(h).elf[i] = h.elf[i]
      /\ DOMAIN Parse(h).mmap = DOMAIN h.mmap
      /\ \A i \in DOMAIN h.mmap :
            /\ Parse(h).mmap[i].base_addr = Wrap(h.mmap[i].base_addr)
            /\ Parse(h).mmap[i].length = Wrap(h.mmap[i].length)
            /\ Parse(h).mmap[i].type = h.mmap[i].type
  BY <1>1, ParseCopies
<1>. DEFINE q == WithReserved(Parse(h))
<1>4. /\ q \in Header
      /\ q.flags = h.flags /\ q.mem_upper = h.mem_upper /\ q.mods = h.mods
      /\ q.elf = Parse(h).elf
      /\ DOMAIN h.mmap \subseteq DOMAIN q.mmap
      /\ \A i \in DOMAIN h.mmap : q.mmap[i] = Parse(h).mmap[i]
  BY <1>3, ReservedAdds
<1>. HIDE DEF q
<1>. DEFINE k == WithSection(q, PlaceOfBitmap(h), BitmapSize)
<1>5. /\ k \in Header
      /\ k.flags = q.flags /\ k.mem_upper = q.mem_upper
      /\ k.mods = q.mods /\ k.mmap = q.mmap
      /\ DOMAIN q.elf \subseteq DOMAIN k.elf
      /\ \A i \in DOMAIN q.elf : k.elf[i] = q.elf[i]
      /\ \E i \in DOMAIN k.elf :
            k.elf[i].sh_addr = PlaceOfBitmap(h) /\ k.elf[i].sh_size = BitmapSize
  BY <1>2, <1>4, SectionAdds
<1>6. Placed(h) = k
  BY DEF Placed, q
<1>. HIDE DEF k
<1>. QED BY <1>3, <1>4, <1>5, <1>6

(* The bitmap is put where nothing is: FindRange's 512 bytes do not wrap,  *)
(* share no byte with a section of the image, a module or a reserved       *)
(* region, and lie in an available region of the memory map, if there is a *)
(* map and no available region of it lies above 4 GB, where the copy keeps *)
(* only the low halves of an entry.                                        *)
THEOREM BitmapIsFree ==
  ASSUME given \in Loaders, PlaceOfBitmap(given) # NULL
  PROVE  LET b == PlaceOfBitmap(given)
         IN  /\ b + BitmapSize <= AddressSpaceSize
             /\ Bytes(b, BitmapSize) \cap NotFree = {}
             /\ /\ "MMAP" \in given.flags
                /\ \A i \in DOMAIN given.mmap :
                      given.mmap[i].type = MB_MMAP_AVAIL =>
                         given.mmap[i].base_addr < AddressSpaceSize
                => \E i \in DOMAIN given.mmap :
                      /\ given.mmap[i].type = MB_MMAP_AVAIL
                      /\ Bytes(b, BitmapSize)
                            \subseteq Bytes(given.mmap[i].base_addr, given.mmap[i].length)
<1>. DEFINE b == PlaceOfBitmap(given)
            p == Parse(given)
            q == WithReserved(p)
            range == Bytes(b, BitmapSize)
<1>1. given \in Given /\ TablesFit(given) /\ RegionsInSpace(given)
  BY LoaderParts
<1>2. b \in Addresses /\ b + BitmapSize <= AddressSpaceSize
  BY BitmapPlace
<1>3. /\ BitmapSize \in Nat /\ AddressSpaceSize \in Nat /\ b \in Nat
  BY <1>2, PhysMemAssumption, MultibootAssumption DEF Addresses
<1>4. /\ p \in Header /\ p.flags = given.flags /\ p.mods = given.mods
      /\ DOMAIN p.elf = DOMAIN given.elf
      /\ \A i \in DOMAIN given.elf : i # given.elf_shndx => p.elf[i] = given.elf[i]
      /\ DOMAIN p.mmap = DOMAIN given.mmap
      /\ \A i \in DOMAIN given.mmap :
            /\ p.mmap[i].base_addr = Wrap(given.mmap[i].base_addr)
            /\ p.mmap[i].length = Wrap(given.mmap[i].length)
            /\ p.mmap[i].type = given.mmap[i].type
  BY <1>1, ParseCopies
<1>. HIDE DEF p
<1>5. /\ q \in Header /\ q.flags = p.flags /\ q.mods = p.mods /\ q.elf = p.elf
      /\ DOMAIN p.mmap \subseteq DOMAIN q.mmap
      /\ \A i \in DOMAIN p.mmap : q.mmap[i] = p.mmap[i]
      /\ \A i \in DOMAIN q.mmap :
            i \notin DOMAIN p.mmap => q.mmap[i].type # MB_MMAP_AVAIL
  BY <1>4, ReservedAdds
<1>6. CheckRange(q, b, BitmapSize)
  <2>1. b = FindRange(q, BitmapSize)
    BY DEF PlaceOfBitmap, p
  <2>. HIDE DEF q, b
  <2>2. FindRange(q, BitmapSize) # NULL
    BY <2>1 DEF b
  <2>3. PICK i \in DOMAIN Candidates(q) :
           FindRange(q, BitmapSize) = Candidates(q)[i] /\ IsRange(q, BitmapSize, i)
    BY <1>5, <2>2, FindRangeIsRange
  <2>. QED BY <2>1, <2>3 DEF IsRange
<1>. HIDE DEF q, b
<1>7. range = b .. b + BitmapSize - 1
  BY DEF Bytes
<1>8. ASSUME NEW i \in DOMAIN given.mmap
      PROVE  given.mmap[i].base_addr \in Nat /\ given.mmap[i].length \in Nat
  <2>1. given.mmap[i] \in Entry
    BY <1>1, GivenFields
  <2>. QED BY <2>1 DEF Entry
<1>9. ASSUME NEW i \in DOMAIN given.mmap,
             given.mmap[i].base_addr < AddressSpaceSize, given.mmap[i].length # 0
      PROVE  /\ given.mmap[i].base_addr + given.mmap[i].length <= AddressSpaceSize
             /\ i \in DOMAIN q.mmap
             /\ q.mmap[i].base_addr = given.mmap[i].base_addr
             /\ q.mmap[i].length = given.mmap[i].length
             /\ q.mmap[i].type = given.mmap[i].type
  <2>. DEFINE n == given.mmap[i].base_addr
              l == given.mmap[i].length
  <2>1. n \in Nat /\ l \in Nat /\ n < AddressSpaceSize
    BY <1>8, <1>9
  <2>2. n + l <= AddressSpaceSize /\ l # AddressSpaceSize
    BY <1>1, <1>3, <2>1 DEF RegionsInSpace
  <2>3. q.mmap[i].base_addr = Wrap(n) /\ q.mmap[i].length = Wrap(l)
        /\ q.mmap[i].type = given.mmap[i].type /\ i \in DOMAIN q.mmap
    BY <1>4, <1>5
  <2>. HIDE DEF n, l
  <2>4. n \in Addresses /\ l \in Addresses
    BY <1>3, <2>1, <2>2 DEF Addresses
  <2>5. Wrap(n) = n /\ Wrap(l) = l
    BY <2>4, WrapSmall
  <2>. QED BY <2>2, <2>3, <2>5 DEF n, l
<1>10. ASSUME NEW i \in DOMAIN given.mmap, given.mmap[i].type # MB_MMAP_AVAIL
       PROVE  range \cap Bytes(given.mmap[i].base_addr, given.mmap[i].length) = {}
  <2>1. CASE given.mmap[i].base_addr >= AddressSpaceSize \/ given.mmap[i].length = 0
    BY <1>2, <1>3, <1>7, <1>8, <2>1 DEF Bytes
  <2>2. CASE given.mmap[i].base_addr < AddressSpaceSize /\ given.mmap[i].length # 0
    <3>1. "MMAP" \in q.flags
      BY <1>1, <1>4, <1>5 DEF TablesFit
    <3>2. range \cap (q.mmap[i].base_addr
                        .. q.mmap[i].base_addr + q.mmap[i].length - 1) = {}
      BY <1>2, <1>3, <1>5, <1>6, <1>7, <1>9, <1>10, <2>2, <3>1, CheckRangeIsFree
    <3>. QED BY <1>9, <2>2, <3>2 DEF Bytes
  <2>. QED BY <1>3, <1>8, <2>1, <2>2
<1>11. ASSUME NEW i \in DOMAIN given.elf, i # given.elf_shndx
       PROVE  range \cap Bytes(given.elf[i].sh_addr, given.elf[i].sh_size) = {}
  <2>1. given.elf[i].sh_addr \in Nat /\ given.elf[i].sh_size \in Nat
    <3>1. given.elf[i] \in ElfSection
      BY <1>1, GivenFields
    <3>. QED BY <3>1 DEF ElfSection, Addresses
  <2>2. given.elf[i].sh_addr + given.elf[i].sh_size <= AddressSpaceSize
    BY <1>1, <1>3, <2>1 DEF RegionsInSpace
  <2>3. "ELF" \in q.flags /\ q.elf[i] = given.elf[i] /\ i \in DOMAIN q.elf
    BY <1>1, <1>4, <1>5, <1>11 DEF TablesFit
  <2>4. range \cap (q.elf[i].sh_addr .. q.elf[i].sh_addr + q.elf[i].sh_size - 1) = {}
    BY <1>2, <1>3, <1>5, <1>6, <1>7, <2>2, <2>3, CheckRangeIsFree
  <2>. QED BY <2>3, <2>4 DEF Bytes
<1>12. ASSUME NEW i \in DOMAIN given.mods
       PROVE  range \cap (given.mods[i].mod_start .. given.mods[i].mod_end - 1) = {}
  <2>1. "MODS" \in q.flags /\ q.mods = given.mods
    BY <1>1, <1>4, <1>5 DEF TablesFit
  <2>2. given.mods[i].mod_start <= given.mods[i].mod_end
    BY <1>1 DEF RegionsInSpace
  <2>. QED BY <1>2, <1>3, <1>5, <1>6, <1>7, <2>1, <2>2, CheckRangeIsFree
<1>13. range \cap NotFree = {}
  <2>1. SUFFICES ASSUME NEW x \in NotFree PROVE x \notin range
    OBVIOUS
  <2>. HIDE DEF range
  <2>2. CASE \E i \in DOMAIN given.elf \ {given.elf_shndx} :
                x \in Bytes(given.elf[i].sh_addr, given.elf[i].sh_size)
    BY <1>11, <2>2
  <2>3. CASE \E i \in {j \in DOMAIN given.mmap : given.mmap[j].type # MB_MMAP_AVAIL} :
                x \in Bytes(given.mmap[i].base_addr, given.mmap[i].length)
    BY <1>10, <2>3
  <2>4. CASE \E i \in DOMAIN given.mods :
                x \in given.mods[i].mod_start .. given.mods[i].mod_end - 1
    BY <1>12, <2>4
  <2>. QED BY <2>1, <2>2, <2>3, <2>4 DEF NotFree
<1>14. ASSUME "MMAP" \in given.flags,
              \A i \in DOMAIN given.mmap :
                 given.mmap[i].type = MB_MMAP_AVAIL =>
                    given.mmap[i].base_addr < AddressSpaceSize
       PROVE  \E i \in DOMAIN given.mmap :
                 /\ given.mmap[i].type = MB_MMAP_AVAIL
                 /\ range \subseteq Bytes(given.mmap[i].base_addr, given.mmap[i].length)
  <2>1. "MMAP" \in q.flags
    BY <1>4, <1>5, <1>14
  <2>2. PICK i \in DOMAIN q.mmap :
           /\ q.mmap[i].type = MB_MMAP_AVAIL
           /\ "WITHIN" \in Overlap(b, BitmapSize, q.mmap[i].base_addr, q.mmap[i].length)
    BY <1>6, <2>1 DEF CheckRange, FreeInMmap
  <2>3. i \in DOMAIN given.mmap /\ given.mmap[i].type = MB_MMAP_AVAIL
    BY <1>4, <1>5, <2>2
  <2>4. given.mmap[i].base_addr < AddressSpaceSize
    BY <1>14, <2>3
  <2>5. given.mmap[i].length # 0
    <3>1. SUFFICES ASSUME given.mmap[i].length = 0 PROVE FALSE
      OBVIOUS
    <3>2. 0 \in Addresses /\ Wrap(0) = 0
      <4>1. 0 \in Addresses
        BY MultibootAssumption DEF Addresses
      <4>. QED BY <4>1, WrapSmall
    <3>3. q.mmap[i].length = 0
      BY <1>4, <1>5, <2>3, <3>1, <3>2
    <3>. QED BY <2>2, <3>3 DEF Overlap
  <2>. DEFINE c == given.mmap[i].base_addr
              l == given.mmap[i].length
  <2>6. /\ c \in Nat /\ l \in Nat /\ c + l <= AddressSpaceSize
        /\ "WITHIN" \in Overlap(b, BitmapSize, c, l)
    BY <1>8, <1>9, <2>2, <2>3, <2>4, <2>5
  <2>7. range \subseteq c .. c + l - 1
    <3>. HIDE DEF c, l
    <3>. QED BY <1>2, <1>3, <1>7, <2>6, OverlapWithin
  <2>. QED BY <2>3, <2>7 DEF Bytes
<1>. QED BY <1>2, <1>13, <1>14 DEF b

(***************************************************************************)
(* Init only collects memory.                                              *)
(***************************************************************************)
Memory(p) ==
    /\ "MMAP" \in given.flags => IsRam(p)
    /\ PageBytes(p) \cap (NotFree \cup Bytes(bmp, BitmapSize)) = {}

LEMMA TimesMonotone ==
  ASSUME NEW a \in Nat, NEW b \in Nat, NEW n \in Nat, a <= b
  PROVE  a * n <= b * n
<1>1. PICK d \in Nat : b = a + d
  <2>1. b - a \in Nat /\ b = a + (b - a)
    OBVIOUS
  <2>. QED BY <2>1
<1>2. b * n = a * n + d * n
  BY <1>1
<1>3. d * n \in Nat /\ a * n \in Nat
  OBVIOUS
<1>. QED BY <1>2, <1>3

LEMMA PageRange ==
  ASSUME NEW p \in Nat, FirstPage <= p, NEW n \in Nat,
         (p + 1) * PageSize <= n, n <= (LastPage + 1) * PageSize
  PROVE  /\ p \in Pages
         /\ p * PageSize \in Nat /\ Megabyte <= p * PageSize
         /\ p * PageSize + PageSize <= n /\ n < AddressSpaceSize
<1>1. /\ PageSize \in Nat /\ PageSize > 0 /\ LastPage \in Nat /\ FirstPage \in Nat
      /\ 1 <= FirstPage /\ Megabyte = FirstPage * PageSize
      /\ AddressSpaceSize > (LastPage + 1) * PageSize
      /\ AddressSpaceSize \in Nat
  BY PhysMemAssumption, MultibootAssumption DEF Pages
<1>2. p * PageSize \in Nat /\ (p + 1) * PageSize = p * PageSize + PageSize
  BY <1>1
<1>3. Megabyte <= p * PageSize
  BY <1>1, TimesMonotone
<1>4. p <= LastPage
  <2>1. SUFFICES ASSUME LastPage + 1 <= p PROVE FALSE
    BY <1>1
  <2>2. (LastPage + 1) * PageSize <= p * PageSize
    BY <1>1, <2>1, TimesMonotone
  <2>3. (LastPage + 1) * PageSize \in Nat
    BY <1>1
  <2>. QED BY <1>1, <1>2, <2>2, <2>3
<1>5. (LastPage + 1) * PageSize \in Nat
  BY <1>1
<1>. QED BY <1>1, <1>2, <1>3, <1>4, <1>5 DEF Pages

LEMMA CollectedPage ==
  ASSUME given \in Loaders, header = Placed(given), bmp = PlaceOfBitmap(given),
         NEW p \in Nat, FirstPage <= p,
         (p + 1) * PageSize <= UpperMemory(header),
         CheckRange(header, p * PageSize, PageSize)
  PROVE  p \in Pages /\ Memory(p)
<1>. DEFINE base == p * PageSize
            n == UpperMemory(given)
            range == base .. base + PageSize - 1
<1>1. /\ given \in Given /\ TablesFit(given) /\ UpperMemoryIsRam(given)
      /\ RegionsInSpace(given)
  BY LoaderParts
<1>2. /\ header \in Header
      /\ header.flags = given.flags /\ header.mem_upper = given.mem_upper
      /\ header.mods = given.mods
      /\ DOMAIN given.mmap \subseteq DOMAIN header.mmap
      /\ \A i \in DOMAIN given.mmap :
            /\ header.mmap[i].base_addr = Wrap(given.mmap[i].base_addr)
            /\ header.mmap[i].length = Wrap(given.mmap[i].length)
            /\ header.mmap[i].type = given.mmap[i].type
      /\ DOMAIN given.elf \subseteq DOMAIN header.elf
      /\ \A i \in DOMAIN given.elf : i # given.elf_shndx => header.elf[i] = given.elf[i]
      /\ \E i \in DOMAIN header.elf :
            header.elf[i].sh_addr = bmp /\ header.elf[i].sh_size = BitmapSize
  BY PlacedTables
<1>3. n \in Nat /\ n = UpperMemory(header) /\ n <= (LastPage + 1) * PageSize
  <2>1. given.mem_upper \in Nat /\ Kilobyte \in Nat /\ Megabyte \in Nat
    BY <1>1, GivenFields, PhysMemAssumption, MultibootAssumption
  <2>2. given.mem_upper * Kilobyte \in Nat
    BY <2>1
  <2>. QED BY <1>1, <1>2, <2>1, <2>2 DEF UpperMemory, UpperMemoryIsRam
<1>4. /\ p \in Pages /\ base \in Nat /\ Megabyte <= base /\ base + PageSize <= n
      /\ n < AddressSpaceSize
  BY <1>3, PageRange
<1>5. PageSize \in Nat /\ AddressSpaceSize \in Nat /\ Megabyte \in Nat /\ BitmapSize \in Nat
  BY PhysMemAssumption, MultibootAssumption DEF Addresses
<1>6. PageBytes(p) = range
  BY DEF PageBytes, Bytes
<1>. HIDE DEF base, n
<1>7. CheckRange(header, base, PageSize)
  BY DEF base
<1>8. base + PageSize <= AddressSpaceSize
  BY <1>3, <1>4, <1>5
<1>9. ASSUME "MMAP" \in given.flags PROVE IsRam(p)
  <2>1. PICK i \in DOMAIN given.mmap :
           /\ given.mmap[i].type = MB_MMAP_AVAIL
           /\ given.mmap[i].base_addr <= Megabyte
           /\ n <= given.mmap[i].base_addr + given.mmap[i].length
    BY <1>1, <1>9 DEF UpperMemoryIsRam, n
  <2>2. given.mmap[i].base_addr \in Nat /\ given.mmap[i].length \in Nat
    <3>1. given.mmap[i] \in Entry
      BY <1>1, GivenFields
    <3>. QED BY <3>1 DEF Entry
  <2>3. range \subseteq Bytes(given.mmap[i].base_addr, given.mmap[i].length)
    BY <1>3, <1>4, <1>5, <2>1, <2>2 DEF Bytes
  <2>. QED BY <1>6, <2>1, <2>3 DEF IsRam
<1>10. ASSUME NEW i \in DOMAIN given.mmap, given.mmap[i].type # MB_MMAP_AVAIL
       PROVE  range \cap Bytes(given.mmap[i].base_addr, given.mmap[i].length) = {}
  <2>1. given.mmap[i].base_addr \in Nat /\ given.mmap[i].length \in Nat
    <3>1. given.mmap[i] \in Entry
      BY <1>1, GivenFields
    <3>. QED BY <3>1 DEF Entry
  <2>. DEFINE b == given.mmap[i].base_addr
              l == given.mmap[i].length
  <2>2. CASE b >= AddressSpaceSize \/ l = 0
    BY <1>4, <1>5, <1>8, <2>1, <2>2 DEF Bytes
  <2>3. CASE b < AddressSpaceSize /\ l # 0
    <3>1. b + l <= AddressSpaceSize /\ l # AddressSpaceSize
      BY <1>1, <1>5, <2>1, <2>3 DEF RegionsInSpace
    <3>2. b \in Addresses /\ l \in Addresses
      <4>1. b \in Nat /\ l \in Nat
        BY <2>1
      <4>. HIDE DEF b, l
      <4>. QED BY <1>5, <2>3, <3>1, <4>1 DEF Addresses
    <3>3. header.mmap[i].base_addr = b /\ header.mmap[i].length = l
      BY <1>2, <3>2, WrapSmall
    <3>4. "MMAP" \in header.flags
      BY <1>1, <1>2 DEF TablesFit
    <3>5. header.mmap[i].type # MB_MMAP_AVAIL /\ i \in DOMAIN header.mmap
      BY <1>2, <1>10
    <3>6. range \cap (b .. b + l - 1) = {}
      BY <1>2, <1>4, <1>5, <1>7, <1>8, <3>1, <3>3, <3>4, <3>5, CheckRangeIsFree
    <3>. QED BY <3>6 DEF Bytes
  <2>. QED BY <1>5, <2>1, <2>2, <2>3
<1>11. ASSUME NEW i \in DOMAIN header.elf,
              header.elf[i].sh_addr + header.elf[i].sh_size <= AddressSpaceSize
       PROVE  range \cap Bytes(header.elf[i].sh_addr, header.elf[i].sh_size) = {}
  <2>1. "ELF" \in header.flags
    BY <1>1, <1>2 DEF TablesFit
  <2>2. range \cap (header.elf[i].sh_addr
                      .. header.elf[i].sh_addr + header.elf[i].sh_size - 1) = {}
    BY <1>2, <1>4, <1>5, <1>7, <1>8, <1>11, <2>1, CheckRangeIsFree
  <2>. QED BY <2>2 DEF Bytes
<1>12. ASSUME NEW i \in DOMAIN given.elf, i # given.elf_shndx
       PROVE  range \cap Bytes(given.elf[i].sh_addr, given.elf[i].sh_size) = {}
  <2>1. given.elf[i].sh_addr \in Nat /\ given.elf[i].sh_size \in Nat
    <3>1. given.elf[i] \in ElfSection
      BY <1>1, GivenFields
    <3>. QED BY <3>1 DEF ElfSection, Addresses
  <2>2. given.elf[i].sh_addr + given.elf[i].sh_size <= AddressSpaceSize
    BY <1>1, <1>5, <2>1 DEF RegionsInSpace
  <2>3. header.elf[i] = given.elf[i] /\ i \in DOMAIN header.elf
    BY <1>2, <1>12
  <2>. QED BY <1>11, <2>2, <2>3
<1>13. range \cap Bytes(bmp, BitmapSize) = {}
  <2>1. bmp + BitmapSize <= AddressSpaceSize
    BY BitmapPlace
  <2>. QED BY <1>2, <1>11, <2>1
<1>14. ASSUME NEW i \in DOMAIN given.mods
       PROVE  range \cap (given.mods[i].mod_start .. given.mods[i].mod_end - 1) = {}
  <2>1. "MODS" \in header.flags
    BY <1>1, <1>2 DEF TablesFit
  <2>2. given.mods[i].mod_start <= given.mods[i].mod_end
    BY <1>1 DEF RegionsInSpace
  <2>. QED BY <1>2, <1>4, <1>5, <1>7, <1>8, <2>1, <2>2, CheckRangeIsFree
<1>15. range \cap NotFree = {}
  <2>1. SUFFICES ASSUME NEW x \in NotFree PROVE x \notin range
    OBVIOUS
  <2>. HIDE DEF range
  <2>2. CASE \E i \in DOMAIN given.elf \ {given.elf_shndx} :
                x \in Bytes(given.elf[i].sh_addr, given.elf[i].sh_size)
    BY <1>12, <2>2
  <2>3. CASE \E i \in {j \in DOMAIN given.mmap : given.mmap[j].type # MB_MMAP_AVAIL} :
                x \in Bytes(given.mmap[i].base_addr, given.mmap[i].length)
    BY <1>10, <2>3
  <2>4. CASE \E i \in DOMAIN given.mods :
                x \in given.mods[i].mod_start .. given.mods[i].mod_end - 1
    BY <1>14, <2>4
  <2>. QED BY <2>1, <2>2, <2>3, <2>4 DEF NotFree
<1>. QED BY <1>4, <1>6, <1>9, <1>13, <1>15 DEF Memory

(***************************************************************************)
(* The inductive invariant.                                                *)
(***************************************************************************)
BootInv ==
    /\ boot = "bitmap" => header = Parse(given)
    /\ boot \notin {"parse", "bitmap", "lost"} =>
          header = Placed(given) /\ bmp = PlaceOfBitmap(given)
    /\ boot \in {"parse", "bitmap"} => freepages = {}
    /\ boot # "up" =>
          /\ pd = NULL
          /\ owned = [t \in Threads |-> {}]
          /\ pc = [t \in Threads |-> "idle"]

PagesInv ==
    /\ FirstPage <= nextpage
    /\ \A p \in freepages : FirstPage <= p /\ p < nextpage /\ Memory(p)
    /\ bitmap \subseteq freepages
    /\ pts \subseteq freepages

OwnersInv ==
    /\ OneOwner
    /\ InUse \ {NULL} \subseteq High

(* Under the lock, what BeginPop found is still on top of the stack.       *)
LockInv ==
    \A t \in Threads :
        /\ pc[t] = "mapped" => lock = t /\ page[t] = top /\ top # NULL
        /\ pc[t] \in {"bitmap", "looping"} => top = NULL

ChainInv == Chain(top, word, High \ InUse)

IInv == TypeOK /\ BootInv /\ PagesInv /\ OwnersInv /\ LockInv /\ ChainInv

LEMMA ConstantTypes ==
  /\ NoThread \notin Threads
  /\ HighBase \in Pages /\ FirstPage \in Pages /\ LastPage \in Nat
  /\ Pages \subseteq Nat /\ StoredWords \subseteq Pages \cup {0}
  /\ FirstDword \subseteq 1 .. FirstPage - 1
BY PhysMemAssumption DEF Pages

LEMMA HighType ==
  ASSUME TypeOK
  PROVE  High \subseteq Pages /\ IsFiniteSet(High)
<1>1. High \subseteq Pages
  BY DEF High, TypeOK
<1>2. IsFiniteSet(Pages)
  BY PhysMemAssumption, FS_Interval DEF Pages
<1>. QED BY <1>1, <1>2, FS_Subset

LEMMA InitInv == Init => IInv
<1>. SUFFICES ASSUME Init PROVE IInv
  OBVIOUS
<1>1. header \in Header
  <2>1. <<>> \in Seq(Mmap) /\ <<>> \in Seq(ElfSection) /\ <<>> \in Seq(Mod)
    OBVIOUS
  <2>. QED BY <2>1 DEF Init, Header
<1>2. FirstPage \in Nat /\ 0 \in Addresses
  BY ConstantTypes, MultibootAssumption DEF Addresses
<1>3. TypeOK
  BY <1>1, <1>2 DEF Init, TypeOK, NULL
<1>4. BootInv
  BY DEF Init, BootInv
<1>5. PagesInv
  BY <1>2 DEF Init, PagesInv
<1>6. InUse = {NULL} /\ High = {}
  BY DEF Init, InUse, High
<1>7. OwnersInv
  BY <1>6 DEF Init, OwnersInv, OneOwner
<1>8. LockInv
  BY DEF Init, LockInv
<1>9. ChainInv
  BY <1>6, ChainEmpty DEF Init, ChainInv
<1>. QED BY <1>3, <1>4, <1>5, <1>7, <1>8, <1>9 DEF IInv

(* What a step leaves alone.                                               *)
LEMMA MemoryStable ==
  ASSUME given' = given, bmp' = bmp
  PROVE  \A p : Memory(p)' = Memory(p)
BY DEF Memory, IsRam, NotFree, PageBytes, Bytes

LEMMA StackStable ==
  ASSUME IInv, UNCHANGED <<top, word, freepages, pd, owned>>
  PROVE  OwnersInv' /\ ChainInv'
<1>1. High' = High /\ InUse' = InUse
  BY DEF High, InUse
<1>2. OwnersInv'
  BY <1>1 DEF IInv, OwnersInv, OneOwner
<1>3. ChainInv'
  BY <1>1 DEF IInv, ChainInv
<1>. QED BY <1>2, <1>3

LEMMA PagesStable ==
  ASSUME IInv, UNCHANGED <<given, bmp, nextpage, freepages, pts>>, bitmap' \subseteq bitmap
  PROVE  PagesInv'
BY MemoryStable DEF IInv, PagesInv

LEMMA ParseHeaderInv ==
  ASSUME IInv, ParseHeader
  PROVE  IInv'
<1>1. Parse(given) \in Header
  BY ParseCopies, LoaderParts DEF IInv, TypeOK
<1>2. TypeOK'
  BY <1>1 DEF IInv, TypeOK, ParseHeader, tables, running
<1>3. BootInv' /\ LockInv'
  BY DEF IInv, BootInv, LockInv, ParseHeader, tables, running
<1>4. PagesInv' /\ OwnersInv' /\ ChainInv'
  BY PagesStable, StackStable DEF ParseHeader, running
<1>. QED BY <1>2, <1>3, <1>4 DEF IInv

LEMMA PlaceBitmapInv ==
  ASSUME IInv, PlaceBitmap
  PROVE  IInv'
<1>. DEFINE h == WithReserved(header)
            base == FindRange(h, BitmapSize)
<1>1. header = Parse(given) /\ given \in Loaders /\ freepages = {} /\ boot = "bitmap"
  BY DEF IInv, TypeOK, BootInv, PlaceBitmap
<1>2. base = PlaceOfBitmap(given) /\ WithSection(h, base, BitmapSize) = Placed(given)
  BY <1>1 DEF PlaceOfBitmap, Placed
<1>3. h \in Header /\ Placed(given) \in Header /\ base \in Addresses
  BY <1>1, <1>2, ReservedAdds, PlacedTables, BitmapPlace DEF IInv, TypeOK
<1>4. \/ header' = h /\ boot' = "lost" /\ bmp' = bmp
      \/ header' = Placed(given) /\ bmp' = PlaceOfBitmap(given) /\ boot' = "init"
  BY <1>2 DEF PlaceBitmap
<1>. HIDE DEF h, base
<1>5. TypeOK'
  BY <1>2, <1>3, <1>4 DEF IInv, TypeOK, PlaceBitmap, running
<1>6. BootInv' /\ LockInv'
  BY <1>1, <1>4 DEF IInv, BootInv, LockInv, PlaceBitmap, running
<1>7. PagesInv'
  BY <1>1 DEF IInv, PagesInv, PlaceBitmap
<1>8. OwnersInv' /\ ChainInv'
  BY StackStable DEF PlaceBitmap, running
<1>. QED BY <1>5, <1>6, <1>7, <1>8 DEF IInv

LEMMA InitPageInv ==
  ASSUME IInv, InitPage
  PROVE  IInv'
<1>1. /\ boot = "init" /\ boot' = "init" /\ given \in Loaders
      /\ header = Placed(given) /\ bmp = PlaceOfBitmap(given)
      /\ nextpage \in Nat /\ FirstPage <= nextpage /\ nextpage' = nextpage + 1
      /\ pd = NULL /\ owned = [t \in Threads |-> {}] /\ pc = [t \in Threads |-> "idle"]
  BY DEF IInv, TypeOK, BootInv, PagesInv, InitPage
<1>2. UNCHANGED <<given, header, bmp, sections, lock, boot, pts, pd, pc, page, owned>>
  BY <1>1 DEF InitPage, tables, running
<1>3. nextpage + 1 \in Nat
  BY <1>1
<1>4. BootInv' /\ LockInv'
  BY <1>1, <1>2 DEF BootInv, LockInv
<1>5. InUse = {NULL} /\ InUse' = {NULL}
  BY <1>1, <1>2 DEF InUse
<1>6. OneOwner'
  BY <1>1, <1>2 DEF OneOwner
<1>7. OwnersInv'
  BY <1>5, <1>6 DEF OwnersInv
<1>8. CASE ~ IsFreePage(nextpage) /\ UNCHANGED <<freepages, top, word, bitmap>>
  <2>1. TypeOK'
    BY <1>2, <1>3, <1>8, <1>1 DEF IInv, TypeOK
  <2>2. PagesInv'
    BY <1>1, <1>2, <1>3, <1>8, MemoryStable, ConstantTypes DEF IInv, PagesInv, TypeOK
  <2>3. ChainInv'
    BY <1>2, <1>8, StackStable
  <2>. QED BY <1>4, <1>7, <2>1, <2>2, <2>3 DEF IInv
<1>9. CASE /\ IsFreePage(nextpage)
           /\ freepages' = freepages \cup {nextpage}
           /\ Free(nextpage)
  <2>1. nextpage \in Pages /\ Memory(nextpage)
    <3>1. (nextpage + 1) * PageSize <= UpperMemory(header)
      BY DEF InitPage, GetPage
    <3>2. CheckRange(header, nextpage * PageSize, PageSize)
      BY <1>9 DEF IsFreePage
    <3>. QED BY <1>1, <3>1, <3>2, CollectedPage
  <2>2. nextpage \notin freepages
    BY <1>1 DEF IInv, PagesInv
  <2>3. bitmap' \subseteq bitmap \cup {nextpage}
    BY <1>9 DEF Free
  <2>4. PagesInv'
    <3>1. ASSUME NEW p \in freepages' PROVE FirstPage <= p /\ p < nextpage + 1 /\ Memory(p)'
      <4>1. CASE p = nextpage
        BY <1>1, <1>2, <2>1, <4>1, MemoryStable
      <4>2. CASE p \in freepages
        BY <1>1, <1>2, <4>2, MemoryStable, ConstantTypes DEF IInv, PagesInv, TypeOK
      <4>. QED BY <1>9, <4>1, <4>2
    <3>2. FirstPage <= nextpage + 1
      BY <1>1, ConstantTypes
    <3>. QED BY <1>1, <1>2, <1>9, <2>3, <3>1, <3>2 DEF IInv, PagesInv
  <2>5. CASE nextpage >= HighBase
    <3>1. word' = [word EXCEPT ![nextpage] = top] /\ top' = nextpage /\ bitmap' = bitmap
      BY <1>9, <2>5 DEF Free
    <3>2. TypeOK'
      BY <1>1, <1>2, <1>3, <1>9, <2>1, <3>1 DEF IInv, TypeOK, NULL
    <3>3. High' = High \cup {nextpage} /\ nextpage \notin High
      BY <1>9, <2>2, <2>5 DEF High
    <3>4. High' \ InUse' = (High \ InUse) \cup {nextpage}
      BY <1>5, <2>1, <3>3, PagesNotNull
    <3>5. High \ InUse \subseteq Pages /\ nextpage \in Pages \ (High \ InUse)
      BY <2>1, <3>3, HighType DEF IInv
    <3>6. Chain(nextpage, [word EXCEPT ![nextpage] = top], (High \ InUse) \cup {nextpage})
      BY <3>5, ChainPush DEF IInv, ChainInv, TypeOK
    <3>7. ChainInv'
      BY <3>1, <3>4, <3>6 DEF ChainInv
    <3>. QED BY <1>4, <1>7, <2>4, <3>2, <3>7 DEF IInv
  <2>6. CASE ~ (nextpage >= HighBase)
    <3>1. word' = word /\ top' = top /\ bitmap' = bitmap \cup {nextpage}
      BY <1>9, <2>6 DEF Free
    <3>2. nextpage \in 1 .. HighBase - 1
      BY <2>1, <2>6, ConstantTypes DEF Pages
    <3>3. TypeOK'
      BY <1>1, <1>2, <1>3, <1>9, <2>1, <3>1, <3>2 DEF IInv, TypeOK
    <3>4. High' = High
      BY <1>9, <2>6 DEF High
    <3>5. ChainInv'
      BY <1>5, <3>1, <3>4 DEF IInv, ChainInv
    <3>. QED BY <1>4, <1>7, <2>4, <3>3, <3>5 DEF IInv
  <2>. QED BY <2>5, <2>6
<1>. QED BY <1>8, <1>9 DEF InitPage

LEMMA InitDoneInv ==
  ASSUME IInv, InitDone
  PROVE  IInv'
<1>1. TypeOK'
  BY DEF IInv, TypeOK, InitDone, tables, running
<1>2. BootInv' /\ LockInv'
  BY DEF IInv, BootInv, LockInv, InitDone, tables, running
<1>3. PagesInv'
  BY MemoryStable, ConstantTypes DEF IInv, TypeOK, PagesInv, InitDone, tables
<1>4. OwnersInv' /\ ChainInv'
  BY StackStable DEF InitDone, running
<1>. QED BY <1>1, <1>2, <1>3, <1>4 DEF IInv

(* The Section objects are stored below 16 MB, and so not in the stack.    *)
LEMMA InitKernelInv ==
  ASSUME IInv, InitKernel
  PROVE  IInv'
<1>. DEFINE length == SectionObjectsSize(header)
            base   == FindRange(header, length)
            filled == {i \in DOMAIN header.elf : header.elf[i].sh_size # 0}
<1>1. /\ boot = "kernel" /\ given \in Loaders /\ header = Placed(given)
      /\ boot' \in {"lost", "sections"}
      /\ UNCHANGED <<given, header, bmp, top, bitmap, lock, nextpage, freepages,
                     pts, pd, pc, page, owned>>
  BY DEF IInv, TypeOK, BootInv, InitKernel, running
<1>2. base \in Nat /\ length \in Nat /\ base + length <= HighBase * PageSize
  <2>1. base + length <= HighBase * PageSize
    BY <1>1, LoaderParts DEF ObjectsBelowHighBase
  <2>2. base \in Nat
    BY FindRangeType DEF Addresses, IInv, TypeOK
  <2>3. Len(header.elf) \in Nat
    BY HeaderFields DEF IInv, TypeOK
  <2>4. length \in Nat
    BY <2>3, PhysMemAssumption DEF SectionObjectsSize
  <2>. QED BY <2>1, <2>2, <2>4
<1>3. CASE UNCHANGED <<sections, word>>
  <2>1. TypeOK'
    BY <1>1, <1>3 DEF IInv, TypeOK
  <2>2. BootInv' /\ LockInv'
    BY <1>1 DEF IInv, BootInv, LockInv
  <2>3. PagesInv' /\ OwnersInv' /\ ChainInv'
    BY <1>1, <1>3, PagesStable, StackStable
  <2>. QED BY <2>1, <2>2, <2>3 DEF IInv
<1>4. ASSUME NEW w \in StoredWords,
             word' = [p \in Pages |->
                         IF p * PageSize \in base .. base + length - 1 THEN w ELSE word[p]],
             sections' = {ElfHeaders(base, length)}
                            \cup {FromElf(header.elf[i]) : i \in filled}
      PROVE  IInv'
  <2>1. sections' \subseteq [Flags : SUBSET (0 .. 14), pages : SUBSET Pages]
    <3>1. \A b, l : PagesOf(b, l) \subseteq Pages
      BY DEF PagesOf
    <3>2. ElfHeaders(base, length) \in [Flags : SUBSET (0 .. 14), pages : SUBSET Pages]
      BY <3>1 DEF ElfHeaders, Defined, Bits, Read, Write, KernelSection
    <3>3. \A e : FromElf(e) \in [Flags : SUBSET (0 .. 14), pages : SUBSET Pages]
      BY <3>1 DEF FromElf, Defined, Bits, Read, KernelSection
    <3>. QED BY <1>4, <3>2, <3>3
  <2>2. word' \in [Pages -> Pages \cup {0}]
    BY <1>4, ConstantTypes DEF IInv, TypeOK
  <2>3. TypeOK'
    BY <1>1, <2>1, <2>2 DEF IInv, TypeOK
  <2>4. ASSUME NEW p \in High PROVE word'[p] = word[p]
    <3>1. p \in Pages /\ p \in Nat /\ HighBase \in Nat /\ HighBase <= p /\ PageSize \in Nat
      BY HighType, ConstantTypes, PhysMemAssumption DEF IInv, High
    <3>2. HighBase * PageSize <= p * PageSize
      BY <3>1, TimesMonotone
    <3>3. p * PageSize \in Nat /\ HighBase * PageSize \in Nat
      BY <3>1
    <3>. HIDE DEF base, length
    <3>4. p * PageSize \notin base .. base + length - 1
      BY <1>2, <3>2, <3>3
    <3>. QED BY <1>4, <3>1, <3>4
  <2>5. High' = High /\ InUse' = InUse
    BY <1>1 DEF High, InUse
  <2>6. ChainInv'
    <3>1. \A p \in High \ InUse : word'[p] = word[p]
      BY <2>4
    <3>2. Chain(top, word', High \ InUse)
      BY <3>1, ChainOtherWords DEF IInv, ChainInv
    <3>. QED BY <1>1, <2>5, <3>2 DEF ChainInv
  <2>7. OwnersInv'
    BY <1>1, <2>5 DEF IInv, OwnersInv, OneOwner
  <2>8. BootInv' /\ LockInv'
    BY <1>1 DEF IInv, BootInv, LockInv
  <2>9. PagesInv'
    BY <1>1, PagesStable
  <2>. QED BY <2>3, <2>6, <2>7, <2>8, <2>9 DEF IInv
<1>5. \/ UNCHANGED <<sections, word>>
      \/ /\ sections' = {ElfHeaders(base, length)}
                            \cup {FromElf(header.elf[i]) : i \in filled}
         /\ \E w \in StoredWords :
               word' = [p \in Pages |->
                           IF p * PageSize \in base .. base + length - 1 THEN w ELSE word[p]]
  BY DEF InitKernel
<1>. QED BY <1>3, <1>4, <1>5

LEMMA UpdateUsedInv ==
  ASSUME IInv, UpdateUsed
  PROVE  IInv'
<1>1. /\ boot = "sections" /\ boot' = "AllocRange" /\ bitmap' \subseteq bitmap
      /\ UNCHANGED <<given, header, bmp, sections, top, word, lock, nextpage, freepages,
                     pts, pd, pc, page, owned>>
  BY DEF UpdateUsed, tables, running
<1>2. TypeOK'
  BY <1>1 DEF IInv, TypeOK
<1>3. BootInv' /\ LockInv'
  BY <1>1 DEF IInv, BootInv, LockInv
<1>4. PagesInv' /\ OwnersInv' /\ ChainInv'
  BY <1>1, PagesStable, StackStable
<1>. QED BY <1>2, <1>3, <1>4 DEF IInv

LEMMA AllocRangeInv ==
  ASSUME IInv, AllocRange
  PROVE  IInv'
<1>1. /\ boot = "AllocRange"
      /\ \/ boot' = "lost" /\ UNCHANGED pts
         \/ boot' = "Alloc" /\ pts' \subseteq bitmap
      /\ UNCHANGED <<given, header, bmp, sections, top, word, bitmap, lock, nextpage,
                     freepages, pd, pc, page, owned>>
  BY DEF AllocRange, Fits, tables, running
<1>2. pts' \subseteq Pages /\ (pts' = pts \/ pts' \subseteq bitmap)
  BY <1>1 DEF IInv, TypeOK, PagesInv
<1>3. TypeOK'
  BY <1>1, <1>2 DEF IInv, TypeOK
<1>4. BootInv' /\ LockInv'
  BY <1>1 DEF IInv, BootInv, LockInv
<1>5. PagesInv'
  BY <1>1, <1>2, MemoryStable DEF IInv, PagesInv
<1>6. OwnersInv' /\ ChainInv'
  BY <1>1, StackStable
<1>. QED BY <1>3, <1>4, <1>5, <1>6 DEF IInv

LEMMA AllocInv ==
  ASSUME IInv, Alloc
  PROVE  IInv'
<1>0. CASE top = NULL
  <2>1. /\ boot = "Alloc" /\ boot' = "lost"
        /\ UNCHANGED <<given, header, bmp, sections, top, word, bitmap, lock, nextpage,
                       freepages, pts, pd, pc, page, owned>>
    BY <1>0 DEF Alloc, tables, running
  <2>2. TypeOK'
    BY <2>1 DEF IInv, TypeOK
  <2>3. BootInv' /\ LockInv'
    BY <2>1 DEF IInv, BootInv, LockInv
  <2>4. PagesInv' /\ OwnersInv' /\ ChainInv'
    BY <2>1, PagesStable, StackStable
  <2>. QED BY <2>2, <2>3, <2>4 DEF IInv
<1>. SUFFICES ASSUME top # NULL PROVE IInv'
  BY <1>0
<1>1. /\ boot = "Alloc" /\ boot' = "up" /\ top # NULL /\ pd' = top /\ top' = word[top]
      /\ UNCHANGED <<given, header, bmp, sections, word, bitmap, lock, nextpage,
                     freepages, pts, pc, page, owned>>
      /\ pd = NULL /\ owned = [t \in Threads |-> {}] /\ pc = [t \in Threads |-> "idle"]
      /\ header = Placed(given) /\ bmp = PlaceOfBitmap(given)
  BY DEF Alloc, tables, running, IInv, BootInv
<1>2. top \in Pages /\ word[top] \in Pages \cup {NULL}
  BY <1>1 DEF IInv, TypeOK, NULL
<1>3. TypeOK'
  BY <1>1, <1>2 DEF IInv, TypeOK
<1>4. BootInv' /\ LockInv'
  BY <1>1 DEF BootInv, LockInv
<1>5. PagesInv'
  BY <1>1, PagesStable
<1>6. InUse = {NULL} /\ InUse' = {top} /\ High' = High
  BY <1>1 DEF InUse, High
<1>7. High \ InUse = High /\ High \subseteq Pages
  BY <1>6, HighType, PagesNotNull DEF IInv
<1>8. top \in High /\ Chain(word[top], word, High \ {top})
  BY <1>1, <1>7, ChainPop DEF IInv, ChainInv
<1>9. ChainInv'
  BY <1>1, <1>6, <1>8 DEF ChainInv
<1>10. OwnersInv'
  BY <1>1, <1>6, <1>8 DEF OwnersInv, OneOwner
<1>. QED BY <1>3, <1>4, <1>5, <1>9, <1>10 DEF IInv

LEMMA BeginPopInv ==
  ASSUME IInv, NEW t \in Threads, BeginPop(t)
  PROVE  IInv'
<1>1. /\ UNCHANGED <<given, header, bmp, sections, top, word, bitmap, lock, boot, nextpage,
                     freepages, pts, pd, page, owned>>
      /\ boot = "up" /\ pc[t] = "idle"
      /\ pc' = [pc EXCEPT ![t] = IF top = NULL THEN "bitmap" ELSE "lock"]
  BY DEF BeginPop, CanRun, SetPc, tables
<1>2. TypeOK'
  BY <1>1 DEF IInv, TypeOK
<1>3. BootInv' /\ LockInv'
  BY <1>1 DEF IInv, BootInv, LockInv, TypeOK
<1>4. PagesInv' /\ OwnersInv' /\ ChainInv'
  BY <1>1, PagesStable, StackStable
<1>. QED BY <1>2, <1>3, <1>4 DEF IInv

(* A thread that can run is the only one that may be inside the lock.      *)
LEMMA AloneInside ==
  ASSUME IInv, NEW t \in Threads, CanRun(t), NEW u \in Threads, u # t
  PROVE  pc[u] # "mapped"
BY ConstantTypes DEF IInv, LockInv, CanRun

LEMMA BeginPopLockedInv ==
  ASSUME IInv, NEW t \in Threads, BeginPopLocked(t)
  PROVE  IInv'
<1>1. /\ UNCHANGED <<given, header, bmp, sections, top, word, bitmap, boot, nextpage,
                     freepages, pts, pd, owned>>
      /\ CanRun(t) /\ boot = "up" /\ pc[t] = "lock"
      /\ lock' = t /\ page' = [page EXCEPT ![t] = top]
      /\ pc' = [pc EXCEPT ![t] = IF top = NULL THEN "bitmap" ELSE "mapped"]
  BY DEF BeginPopLocked, CanRun, SetPc, tables
<1>2. TypeOK'
  BY <1>1 DEF IInv, TypeOK
<1>3. BootInv'
  BY <1>1 DEF IInv, BootInv
<1>4. LockInv'
  <2>1. \A u \in Threads : u # t => pc[u] # "mapped"
    BY <1>1, AloneInside
  <2>. QED BY <1>1, <2>1 DEF IInv, LockInv, TypeOK
<1>5. PagesInv' /\ OwnersInv' /\ ChainInv'
  BY <1>1, PagesStable, StackStable
<1>. QED BY <1>2, <1>3, <1>4, <1>5 DEF IInv

(* No page of the first word of the bitmap is ever free.                   *)
LEMMA BitmapAllocInv ==
  ASSUME IInv, NEW t \in Threads, BitmapAlloc(t)
  PROVE  IInv'
<1>1. bitmap \cap FirstDword = {}
  <2>1. SUFFICES ASSUME NEW p \in bitmap, p \in FirstDword PROVE FALSE
    OBVIOUS
  <2>2. FirstPage <= p /\ p \in 1 .. FirstPage - 1 /\ FirstPage \in Nat
    BY <2>1, ConstantTypes DEF IInv, PagesInv
  <2>. QED BY <2>2
<1>2. /\ UNCHANGED <<given, header, bmp, sections, top, word, bitmap, lock, boot, nextpage,
                     freepages, pts, pd, page, owned>>
      /\ boot = "up" /\ pc[t] = "bitmap" /\ pc' = [pc EXCEPT ![t] = "looping"]
  BY <1>1 DEF BitmapAlloc, CanRun, SetPc, tables
<1>3. TypeOK'
  BY <1>2 DEF IInv, TypeOK
<1>4. BootInv' /\ LockInv'
  BY <1>2 DEF IInv, BootInv, LockInv, TypeOK
<1>5. PagesInv' /\ OwnersInv' /\ ChainInv'
  BY <1>2, PagesStable, StackStable
<1>. QED BY <1>3, <1>4, <1>5 DEF IInv

LEMMA EndAllocInv ==
  ASSUME IInv, NEW t \in Threads, EndAlloc(t)
  PROVE  IInv'
<1>1. /\ UNCHANGED <<given, header, bmp, sections, bitmap, boot, nextpage,
                     freepages, pts, pd, page>>
      /\ CanRun(t) /\ boot = "up" /\ pc[t] = "mapped"
      /\ lock' = NoThread /\ pc' = [pc EXCEPT ![t] = "idle"]
  BY DEF EndAlloc, CanRun, SetPc, tables
<1>2. page[t] = top /\ top # NULL
  BY <1>1 DEF IInv, LockInv
<1>3. /\ top' = word[top] /\ word' = [word EXCEPT ![top] = 0]
      /\ owned' = [owned EXCEPT ![t] = @ \cup {top}]
  BY <1>2 DEF EndAlloc
<1>4. top \in Pages /\ word[top] \in Pages \cup {NULL}
  BY <1>2 DEF IInv, TypeOK, NULL
<1>5. TypeOK'
  BY <1>1, <1>3, <1>4 DEF IInv, TypeOK
<1>6. BootInv'
  BY <1>1 DEF IInv, BootInv
<1>7. LockInv'
  <2>1. ASSUME NEW u \in Threads PROVE pc'[u] \notin {"mapped", "bitmap", "looping"}
    <3>1. CASE u = t
      BY <1>1, <3>1 DEF IInv, TypeOK
    <3>2. CASE u # t
      BY <1>1, <1>2, <3>2, AloneInside DEF IInv, LockInv, TypeOK
    <3>. QED BY <3>1, <3>2
  <2>. QED BY <2>1 DEF LockInv
<1>8. PagesInv'
  BY <1>1, PagesStable
<1>9. High \ InUse \subseteq Pages /\ High' = High
  BY <1>1, HighType DEF IInv, High
<1>10. top \in High \ InUse /\ Chain(word[top], word, (High \ InUse) \ {top})
  BY <1>2, <1>9, ChainPop DEF IInv, ChainInv
<1>11. InUse' = InUse \cup {top}
  BY <1>1, <1>3 DEF InUse, IInv, TypeOK
<1>12. ChainInv'
  <2>1. \A p \in (High \ InUse) \ {top} : word'[p] = word[p]
    BY <1>3, <1>9 DEF IInv, TypeOK
  <2>2. Chain(word[top], word', (High \ InUse) \ {top})
    BY <1>10, <2>1, ChainOtherWords
  <2>3. (High \ InUse) \ {top} = High' \ InUse'
    BY <1>9, <1>11
  <2>. QED BY <1>3, <2>2, <2>3 DEF ChainInv
<1>13. OwnersInv'
  <2>1. OneOwner'
    <3>1. top # pd /\ \A u \in Threads : top \notin owned[u]
      BY <1>10 DEF InUse
    <3>2. \A u \in Threads : owned'[u] = IF u = t THEN owned[t] \cup {top} ELSE owned[u]
      BY <1>3 DEF IInv, TypeOK
    <3>. QED BY <1>1, <3>1, <3>2 DEF IInv, OwnersInv, OneOwner
  <2>2. InUse' \ {NULL} \subseteq High'
    BY <1>9, <1>10, <1>11 DEF IInv, OwnersInv
  <2>. QED BY <2>1, <2>2 DEF OwnersInv
<1>. QED BY <1>5, <1>6, <1>7, <1>8, <1>12, <1>13 DEF IInv

LEMMA StoreInv ==
  ASSUME IInv, NEW t \in Threads, NEW p \in owned[t], NEW w \in StoredWords, Store(t, p, w)
  PROVE  IInv'
<1>1. /\ UNCHANGED <<given, header, bmp, sections, top, bitmap, lock, boot, nextpage,
                     freepages, pts, pd, pc, page, owned>>
      /\ word' = [word EXCEPT ![p] = w]
  BY DEF Store, tables, running
<1>2. TypeOK'
  BY <1>1, ConstantTypes DEF IInv, TypeOK
<1>3. BootInv' /\ LockInv'
  BY <1>1 DEF IInv, BootInv, LockInv
<1>4. PagesInv'
  BY <1>1, PagesStable
<1>5. High' = High /\ InUse' = InUse /\ p \in InUse /\ High \subseteq Pages
  BY <1>1, HighType DEF IInv, High, InUse
<1>6. OwnersInv'
  BY <1>1, <1>5 DEF IInv, OwnersInv, OneOwner
<1>7. ChainInv'
  <2>1. \A q \in High \ InUse : word'[q] = word[q]
    BY <1>1, <1>5 DEF IInv, TypeOK
  <2>2. Chain(top, word', High \ InUse)
    BY <2>1, ChainOtherWords DEF IInv, ChainInv
  <2>. QED BY <1>1, <1>5, <2>2 DEF ChainInv
<1>. QED BY <1>2, <1>3, <1>4, <1>6, <1>7 DEF IInv

LEMMA NextInv == IInv /\ [Next]_vars => IInv'
<1>. SUFFICES ASSUME IInv, [Next]_vars PROVE IInv'
  OBVIOUS
<1>1. CASE Boot
  BY <1>1, ParseHeaderInv, PlaceBitmapInv, InitPageInv, InitDoneInv, InitKernelInv,
     UpdateUsedInv, AllocRangeInv, AllocInv DEF Boot
<1>2. ASSUME NEW t \in Threads, BeginPop(t) PROVE IInv'
  BY <1>2, BeginPopInv
<1>3. ASSUME NEW t \in Threads, BeginPopLocked(t) PROVE IInv'
  BY <1>3, BeginPopLockedInv
<1>4. ASSUME NEW t \in Threads, BitmapAlloc(t) PROVE IInv'
  BY <1>4, BitmapAllocInv
<1>5. ASSUME NEW t \in Threads, EndAlloc(t) PROVE IInv'
  BY <1>5, EndAllocInv
<1>6. ASSUME NEW t \in Threads, NEW p \in owned[t], NEW w \in StoredWords, Store(t, p, w)
      PROVE  IInv'
  BY <1>6, StoreInv
<1>7. CASE UNCHANGED vars
  <2>1. UNCHANGED <<given, header, bmp, sections, top, word, bitmap, lock, boot, nextpage,
                    freepages, pts, pd, pc, page, owned>>
    BY <1>7 DEF vars, tables, running
  <2>2. TypeOK'
    BY <2>1 DEF IInv, TypeOK
  <2>3. BootInv' /\ LockInv'
    BY <2>1 DEF IInv, BootInv, LockInv
  <2>4. PagesInv' /\ OwnersInv' /\ ChainInv'
    BY <2>1, PagesStable, StackStable
  <2>. QED BY <2>2, <2>3, <2>4 DEF IInv
<1>. QED BY <1>1, <1>2, <1>3, <1>4, <1>5, <1>6, <1>7 DEF Next

LEMMA PhysMemInvariant == Spec => []IInv
BY InitInv, NextInv, PTL DEF Spec

-----------------------------------------------------------------------------
(* The allocator's fields keep their types.                                *)
THEOREM PhysMemTypeCorrect == Spec => []TypeOK
<1>1. IInv => TypeOK
  BY DEF IInv
<1>. QED BY <1>1, PhysMemInvariant, PTL

(* No page is given out twice.                                             *)
THEOREM PhysMemOneOwner == Spec => []OneOwner
<1>1. IInv => OneOwner
  BY DEF IInv, OwnersInv
<1>. QED BY <1>1, PhysMemInvariant, PTL

LEMMA StackFollowed ==
  ASSUME IInv
  PROVE  Hops[Cardinality(High)] = NULL /\ OnStack = High \ InUse
BY HighType, HopsFollowChain DEF IInv, ChainInv

(* The free list ends and holds exactly the high pages that nobody has.    *)
THEOREM PhysMemStackIsUnused == Spec => []StackIsUnused
<1>1. IInv => StackIsUnused
  BY StackFollowed DEF StackIsUnused
<1>. QED BY <1>1, PhysMemInvariant, PTL

(* Only when no page of the stack is left does an allocation get stuck.    *)
THEOREM PhysMemStuckOnlyWhenExhausted == Spec => []StuckOnlyWhenExhausted
<1>1. IInv => StuckOnlyWhenExhausted
  <2>. SUFFICES ASSUME IInv, NEW t \in Threads, pc[t] = "looping" PROVE High \subseteq InUse
    BY DEF StuckOnlyWhenExhausted
  <2>1. Chain(NULL, word, High \ InUse)
    BY DEF IInv, LockInv, ChainInv
  <2>2. High \ InUse \subseteq Pages
    BY HighType DEF IInv
  <2>3. High \ InUse = {}
    BY <2>1, <2>2, ChainNull
  <2>. QED BY <2>3
<1>. QED BY <1>1, PhysMemInvariant, PTL

(* Whatever the loader's tables: free pages are memory of the machine with *)
(* nothing else in them.                                                   *)
THEOREM PhysMemFreePagesAreRam == Spec => []FreePagesAreRam
<1>1. IInv => FreePagesAreRam
  <2>. SUFFICES ASSUME IInv, NEW p \in (bitmap \cup OnStack \cup InUse \cup pts) \ {NULL}
                PROVE  Memory(p)
    BY DEF FreePagesAreRam, Memory
  <2>1. OnStack \subseteq High /\ High \subseteq freepages
    BY StackFollowed DEF High
  <2>2. p \in freepages
    BY <2>1 DEF IInv, PagesInv, OwnersInv
  <2>. QED BY <2>2 DEF IInv, PagesInv
<1>. QED BY <1>1, PhysMemInvariant, PTL
=============================================================================
