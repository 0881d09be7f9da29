------------------------- MODULE AddressSpaceProofs -------------------------
(* The kernel's address space, for any loaded sections, page and stack     *)
(* sizes and requests of the heap.                                         *)
EXTENDS AddressSpace, NaturalsInduction, FiniteSetTheorems, SequenceTheorems, TLAPS

-----------------------------------------------------------------------------
(* Smallest and largest elements.                                          *)

(* A nonempty set of natural numbers has a smallest element.               *)
LEMMA SmallestElement ==
  ASSUME NEW S, S \subseteq Nat, S # {}
  PROVE  \E m \in S : \A n \in S : m <= n
<1>1. PICK m \in S : \A n \in S : <<n, m>> \notin OpToRel(<, Nat)
  BY NatLessThanWellFounded, WFMin, Zenon
<1>2. ASSUME NEW n \in S PROVE ~ n < m
  BY <1>1, Zenon DEF OpToRel
<1>. QED BY <1>2

(* A nonempty set of natural numbers with an upper bound has a largest     *)
(* element: its distance to the bound is the smallest.                     *)
LEMMA LargestElement ==
  ASSUME NEW n \in Nat, NEW S, S \subseteq 0 .. n, S # {}
  PROVE  \E m \in S : \A x \in S : m >= x
<1>. DEFINE T == {n - x : x \in S}
<1>1. T \subseteq Nat /\ T # {}
  <2>1. \A x \in S : n - x \in Nat
    OBVIOUS
  <2>2. PICK x \in S : TRUE
    OBVIOUS
  <2>3. n - x \in T
    OBVIOUS
  <2>. QED BY <2>1, <2>3
<1>2. PICK d \in T : \A y \in T : d <= y
  <2>. HIDE DEF T
  <2>. QED BY <1>1, SmallestElement
<1>3. PICK m \in S : d = n - m
  BY <1>2
<1>4. ASSUME NEW x \in S PROVE m >= x
  <2>1. n - m <= n - x
    BY <1>2, <1>3
  <2>. QED BY <2>1
<1>. QED BY <1>4

-----------------------------------------------------------------------------
(* Pages.                                                                  *)
Aligned(a) == a % PageSize = 0

LEMMA DivMod ==
  ASSUME NEW a \in Int
  PROVE  /\ PageOf(a) \in Int /\ a % PageSize \in 0 .. PageSize - 1
         /\ a = (PageSize * PageOf(a)) + (a % PageSize)
BY SectionsAssumption DEF PageOf

LEMMA DivModUnique ==
  ASSUME NEW q \in Int, NEW r \in 0 .. PageSize - 1, NEW a \in Int,
         a = (PageSize * q) + r
  PROVE  a % PageSize = r /\ PageOf(a) = q
BY SectionsAssumption DEF PageOf

LEMMA AlignedMultiple ==
  ASSUME NEW a \in Int, Aligned(a)
  PROVE  PageOf(a) \in Int /\ a = PageSize * PageOf(a)
<1>1. PageOf(a) \in Int /\ a = (PageSize * PageOf(a)) + 0
  BY DivMod DEF Aligned
<1>2. PageSize * PageOf(a) \in Int
  BY <1>1, SectionsAssumption
<1>. QED BY <1>1, <1>2

LEMMA MultipleAligned ==
  ASSUME NEW a \in Int, NEW q \in Int, a = PageSize * q
  PROVE  Aligned(a) /\ PageOf(a) = q
<1>1. 0 \in 0 .. PageSize - 1 /\ a = (PageSize * q) + 0
  BY SectionsAssumption
<1>. QED BY <1>1, DivModUnique DEF Aligned

LEMMA AlignedNext ==
  ASSUME NEW a \in Int, Aligned(a)
  PROVE  Aligned(a + PageSize) /\ Aligned(a - PageSize)
<1>. DEFINE q == PageOf(a)
<1>1. q \in Int /\ a = PageSize * q
  BY AlignedMultiple
<1>2. a + PageSize = PageSize * (q + 1) /\ a - PageSize = PageSize * (q - 1)
  BY <1>1, SectionsAssumption
<1>3. q + 1 \in Int /\ q - 1 \in Int /\ a + PageSize \in Int /\ a - PageSize \in Int
  BY <1>1, SectionsAssumption
<1>. QED BY ONLY <1>2, <1>3, MultipleAligned

LEMMA AlignedGap ==
  ASSUME NEW a \in Int, NEW b \in Int, Aligned(a), Aligned(b), a < b
  PROVE  a + PageSize <= b
<1>. DEFINE q == PageOf(a)
            r == PageOf(b)
<1>1. q \in Int /\ a = PageSize * q /\ r \in Int /\ b = PageSize * r
  BY AlignedMultiple
<1>. HIDE DEF q, r
<1>2. q < r
  <2>1. SUFFICES ASSUME r <= q PROVE FALSE
    BY <1>1
  <2>2. PageSize * r <= PageSize * q
    BY <1>1, <2>1, SectionsAssumption
  <2>. QED BY <1>1, <2>2
<1>3. PageSize * (q + 1) <= PageSize * r
  BY <1>1, <1>2, SectionsAssumption
<1>4. PageSize * (q + 1) = a + PageSize
  BY <1>1, SectionsAssumption
<1>. QED BY <1>1, <1>3, <1>4

LEMMA RoundDownIs ==
  ASSUME NEW a \in Nat
  PROVE  /\ RoundDown(a) \in Nat /\ Aligned(RoundDown(a))
         /\ RoundDown(a) <= a /\ a < RoundDown(a) + PageSize
         /\ PageOf(RoundDown(a)) = PageOf(a) /\ PageOf(a) \in Nat
         /\ RoundDown(a) = PageSize * PageOf(a)
<1>. DEFINE q == PageOf(a)
            r == a % PageSize
<1>1. q \in Nat
  BY SectionsAssumption DEF PageOf
<1>2. r \in 0 .. PageSize - 1 /\ a = (PageSize * q) + r
  BY DivMod
<1>3. PageSize * q \in Nat
  BY <1>1, SectionsAssumption
<1>4. RoundDown(a) = PageSize * q
  BY <1>2, <1>3 DEF RoundDown
<1>5. Aligned(RoundDown(a)) /\ PageOf(RoundDown(a)) = q
  BY <1>1, <1>3, <1>4, MultipleAligned
<1>. HIDE DEF q, r
<1>6. RoundDown(a) \in Nat /\ RoundDown(a) <= a /\ a < RoundDown(a) + PageSize
  BY <1>2, <1>3, <1>4, SectionsAssumption
<1>. QED BY <1>1, <1>4, <1>5, <1>6 DEF q

LEMMA WordSmall ==
  ASSUME NEW a \in Nat, a < Word
  PROVE  a % Word = a
BY SectionsAssumption

LEMMA RoundUpIs ==
  ASSUME NEW a \in Nat, a + PageSize <= Word
  PROVE  /\ RoundUp(a) \in Nat /\ Aligned(RoundUp(a))
         /\ a <= RoundUp(a) /\ RoundUp(a) < a + PageSize
<1>1. a + PageSize - 1 \in Nat /\ a + PageSize - 1 < Word
  BY SectionsAssumption
<1>2. (a + PageSize - 1) % Word = a + PageSize - 1
  BY <1>1, WordSmall
<1>3. RoundUp(a) = RoundDown(a + PageSize - 1)
  BY <1>2 DEF RoundUp
<1>4. /\ RoundUp(a) \in Nat /\ Aligned(RoundUp(a))
      /\ RoundUp(a) <= a + PageSize - 1
      /\ a + PageSize - 1 < RoundUp(a) + PageSize
  BY <1>1, <1>3, RoundDownIs
<1>. QED BY <1>4, SectionsAssumption

(* An aligned address less than a page above a is what a rounds up to.     *)
LEMMA RoundUpUnique ==
  ASSUME NEW a \in Nat, a + PageSize <= Word,
         NEW b \in Nat, Aligned(b), a <= b, b < a + PageSize
  PROVE  RoundUp(a) = b
<1>1. /\ RoundUp(a) \in Nat /\ Aligned(RoundUp(a))
      /\ a <= RoundUp(a) /\ RoundUp(a) < a + PageSize
  BY RoundUpIs
<1>2. ~ (RoundUp(a) < b) /\ ~ (b < RoundUp(a))
  BY <1>1, AlignedGap, SectionsAssumption
<1>. QED BY <1>1, <1>2

-----------------------------------------------------------------------------
(* The search for free space, in a list of which no section ends behind    *)
(* the kernel's space, for a request that would fit behind all of them.    *)
Sum(r) == r.LowerPadding + r.ExpandDown + r.Length + r.ExpandUp + r.UpperPadding

OrdinaryList(list) ==
    /\ list \in Seq(Section)
    /\ \A i \in 1 .. Len(list) : Limit(list[i]) <= KernelEnd + 1

Request(r) ==
    /\ r \in Section
    /\ {"Defined", "KernelSection"} \subseteq r.Flags
    /\ Sum(r) \in Nat \ {0}
    /\ KernelEnd + 1 + PageSize + Sum(r) <= Word

Apart(low, limit, s) ==
    HasExtent(s) => limit <= Lower(s) \/ Limit(s) <= low

LEMMA SectionFields ==
  ASSUME NEW s \in Section
  PROVE  /\ s.Base \in Nat /\ s.Length \in Nat /\ s.ExpandDown \in Nat /\ s.ExpandUp \in Nat
         /\ s.LowerPadding \in Nat /\ s.UpperPadding \in Nat /\ s.MemSource \in Nat
         /\ s.Base < Word /\ s.Length < Word /\ s.ExpandDown < Word /\ s.ExpandUp < Word
         /\ s.LowerPadding < Word /\ s.UpperPadding < Word /\ s.MemSource < Word
         /\ Lower(s) \in Int /\ Limit(s) \in Nat /\ Sum(s) \in Nat
         /\ Limit(s) = Lower(s) + Sum(s)
BY SectionsAssumption DEF Section, Address, Lower, Limit, Sum

LEMMA Bounds ==
  /\ Word \in Nat /\ PageSize \in Nat /\ PageSize > 0
  /\ KernelStart \in Nat /\ KernelEnd \in Nat /\ KernelEnd < Word
  /\ PageSize <= KernelStart /\ KernelStart <= KernelEnd
  /\ StackSize \in Nat /\ StackSize < Word
  /\ 2 * (KernelEnd + 1) + StackSize + 10 * PageSize <= Word
  /\ Aligned(KernelStart)
<1>1. Word \in Nat /\ PageSize \in Nat /\ PageSize > 0
  BY SectionsAssumption
<1>2. KernelStart \in Address /\ KernelEnd \in Address /\ Aligned(KernelStart)
  BY SectionsAssumption DEF Aligned
<1>3. StackSize \in Address
  BY AddressSpaceAssumption
<1>. QED BY <1>1, <1>2, <1>3, KernelSpaceAssumption DEF Address

(* What the search looks at, for a place it may find.                      *)
LEMMA SuitsMeans ==
  ASSUME NEW list, OrdinaryList(list), NEW r, Request(r),
         NEW low \in Nat, low <= KernelEnd + PageSize
  PROVE  Suits(list, r, low) <=>
             /\ KernelStart <= low /\ low + Sum(r) <= KernelEnd + 1
             /\ \A j \in 1 .. Len(list) : Apart(low, low + Sum(r), list[j])
<1>. DEFINE top == low + Sum(r) - 1
<1>1. RangeMin(r) = KernelStart /\ RangeMax(r) = KernelEnd
  BY DEF Request, RangeMin, RangeMax
<1>2. Sum(r) \in Nat /\ Sum(r) > 0 /\ Sum(r) < Word
  BY Bounds DEF Request
<1>3. ExtentLength(r) = Sum(r)
  <2>1. Sum(r) % Word = Sum(r)
    BY <1>2, WordSmall
  <2>. QED BY <2>1 DEF ExtentLength, Sum
<1>4. top \in Nat /\ top < Word
  BY <1>2, Bounds DEF Request
<1>5. At(low, r) = [Lower |-> low, Upper |-> top]
  <2>1. top % Word = top
    BY <1>4, WordSmall
  <2>. QED BY <1>3, <2>1 DEF At
<1>6. ASSUME NEW j \in 1 .. Len(list)
      PROVE  (HasExtent(list[j]) => ~ Equal(At(low, r), Extent(list[j])))
                 <=> Apart(low, low + Sum(r), list[j])
  <2>1. SUFFICES ASSUME HasExtent(list[j])
                 PROVE  ~ Equal(At(low, r), Extent(list[j]))
                            <=> low + Sum(r) <= Lower(list[j]) \/ Limit(list[j]) <= low
    BY DEF Apart
  <2>2. list[j] \in Section
    BY DEF OrdinaryList
  <2>. DEFINE a == Lower(list[j])
              b == Limit(list[j])
  <2>3. a \in Int /\ b \in Int /\ a < b
    BY <2>1, <2>2, SectionFields DEF HasExtent
  <2>4. Extent(list[j]) = [Lower |-> a, Upper |-> b - 1]
    BY DEF Extent
  <2>. HIDE DEF a, b
  <2>5. Equal([Lower |-> low, Upper |-> top], [Lower |-> a, Upper |-> b - 1])
            <=> ~ (low + Sum(r) <= a \/ b <= low)
    BY <1>2, <2>3 DEF Equal, EqualByEnds
  <2>. QED BY <1>5, <2>4, <2>5 DEF a, b
<1>7. _isfree(list, At(low, r)) <=> \A j \in 1 .. Len(list) : Apart(low, low + Sum(r), list[j])
  BY <1>6 DEF _isfree
<1>8. At(low, r).Upper = top
  BY <1>5
<1>9. top <= KernelEnd <=> low + Sum(r) <= KernelEnd + 1
  BY <1>2, Bounds
<1>. HIDE DEF top
<1>. QED BY <1>1, <1>7, <1>8, <1>9 DEF Suits

LEMMA StartsAre ==
  ASSUME NEW list, OrdinaryList(list), NEW r, Request(r)
  PROVE  /\ DOMAIN Starts(list, r) = 0 .. Len(list) /\ Len(list) \in Nat
         /\ Starts(list, r)[0] = KernelStart
         /\ \A i \in 1 .. Len(list) : Starts(list, r)[i] = RoundUp(Limit(list[i]))
         /\ \A i \in 0 .. Len(list) :
               /\ Starts(list, r)[i] \in Nat /\ Aligned(Starts(list, r)[i])
               /\ Starts(list, r)[i] <= KernelEnd + PageSize
<1>1. Len(list) \in Nat
  BY DEF OrdinaryList
<1>2. RangeMin(r) = KernelStart
  BY DEF Request, RangeMin
<1>3. Starts(list, r)[0] = KernelStart
  <2>1. KernelStart % Word = KernelStart
    BY Bounds, WordSmall
  <2>2. RoundUp(KernelStart) = KernelStart
    BY Bounds, RoundUpUnique
  <2>. QED BY <1>1, <1>2, <2>1, <2>2 DEF Starts
<1>4. ASSUME NEW i \in 1 .. Len(list)
      PROVE  /\ Starts(list, r)[i] = RoundUp(Limit(list[i]))
             /\ Starts(list, r)[i] \in Nat /\ Aligned(Starts(list, r)[i])
             /\ Starts(list, r)[i] <= KernelEnd + PageSize
  <2>1. Limit(list[i]) \in Nat /\ Limit(list[i]) <= KernelEnd + 1
    BY SectionFields DEF OrdinaryList
  <2>2. Limit(list[i]) % Word = Limit(list[i])
    BY <2>1, Bounds, WordSmall
  <2>3. Starts(list, r)[i] = RoundUp(Limit(list[i]))
    BY <1>1, <2>2 DEF Starts
  <2>4. Limit(list[i]) + PageSize <= Word
    BY <2>1, Bounds
  <2>5. /\ RoundUp(Limit(list[i])) \in Nat /\ Aligned(RoundUp(Limit(list[i])))
        /\ RoundUp(Limit(list[i])) < Limit(list[i]) + PageSize
    BY <2>1, <2>4, RoundUpIs
  <2>. QED BY <2>1, <2>3, <2>5, Bounds
<1>5. DOMAIN Starts(list, r) = 0 .. Len(list)
  BY DEF Starts
<1>6. KernelStart \in Nat /\ Aligned(KernelStart) /\ KernelStart <= KernelEnd + PageSize
  BY Bounds
<1>7. \A i \in 0 .. Len(list) : i = 0 \/ i \in 1 .. Len(list)
  BY <1>1
<1>. QED BY <1>1, <1>3, <1>4, <1>5, <1>6, <1>7

(* The search is for the first start that suits.                           *)
LEMMA FirstSuitable ==
  ASSUME NEW list, NEW r, Len(list) \in Nat,
         DOMAIN Starts(list, r) = 0 .. Len(list)
  PROVE  /\ FindFree(list, r) = {} <=>
               \A i \in 0 .. Len(list) : ~ Suits(list, r, Starts(list, r)[i])
         /\ \A s \in FindFree(list, r) : \E i \in 0 .. Len(list) :
               /\ Suits(list, r, Starts(list, r)[i])
               /\ s = [r EXCEPT !.Base = (Starts(list, r)[i] + r.LowerPadding + r.ExpandDown)
                                             % Word]
<1>. DEFINE good == {i \in DOMAIN Starts(list, r) : Suits(list, r, Starts(list, r)[i])}
            place(i) == [r EXCEPT !.Base = (Starts(list, r)[i] + r.LowerPadding + r.ExpandDown)
                                              % Word]
<1>1. FindFree(list, r) = IF good = {} THEN {} ELSE {place(Min(good))}
  BY DEF FindFree
<1>2. ASSUME good # {} PROVE Min(good) \in good
  <2>1. good \subseteq Nat
    OBVIOUS
  <2>. HIDE DEF good
  <2>2. \E m \in good : \A n \in good : m <= n
    BY <1>2, <2>1, SmallestElement
  <2>. QED BY <2>2 DEF Min
<1>3. \A i \in good : i \in 0 .. Len(list) /\ Suits(list, r, Starts(list, r)[i])
  OBVIOUS
<1>4. good = {} <=> \A i \in 0 .. Len(list) : ~ Suits(list, r, Starts(list, r)[i])
  OBVIOUS
<1>5. ASSUME NEW s \in FindFree(list, r)
      PROVE  \E i \in 0 .. Len(list) : Suits(list, r, Starts(list, r)[i]) /\ s = place(i)
  <2>. HIDE DEF good, place
  <2>1. good # {} /\ s = place(Min(good))
    BY <1>1, <1>5
  <2>. QED BY <1>2, <1>3, <2>1
<1>6. FindFree(list, r) = {} <=> good = {}
  <2>. HIDE DEF good, place
  <2>. QED BY <1>1
<1>. HIDE DEF good
<1>. QED BY <1>4, <1>5, <1>6

LEMMA NewBase ==
  ASSUME NEW r \in Section, NEW b \in Address, NEW s, s = [r EXCEPT !.Base = b]
  PROVE  /\ s \in Section /\ s.Base = b /\ s.Flags = r.Flags /\ s.MemSource = r.MemSource
         /\ s.LowerPadding = r.LowerPadding /\ s.ExpandDown = r.ExpandDown
         /\ s.Length = r.Length /\ s.ExpandUp = r.ExpandUp
         /\ s.UpperPadding = r.UpperPadding /\ s = [r EXCEPT !.Base = s.Base]
BY DEF Section

(* What the search finds is a page-aligned place for the whole extent of   *)
(* the request, within the kernel's space and apart from every section     *)
(* that has an extent.                                                     *)
THEOREM FindFreeSound ==
  ASSUME NEW list, OrdinaryList(list), NEW r, Request(r), NEW s \in FindFree(list, r)
  PROVE  /\ s \in Section /\ s = [r EXCEPT !.Base = s.Base]
         /\ Lower(s) \in Nat /\ Aligned(Lower(s)) /\ KernelStart <= Lower(s)
         /\ Limit(s) = Lower(s) + Sum(r) /\ Limit(s) <= KernelEnd + 1
         /\ \A j \in 1 .. Len(list) : Apart(Lower(s), Limit(s), list[j])
<1>1. PICK i \in 0 .. Len(list) :
         /\ Suits(list, r, Starts(list, r)[i])
         /\ s = [r EXCEPT !.Base = (Starts(list, r)[i] + r.LowerPadding + r.ExpandDown) % Word]
  BY StartsAre, FirstSuitable
<1>. DEFINE low == Starts(list, r)[i]
<1>2. low \in Nat /\ Aligned(low) /\ low <= KernelEnd + PageSize
  BY StartsAre
<1>3. /\ KernelStart <= low /\ low + Sum(r) <= KernelEnd + 1
      /\ \A j \in 1 .. Len(list) : Apart(low, low + Sum(r), list[j])
  BY <1>1, <1>2, SuitsMeans
<1>. HIDE DEF low
<1>4. /\ r.LowerPadding \in Nat /\ r.ExpandDown \in Nat /\ r.Length \in Nat
      /\ r.ExpandUp \in Nat /\ r.UpperPadding \in Nat /\ r \in Section
  BY SectionFields DEF Request
<1>. DEFINE base == low + r.LowerPadding + r.ExpandDown
<1>5. base \in Nat /\ base < Word
  <2>1. base <= low + Sum(r)
    <3>1. \A a, b, c, d, e, f \in Nat : a + b + c <= a + (b + c + d + e + f)
      OBVIOUS
    <3>. QED BY <1>2, <1>4, <3>1 DEF Sum
  <2>. HIDE DEF base
  <2>2. base \in Nat
    BY <1>2, <1>4 DEF base
  <2>3. Sum(r) \in Nat
    BY DEF Request
  <2>. QED BY <1>2, <1>3, <2>1, <2>2, <2>3, Bounds
<1>6. s = [r EXCEPT !.Base = base]
  <2>1. base % Word = base
    BY <1>5, WordSmall
  <2>. QED BY <1>1, <2>1 DEF low
<1>. HIDE DEF base
<1>7. /\ s \in Section /\ s.Base = base /\ s = [r EXCEPT !.Base = s.Base]
      /\ s.LowerPadding = r.LowerPadding /\ s.ExpandDown = r.ExpandDown /\ s.Length = r.Length
      /\ s.ExpandUp = r.ExpandUp /\ s.UpperPadding = r.UpperPadding
  <2>1. base \in Address
    BY <1>5, SectionsAssumption DEF Address
  <2>. QED BY <1>4, <1>6, <2>1, NewBase
<1>8. Lower(s) = low
  BY <1>2, <1>4, <1>7 DEF Lower, base
<1>9. Limit(s) = low + Sum(r)
  <2>1. Limit(s) = base + r.Length + r.ExpandUp + r.UpperPadding
    BY <1>7 DEF Limit
  <2>2. base + r.Length + r.ExpandUp + r.UpperPadding
          = low + (r.LowerPadding + r.ExpandDown + r.Length + r.ExpandUp + r.UpperPadding)
    <3>. DEFINE a == r.LowerPadding
                b == r.ExpandDown
                c == r.Length
                d == r.ExpandUp
                e == r.UpperPadding
    <3>1. low \in Nat /\ a \in Nat /\ b \in Nat /\ c \in Nat /\ d \in Nat /\ e \in Nat
      BY <1>2, <1>4
    <3>. HIDE DEF a, b, c, d, e
    <3>2. (low + a + b) + c + d + e = low + (a + b + c + d + e)
      BY <3>1
    <3>. QED BY <3>2 DEF base, a, b, c, d, e
  <2>. QED BY <2>1, <2>2 DEF Sum
<1>. QED BY <1>2, <1>3, <1>7, <1>8, <1>9

(* If there is such a place, the search finds one, though it looks only at *)
(* the start of the space and behind sections: the lowest such place is at *)
(* one of these.                                                           *)
THEOREM FindFreeComplete ==
  ASSUME NEW list, OrdinaryList(list), NEW r, Request(r),
         NEW place \in Nat, Aligned(place), KernelStart <= place,
         place + Sum(r) <= KernelEnd + 1,
         \A j \in 1 .. Len(list) : Apart(place, place + Sum(r), list[j])
  PROVE  FindFree(list, r) # {}
<1>. DEFINE Places == {p \in Nat : /\ Aligned(p) /\ KernelStart <= p
                                   /\ p + Sum(r) <= KernelEnd + 1
                                   /\ \A j \in 1 .. Len(list) : Apart(p, p + Sum(r), list[j])}
<1>1. Places \subseteq Nat /\ Places # {}
  OBVIOUS
<1>2. PICK low \in Places : \A p \in Places : low <= p
  <2>. HIDE DEF Places
  <2>. QED BY <1>1, SmallestElement
<1>3. /\ low \in Nat /\ Aligned(low) /\ KernelStart <= low /\ low + Sum(r) <= KernelEnd + 1
      /\ \A j \in 1 .. Len(list) : Apart(low, low + Sum(r), list[j])
  BY <1>2
<1>4. Sum(r) \in Nat /\ Sum(r) > 0
  BY DEF Request
<1>5. \E i \in 0 .. Len(list) : Starts(list, r)[i] = low
  <2>1. CASE low = KernelStart
    BY <2>1, StartsAre
  <2>2. CASE low # KernelStart
    <3>. DEFINE p == low - PageSize
    <3>1. p \in Nat /\ Aligned(p) /\ KernelStart <= p /\ p < low
      <4>1. KernelStart + PageSize <= low
        BY <1>3, <2>2, Bounds, AlignedGap
      <4>2. Aligned(p)
        BY <1>3, AlignedNext
      <4>. QED BY <1>3, <4>1, <4>2, Bounds
    <3>2. p \notin Places
      BY <1>2, <1>3, <3>1
    <3>3. p + Sum(r) <= KernelEnd + 1
      BY <1>3, <1>4, <3>1, Bounds
    <3>4. PICK j \in 1 .. Len(list) : ~ Apart(p, p + Sum(r), list[j])
      BY <3>1, <3>2, <3>3
    <3>5. HasExtent(list[j]) /\ Limit(list[j]) \in Nat /\ Lower(list[j]) \in Int
      <4>1. list[j] \in Section
        BY DEF OrdinaryList
      <4>. QED BY <3>4, <4>1, SectionFields DEF Apart
    <3>6. p < Limit(list[j]) /\ Lower(list[j]) < p + Sum(r)
      BY <1>4, <3>1, <3>4, <3>5 DEF Apart
    <3>7. Limit(list[j]) <= low
      BY <1>3, <1>4, <3>1, <3>5, <3>6 DEF Apart
    <3>8. low < Limit(list[j]) + PageSize /\ Limit(list[j]) + PageSize <= Word
      <4>. DEFINE b == Limit(list[j])
      <4>1. b \in Nat /\ p < b /\ b <= low /\ low <= KernelEnd
        BY <1>3, <1>4, <3>5, <3>6, <3>7, Bounds
      <4>. HIDE DEF b
      <4>2. low < b + PageSize /\ b + PageSize <= Word
        BY <1>3, <4>1, Bounds
      <4>. QED BY <4>2 DEF b
    <3>9. RoundUp(Limit(list[j])) = low
      BY <1>3, <3>5, <3>7, <3>8, RoundUpUnique
    <3>. QED BY <3>9, StartsAre
  <2>. QED BY <2>1, <2>2
<1>6. PICK i \in 0 .. Len(list) : Starts(list, r)[i] = low
  BY <1>5
<1>7. low <= KernelEnd + PageSize
  BY <1>3, <1>4, Bounds
<1>8. Suits(list, r, low)
  BY <1>3, <1>7, SuitsMeans
<1>. QED BY <1>6, <1>8, StartsAre, FirstSuitable

-----------------------------------------------------------------------------
(* Types.  The break of the heap stays within its reserve, which no fault  *)
(* moves.                                                                  *)
HeapInv ==
    heap # 0 => /\ "AutoExpand" \notin KernelSections[heap].Flags
                /\ KernelSections[heap].Length <= KernelSections[heap].ExpandUp

TypeInv == TypeOK /\ Len(BootSections) <= Len(KernelSections) /\ HeapInv

LEMMA ModWord ==
  ASSUME NEW a \in Int
  PROVE  a % Word \in Address /\ a % Word \in Nat
BY SectionsAssumption DEF Address

LEMMA PageOfNat ==
  ASSUME NEW a \in Nat
  PROVE  PageOf(a) \in Nat
BY RoundDownIs

LEMMA RoundUpNat ==
  ASSUME NEW a \in Nat
  PROVE  RoundUp(a) \in Nat
<1>1. (a + PageSize - 1) % Word \in Nat
  BY SectionsAssumption, ModWord
<1>. QED BY <1>1, RoundDownIs DEF RoundUp

LEMMA MaxIn ==
  ASSUME NEW n \in Nat, NEW S, S \subseteq 0 .. n, S # {}
  PROVE  Max(S) \in S /\ \A x \in S : x <= Max(S)
<1>1. \E m \in S : \A x \in S : m >= x
  BY LargestElement
<1>2. Max(S) \in S /\ \A x \in S : Max(S) >= x
  BY <1>1 DEF Max
<1>. QED BY <1>2

LEMMA MinIn ==
  ASSUME NEW S, S \subseteq Nat, S # {}
  PROVE  Min(S) \in S /\ \A x \in S : Min(S) <= x
<1>1. \E m \in S : \A x \in S : m <= x
  BY SmallestElement
<1>. QED BY <1>1 DEF Min

(* Whatever is found, it is the request at some address.                   *)
LEMMA FindFreeType ==
  ASSUME NEW list \in Seq(Section), NEW r \in Section, NEW s \in FindFree(list, r)
  PROVE  /\ s \in Section /\ s.Flags = r.Flags /\ s.MemSource = r.MemSource
         /\ s.LowerPadding = r.LowerPadding /\ s.ExpandDown = r.ExpandDown
         /\ s.Length = r.Length /\ s.ExpandUp = r.ExpandUp
         /\ s.UpperPadding = r.UpperPadding
<1>1. Len(list) \in Nat /\ DOMAIN Starts(list, r) = 0 .. Len(list)
  BY DEF Starts
<1>2. PICK i \in 0 .. Len(list) :
         s = [r EXCEPT !.Base = (Starts(list, r)[i] + r.LowerPadding + r.ExpandDown) % Word]
  BY <1>1, FirstSuitable
<1>3. Starts(list, r)[i] \in Nat
  <2>1. RangeMin(r) \in Nat
    BY SectionsAssumption DEF RangeMin, Address
  <2>2. i # 0 => Limit(list[i]) \in Nat
    <3>1. SUFFICES ASSUME i # 0 PROVE Limit(list[i]) \in Nat
      OBVIOUS
    <3>2. list[i] \in Section
      BY <1>1, <3>1
    <3>. QED BY <3>2, SectionFields
  <2>. DEFINE x == IF i = 0 THEN RangeMin(r) ELSE Limit(list[i])
  <2>3. x \in Nat
    BY <2>1, <2>2
  <2>4. Starts(list, r)[i] = RoundUp(x % Word)
    BY <1>1 DEF Starts
  <2>. HIDE DEF x
  <2>. QED BY <2>3, <2>4, ModWord, RoundUpNat
<1>. DEFINE b == (Starts(list, r)[i] + r.LowerPadding + r.ExpandDown) % Word
<1>4. b \in Address
  <2>1. r.LowerPadding \in Nat /\ r.ExpandDown \in Nat
    BY SectionFields
  <2>2. Starts(list, r)[i] + r.LowerPadding + r.ExpandDown \in Int
    BY <1>3, <2>1
  <2>. QED BY <2>2, ModWord
<1>. HIDE DEF b
<1>5. s = [r EXCEPT !.Base = b]
  BY <1>2 DEF b
<1>. QED BY <1>4, <1>5, NewBase

LEMMA Requests ==
  /\ TempSection \in Section
  /\ \A size \in Address : HeapRequest(size) \in Section
  /\ \A source \in Junk : StackRequest(source) \in Section
  /\ PtsSection \in Section
<1>1. PageSize \in Address /\ 0 \in Address
  BY Bounds DEF Address
<1>2. StackSize \in Address /\ Junk \subseteq Address /\ PtsSection \in Section
  BY AddressSpaceAssumption DEF InKernelOrBelow, PtsSection
<1>3. {"Defined", "KernelSection"} \in SUBSET SectionFlags
      /\ {"Defined", "AutoExpand", "KernelSection"} \in SUBSET SectionFlags
  BY DEF SectionFlags
<1>. QED BY <1>1, <1>2, <1>3 DEF TempSection, HeapRequest, StackRequest, Section

LEMMA HeapSizesType == HeapSizes \subseteq 0 .. KernelEnd
<1>. DEFINE middle == (KernelEnd - KernelStart) \div 2
            half == RoundDown(middle)
<1>1. middle \in Nat /\ middle <= KernelEnd
  BY Bounds
<1>2. half \in Nat /\ half <= KernelEnd
  <2>. HIDE DEF middle
  <2>1. half \in Nat /\ half <= middle
    BY ONLY <1>1, RoundDownIs
  <2>. HIDE DEF half
  <2>. QED BY <1>1, <2>1, Bounds
<1>3. HeapSizes \subseteq PageSize .. half
  BY DEF HeapSizes
<1>. HIDE DEF half
<1>. QED BY <1>2, <1>3, Bounds

(* What WithHeap adds is one section, a heap with nothing in it.           *)
LEMMA WithHeapIs ==
  ASSUME TypeOK, NEW list \in WithHeap
  PROVE  \/ heap # 0 /\ list = KernelSections
         \/ /\ heap = 0
            /\ \E size \in HeapSizes : \E s \in FindFree(KernelSections, HeapRequest(size)) :
                  /\ s \in Section /\ list = Append(KernelSections, s)
                  /\ s.Flags = {"Defined", "KernelSection"}
                  /\ s.Length = 0 /\ s.ExpandUp = size /\ s.ExpandDown = 0
                  /\ s.LowerPadding = PageSize /\ s.UpperPadding = PageSize
                  /\ size \in Address
<1>1. CASE heap # 0
  BY <1>1 DEF WithHeap
<1>2. CASE heap = 0
  <2>1. HeapSizes # {} /\ list \in With({KernelSections}, HeapRequest(Max(HeapSizes)))
    BY <1>2 DEF WithHeap
  <2>2. PICK s \in FindFree(KernelSections, HeapRequest(Max(HeapSizes))) :
            list = Append(KernelSections, s)
    BY <2>1 DEF With
  <2>3. Max(HeapSizes) \in HeapSizes
    BY <2>1, HeapSizesType, MaxIn, Bounds
  <2>4. Max(HeapSizes) \in Address
    <3>1. 0 .. KernelEnd \subseteq Address
      BY Bounds DEF Address
    <3>. QED BY <2>3, <3>1, HeapSizesType
  <2>. DEFINE size == Max(HeapSizes)
  <2>. HIDE DEF size
  <2>5. HeapRequest(size) \in Section
    BY <2>4, Requests DEF size
  <2>6. s \in FindFree(KernelSections, HeapRequest(size)) /\ size \in HeapSizes /\ size \in Address
    BY <2>3, <2>4 DEF size
  <2>7. /\ s \in Section /\ s.Flags = HeapRequest(size).Flags
        /\ s.LowerPadding = HeapRequest(size).LowerPadding
        /\ s.ExpandDown = HeapRequest(size).ExpandDown
        /\ s.Length = HeapRequest(size).Length /\ s.ExpandUp = HeapRequest(size).ExpandUp
        /\ s.UpperPadding = HeapRequest(size).UpperPadding
    BY <2>5, <2>6, FindFreeType DEF TypeOK
  <2>. QED BY <1>2, <2>2, <2>6, <2>7 DEF HeapRequest
<1>. QED BY <1>1, <1>2

LEMMA Replaced ==
  ASSUME NEW list \in Seq(Section), NEW i \in 1 .. Len(list), NEW s \in Section,
         NEW new, new = [list EXCEPT ![i] = s]
  PROVE  /\ new \in Seq(Section) /\ Len(new) = Len(list) /\ new[i] = s
         /\ \A j \in 1 .. Len(list) : j # i => new[j] = list[j]
OBVIOUS

LEMMA Appended ==
  ASSUME NEW list \in Seq(Section), NEW s \in Section, NEW new, new = Append(list, s)
  PROVE  /\ new \in Seq(Section) /\ Len(list) \in Nat /\ Len(new) = Len(list) + 1
         /\ new[Len(list) + 1] = s
         /\ \A j \in 1 .. Len(list) : new[j] = list[j]
BY AppendProperties

LEMMA WithIs ==
  ASSUME NEW lists, lists \subseteq Seq(Section), NEW r \in Section, NEW list \in With(lists, r)
  PROVE  /\ list \in Seq(Section)
         /\ \E l \in lists : Len(list) = Len(l) + 1
<1>1. PICK l \in lists : list \in {Append(l, s) : s \in FindFree(l, r)}
  BY DEF With
<1>2. PICK s \in FindFree(l, r) : list = Append(l, s)
  BY <1>1
<1>3. l \in Seq(Section) /\ s \in Section
  BY <1>2, FindFreeType
<1>. QED BY <1>2, <1>3, Appended

LEMMA InitialPtType ==
  ASSUME NEW list \in Seq(Section)
  PROVE  InitialPt(list) \in [VirtualPages -> Nat]
<1>1. Len(list) \in Nat
  OBVIOUS
<1>2. ASSUME NEW s \in Section, NEW v \in VirtualPages
      PROVE  InitEntry(s, v) \in Nat
  <2>1. v \in Int /\ v * PageSize \in Int
    BY Bounds DEF VirtualPages
  <2>2. s.Base \in Nat /\ s.MemSource \in Nat
    BY SectionFields
  <2>3. FirstMapped(s) \in Nat
    BY <2>2, RoundUpNat DEF FirstMapped
  <2>. DEFINE x == s.MemSource + v * PageSize - FirstMapped(s)
  <2>4. x \in Int
    BY <2>1, <2>2, <2>3
  <2>. HIDE DEF x
  <2>5. x % Word \in Nat
    BY <2>4, ModWord
  <2>6. PageOf(RoundUp(x % Word)) \in Nat
    BY <2>5, RoundUpNat, PageOfNat
  <2>. QED BY <2>6 DEF InitEntry, x
<1>3. ASSUME NEW v \in VirtualPages,
             {i \in 1 .. Len(list) : InitMaps(list[i], v)} # {}
      PROVE  InitEntry(list[Max({i \in 1 .. Len(list) : InitMaps(list[i], v)})], v) \in Nat
  <2>. DEFINE by == {i \in 1 .. Len(list) : InitMaps(list[i], v)}
  <2>1. by \subseteq 0 .. Len(list) /\ by # {}
    BY <1>1, <1>3
  <2>2. Max(by) \in by
    BY <1>1, <2>1, MaxIn
  <2>3. Max(by) \in 1 .. Len(list)
    BY <2>2
  <2>. HIDE DEF by
  <2>4. list[Max(by)] \in Section
    BY <2>3
  <2>5. InitEntry(list[Max(by)], v) \in Nat
    BY <1>2, <2>4
  <2>. QED BY <2>5 DEF by
<1>. QED BY <1>3 DEF InitialPt

LEMMA AfterTempsAre ==
  ASSUME NEW list \in AfterTemps
  PROVE  list \in Seq(Section) /\ Len(list) = Len(BootSections) + 4
<1>. DEFINE l0 == Append(BootSections, PtsSection)
            L0 == {l0}
            L1 == With(L0, TempSection)
            L2 == With(L1, TempSection)
<1>1. BootSections \in Seq(Section) /\ PtsSection \in Section /\ TempSection \in Section
  BY AddressSpaceAssumption, Requests
<1>2. l0 \in Seq(Section) /\ Len(l0) = Len(BootSections) + 1 /\ Len(BootSections) \in Nat
  BY <1>1, Appended
<1>. HIDE DEF l0
<1>3. \A l \in L1 : l \in Seq(Section) /\ Len(l) = Len(BootSections) + 2
  <2>1. TAKE l \in L1
  <2>2. L0 \subseteq Seq(Section)
    BY <1>2
  <2>. HIDE DEF L0
  <2>3. l \in Seq(Section) /\ \E k \in L0 : Len(l) = Len(k) + 1
    BY <1>1, <2>2, WithIs
  <2>. QED BY <1>2, <2>3 DEF L0
<1>. HIDE DEF L1
<1>4. \A l \in L2 : l \in Seq(Section) /\ Len(l) = Len(BootSections) + 3
  <2>1. TAKE l \in L2
  <2>2. L1 \subseteq Seq(Section)
    BY <1>3
  <2>3. l \in Seq(Section) /\ \E k \in L1 : Len(l) = Len(k) + 1
    BY <1>1, <2>2, WithIs
  <2>. QED BY <1>2, <1>3, <2>3
<1>. HIDE DEF L2
<1>5. list \in With(L2, TempSection)
  BY DEF AfterTemps, L2, L1, l0
<1>6. L2 \subseteq Seq(Section)
  BY <1>4
<1>7. list \in Seq(Section) /\ \E l \in L2 : Len(list) = Len(l) + 1
  BY <1>1, <1>5, <1>6, WithIs
<1>. QED BY <1>2, <1>4, <1>7

LEMMA InitTypeInv == Init => TypeInv
<1>. SUFFICES ASSUME Init PROVE TypeInv
  OBVIOUS
<1>1. /\ KernelSections \in Seq(Section) /\ Len(KernelSections) = Len(BootSections) + 4
      /\ Len(BootSections) \in Nat
  BY AfterTempsAre, AddressSpaceAssumption DEF Init
<1>2. pt \in [VirtualPages -> Nat]
  BY <1>1, InitialPtType DEF Init
<1>3. heap = 0 /\ stacks = {} /\ pool = Unused /\ panicked = FALSE
  BY DEF Init
<1>4. TypeOK
  <2>1. Len(KernelSections) \in Nat
    BY <1>1
  <2>2. heap \in 0 .. Len(KernelSections)
    BY <1>3, <2>1
  <2>. QED BY <1>1, <1>2, <1>3, <2>2, Zenon DEF TypeOK
<1>. QED BY <1>1, <1>3, <1>4 DEF TypeInv, HeapInv

(* What sbrk does to the list.                                             *)
LEMMA SbrkIs ==
  ASSUME TypeInv, NEW d \in Int, Sbrk(d)
  PROVE  \E list \in Seq(Section) : \E s \in Section :
            /\ heap' \in 1 .. Len(list) /\ Len(KernelSections) <= Len(list)
            /\ list \in WithHeap
            /\ KernelSections' = [list EXCEPT ![heap'] = s]
            /\ s = [list[heap'] EXCEPT !.Length = s.Length]
            /\ heap = 0 => heap' = Len(list)
            /\ heap # 0 => heap' = heap
            /\ "AutoExpand" \notin list[heap'].Flags
            /\ s.Length <= list[heap'].ExpandUp
<1>. DEFINE H(list) == IF heap = 0 THEN Len(list) ELSE heap
            D(list) == list[H(list)]
            May(list) == IF d >= 0 THEN MayGrow(D(list), d) ELSE MayShrink(D(list), -d)
<1>1. PICK list \in WithHeap :
        /\ heap' = H(list)
        /\ \/ May(list) /\ KernelSections' = [list EXCEPT ![H(list)].Length = @ + d]
           \/ ~ May(list) /\ KernelSections' = list
  BY DEF Sbrk
<1>. DEFINE h == H(list)
<1>2. TypeOK /\ HeapInv
  BY DEF TypeInv
<1>3. /\ list \in Seq(Section) /\ h \in 1 .. Len(list) /\ Len(KernelSections) <= Len(list)
      /\ "AutoExpand" \notin list[h].Flags /\ list[h].Length <= list[h].ExpandUp
  <2>1. CASE heap # 0
    BY <1>2, <2>1, WithHeapIs DEF TypeOK, HeapInv
  <2>2. CASE heap = 0
    <3>1. PICK size \in HeapSizes : \E s \in FindFree(KernelSections, HeapRequest(size)) :
                  /\ s \in Section /\ list = Append(KernelSections, s)
                  /\ s.Flags = {"Defined", "KernelSection"}
                  /\ s.Length = 0 /\ s.ExpandUp = size /\ size \in Address
      BY <1>2, <2>2, WithHeapIs
    <3>2. PICK s \in Section : /\ list = Append(KernelSections, s)
                               /\ s.Flags = {"Defined", "KernelSection"}
                               /\ s.Length = 0 /\ s.ExpandUp = size /\ size \in Nat
      BY <3>1 DEF Address
    <3>3. /\ list \in Seq(Section) /\ Len(list) = Len(KernelSections) + 1
          /\ Len(KernelSections) \in Nat /\ list[Len(list)] = s
      BY <1>2, <3>2, Appended DEF TypeOK
    <3>4. h = Len(list)
      BY <2>2
    <3>. HIDE DEF h
    <3>. QED BY <3>2, <3>3, <3>4
  <2>. QED BY <2>1, <2>2
<1>4. list[h] \in Section /\ heap' = h /\ (heap = 0 => h = Len(list)) /\ (heap # 0 => h = heap)
  BY <1>1, <1>3
<1>5. \/ May(list) /\ KernelSections' = [list EXCEPT ![h].Length = @ + d]
      \/ ~ May(list) /\ KernelSections' = list
  BY <1>1
<1>. HIDE DEF h
<1>6. CASE ~ May(list)
  <2>1. KernelSections' = [list EXCEPT ![h] = list[h]]
    BY <1>3, <1>5, <1>6
  <2>2. list[h] = [list[h] EXCEPT !.Length = list[h].Length]
    BY <1>4 DEF Section
  <2>. QED BY <1>3, <1>4, <2>1, <2>2
<1>7. CASE May(list)
  <2>. DEFINE s == [list[h] EXCEPT !.Length = @ + d]
  <2>1. KernelSections' = [list EXCEPT ![h] = s]
    BY <1>5, <1>7
  <2>2. list[h].Length \in Nat /\ list[h].ExpandUp \in Nat /\ list[h].ExpandUp < Word
    BY <1>4, SectionFields
  <2>3. list[h].Length + d \in Nat /\ list[h].Length + d <= list[h].ExpandUp
    <3>1. CASE d >= 0
      <4>1. d <= (list[h].ExpandUp - list[h].Length) % Word
        BY <1>7, <3>1 DEF MayGrow, h
      <4>2. (list[h].ExpandUp - list[h].Length) % Word = list[h].ExpandUp - list[h].Length
        <5>. DEFINE room == list[h].ExpandUp - list[h].Length
        <5>1. room \in Nat /\ room < Word
          BY <1>3, <2>2, Bounds
        <5>. HIDE DEF room
        <5>2. room % Word = room
          BY <5>1, WordSmall
        <5>. QED BY <5>2 DEF room
      <4>. QED BY <2>2, <3>1, <4>1, <4>2
    <3>2. CASE ~ (d >= 0)
      <4>1. -d <= list[h].Length
        BY <1>7, <3>2 DEF MayShrink, h
      <4>. QED BY <1>3, <2>2, <3>2, <4>1
    <3>. QED BY <3>1, <3>2
  <2>4. list[h].Length + d \in Address
    BY <2>2, <2>3, Bounds DEF Address
  <2>5. s \in Section /\ s.Length = list[h].Length + d /\ s = [list[h] EXCEPT !.Length = s.Length]
    BY <1>4, <2>4 DEF Section
  <2>. HIDE DEF s
  <2>. QED BY <1>3, <1>4, <2>1, <2>3, <2>5
<1>. QED BY <1>6, <1>7

(* A fault changes a section only if it may expand, and then not beyond    *)
(* the word.                                                               *)
LEMMA ExpandedType ==
  ASSUME NEW s \in Section, NEW a \in 0 .. KernelEnd
  PROVE  /\ Expanded(s, a) \in Section
         /\ "AutoExpand" \notin s.Flags => Expanded(s, a) = s
<1>1. a \in Nat /\ a < Word /\ a + 1 < Word
  BY Bounds
<1>2. ASSUME NEW t \in Section
      PROVE  /\ ExpandedDown(t, a) \in Section
             /\ "AutoExpand" \notin t.Flags => ExpandedDown(t, a) = t
  <2>1. SUFFICES ASSUME "AutoExpand" \in t.Flags, a < t.Base, t.Base - a <= t.ExpandDown
                 PROVE  ExpandedDown(t, a) \in Section
    BY DEF ExpandedDown
  <2>. DEFINE less == t.ExpandDown - (t.Base - a)
  <2>2. less \in Address /\ a \in Address
    <3>1. t.ExpandDown \in Nat /\ t.Base \in Nat /\ t.ExpandDown < Word
      BY SectionFields
    <3>. QED BY <1>1, <2>1, <3>1, Bounds DEF Address
  <2>3. ExpandedDown(t, a) = [t EXCEPT !.ExpandDown = less, !.Base = a]
    BY <2>1 DEF ExpandedDown
  <2>. HIDE DEF less
  <2>. QED BY <2>2, <2>3 DEF Section
<1>3. ASSUME NEW t \in Section
      PROVE  /\ ExpandedUp(t, a) \in Section
             /\ "AutoExpand" \notin t.Flags => ExpandedUp(t, a) = t
  <2>1. SUFFICES ASSUME a >= t.Base + t.Length, a - (t.Base + t.Length) <= t.ExpandUp,
                        "AutoExpand" \in t.Flags
                 PROVE  ExpandedUp(t, a) \in Section
    BY DEF ExpandedUp
  <2>. DEFINE less == t.ExpandUp - (a - (t.Base + t.Length))
              more == a - t.Base + 1
  <2>2. less \in Address /\ more \in Address
    <3>1. t.ExpandUp \in Nat /\ t.Base \in Nat /\ t.Length \in Nat /\ t.ExpandUp < Word
      BY SectionFields
    <3>. QED BY <1>1, <2>1, <3>1, Bounds DEF Address
  <2>3. ExpandedUp(t, a) = [t EXCEPT !.ExpandUp = less, !.Length = more]
    BY <2>1 DEF ExpandedUp
  <2>. HIDE DEF less, more
  <2>. QED BY <2>2, <2>3 DEF Section
<1>. QED BY <1>2, <1>3 DEF Expanded

LEMMA MapPageType ==
  ASSUME pt \in [VirtualPages -> Nat], pool \subseteq Unused,
         NEW a, NEW physaddr \in Nat, MapPage(a, physaddr)
  PROVE  /\ pt' \in [VirtualPages -> Nat] /\ pool' \subseteq Unused
         /\ \E page \in Nat : pt' = [pt EXCEPT ![PageOf(a)] = page]
<1>1. CASE physaddr # 0 /\ pt' = [pt EXCEPT ![PageOf(a)] = PageOf(physaddr)] /\ pool' = pool
  <2>1. PageOf(physaddr) \in Nat
    BY PageOfNat
  <2>. QED BY <1>1, <2>1
<1>2. CASE /\ pool # {} /\ pt' = [pt EXCEPT ![PageOf(a)] = Max(pool)]
           /\ pool' = pool \ {Max(pool)}
  <2>1. Word \div PageSize \in Nat
    BY Bounds
  <2>2. pool \subseteq 0 .. Word \div PageSize
    BY AddressSpaceAssumption, <2>1
  <2>3. Max(pool) \in pool
    BY <1>2, <2>1, <2>2, MaxIn
  <2>4. Max(pool) \in Nat
    <3>1. 0 .. Word \div PageSize \subseteq Nat
      BY <2>1
    <3>. QED BY ONLY <2>2, <2>3, <3>1
  <2>. QED BY <1>2, <2>4
<1>. QED BY <1>1, <1>2 DEF MapPage

LEMMA FoundIs ==
  ASSUME NEW list, Len(list) \in Nat, NEW a
  PROVE  /\ Found(list, a) \subseteq 1 .. Len(list)
         /\ \A i \in Found(list, a) :
               /\ Resolves(list[i], a)
               /\ \A j \in 1 .. Len(list) : Resolves(list[j], a) => i <= j
         /\ Found(list, a) = {} => \A j \in 1 .. Len(list) : ~ Resolves(list[j], a)
<1>. DEFINE R == {i \in 1 .. Len(list) : Resolves(list[i], a)}
<1>1. R \subseteq Nat
  OBVIOUS
<1>2. R # {} => Min(R) \in R /\ \A x \in R : Min(R) <= x
  <2>. HIDE DEF R
  <2>. QED BY <1>1, MinIn
<1>3. Found(list, a) = {i \in R : i = Min(R)}
  BY DEF Found
<1>4. \A i \in 1 .. Len(list) : i \in R <=> Resolves(list[i], a)
  OBVIOUS
<1>5. R \subseteq 1 .. Len(list)
  OBVIOUS
<1>. HIDE DEF R
<1>. QED BY <1>2, <1>3, <1>4, <1>5

(* What a touch does to the list and the page tables.                      *)
LEMMA TouchIs ==
  ASSUME TypeInv, NEW i \in InUse, NEW a \in KernelStart .. KernelEnd, Touch(i, a)
  PROVE  /\ heap' = heap /\ stacks' = stacks /\ i # 0 /\ Holds(KernelSections[i], a)
         /\ pt[PageOf(a)] = 0 /\ pool' \subseteq Unused
         /\ \/ \E j \in 1 .. Len(KernelSections) : \E s \in Section :
                 /\ j \in Found(KernelSections, a)
                 /\ s = Expanded(KernelSections[j], a)
                 /\ KernelSections' = [KernelSections EXCEPT ![j] = s]
                 /\ MapPage(a, RoundDown((a - s.Base + s.MemSource) % Word))
                 /\ pt' \in [VirtualPages -> Nat]
                 /\ panicked' = panicked
            \/ /\ Found(KernelSections, a) = {}
               /\ KernelSections' = KernelSections /\ pt' = pt /\ panicked' = TRUE
<1>1. /\ heap' = heap /\ stacks' = stacks /\ i # 0 /\ Holds(KernelSections[i], a)
      /\ pt[PageOf(a)] = 0 /\ ResolvePageFault(a)
  BY DEF Touch
<1>2. /\ KernelSections \in Seq(Section) /\ Len(KernelSections) \in Nat
      /\ pt \in [VirtualPages -> Nat] /\ pool \subseteq Unused
  BY DEF TypeInv, TypeOK
<1>3. a \in 0 .. KernelEnd /\ a \in Nat
  BY Bounds
<1>4. CASE \E j \in Found(KernelSections, a) :
             /\ KernelSections' = [KernelSections EXCEPT ![j] = Expanded(KernelSections[j], a)]
             /\ MapPage(a, RoundDown((a - Expanded(KernelSections[j], a).Base
                                        + Expanded(KernelSections[j], a).MemSource) % Word))
             /\ panicked' = panicked
  <2>1. PICK j \in Found(KernelSections, a) :
             /\ KernelSections' = [KernelSections EXCEPT ![j] = Expanded(KernelSections[j], a)]
             /\ MapPage(a, RoundDown((a - Expanded(KernelSections[j], a).Base
                                        + Expanded(KernelSections[j], a).MemSource) % Word))
             /\ panicked' = panicked
    BY <1>4
  <2>. DEFINE s == Expanded(KernelSections[j], a)
  <2>2. j \in 1 .. Len(KernelSections)
    BY <1>2, FoundIs
  <2>3. KernelSections[j] \in Section
    BY <1>2, <2>2
  <2>4. s \in Section
    BY <1>3, <2>3, ExpandedType
  <2>. HIDE DEF s
  <2>. DEFINE physaddr == RoundDown((a - s.Base + s.MemSource) % Word)
  <2>5. physaddr \in Nat
    <3>. DEFINE x == a - s.Base + s.MemSource
    <3>1. x \in Int
      BY <1>3, <2>4, SectionFields
    <3>. HIDE DEF x
    <3>2. RoundDown(x % Word) \in Nat
      BY <3>1, ModWord, RoundDownIs
    <3>. QED BY <3>2 DEF x
  <2>6. MapPage(a, physaddr)
    BY <2>1 DEF s
  <2>7. pt' \in [VirtualPages -> Nat] /\ pool' \subseteq Unused
    <3>. HIDE DEF physaddr
    <3>. QED BY <1>2, <2>5, <2>6, MapPageType
  <2>. QED BY <1>1, <2>1, <2>2, <2>4, <2>6, <2>7 DEF s
<1>5. CASE /\ Found(KernelSections, a) = {} /\ panicked' = TRUE
           /\ UNCHANGED <<KernelSections, pt, pool>>
  BY <1>1, <1>2, <1>5
<1>. QED BY <1>1, <1>4, <1>5 DEF ResolvePageFault

LEMMA NextTypeInv == TypeInv /\ [Next]_vars => TypeInv'
<1>. SUFFICES ASSUME TypeInv, [Next]_vars PROVE TypeInv'
  OBVIOUS
<1>1. TypeOK /\ HeapInv /\ Len(BootSections) \in Nat /\ Len(BootSections) <= Len(KernelSections)
      /\ Len(KernelSections) \in Nat
  BY AddressSpaceAssumption DEF TypeInv, TypeOK
<1>2. ASSUME NEW d \in Increments, Sbrk(d) PROVE TypeInv'
  <2>1. d \in Int
    BY AddressSpaceAssumption
  <2>2. PICK list \in Seq(Section), s \in Section :
            /\ heap' \in 1 .. Len(list) /\ Len(KernelSections) <= Len(list)
            /\ KernelSections' = [list EXCEPT ![heap'] = s]
            /\ s = [list[heap'] EXCEPT !.Length = s.Length]
            /\ "AutoExpand" \notin list[heap'].Flags
            /\ s.Length <= list[heap'].ExpandUp
    BY <1>2, <2>1, SbrkIs
  <2>3. list[heap'] \in Section
    BY <2>2
  <2>4. s.Flags = list[heap'].Flags /\ s.ExpandUp = list[heap'].ExpandUp
    BY <2>2, <2>3 DEF Section
  <2>5. /\ KernelSections' \in Seq(Section) /\ Len(KernelSections') = Len(list)
        /\ KernelSections'[heap'] = s /\ Len(list) \in Nat
    BY <2>2, Replaced
  <2>6. HeapInv'
    BY <2>2, <2>4, <2>5 DEF HeapInv
  <2>7. heap' \in 0 .. Len(KernelSections') /\ Len(BootSections) <= Len(KernelSections')
    BY <1>1, <2>2, <2>5
  <2>8. stacks' \subseteq 1 .. Len(KernelSections')
    <3>1. stacks' = stacks /\ stacks \subseteq 1 .. Len(KernelSections)
      BY <1>1, <1>2 DEF Sbrk, TypeOK
    <3>. QED BY <1>1, <2>2, <2>5, <3>1
  <2>9. pt' = pt /\ pool' = pool /\ panicked' = panicked
    BY <1>2 DEF Sbrk
  <2>10. TypeOK'
    BY <1>1, <2>5, <2>7, <2>8, <2>9, Zenon DEF TypeOK
  <2>. QED BY <2>6, <2>7, <2>10 DEF TypeInv
<1>3. ASSUME NEW source \in Junk, Create(source) PROVE TypeInv'
  <2>1. PICK s \in FindFree(KernelSections, StackRequest(source)) :
           KernelSections' = Append(KernelSections, s)
    BY <1>3 DEF Create
  <2>2. s \in Section
    BY <1>1, <2>1, Requests, FindFreeType DEF TypeOK
  <2>3. /\ KernelSections' \in Seq(Section) /\ Len(KernelSections') = Len(KernelSections) + 1
        /\ \A j \in 1 .. Len(KernelSections) : KernelSections'[j] = KernelSections[j]
    BY <1>1, <2>1, <2>2, Appended DEF TypeOK
  <2>4. heap' = heap /\ pt' = pt /\ pool' = pool /\ panicked' = panicked /\ heap # 0
        /\ stacks' = stacks \cup {Len(KernelSections')}
    BY <1>3 DEF Create
  <2>5. heap \in 1 .. Len(KernelSections)
    BY <1>1, <2>4 DEF TypeOK
  <2>6. HeapInv'
    BY <1>1, <2>3, <2>4, <2>5 DEF HeapInv
  <2>7. heap' \in 0 .. Len(KernelSections') /\ Len(BootSections) <= Len(KernelSections')
    BY <1>1, <2>3, <2>4, <2>5
  <2>8. stacks' \subseteq 1 .. Len(KernelSections')
    <3>1. stacks \subseteq 1 .. Len(KernelSections)
      BY <1>1 DEF TypeOK
    <3>2. /\ 1 .. Len(KernelSections) \subseteq 1 .. Len(KernelSections')
          /\ Len(KernelSections') \in 1 .. Len(KernelSections')
      BY <1>1, <2>3
    <3>. QED BY <2>4, <3>1, <3>2
  <2>9. TypeOK'
    BY <1>1, <2>3, <2>4, <2>7, <2>8, Zenon DEF TypeOK
  <2>. QED BY <2>6, <2>7, <2>9 DEF TypeInv
<1>4. ASSUME NEW i \in InUse, NEW a \in KernelStart .. KernelEnd, Touch(i, a) PROVE TypeInv'
  <2>1. heap' = heap /\ stacks' = stacks /\ pool' \subseteq Unused
    BY <1>4, TouchIs
  <2>2. CASE \E j \in 1 .. Len(KernelSections) : \E s \in Section :
                 /\ j \in Found(KernelSections, a)
                 /\ s = Expanded(KernelSections[j], a)
                 /\ KernelSections' = [KernelSections EXCEPT ![j] = s]
                 /\ pt' \in [VirtualPages -> Nat]
                 /\ panicked' = panicked
    <3>1. PICK j \in 1 .. Len(KernelSections), s \in Section :
                 /\ s = Expanded(KernelSections[j], a)
                 /\ KernelSections' = [KernelSections EXCEPT ![j] = s]
                 /\ pt' \in [VirtualPages -> Nat]
                 /\ panicked' = panicked
      BY <2>2
    <3>2. /\ KernelSections' \in Seq(Section) /\ Len(KernelSections') = Len(KernelSections)
          /\ KernelSections'[j] = s
          /\ \A k \in 1 .. Len(KernelSections) : k # j => KernelSections'[k] = KernelSections[k]
      BY <1>1, <3>1, Replaced DEF TypeOK
    <3>3. HeapInv'
      <4>1. SUFFICES ASSUME heap # 0
                     PROVE  /\ "AutoExpand" \notin KernelSections'[heap].Flags
                            /\ KernelSections'[heap].Length <= KernelSections'[heap].ExpandUp
        BY <2>1 DEF HeapInv
      <4>2. heap \in 1 .. Len(KernelSections) /\ "AutoExpand" \notin KernelSections[heap].Flags
            /\ KernelSections[heap] \in Section
        BY <1>1, <4>1 DEF TypeOK, HeapInv
      <4>3. a \in 0 .. KernelEnd
        BY Bounds
      <4>4. j = heap => s = KernelSections[heap]
        BY <3>1, <4>2, <4>3, ExpandedType
      <4>. QED BY <1>1, <3>2, <4>1, <4>2, <4>4 DEF HeapInv
    <3>4. TypeOK'
      <4>1. panicked' \in BOOLEAN /\ heap' \in 0 .. Len(KernelSections')
            /\ stacks' \subseteq 1 .. Len(KernelSections')
        BY <1>1, <2>1, <3>1, <3>2 DEF TypeOK
      <4>. QED BY <2>1, <3>1, <3>2, <4>1, Zenon DEF TypeOK
    <3>. QED BY <1>1, <3>2, <3>3, <3>4 DEF TypeInv
  <2>3. CASE KernelSections' = KernelSections /\ pt' = pt /\ panicked' = TRUE
    BY <1>1, <2>1, <2>3 DEF TypeInv, TypeOK, HeapInv
  <2>. QED BY <1>4, <2>2, <2>3, TouchIs
<1>5. CASE UNCHANGED vars
  BY <1>1, <1>5 DEF vars, TypeInv, TypeOK, HeapInv
<1>. QED BY <1>2, <1>3, <1>4, <1>5 DEF Next

(* The state stays well typed: no growth of the heap and no expansion of a *)
(* stack moves a field of a section beyond the word.                       *)
THEOREM AddressSpaceTypeCorrect == Spec => []TypeOK
<1>1. TypeInv => TypeOK
  BY DEF TypeInv
<1>. QED BY InitTypeInv, NextTypeInv, <1>1, PTL DEF Spec

(* Memory the kernel owns can be touched at any time: the first section to *)
(* resolve the fault is found whenever there is one, and the section that  *)
(* holds the address is one.                                               *)
THEOREM AccessAlwaysResolved == Spec => []AccessResolved
<1>1. ASSUME TypeInv PROVE AccessResolved
  <2>1. SUFFICES ASSUME NEW i \in InUse \ {0}, HasExtent(KernelSections[i]),
                        NEW a \in KernelSections[i].Base
                                    .. KernelSections[i].Base + KernelSections[i].Length - 1
                 PROVE  Found(KernelSections, a) # {}
    BY DEF AccessResolved
  <2>2. KernelSections \in Seq(Section) /\ i \in 1 .. Len(KernelSections)
        /\ Len(KernelSections) \in Nat
    BY <1>1, AddressSpaceAssumption DEF TypeInv, TypeOK, InUse
  <2>. DEFINE s == KernelSections[i]
  <2>3. s \in Section
    BY <2>2
  <2>4. /\ s.Base \in Nat /\ s.Length \in Nat /\ s.ExpandDown \in Nat /\ s.ExpandUp \in Nat
        /\ s.LowerPadding \in Nat /\ s.UpperPadding \in Nat
    BY <2>3, SectionFields
  <2>5. Holds(s, a)
    BY <2>1, <2>4 DEF Holds
  <2>6. Lower(s) <= a /\ a <= Limit(s) - 1 /\ Lower(s) \in Int /\ Limit(s) \in Int /\ a \in Int
    BY <2>1, <2>4 DEF Lower, Limit
  <2>7. Equal([Lower |-> a, Upper |-> a], Extent(s))
    <3>. DEFINE low == Lower(s)
                top == Limit(s) - 1
    <3>1. low <= a /\ a <= top /\ Extent(s) = [Lower |-> low, Upper |-> top]
      BY <2>6 DEF Extent
    <3>. HIDE DEF low, top, s
    <3>. QED BY <3>1 DEF Equal, EqualByEnds
  <2>8. Resolves(s, a)
    BY <2>1, <2>5, <2>7 DEF Resolves, Matches
  <2>. QED BY <2>2, <2>8, FoundIs
<1>. QED BY InitTypeInv, NextTypeInv, <1>1, PTL DEF Spec

-----------------------------------------------------------------------------
(* What is in the list: first the loaded sections, which nothing changes,  *)
(* then what FindFree has placed.  The heap reaches to the end of its      *)
(* reserve, which it never outgrows; its extent may reach further.         *)
First == Len(BootSections) + 1

Reach(list, h, i) ==
    IF i = h THEN list[i].Base + list[i].ExpandUp + list[i].UpperPadding
    ELSE Limit(list[i])

ApartAt(list, h, i, j) ==
    HasExtent(list[i]) /\ HasExtent(list[j]) =>
        \/ Reach(list, h, i) <= Lower(list[j])
        \/ Reach(list, h, j) <= Lower(list[i])

PlacedOK(s, isHeap, isStack) ==
    /\ "Bits" \notin s.Flags /\ "KernelSection" \in s.Flags
    /\ "AutoExpand" \in s.Flags => isStack
    /\ ~ isHeap => Limit(s) <= KernelEnd + 1
    /\ isHeap \/ isStack => s.UpperPadding = PageSize /\ Aligned(Lower(s))

ListOK(list, h, st) ==
    /\ list \in Seq(Section) /\ First <= Len(list)
    /\ h = 0 \/ h \in First + 1 .. Len(list)
    /\ st \subseteq First + 1 .. Len(list)
    /\ \A i \in 1 .. First : InKernelOrBelow(list[i])
    /\ \A i \in First + 1 .. Len(list) : PlacedOK(list[i], i = h, i \in st)
    /\ \A i \in First + 1 .. Len(list) : \A j \in 1 .. Len(list) \ {i} : ApartAt(list, h, i, j)

(* CheckExtents has failed for no section in use but those that were       *)
(* loaded: the heap, whose extent grows twice as fast as the heap, has not *)
(* grown out of the kernel's space, and no stack ends with its last byte.  *)
ExtentsKept ==
    \A i \in {heap} \cup stacks : i # 0 => HasExtent(KernelSections[i])

LEMMA FirstNat == First \in Nat /\ First > 0 /\ Len(BootSections) \in Nat
BY AddressSpaceAssumption DEF First

LEMMA OrdinaryIf ==
  ASSUME NEW list, NEW h, NEW st, ListOK(list, h, st), h # 0 => HasExtent(list[h])
  PROVE  OrdinaryList(list)
<1>1. list \in Seq(Section) /\ Len(list) \in Nat
  BY DEF ListOK
<1>2. ASSUME NEW i \in 1 .. Len(list) PROVE Limit(list[i]) <= KernelEnd + 1
  <2>1. list[i] \in Section /\ Limit(list[i]) \in Nat
    BY <1>1, SectionFields
  <2>2. CASE i \in 1 .. First
    <3>1. InKernelOrBelow(list[i])
      BY <2>2 DEF ListOK
    <3>2. list[i].ExpandUp = 0 /\ list[i].UpperPadding = 0
      BY <3>1 DEF InKernelOrBelow, Loaded
    <3>3. list[i].Base + list[i].Length <= KernelStart \/ list[i].Base + list[i].Length <= KernelEnd
      BY <3>1 DEF InKernelOrBelow
    <3>4. list[i].Base \in Nat /\ list[i].Length \in Nat
      BY <2>1, SectionFields
    <3>. QED BY <3>2, <3>3, <3>4, Bounds DEF Limit
  <2>3. CASE i \in First + 1 .. Len(list) /\ i # h
    BY <2>3 DEF ListOK, PlacedOK
  <2>4. CASE i = h
    <3>1. HasExtent(list[i])
      BY <1>1, <2>4
    <3>2. Limit(list[i]) <= RangeMax(list[i])
      BY <3>1 DEF HasExtent
    <3>3. RangeMax(list[i]) = KernelEnd
      <4>1. i \in First + 1 .. Len(list)
        BY <1>1, <2>4, FirstNat DEF ListOK
      <4>2. PlacedOK(list[i], i = h, i \in st)
        BY <4>1 DEF ListOK
      <4>. QED BY <4>2 DEF PlacedOK, RangeMax
    <3>. QED BY <2>1, <3>2, <3>3, Bounds
  <2>. QED BY <1>1, <2>2, <2>3, <2>4, FirstNat
<1>. QED BY <1>1, <1>2 DEF OrdinaryList

LEMMA ReachIs ==
  ASSUME NEW list \in Seq(Section), NEW h, NEW i \in 1 .. Len(list)
  PROVE  /\ Reach(list, h, i) \in Nat /\ Reach(list, h, i) <= Limit(list[i])
         /\ Limit(list[i]) \in Nat /\ Lower(list[i]) \in Int
         /\ list[i].Length = 0 => Reach(list, h, i) = Limit(list[i])
<1>1. list[i] \in Section
  OBVIOUS
<1>. DEFINE s == list[i]
<1>2. s.Base \in Nat /\ s.Length \in Nat /\ s.ExpandUp \in Nat /\ s.UpperPadding \in Nat
      /\ Lower(s) \in Int /\ Limit(s) \in Nat
  BY <1>1, SectionFields
<1>. HIDE DEF s
<1>3. Reach(list, h, i) = s.Base + s.ExpandUp + s.UpperPadding \/ Reach(list, h, i) = Limit(s)
  BY DEF Reach, s
<1>4. Limit(s) = s.Base + s.Length + s.ExpandUp + s.UpperPadding
  BY DEF Limit
<1>5. /\ Reach(list, h, i) \in Nat /\ Reach(list, h, i) <= Limit(s)
      /\ s.Length = 0 => Reach(list, h, i) = Limit(s)
  <2>1. CASE Reach(list, h, i) = Limit(s)
    BY <1>2, <2>1
  <2>2. CASE Reach(list, h, i) = s.Base + s.ExpandUp + s.UpperPadding
    <3>. DEFINE R == s.Base + s.ExpandUp + s.UpperPadding
    <3>1. /\ R \in Nat /\ R <= s.Base + s.Length + s.ExpandUp + s.UpperPadding
          /\ s.Length = 0 => R = s.Base + s.Length + s.ExpandUp + s.UpperPadding
      <4>. DEFINE b == s.Base
                  l == s.Length
                  u == s.ExpandUp
                  p == s.UpperPadding
      <4>1. b \in Nat /\ l \in Nat /\ u \in Nat /\ p \in Nat
        BY <1>2
      <4>. HIDE DEF b, l, u, p
      <4>2. /\ b + u + p \in Nat /\ b + u + p <= b + l + u + p
            /\ l = 0 => b + u + p = b + l + u + p
        BY <4>1
      <4>. QED BY <4>2 DEF b, l, u, p
    <3>. HIDE DEF R
    <3>2. Reach(list, h, i) = R
      BY <2>2 DEF R
    <3>. QED BY <1>4, <3>1, <3>2
  <2>. QED BY <1>3, <2>1, <2>2
<1>. QED BY <1>2, <1>5 DEF s

LEMMA ReachHolds ==
  ASSUME NEW list \in Seq(Section), NEW h, NEW i \in 1 .. Len(list),
         i = h => list[i].Length <= list[i].ExpandUp
  PROVE  /\ list[i].Base + list[i].Length + list[i].UpperPadding <= Reach(list, h, i)
         /\ Lower(list[i]) <= list[i].Base
<1>1. list[i] \in Section
  OBVIOUS
<1>. DEFINE s == list[i]
<1>2. s.Base \in Nat /\ s.Length \in Nat /\ s.ExpandUp \in Nat /\ s.UpperPadding \in Nat
      /\ s.ExpandDown \in Nat /\ s.LowerPadding \in Nat
  BY <1>1, SectionFields
<1>3. Reach(list, h, i) = IF i = h THEN s.Base + s.ExpandUp + s.UpperPadding
                          ELSE s.Base + s.Length + s.ExpandUp + s.UpperPadding
  BY DEF Reach, Limit
<1>4. i = h => s.Length <= s.ExpandUp
  OBVIOUS
<1>. HIDE DEF s
<1>5. Lower(s) <= s.Base
  <2>1. \A b, e, p \in Nat : b - e - p <= b
    OBVIOUS
  <2>. QED BY <1>2, <2>1 DEF Lower
<1>6. s.Base + s.Length + s.UpperPadding <= Reach(list, h, i)
  <2>. DEFINE b == s.Base
              l == s.Length
              u == s.ExpandUp
              p == s.UpperPadding
  <2>1. b \in Nat /\ l \in Nat /\ u \in Nat /\ p \in Nat /\ (i = h => l <= u)
        /\ Reach(list, h, i) = IF i = h THEN b + u + p ELSE b + l + u + p
    BY <1>2, <1>3, <1>4
  <2>. HIDE DEF b, l, u, p
  <2>2. b + l + p <= b + l + u + p /\ (l <= u => b + l + p <= b + u + p)
    BY <2>1
  <2>3. b + l + p <= Reach(list, h, i)
    BY <2>1, <2>2
  <2>. QED BY <2>3 DEF b, l, u, p
<1>. QED BY <1>5, <1>6 DEF s

(* A section that FindFree places keeps the list in order: as what it is,  *)
(* as the heap, or as a stack.                                             *)
LEMMA AppendOK ==
  ASSUME NEW list, NEW h, NEW st, ListOK(list, h, st), h # 0 => HasExtent(list[h]),
         NEW r, Request(r), "Bits" \notin r.Flags,
         NEW s \in FindFree(list, r), NEW new, new = Append(list, s),
         NEW h2, h2 = h \/ (h = 0 /\ h2 = Len(list) + 1 /\ r.Length = 0),
         NEW st2, st2 = st \/ st2 = st \cup {Len(list) + 1},
         "AutoExpand" \in r.Flags => Len(list) + 1 \in st2,
         r.UpperPadding = PageSize \/ (h2 = h /\ st2 = st)
  PROVE  ListOK(new, h2, st2)
<1>. DEFINE n == Len(list) + 1
<1>1. list \in Seq(Section) /\ Len(list) \in Nat /\ First <= Len(list)
  BY DEF ListOK
<1>2. OrdinaryList(list)
  BY OrdinaryIf
<1>3. /\ s \in Section /\ Lower(s) \in Nat /\ Aligned(Lower(s)) /\ Limit(s) <= KernelEnd + 1
      /\ \A j \in 1 .. Len(list) : Apart(Lower(s), Limit(s), list[j])
  BY <1>2, FindFreeSound
<1>4. s.Flags = r.Flags /\ s.Length = r.Length /\ s.UpperPadding = r.UpperPadding
  BY <1>1, FindFreeType DEF Request
<1>5. /\ new \in Seq(Section) /\ Len(new) = n /\ new[n] = s
      /\ \A j \in 1 .. Len(list) : new[j] = list[j]
  BY <1>1, <1>3, Appended
<1>6. h = 0 \/ h \in First + 1 .. Len(list)
  BY DEF ListOK
<1>7. st \subseteq First + 1 .. Len(list)
  BY DEF ListOK
<1>8. \A j \in 1 .. Len(list) : (j = h2 <=> j = h) /\ (j \in st2 <=> j \in st)
  BY <1>1, <1>6, FirstNat
<1>9. n = h2 => h = 0 /\ r.Length = 0
  BY <1>1, <1>6, FirstNat
<1>10. n \in st2 => st2 # st
  BY <1>1, <1>7
<1>11. First <= Len(new) /\ (h2 = 0 \/ h2 \in First + 1 .. Len(new))
  BY <1>1, <1>5, <1>6, FirstNat
<1>12. st2 \subseteq First + 1 .. Len(new)
  <2>1. n \in First + 1 .. Len(new) /\ First + 1 .. Len(list) \subseteq First + 1 .. Len(new)
    BY <1>1, <1>5, FirstNat
  <2>. QED BY <1>7, <2>1
<1>13. ASSUME NEW i \in 1 .. First PROVE InKernelOrBelow(new[i])
  <2>1. i \in 1 .. Len(list)
    BY <1>1, FirstNat
  <2>2. InKernelOrBelow(list[i])
    BY DEF ListOK
  <2>. QED BY <1>5, <2>1, <2>2
<1>14. ASSUME NEW i \in First + 1 .. Len(new) PROVE PlacedOK(new[i], i = h2, i \in st2)
  <2>1. CASE i \in 1 .. Len(list)
    <3>1. PlacedOK(list[i], i = h, i \in st)
      BY <1>1, <2>1, FirstNat DEF ListOK
    <3>2. new[i] = list[i] /\ (i = h2) = (i = h) /\ (i \in st2) = (i \in st)
      BY <1>5, <1>8, <2>1
    <3>. QED BY <3>1, <3>2
  <2>2. CASE i = n
    <3>1. PlacedOK(s, n = h2, n \in st2)
      <4>1. "KernelSection" \in s.Flags /\ "Bits" \notin s.Flags
            /\ ("AutoExpand" \in s.Flags => n \in st2)
        BY <1>4 DEF Request
      <4>2. n = h2 \/ n \in st2 => s.UpperPadding = PageSize
        BY <1>1, <1>4, <1>6, <1>9, <1>10, FirstNat
      <4>. QED BY <1>3, <4>1, <4>2 DEF PlacedOK
    <3>. QED BY <1>5, <2>2, <3>1
  <2>. QED BY <1>1, <1>5, <2>1, <2>2, FirstNat
<1>15. ASSUME NEW j \in 1 .. Len(list) PROVE Reach(new, h2, j) = Reach(list, h, j)
  BY <1>5, <1>8 DEF Reach
<1>16. Reach(new, h2, n) = Limit(s)
  <2>1. CASE n = h2
    <3>1. n \in 1 .. Len(new) /\ new[n].Length = 0
      BY <1>1, <1>4, <1>5, <1>9, <2>1
    <3>2. \A i \in 1 .. Len(new) : new[i].Length = 0 => Reach(new, h2, i) = Limit(new[i])
      <4>1. TAKE i \in 1 .. Len(new)
      <4>2. new \in Seq(Section)
        BY <1>5
      <4>. QED BY ONLY <4>2, i \in 1 .. Len(new), ReachIs
    <3>. HIDE DEF n
    <3>. QED BY <1>5, <3>1, <3>2
  <2>2. CASE n # h2
    BY <1>5, <2>2 DEF Reach
  <2>. QED BY <2>1, <2>2
<1>17. ASSUME NEW j \in 1 .. Len(list)
       PROVE  ApartAt(new, h2, n, j) /\ ApartAt(new, h2, j, n)
  <2>1. SUFFICES ASSUME HasExtent(list[j])
                 PROVE  Limit(s) <= Lower(list[j]) \/ Reach(list, h, j) <= Lower(s)
    BY <1>5, <1>15, <1>16 DEF ApartAt
  <2>2. Limit(s) <= Lower(list[j]) \/ Limit(list[j]) <= Lower(s)
    BY <1>3, <2>1 DEF Apart
  <2>3. Reach(list, h, j) <= Limit(list[j]) /\ Reach(list, h, j) \in Nat /\ Limit(list[j]) \in Nat
    BY <1>1, ReachIs
  <2>. QED BY <1>3, <2>2, <2>3
<1>18. ASSUME NEW i \in First + 1 .. Len(new), NEW j \in 1 .. Len(new) \ {i}
       PROVE  ApartAt(new, h2, i, j)
  <2>1. CASE i \in 1 .. Len(list) /\ j \in 1 .. Len(list)
    <3>1. i \in First + 1 .. Len(list) /\ j \in 1 .. Len(list) \ {i}
      BY <1>1, <2>1, FirstNat
    <3>2. ApartAt(list, h, i, j)
      BY <3>1 DEF ListOK
    <3>. QED BY <1>5, <1>15, <2>1, <3>2 DEF ApartAt
  <2>2. (i = n \/ i \in 1 .. Len(list)) /\ (j = n \/ j \in 1 .. Len(list)) /\ i # j
    BY <1>1, <1>5, FirstNat
  <2>. HIDE DEF n
  <2>. QED BY <1>17, <2>1, <2>2
<1>. QED BY <1>5, <1>11, <1>12, <1>13, <1>14, <1>18 DEF ListOK

LEMMA RequestsOrdinary ==
  /\ Request(TempSection) /\ Request(StackRequest(0))
  /\ \A source \in Junk : Request(StackRequest(source))
  /\ \A size \in 0 .. KernelEnd : Request(HeapRequest(size))
  /\ Request(HeapRequest(3 * PageSize)) /\ Request(HeapRequest(7 * PageSize))
<1>1. 0 \in Address /\ 3 * PageSize \in Address /\ 7 * PageSize \in Address
      /\ 0 .. KernelEnd \subseteq Address
  BY Bounds DEF Address
<1>2. /\ TempSection \in Section
      /\ \A source \in Junk \cup {0} : StackRequest(source) \in Section
      /\ \A size \in Address : HeapRequest(size) \in Section
  <2>1. \A source \in Junk \cup {0} : StackRequest(source) \in Section
    <3>1. Junk \cup {0} \subseteq Address /\ StackSize \in Address /\ PageSize \in Address
      BY <1>1, Bounds, AddressSpaceAssumption DEF Address
    <3>2. {"Defined", "AutoExpand", "KernelSection"} \in SUBSET SectionFlags
      BY DEF SectionFlags
    <3>. QED BY <1>1, <3>1, <3>2 DEF StackRequest, Section
  <2>. QED BY <2>1, Requests
<1>3. Request(TempSection)
  <2>1. Sum(TempSection) = PageSize
    BY Bounds DEF Sum, TempSection
  <2>2. {"Defined", "KernelSection"} \subseteq TempSection.Flags
    BY DEF TempSection
  <2>. QED BY <1>2, <2>1, <2>2, Bounds DEF Request
<1>4. ASSUME NEW source \in Junk \cup {0} PROVE Request(StackRequest(source))
  <2>1. Sum(StackRequest(source)) = StackSize + 3 * PageSize
    BY Bounds DEF Sum, StackRequest
  <2>2. {"Defined", "KernelSection"} \subseteq StackRequest(source).Flags
    BY DEF StackRequest
  <2>. QED BY <1>2, <2>1, <2>2, Bounds DEF Request
<1>5. ASSUME NEW size \in Address, KernelEnd + 1 + 3 * PageSize + size <= Word
      PROVE  Request(HeapRequest(size))
  <2>1. Sum(HeapRequest(size)) = size + 2 * PageSize
    BY Bounds DEF Sum, HeapRequest, Address
  <2>2. {"Defined", "KernelSection"} \subseteq HeapRequest(size).Flags
    BY DEF HeapRequest
  <2>3. size \in Nat
    BY Bounds DEF Address
  <2>. QED BY <1>2, <1>5, <2>1, <2>2, <2>3, Bounds DEF Request
<1>6. ASSUME NEW size \in 0 .. KernelEnd PROVE Request(HeapRequest(size))
  <2>1. size \in Address /\ KernelEnd + 1 + 3 * PageSize + size <= Word
    BY <1>1, Bounds
  <2>. QED BY <1>5, <2>1
<1>7. Request(HeapRequest(3 * PageSize)) /\ Request(HeapRequest(7 * PageSize))
  <2>1. /\ KernelEnd + 1 + 3 * PageSize + 3 * PageSize <= Word
        /\ KernelEnd + 1 + 3 * PageSize + 7 * PageSize <= Word
    BY Bounds
  <2>. QED BY <1>1, <1>5, <2>1
<1>. QED BY <1>3, <1>4, <1>6, <1>7

(* After boot the list is in order.                                        *)
LEMMA InitListOK == Init => ListOK(KernelSections, heap, stacks)
<1>. SUFFICES ASSUME Init PROVE ListOK(KernelSections, 0, {})
  BY DEF Init
<1>. DEFINE l0 == Append(BootSections, PtsSection)
            L0 == {l0}
            L1 == With(L0, TempSection)
            L2 == With(L1, TempSection)
            L3 == With(L2, TempSection)
<1>1. ListOK(l0, 0, {})
  <2>1. BootSections \in Seq(Section) /\ PtsSection \in Section /\ InKernelOrBelow(PtsSection)
    BY AddressSpaceAssumption, Requests DEF PtsSection
  <2>2. /\ l0 \in Seq(Section) /\ Len(l0) = First /\ l0[First] = PtsSection
        /\ \A j \in 1 .. Len(BootSections) : l0[j] = BootSections[j]
    BY <2>1, Appended DEF First
  <2>3. \A i \in 1 .. First : i \in 1 .. Len(BootSections) \/ i = First
    BY FirstNat DEF First
  <2>4. \A i \in 1 .. First : InKernelOrBelow(l0[i])
    BY <2>1, <2>2, <2>3, AddressSpaceAssumption
  <2>5. First + 1 .. Len(l0) = {}
    BY <2>2, FirstNat
  <2>6. First <= Len(l0)
    BY <2>2, FirstNat
  <2>. HIDE DEF l0
  <2>. QED BY <2>2, <2>4, <2>5, <2>6 DEF ListOK
<1>2. ASSUME NEW lists, \A l \in lists : ListOK(l, 0, {}), NEW l \in With(lists, TempSection)
      PROVE  ListOK(l, 0, {})
  <2>1. PICK k \in lists : l \in {Append(k, s) : s \in FindFree(k, TempSection)}
    BY DEF With
  <2>2. PICK s \in FindFree(k, TempSection) : l = Append(k, s)
    BY <2>1
  <2>3. ListOK(k, 0, {})
    BY <1>2
  <2>4. "Bits" \notin TempSection.Flags /\ "AutoExpand" \notin TempSection.Flags
    BY DEF TempSection
  <2>5. Request(TempSection)
    BY RequestsOrdinary
  <2>. QED BY <2>2, <2>3, <2>4, <2>5, AppendOK
<1>3. KernelSections \in L3
  BY DEF Init, AfterTemps
<1>. HIDE DEF l0
<1>4. \A l \in L0 : ListOK(l, 0, {})
  BY <1>1
<1>. HIDE DEF L0
<1>5. \A l \in L1 : ListOK(l, 0, {})
  BY <1>2, <1>4
<1>. HIDE DEF L1
<1>6. \A l \in L2 : ListOK(l, 0, {})
  BY <1>2, <1>5
<1>. HIDE DEF L2
<1>. QED BY <1>2, <1>3, <1>6

(* A change of the length of the heap leaves the list in order.            *)
LEMMA HeapLengthOK ==
  ASSUME NEW list, NEW h, NEW st, ListOK(list, h, st), h # 0,
         HasExtent(list[h]) \/ list[h].Length = 0,
         NEW s \in Section, s = [list[h] EXCEPT !.Length = s.Length],
         NEW new, new = [list EXCEPT ![h] = s]
  PROVE  ListOK(new, h, st)
<1>1. list \in Seq(Section) /\ Len(list) \in Nat /\ First <= Len(list)
      /\ h \in First + 1 .. Len(list) /\ h \in 1 .. Len(list)
  BY FirstNat DEF ListOK
<1>2. /\ new \in Seq(Section) /\ Len(new) = Len(list) /\ new[h] = s
      /\ \A j \in 1 .. Len(list) : j # h => new[j] = list[j]
  BY <1>1, Replaced
<1>3. list[h] \in Section
  BY <1>1
<1>4. /\ s.Flags = list[h].Flags /\ s.Base = list[h].Base /\ s.ExpandUp = list[h].ExpandUp
      /\ s.ExpandDown = list[h].ExpandDown /\ s.LowerPadding = list[h].LowerPadding
      /\ s.UpperPadding = list[h].UpperPadding
  BY <1>3 DEF Section
<1>5. Lower(s) = Lower(list[h]) /\ Reach(new, h, h) = Reach(list, h, h)
  BY <1>2, <1>4 DEF Lower, Reach
<1>6. PlacedOK(list[h], TRUE, h \in st)
  <2>1. PlacedOK(list[h], h = h, h \in st)
    BY <1>1 DEF ListOK
  <2>. QED BY <2>1
<1>7. PlacedOK(s, TRUE, h \in st)
  BY <1>4, <1>5, <1>6 DEF PlacedOK
<1>8. HasExtent(s) => HasExtent(list[h])
  <2>1. SUFFICES ASSUME list[h].Length = 0, HasExtent(s) PROVE HasExtent(list[h])
    OBVIOUS
  <2>2. /\ "Defined" \in list[h].Flags
        /\ RangeMin(list[h]) = RangeMin(s) /\ RangeMax(list[h]) = RangeMax(s)
    BY <1>4, <2>1 DEF HasExtent, RangeMin, RangeMax
  <2>3. Limit(list[h]) <= Limit(s) /\ Limit(s) \in Nat /\ Limit(list[h]) \in Nat
    BY <1>3, <1>4, <2>1, SectionFields DEF Limit
  <2>4. Lower(list[h]) < Limit(list[h])
    <3>1. list[h].UpperPadding = PageSize
      BY <1>6 DEF PlacedOK
    <3>2. Lower(list[h]) + PageSize <= Limit(list[h])
      BY <1>3, <3>1, SectionFields DEF Lower, Limit
    <3>. QED BY <1>3, <2>3, <3>2, SectionFields, Bounds
  <2>5. RangeMax(s) \in Nat
    BY Bounds, SectionsAssumption DEF RangeMax, Address
  <2>6. RangeMin(s) <= Lower(s) /\ Limit(s) <= RangeMax(s)
    BY <2>1 DEF HasExtent
  <2>7. RangeMin(list[h]) <= Lower(list[h])
    BY <1>5, <2>2, <2>6
  <2>8. Limit(list[h]) <= RangeMax(list[h])
    BY <2>2, <2>3, <2>5, <2>6
  <2>. QED BY <2>2, <2>4, <2>7, <2>8 DEF HasExtent
<1>9. ASSUME NEW j \in 1 .. Len(list)
      PROVE  /\ HasExtent(new[j]) => HasExtent(list[j])
             /\ Lower(new[j]) = Lower(list[j]) /\ Reach(new, h, j) = Reach(list, h, j)
  <2>1. CASE j = h
    BY <1>2, <1>5, <1>8, <2>1
  <2>2. CASE j # h
    BY <1>2, <2>2 DEF Reach
  <2>. QED BY <2>1, <2>2
<1>10. ASSUME NEW i \in First + 1 .. Len(list), NEW j \in 1 .. Len(list) \ {i}
       PROVE  ApartAt(new, h, i, j)
  <2>1. ApartAt(list, h, i, j)
    BY DEF ListOK
  <2>2. i \in 1 .. Len(list)
    BY <1>1, FirstNat
  <2>. QED BY <1>9, <2>1, <2>2 DEF ApartAt
<1>11. ASSUME NEW i \in First + 1 .. Len(list) PROVE PlacedOK(new[i], i = h, i \in st)
  <2>1. CASE i = h
    BY <1>2, <1>7, <2>1
  <2>2. CASE i # h
    <3>1. PlacedOK(list[i], i = h, i \in st)
      BY DEF ListOK
    <3>2. new[i] = list[i]
      BY <1>1, <1>2, <2>2, FirstNat
    <3>. QED BY <3>1, <3>2
  <2>. QED BY <2>1, <2>2
<1>12. ASSUME NEW i \in 1 .. First PROVE InKernelOrBelow(new[i])
  <2>1. InKernelOrBelow(list[i])
    BY DEF ListOK
  <2>2. new[i] = list[i]
    BY <1>1, <1>2, FirstNat
  <2>. QED BY <2>1, <2>2
<1>13. st \subseteq First + 1 .. Len(list)
  BY DEF ListOK
<1>. QED BY <1>1, <1>2, <1>10, <1>11, <1>12, <1>13 DEF ListOK

LEMMA EqualPoint ==
  ASSUME NEW x \in Int, NEW low \in Int, NEW top \in Int, low <= top
  PROVE  Equal([Lower |-> x, Upper |-> x], [Lower |-> low, Upper |-> top])
             <=> low <= x /\ x <= top
BY DEF Equal, EqualByEnds

(* The section of which a byte belongs to two of the list, one of them     *)
(* placed, is the same.                                                    *)
LEMMA HolderUnique ==
  ASSUME NEW list, NEW h, NEW st, ListOK(list, h, st),
         h # 0 => list[h].Length <= list[h].ExpandUp,
         NEW i \in 1 .. Len(list), NEW j \in 1 .. Len(list),
         i \in First + 1 .. Len(list) \/ j \in First + 1 .. Len(list),
         NEW a \in Nat, Holds(list[i], a), HasExtent(list[i]), Matches(list[j], a),
         j = h => Holds(list[j], a)
  PROVE  i = j
<1>1. SUFFICES ASSUME i # j PROVE FALSE
  OBVIOUS
<1>2. list \in Seq(Section) /\ list[i] \in Section /\ list[j] \in Section
  BY DEF ListOK
<1>3. ApartAt(list, h, i, j) \/ ApartAt(list, h, j, i)
  BY <1>1 DEF ListOK
<1>4. Reach(list, h, i) <= Lower(list[j]) \/ Reach(list, h, j) <= Lower(list[i])
  BY <1>3 DEF ApartAt, Matches
<1>5. ASSUME NEW k \in 1 .. Len(list), Holds(list[k], a)
      PROVE  Lower(list[k]) <= a /\ a < Reach(list, h, k)
  <2>. DEFINE s == list[k]
  <2>1. s \in Section
    BY <1>2
  <2>2. /\ s.Base \in Nat /\ s.Length \in Nat /\ s.ExpandUp \in Nat /\ s.UpperPadding \in Nat
        /\ s.ExpandDown \in Nat /\ s.LowerPadding \in Nat
    BY <2>1, SectionFields
  <2>3. s.Base <= a /\ a < s.Base + s.Length
    BY <1>5 DEF Holds
  <2>4. k = h => s.Length <= s.ExpandUp
    BY FirstNat, <1>2
  <2>5. Lower(s) <= s.Base /\ s.Base + s.Length + s.UpperPadding <= Reach(list, h, k)
    BY <1>2, <2>4, ReachHolds
  <2>6. Lower(s) \in Int /\ Reach(list, h, k) \in Nat
    BY <1>2, ReachIs
  <2>. HIDE DEF s
  <2>7. Lower(s) <= a
    BY <2>2, <2>3, <2>5, <2>6
  <2>8. a < Reach(list, h, k)
    BY <2>2, <2>3, <2>5, <2>6
  <2>. QED BY <2>7, <2>8 DEF s
<1>6. Lower(list[j]) <= a /\ a < Reach(list, h, j)
  <2>1. CASE j = h
    BY <1>5, <2>1
  <2>2. CASE j # h
    <3>. DEFINE low == Lower(list[j])
                top == Limit(list[j]) - 1
    <3>1. Equal([Lower |-> a, Upper |-> a], [Lower |-> low, Upper |-> top])
      BY DEF Matches, Extent
    <3>2. low \in Int /\ top \in Int /\ low <= top
      <4>1. Lower(list[j]) \in Int /\ Limit(list[j]) \in Int
        <5>1. list[j] \in Section
          BY <1>2
        <5>. HIDE DEF low, top
        <5>. QED BY ONLY <5>1, SectionFields
      <4>2. Lower(list[j]) < Limit(list[j])
        BY DEF Matches, HasExtent
      <4>. QED BY ONLY <4>1, <4>2
    <3>3. Reach(list, h, j) = top + 1
      <4>1. Reach(list, h, j) = Limit(list[j]) /\ Limit(list[j]) \in Nat
        BY <1>2, <2>2, SectionFields DEF Reach
      <4>. QED BY ONLY <4>1
    <3>. HIDE DEF low, top
    <3>4. low <= a /\ a <= top
      BY <3>1, <3>2, EqualPoint
    <3>. QED BY <3>2, <3>3, <3>4 DEF low
  <2>. QED BY <2>1, <2>2
<1>7. Lower(list[i]) <= a /\ a < Reach(list, h, i)
  BY <1>5
<1>8. /\ Lower(list[i]) \in Int /\ Lower(list[j]) \in Int
      /\ Reach(list, h, i) \in Int /\ Reach(list, h, j) \in Int
  BY <1>2, ReachIs
<1>. QED BY <1>4, <1>6, <1>7, <1>8

LEMMA ExpandedHeld ==
  ASSUME NEW s \in Section, NEW a \in Nat, Holds(s, a)
  PROVE  Expanded(s, a) = s
<1>1. s.Base \in Nat /\ s.Length \in Nat /\ s.Base <= a /\ a < s.Base + s.Length
  BY SectionFields DEF Holds
<1>2. ExpandedDown(s, a) = s
  BY <1>1 DEF ExpandedDown
<1>3. ExpandedUp(s, a) = s
  BY <1>1 DEF ExpandedUp
<1>. QED BY <1>2, <1>3 DEF Expanded

(* A loaded section that holds an address of the kernel's space lies in    *)
(* it, and before its last byte.                                           *)
LEMMA LoadedFields ==
  ASSUME NEW s, InKernelOrBelow(s)
  PROVE  /\ s \in Section /\ s.Base \in Nat /\ s.Length \in Nat
         /\ Lower(s) = s.Base /\ Limit(s) = s.Base + s.Length /\ s.MemSource = s.Base
         /\ s.Flags = {"Defined", "Bits", "KernelSection"}
         /\ s.Base + s.Length <= KernelEnd
         /\ s.Base + s.Length > KernelStart /\ s.Length > 0 => HasExtent(s)
<1>1. /\ s \in Section /\ s.Base \in Nat /\ s.Length \in Nat
      /\ \/ s.Base + s.Length <= KernelStart
         \/ KernelStart <= s.Base /\ s.Base + s.Length <= KernelEnd
  BY SectionFields DEF InKernelOrBelow
<1>2. /\ s.ExpandDown = 0 /\ s.ExpandUp = 0 /\ s.LowerPadding = 0 /\ s.UpperPadding = 0
      /\ s.MemSource = s.Base /\ s.Flags = {"Defined", "Bits", "KernelSection"}
  BY DEF InKernelOrBelow, Loaded
<1>3. Lower(s) = s.Base /\ Limit(s) = s.Base + s.Length
  BY <1>1, <1>2 DEF Lower, Limit
<1>4. RangeMin(s) = KernelStart /\ RangeMax(s) = KernelEnd
  BY <1>2 DEF RangeMin, RangeMax
<1>5. s.Base + s.Length <= KernelEnd
  BY <1>1, Bounds
<1>6. s.Base + s.Length > KernelStart /\ s.Length > 0 => HasExtent(s)
  BY <1>1, <1>2, <1>3, <1>4, Bounds DEF HasExtent
<1>. QED BY <1>1, <1>2, <1>3, <1>5, <1>6

ListInv == ListOK(KernelSections, heap, stacks)

(* A fault at memory in use is resolved by the section that holds it, and  *)
(* expands nothing.                                                        *)
LEMMA TouchKeeps ==
  ASSUME TypeInv, ListInv, ExtentsKept,
         NEW i \in InUse, NEW a \in KernelStart .. KernelEnd, Touch(i, a)
  PROVE  /\ KernelSections' = KernelSections /\ heap' = heap /\ stacks' = stacks
         /\ HasExtent(KernelSections[i]) /\ i \in 1 .. Len(KernelSections)
         /\ \/ pt' = pt
            \/ \E j \in 1 .. Len(KernelSections) :
                 /\ i = j \/ {i, j} \subseteq 1 .. First
                 /\ Holds(KernelSections[j], a)
                 /\ MapPage(a, RoundDown((a - KernelSections[j].Base
                                            + KernelSections[j].MemSource) % Word))
<1>. DEFINE list == KernelSections
<1>1. /\ heap' = heap /\ stacks' = stacks /\ i # 0 /\ Holds(list[i], a)
      /\ \/ \E j \in 1 .. Len(list) : \E s \in Section :
                 /\ j \in Found(list, a)
                 /\ s = Expanded(list[j], a)
                 /\ list' = [list EXCEPT ![j] = s]
                 /\ MapPage(a, RoundDown((a - s.Base + s.MemSource) % Word))
         \/ list' = list /\ pt' = pt
  BY TouchIs
<1>2. /\ list \in Seq(Section) /\ Len(list) \in Nat /\ First <= Len(list)
      /\ ListOK(list, heap, stacks)
      /\ heap = 0 \/ heap \in First + 1 .. Len(list)
      /\ stacks \subseteq First + 1 .. Len(list)
  BY DEF ListInv, ListOK
<1>3. a \in Nat /\ a \in 0 .. KernelEnd /\ KernelStart <= a
  BY Bounds
<1>4. \A k \in 1 .. First : InKernelOrBelow(list[k])
  BY <1>2 DEF ListOK
<1>5. i \in 1 .. First \/ (i \in First + 1 .. Len(list) /\ i \in {heap} \cup stacks)
  BY <1>1, <1>2, FirstNat DEF InUse, First
<1>6. i \in 1 .. Len(list)
  BY <1>2, <1>5, FirstNat
<1>. HIDE DEF list
<1>7. HasExtent(list[i])
  <2>1. CASE i \in 1 .. First
    <3>. DEFINE s == list[i]
    <3>1. InKernelOrBelow(s)
      BY <1>4, <2>1
    <3>2. s.Base <= a /\ a < s.Base + s.Length
      BY <1>1 DEF Holds
    <3>. HIDE DEF s
    <3>3. s.Base + s.Length > KernelStart /\ s.Length > 0
      BY <1>3, <3>1, <3>2, LoadedFields, Bounds
    <3>4. HasExtent(s)
      BY <3>1, <3>3, LoadedFields
    <3>. QED BY <3>4 DEF s
  <2>2. CASE i \in {heap} \cup stacks
    BY <1>1, <2>2 DEF ExtentsKept, list
  <2>. QED BY <1>5, <2>1, <2>2
<1>8. CASE list' = list /\ pt' = pt
  BY <1>1, <1>6, <1>7, <1>8 DEF list
<1>9. ASSUME NEW j \in 1 .. Len(list), NEW s \in Section, j \in Found(list, a),
             s = Expanded(list[j], a), list' = [list EXCEPT ![j] = s],
             MapPage(a, RoundDown((a - s.Base + s.MemSource) % Word))
      PROVE  list' = list /\ s = list[j] /\ Holds(list[j], a)
             /\ (i = j \/ {i, j} \subseteq 1 .. First)
  <2>1. Matches(list[j], a) /\ (Expanded(list[j], a) # list[j] \/ Holds(list[j], a))
    BY <1>2, <1>9, FoundIs DEF Resolves
  <2>2. list[j] \in Section
    BY <1>2
  <2>3. "AutoExpand" \notin list[j].Flags => s = list[j] /\ Holds(list[j], a)
    BY <1>3, <1>9, <2>1, <2>2, ExpandedType
  <2>4. CASE i \in 1 .. First /\ j \in 1 .. First
    <3>1. InKernelOrBelow(list[j])
      BY <1>4, <2>4
    <3>2. list[j].Flags = {"Defined", "Bits", "KernelSection"}
      BY <3>1, LoadedFields
    <3>3. s = list[j] /\ Holds(list[j], a)
      BY <2>3, <3>2
    <3>. QED BY <1>2, <1>9, <2>4, <3>3
  <2>5. CASE i \in First + 1 .. Len(list) \/ j \in First + 1 .. Len(list)
    <3>1. heap # 0 => /\ "AutoExpand" \notin list[heap].Flags
                      /\ list[heap].Length <= list[heap].ExpandUp
      BY DEF TypeInv, HeapInv, list
    <3>2. j = heap => Holds(list[j], a)
      BY <1>2, <1>9, <2>3, <3>1, FirstNat
    <3>3. i = j
      BY <1>1, <1>2, <1>3, <1>6, <1>7, <2>1, <2>5, <3>1, <3>2, HolderUnique
    <3>4. s = list[j]
      BY <1>1, <1>3, <1>9, <2>2, <3>3, ExpandedHeld
    <3>. QED BY <1>1, <1>2, <1>9, <3>3, <3>4
  <2>. QED BY <1>2, <1>5, <2>4, <2>5, FirstNat
<1>10. CASE \E j \in 1 .. Len(list) : \E s \in Section :
                 /\ j \in Found(list, a)
                 /\ s = Expanded(list[j], a)
                 /\ list' = [list EXCEPT ![j] = s]
                 /\ MapPage(a, RoundDown((a - s.Base + s.MemSource) % Word))
  <2>1. PICK j \in 1 .. Len(list) : \E s \in Section :
                 /\ j \in Found(list, a)
                 /\ s = Expanded(list[j], a)
                 /\ list' = [list EXCEPT ![j] = s]
                 /\ MapPage(a, RoundDown((a - s.Base + s.MemSource) % Word))
    BY <1>10
  <2>2. PICK s \in Section :
                 /\ j \in Found(list, a)
                 /\ s = Expanded(list[j], a)
                 /\ list' = [list EXCEPT ![j] = s]
                 /\ MapPage(a, RoundDown((a - s.Base + s.MemSource) % Word))
    BY <2>1
  <2>3. /\ list' = list /\ s = list[j] /\ Holds(list[j], a)
        /\ i = j \/ {i, j} \subseteq 1 .. First
    BY <1>9, <2>2
  <2>. QED BY <1>1, <1>6, <1>7, <2>2, <2>3 DEF list
<1>. QED BY <1>1, <1>8, <1>10

LEMMA NextListInv == TypeInv /\ ListInv /\ ExtentsKept /\ [Next]_vars => ListInv'
<1>. SUFFICES ASSUME TypeInv, ListInv, ExtentsKept, [Next]_vars PROVE ListInv'
  OBVIOUS
<1>1. /\ ListOK(KernelSections, heap, stacks)
      /\ heap # 0 => HasExtent(KernelSections[heap])
      /\ KernelSections \in Seq(Section) /\ Len(KernelSections) \in Nat /\ TypeOK
  BY DEF ListInv, ExtentsKept, TypeInv, TypeOK
<1>2. ASSUME NEW d \in Increments, Sbrk(d) PROVE ListInv'
  <2>1. d \in Int /\ stacks' = stacks
    BY <1>2, AddressSpaceAssumption DEF Sbrk
  <2>2. PICK list \in Seq(Section) : \E s \in Section :
            /\ heap' \in 1 .. Len(list) /\ list \in WithHeap
            /\ KernelSections' = [list EXCEPT ![heap'] = s]
            /\ s = [list[heap'] EXCEPT !.Length = s.Length]
            /\ heap = 0 => heap' = Len(list)
            /\ heap # 0 => heap' = heap
    BY <1>2, <2>1, SbrkIs
  <2>3. PICK s \in Section :
            /\ heap' \in 1 .. Len(list) /\ list \in WithHeap
            /\ KernelSections' = [list EXCEPT ![heap'] = s]
            /\ s = [list[heap'] EXCEPT !.Length = s.Length]
            /\ heap = 0 => heap' = Len(list)
            /\ heap # 0 => heap' = heap
    BY <2>2
  <2>4. CASE heap # 0
    <3>1. list = KernelSections /\ heap' = heap
      BY <1>1, <2>3, <2>4, WithHeapIs
    <3>. QED BY <1>1, <2>1, <2>3, <2>4, <3>1, HeapLengthOK DEF ListInv
  <2>5. CASE heap = 0
    <3>1. PICK size \in HeapSizes : \E t \in FindFree(KernelSections, HeapRequest(size)) :
              t \in Section /\ list = Append(KernelSections, t) /\ t.Length = 0
      BY <1>1, <2>3, <2>5, WithHeapIs
    <3>2. PICK t \in FindFree(KernelSections, HeapRequest(size)) :
              t \in Section /\ list = Append(KernelSections, t) /\ t.Length = 0
      BY <3>1
    <3>. DEFINE r == HeapRequest(size)
    <3>3. Request(r)
      BY HeapSizesType, RequestsOrdinary
    <3>4. /\ "Bits" \notin r.Flags /\ "AutoExpand" \notin r.Flags
          /\ r.Length = 0 /\ r.UpperPadding = PageSize
      BY DEF HeapRequest
    <3>. HIDE DEF r
    <3>5. Len(list) = Len(KernelSections) + 1 /\ list[Len(list)] = t
      BY <1>1, <3>2, Appended
    <3>6. heap' = Len(KernelSections) + 1
      BY <2>3, <2>5, <3>5
    <3>7. ListOK(list, heap', stacks)
      BY <1>1, <2>5, <3>2, <3>3, <3>4, <3>6, AppendOK DEF r
    <3>8. list[heap'].Length = 0 /\ heap' # 0
      BY <1>1, <3>2, <3>5, <3>6
    <3>9. ListOK(KernelSections', heap', stacks)
      BY <2>3, <3>7, <3>8, HeapLengthOK
    <3>. QED BY <2>1, <3>9 DEF ListInv
  <2>. QED BY <2>4, <2>5
<1>3. ASSUME NEW source \in Junk, Create(source) PROVE ListInv'
  <2>. DEFINE r == StackRequest(source)
  <2>1. PICK s \in FindFree(KernelSections, r) : KernelSections' = Append(KernelSections, s)
    BY <1>3 DEF Create
  <2>2. heap' = heap /\ stacks' = stacks \cup {Len(KernelSections')}
    BY <1>3 DEF Create
  <2>3. Request(r)
    BY RequestsOrdinary
  <2>4. "Bits" \notin r.Flags /\ r.UpperPadding = PageSize
    BY DEF StackRequest
  <2>5. s \in Section
    BY <1>1, <2>1, FindFreeType, Requests
  <2>. HIDE DEF r
  <2>6. Len(KernelSections') = Len(KernelSections) + 1
    BY <1>1, <2>1, <2>5, Appended
  <2>7. ListOK(KernelSections', heap, stacks \cup {Len(KernelSections) + 1})
    BY <1>1, <2>1, <2>3, <2>4, AppendOK
  <2>. QED BY <2>2, <2>6, <2>7 DEF ListInv
<1>4. ASSUME NEW i \in InUse, NEW a \in KernelStart .. KernelEnd, Touch(i, a) PROVE ListInv'
  BY <1>1, <1>4, TouchKeeps DEF ListInv
<1>5. CASE UNCHANGED vars
  BY <1>1, <1>5 DEF vars, ListInv
<1>. QED BY <1>2, <1>3, <1>4, <1>5 DEF Next

(* As long as the heap and the stacks keep their extents, no memory of a   *)
(* placed section belongs to another section, however the heap grows and   *)
(* shrinks, whatever its first request left free, and whichever stacks     *)
(* have been created.                                                      *)
THEOREM LiveSectionsDisjoint == Spec /\ []ExtentsKept => []LiveDisjoint
<1>1. ASSUME TypeInv, ListInv PROVE LiveDisjoint
  <2>1. SUFFICES ASSUME NEW i \in Placed, NEW j \in 1 .. Len(KernelSections) \ {i},
                        HasExtent(KernelSections[i]), HasExtent(KernelSections[j])
                 PROVE  \/ KernelSections[i].Base + KernelSections[i].Length
                              <= KernelSections[j].Base
                        \/ KernelSections[j].Base + KernelSections[j].Length
                              <= KernelSections[i].Base
    BY DEF LiveDisjoint
  <2>2. /\ KernelSections \in Seq(Section) /\ Len(KernelSections) \in Nat
        /\ i \in 1 .. Len(KernelSections) /\ i \in First + 1 .. Len(KernelSections)
    BY <1>1, FirstNat DEF TypeInv, TypeOK, Placed, First
  <2>3. ApartAt(KernelSections, heap, i, j)
    BY <1>1, <2>2 DEF ListInv, ListOK
  <2>4. ASSUME NEW k \in 1 .. Len(KernelSections)
        PROVE  /\ KernelSections[k].Base + KernelSections[k].Length
                      <= Reach(KernelSections, heap, k)
               /\ Lower(KernelSections[k]) <= KernelSections[k].Base
               /\ Lower(KernelSections[k]) \in Int /\ Reach(KernelSections, heap, k) \in Int
               /\ KernelSections[k].Base \in Int /\ KernelSections[k].Length \in Int
    <3>. DEFINE s == KernelSections[k]
    <3>1. s \in Section
      BY <2>2
    <3>2. /\ s.Base \in Nat /\ s.Length \in Nat /\ s.ExpandUp \in Nat /\ s.UpperPadding \in Nat
          /\ s.ExpandDown \in Nat /\ s.LowerPadding \in Nat /\ Lower(s) \in Int
      BY <3>1, SectionFields
    <3>3. Lower(s) <= s.Base
      BY <3>2 DEF Lower
    <3>4. k = heap => s.Length <= s.ExpandUp
      BY <1>1, FirstNat, <2>2 DEF TypeInv, HeapInv
    <3>5. s.Base + s.Length <= Reach(KernelSections, heap, k)
      <4>1. s.Base + s.Length + s.UpperPadding <= Reach(KernelSections, heap, k)
        BY <2>2, <3>4, ReachHolds
      <4>2. Reach(KernelSections, heap, k) \in Nat
        BY <2>2, ReachIs
      <4>. HIDE DEF s
      <4>. QED BY <3>2, <4>1, <4>2
    <3>6. Reach(KernelSections, heap, k) \in Int
      BY <2>2, ReachIs
    <3>. QED BY <3>2, <3>3, <3>5, <3>6
  <2>5. \/ Reach(KernelSections, heap, i) <= Lower(KernelSections[j])
        \/ Reach(KernelSections, heap, j) <= Lower(KernelSections[i])
    BY <2>1, <2>3 DEF ApartAt
  <2>. DEFINE bi == KernelSections[i].Base
              li == KernelSections[i].Length
              bj == KernelSections[j].Base
              lj == KernelSections[j].Length
              ri == Reach(KernelSections, heap, i)
              rj == Reach(KernelSections, heap, j)
              wi == Lower(KernelSections[i])
              wj == Lower(KernelSections[j])
  <2>6. /\ bi + li <= ri /\ wi <= bi /\ bj + lj <= rj /\ wj <= bj
        /\ wi \in Int /\ ri \in Int /\ bi \in Int /\ li \in Int
        /\ wj \in Int /\ rj \in Int /\ bj \in Int /\ lj \in Int
    BY <2>2, <2>4
  <2>7. ri <= wj \/ rj <= wi
    BY <2>5
  <2>. HIDE DEF bi, li, bj, lj, ri, rj, wi, wj
  <2>8. bi + li <= bj \/ bj + lj <= bi
    BY <2>6, <2>7
  <2>. QED BY <2>8 DEF bi, li, bj, lj
<1>2. Init => ListInv
  BY InitListOK DEF ListInv
<1>. QED BY InitTypeInv, NextTypeInv, NextListInv, <1>1, <1>2, PTL DEF Spec

-----------------------------------------------------------------------------
(* The bytes of the kernel's space that no section takes, and where a      *)
(* request of a length would fit.                                          *)
FreeBytes == (KernelStart .. KernelEnd) \ Taken

RoomFor(length) ==
    {low \in FreeBytes : low % PageSize = 0 /\ low .. low + length - 1 \subseteq FreeBytes}

LEMMA TakenIs ==
  ASSUME NEW x \in Int
  PROVE  x \in Taken <=> \E j \in 1 .. Len(KernelSections) :
                            /\ HasExtent(KernelSections[j])
                            /\ x \in Lower(KernelSections[j]) .. Limit(KernelSections[j]) - 1
BY DEF Taken

LEMMA FindFreeExactFor ==
  ASSUME OrdinaryList(KernelSections), NEW r, Request(r)
  PROVE  /\ {Lower(s) : s \in FindFree(KernelSections, r)} \subseteq RoomFor(ExtentLength(r))
         /\ {Lower(s) : s \in FindFree(KernelSections, r)} = {}
                => RoomFor(ExtentLength(r)) = {}
<1>1. Sum(r) \in Nat /\ Sum(r) > 0 /\ Sum(r) < Word
  BY Bounds DEF Request
<1>2. ExtentLength(r) = Sum(r)
  <2>1. Sum(r) % Word = Sum(r)
    BY <1>1, WordSmall
  <2>. QED BY <2>1 DEF ExtentLength, Sum
<1>3. \A j \in 1 .. Len(KernelSections) :
         Lower(KernelSections[j]) \in Int /\ Limit(KernelSections[j]) \in Nat
  <2>1. TAKE j \in 1 .. Len(KernelSections)
  <2>2. KernelSections[j] \in Section
    BY DEF OrdinaryList
  <2>. QED BY <2>2, SectionFields
<1>4. ASSUME NEW s \in FindFree(KernelSections, r) PROVE Lower(s) \in RoomFor(Sum(r))
  <2>. DEFINE low == Lower(s)
  <2>1. /\ low \in Nat /\ Aligned(low) /\ KernelStart <= low
        /\ Limit(s) = low + Sum(r) /\ Limit(s) <= KernelEnd + 1
        /\ \A j \in 1 .. Len(KernelSections) : Apart(low, Limit(s), KernelSections[j])
    BY FindFreeSound
  <2>. HIDE DEF low
  <2>2. ASSUME NEW x \in low .. low + Sum(r) - 1 PROVE x \in FreeBytes
    <3>1. x \in Int /\ low <= x /\ x < low + Sum(r)
      BY <1>1, <2>1
    <3>2. x \in KernelStart .. KernelEnd
      BY <1>1, <2>1, <3>1, Bounds
    <3>3. ASSUME NEW j \in 1 .. Len(KernelSections), HasExtent(KernelSections[j]),
                 x \in Lower(KernelSections[j]) .. Limit(KernelSections[j]) - 1
          PROVE  FALSE
      <4>1. low + Sum(r) <= Lower(KernelSections[j]) \/ Limit(KernelSections[j]) <= low
        BY <2>1, <3>3 DEF Apart
      <4>2. Lower(KernelSections[j]) <= x /\ x < Limit(KernelSections[j])
        BY <1>3, <3>1, <3>3
      <4>. QED BY <1>1, <1>3, <2>1, <3>1, <4>1, <4>2
    <3>. QED BY <3>1, <3>2, <3>3, TakenIs DEF FreeBytes
  <2>3. low \in FreeBytes
    BY <1>1, <2>1, <2>2
  <2>4. low \in RoomFor(Sum(r))
    BY <2>1, <2>2, <2>3 DEF RoomFor, Aligned
  <2>. QED BY <2>4 DEF low
<1>5. ASSUME NEW low \in RoomFor(Sum(r)) PROVE FindFree(KernelSections, r) # {}
  <2>1. /\ low \in FreeBytes /\ Aligned(low)
        /\ low .. low + Sum(r) - 1 \subseteq FreeBytes
    BY DEF RoomFor, Aligned
  <2>2. low \in Nat /\ KernelStart <= low /\ low <= KernelEnd
    BY <2>1, Bounds DEF FreeBytes
  <2>3. low + Sum(r) <= KernelEnd + 1
    <3>1. low + Sum(r) - 1 \in FreeBytes
      BY <1>1, <2>1, <2>2
    <3>2. low + Sum(r) - 1 \in KernelStart .. KernelEnd
      BY <3>1 DEF FreeBytes
    <3>. QED BY <1>1, <2>2, <3>2, Bounds
  <2>4. ASSUME NEW j \in 1 .. Len(KernelSections)
        PROVE  Apart(low, low + Sum(r), KernelSections[j])
    <3>. DEFINE a == Lower(KernelSections[j])
                b == Limit(KernelSections[j])
    <3>1. SUFFICES ASSUME HasExtent(KernelSections[j]), a < low + Sum(r), low < b
                   PROVE  FALSE
      BY <1>1, <1>3, <2>2 DEF Apart
    <3>2. a \in Int /\ b \in Int /\ a < b
      BY <1>3, <3>1 DEF HasExtent
    <3>. HIDE DEF a, b
    <3>3. \E x \in Int : /\ low <= x /\ x < low + Sum(r) /\ a <= x /\ x < b
      <4>1. CASE a <= low
        BY <1>1, <2>2, <3>1, <3>2, <4>1
      <4>2. CASE low < a
        BY <1>1, <2>2, <3>1, <3>2, <4>2
      <4>. QED BY <2>2, <3>2, <4>1, <4>2
    <3>4. PICK x \in Int : /\ low <= x /\ x < low + Sum(r) /\ a <= x /\ x < b
      BY <3>3
    <3>5. x \in low .. low + Sum(r) - 1 /\ x \in a .. b - 1
      BY <1>1, <2>2, <3>2, <3>4
    <3>6. x \in FreeBytes
      BY <2>1, <3>5
    <3>7. x \in Taken
      BY <3>1, <3>5, TakenIs DEF a, b
    <3>. QED BY <3>6, <3>7 DEF FreeBytes
  <2>. QED BY <2>1, <2>2, <2>3, <2>4, FindFreeComplete
<1>. QED BY <1>2, <1>4, <1>5

(* The search of _findfree is exact: what it finds is free, in the range,  *)
(* and page aligned, and when it finds nothing there is no such place.     *)
THEOREM FindFreeIsExact == Spec /\ []ExtentsKept => []FindFreeExact
<1>1. ASSUME ListInv, ExtentsKept PROVE FindFreeExact
  <2>1. OrdinaryList(KernelSections)
    BY <1>1, OrdinaryIf DEF ListInv, ExtentsKept
  <2>2. \A r : Request(r) =>
           /\ {Lower(s) : s \in FindFree(KernelSections, r)} \subseteq RoomFor(ExtentLength(r))
           /\ {Lower(s) : s \in FindFree(KernelSections, r)} = {}
                  => RoomFor(ExtentLength(r)) = {}
    BY <2>1, FindFreeExactFor
  <2>3. \A r \in {StackRequest(0), TempSection,
                  HeapRequest(3 * PageSize), HeapRequest(7 * PageSize)} : Request(r)
    BY RequestsOrdinary
  <2>. QED BY <2>2, <2>3, Zenon DEF FindFreeExact, FreeBytes, RoomFor
<1>2. Init => ListInv
  BY InitListOK DEF ListInv
<1>. QED BY InitTypeInv, NextTypeInv, NextListInv, <1>1, <1>2, PTL DEF Spec

-----------------------------------------------------------------------------
(* The pages of the loaded sections.                                       *)
Overlaps(s, v) ==
    s.Length > 0 /\ v * PageSize < s.Base + s.Length /\ (v + 1) * PageSize > s.Base

BitsInv ==
    \A i \in 1 .. First : \A v \in VirtualPages :
        Overlaps(KernelSections[i], v) => pt[v] \in {0, v}

LEMMA VirtualPageIs ==
  ASSUME NEW v \in VirtualPages
  PROVE  /\ v \in Nat /\ v * PageSize \in Nat /\ v * PageSize <= KernelEnd
         /\ Aligned(v * PageSize) /\ PageOf(v * PageSize) = v
         /\ (v + 1) * PageSize = v * PageSize + PageSize
<1>1. v \in Nat /\ v <= PageOf(KernelEnd)
  BY Bounds DEF VirtualPages, PageOf
<1>. DEFINE q == PageOf(KernelEnd)
<1>2. q \in Nat /\ PageSize * q <= KernelEnd /\ PageSize * q \in Nat
  BY Bounds, RoundDownIs
<1>3. v * PageSize = PageSize * v /\ v * PageSize \in Nat
  BY <1>1, Bounds
<1>4. v * PageSize <= KernelEnd
  <2>1. v <= q
    BY <1>1
  <2>. HIDE DEF q
  <2>2. v * PageSize <= PageSize * q
    BY <1>1, <1>2, <2>1, Bounds
  <2>. QED BY <1>2, <1>3, <2>2, Bounds
<1>5. Aligned(v * PageSize) /\ PageOf(v * PageSize) = v
  BY <1>1, <1>3, MultipleAligned
<1>6. (v + 1) * PageSize = v * PageSize + PageSize
  BY <1>1, Bounds
<1>. QED BY <1>1, <1>3, <1>4, <1>5, <1>6

(* Init maps the pages of the loaded sections where they were loaded.      *)
LEMMA InitEntryTrue ==
  ASSUME NEW s, InKernelOrBelow(s), NEW v \in VirtualPages, InitMaps(s, v)
  PROVE  InitEntry(s, v) = v
<1>. DEFINE f == FirstMapped(s)
            p == v * PageSize
            x == s.MemSource + p - f
<1>1. s.Base \in Nat /\ s.MemSource = s.Base /\ s.Base <= KernelEnd
  BY LoadedFields, Bounds
<1>2. f \in Nat /\ s.Base <= f /\ f < s.Base + PageSize
  <2>1. s.Base + PageSize <= Word
    BY <1>1, Bounds
  <2>. QED BY <1>1, <2>1, RoundUpIs DEF FirstMapped
<1>3. p \in Nat /\ p <= KernelEnd /\ Aligned(p) /\ PageOf(p) = v
  BY VirtualPageIs
<1>4. p >= f
  BY DEF InitMaps
<1>. HIDE DEF f, p
<1>5. x \in Nat /\ x <= p /\ p < x + PageSize /\ x < Word /\ x + PageSize <= Word
  BY <1>1, <1>2, <1>3, <1>4, Bounds
<1>6. InitEntry(s, v) = PageOf(RoundUp(x % Word))
  BY DEF InitEntry, f, p
<1>. HIDE DEF x
<1>7. x % Word = x /\ RoundUp(x) = p
  BY <1>3, <1>5, WordSmall, RoundUpUnique
<1>. QED BY <1>3, <1>6, <1>7

LEMMA InitBitsInv == Init => BitsInv
<1>. SUFFICES ASSUME Init, NEW v \in VirtualPages PROVE pt[v] \in {0, v}
  BY DEF BitsInv
<1>. DEFINE by == {i \in 1 .. Len(KernelSections) : InitMaps(KernelSections[i], v)}
<1>1. pt[v] = IF by = {} THEN 0 ELSE InitEntry(KernelSections[Max(by)], v)
  BY DEF Init, InitialPt
<1>2. ListOK(KernelSections, heap, stacks)
  BY InitListOK
<1>3. KernelSections \in Seq(Section) /\ Len(KernelSections) \in Nat
  BY <1>2 DEF ListOK
<1>4. CASE by # {}
  <2>1. by \subseteq 0 .. Len(KernelSections)
    BY <1>3
  <2>2. Max(by) \in by
    BY <1>3, <1>4, <2>1, MaxIn
  <2>. DEFINE i == Max(by)
  <2>3. i \in 1 .. Len(KernelSections) /\ InitMaps(KernelSections[i], v)
    BY <2>2
  <2>. HIDE DEF by, i
  <2>4. "Bits" \in KernelSections[i].Flags
    BY <2>3 DEF InitMaps
  <2>5. i \notin First + 1 .. Len(KernelSections)
    BY <1>2, <2>4 DEF ListOK, PlacedOK
  <2>6. i \in 1 .. First
    BY <1>3, <2>3, <2>5, FirstNat
  <2>7. InKernelOrBelow(KernelSections[i])
    BY <1>2, <2>6 DEF ListOK
  <2>8. InitEntry(KernelSections[i], v) = v
    BY <2>3, <2>7, InitEntryTrue
  <2>. QED BY <1>1, <1>4, <2>8 DEF i
<1>. QED BY <1>1, <1>4

(* No step changes a loaded section.                                       *)
LEMMA LoadedKept ==
  ASSUME TypeInv, ListInv, ExtentsKept, Next, NEW b \in 1 .. First
  PROVE  KernelSections'[b] = KernelSections[b]
<1>1. /\ TypeOK /\ KernelSections \in Seq(Section) /\ Len(KernelSections) \in Nat
      /\ b \in 1 .. Len(KernelSections)
      /\ heap = 0 \/ heap \in First + 1 .. Len(KernelSections)
  <2>1. /\ KernelSections \in Seq(Section) /\ First <= Len(KernelSections)
        /\ heap = 0 \/ heap \in First + 1 .. Len(KernelSections)
    BY DEF ListInv, ListOK
  <2>. QED BY <2>1, FirstNat DEF TypeInv
<1>2. ASSUME NEW d \in Increments, Sbrk(d) PROVE KernelSections'[b] = KernelSections[b]
  <2>1. d \in Int
    BY AddressSpaceAssumption
  <2>2. PICK list \in Seq(Section), s \in Section :
            /\ heap' \in 1 .. Len(list) /\ list \in WithHeap
            /\ KernelSections' = [list EXCEPT ![heap'] = s]
            /\ heap = 0 => heap' = Len(list)
            /\ heap # 0 => heap' = heap
    BY <1>2, <2>1, SbrkIs
  <2>3. list[b] = KernelSections[b] /\ b # heap' /\ b \in 1 .. Len(list)
    <3>1. CASE heap # 0
      <4>1. list = KernelSections
        BY <1>1, <2>2, <3>1, WithHeapIs
      <4>. QED BY <1>1, <2>2, <3>1, <4>1, FirstNat
    <3>2. CASE heap = 0
      <4>1. PICK t \in Section : list = Append(KernelSections, t)
        BY <1>1, <2>2, <3>2, WithHeapIs
      <4>2. Len(list) = Len(KernelSections) + 1 /\ list[b] = KernelSections[b]
        BY <1>1, <4>1, Appended
      <4>. QED BY <1>1, <2>2, <3>2, <4>2
    <3>. QED BY <3>1, <3>2
  <2>. QED BY <2>2, <2>3, Replaced
<1>3. ASSUME NEW source \in Junk, Create(source) PROVE KernelSections'[b] = KernelSections[b]
  <2>1. PICK s \in FindFree(KernelSections, StackRequest(source)) :
            KernelSections' = Append(KernelSections, s)
    BY <1>3 DEF Create
  <2>2. s \in Section
    BY <1>1, <2>1, FindFreeType, Requests
  <2>. QED BY <1>1, <2>1, <2>2, Appended
<1>4. ASSUME NEW i \in InUse, NEW a \in KernelStart .. KernelEnd, Touch(i, a)
      PROVE  KernelSections'[b] = KernelSections[b]
  BY <1>4, TouchKeeps
<1>. QED BY <1>2, <1>3, <1>4 DEF Next

(* What a fault maps where a loaded section has a byte is the page the     *)
(* section was loaded in.                                                  *)
LEMMA TouchMapsTrue ==
  ASSUME TypeInv, ListInv, ExtentsKept,
         NEW i \in InUse, NEW a \in KernelStart .. KernelEnd, Touch(i, a),
         NEW b \in 1 .. First, Overlaps(KernelSections[b], PageOf(a)), pt' # pt
  PROVE  pt' = [pt EXCEPT ![PageOf(a)] = PageOf(a)]
<1>. DEFINE v == PageOf(a)
            p == RoundDown(a)
            sb == KernelSections[b]
            si == KernelSections[i]
<1>1. /\ HasExtent(si) /\ i \in 1 .. Len(KernelSections)
      /\ \E j \in 1 .. Len(KernelSections) :
            /\ i = j \/ {i, j} \subseteq 1 .. First
            /\ Holds(KernelSections[j], a)
            /\ MapPage(a, RoundDown((a - KernelSections[j].Base
                                       + KernelSections[j].MemSource) % Word))
  BY TouchKeeps
<1>2. PICK j \in 1 .. Len(KernelSections) :
            /\ i = j \/ {i, j} \subseteq 1 .. First
            /\ Holds(KernelSections[j], a)
            /\ MapPage(a, RoundDown((a - KernelSections[j].Base
                                       + KernelSections[j].MemSource) % Word))
  BY <1>1
<1>3. /\ KernelSections \in Seq(Section) /\ Len(KernelSections) \in Nat
      /\ First <= Len(KernelSections) /\ ListOK(KernelSections, heap, stacks)
      /\ \A k \in 1 .. First : InKernelOrBelow(KernelSections[k])
  BY DEF ListInv, ListOK
<1>4. a \in Nat /\ KernelStart <= a /\ a <= KernelEnd /\ a < Word
  BY Bounds
<1>5. /\ p \in Nat /\ Aligned(p) /\ p <= a /\ a < p + PageSize /\ PageOf(p) = v /\ v \in Nat
      /\ p = PageSize * v
  BY <1>4, RoundDownIs
<1>6. v * PageSize = p /\ (v + 1) * PageSize = p + PageSize
  <2>. HIDE DEF v, p
  <2>. QED BY <1>5, Bounds
<1>7. sb.Length > 0 /\ p < sb.Base + sb.Length /\ sb.Base < p + PageSize
  <2>1. sb.Base \in Nat
    BY <1>3, LoadedFields
  <2>2. /\ sb.Length > 0 /\ v * PageSize < sb.Base + sb.Length
        /\ (v + 1) * PageSize > sb.Base
    BY DEF Overlaps
  <2>. HIDE DEF v, p, sb
  <2>. QED BY <1>5, <1>6, <2>1, <2>2, Bounds
<1>8. KernelStart <= p
  <2>1. ~ (p < KernelStart)
    <3>. HIDE DEF p
    <3>1. p < KernelStart => p + PageSize <= KernelStart
      BY <1>5, AlignedGap, Bounds
    <3>. QED BY <1>4, <1>5, <3>1, Bounds
  <2>. HIDE DEF p
  <2>. QED BY <1>5, <2>1, Bounds
<1>9. HasExtent(sb) /\ Lower(sb) = sb.Base /\ Limit(sb) = sb.Base + sb.Length
      /\ sb.Base \in Nat /\ sb.Length \in Nat
  <2>1. InKernelOrBelow(sb)
    BY <1>3
  <2>2. /\ sb.Base \in Nat /\ sb.Length \in Nat /\ Lower(sb) = sb.Base
        /\ Limit(sb) = sb.Base + sb.Length
        /\ sb.Base + sb.Length > KernelStart /\ sb.Length > 0 => HasExtent(sb)
    BY <2>1, LoadedFields
  <2>. HIDE DEF sb, p
  <2>3. sb.Base + sb.Length > KernelStart
    BY <1>5, <1>7, <1>8, <2>2, Bounds
  <2>. QED BY <1>7, <2>2, <2>3
<1>10. CASE j \in 1 .. First
  <2>. DEFINE sj == KernelSections[j]
  <2>1. InKernelOrBelow(sj)
    BY <1>3, <1>10
  <2>2. sj.Base \in Nat /\ sj.MemSource = sj.Base
    BY <2>1, LoadedFields
  <2>3. (a - sj.Base + sj.MemSource) % Word = a
    <3>1. a - sj.Base + sj.MemSource = a
      BY <1>4, <2>2
    <3>. QED BY <1>4, <3>1, WordSmall
  <2>4. MapPage(a, p)
    BY <1>2, <2>3
  <2>5. p # 0
    <3>. HIDE DEF p
    <3>. QED BY <1>5, <1>8, Bounds
  <2>6. pt' = [pt EXCEPT ![PageOf(a)] = PageOf(p)]
    BY <2>4, <2>5 DEF MapPage
  <2>. QED BY <1>5, <2>6
<1>11. CASE j \notin 1 .. First
  <2>1. i = j /\ i \in First + 1 .. Len(KernelSections) /\ i # b
    BY <1>2, <1>3, <1>11, FirstNat
  <2>2. i \in {heap} \cup stacks
    BY <2>1, FirstNat DEF InUse, First
  <2>3. PlacedOK(si, i = heap, i \in stacks) /\ ApartAt(KernelSections, heap, i, b)
    <3>1. b \in 1 .. Len(KernelSections) \ {i}
      BY <1>3, <2>1, FirstNat
    <3>. QED BY <1>3, <2>1, <3>1 DEF ListOK
  <2>4. si.UpperPadding = PageSize /\ Aligned(Lower(si))
    BY <2>2, <2>3 DEF PlacedOK
  <2>5. /\ si \in Section /\ si.Base \in Nat /\ si.Length \in Nat /\ si.ExpandUp \in Nat
        /\ Lower(si) \in Int /\ si.ExpandDown \in Nat /\ si.LowerPadding \in Nat
    <3>1. si \in Section
      BY <1>1, <1>3
    <3>. HIDE DEF si
    <3>. QED BY <3>1, SectionFields
  <2>6. si.Base <= a /\ a < si.Base + si.Length
    BY <1>2, <2>1 DEF Holds
  <2>7. a + PageSize < Reach(KernelSections, heap, i)
    <3>1. i = heap => si.Length <= si.ExpandUp
      BY <2>1, FirstNat DEF TypeInv, HeapInv
    <3>2. si.Base + si.Length + PageSize <= Reach(KernelSections, heap, i)
      BY <1>1, <1>3, <2>4, <3>1, ReachHolds
    <3>3. Reach(KernelSections, heap, i) \in Nat
      BY <1>1, <1>3, ReachIs
    <3>. HIDE DEF si
    <3>. QED BY <1>4, <2>5, <2>6, <3>2, <3>3, Bounds
  <2>8. Reach(KernelSections, heap, b) = sb.Base + sb.Length
    <3>1. b # heap
      BY <1>3, FirstNat DEF ListOK
    <3>. QED BY <1>9, <3>1 DEF Reach
  <2>9. \/ Reach(KernelSections, heap, i) <= sb.Base
        \/ sb.Base + sb.Length <= Lower(si)
    BY <1>1, <1>9, <2>3, <2>8 DEF ApartAt
  <2>10. Reach(KernelSections, heap, i) \in Nat
    BY <1>1, <1>3, ReachIs
  <2>11. ~ (Reach(KernelSections, heap, i) <= sb.Base)
    <3>1. \A x, y, z, w, k \in Nat : x <= y /\ z < x + k /\ y + k < w => ~ (w <= z)
      OBVIOUS
    <3>. HIDE DEF p, sb
    <3>. QED BY <1>4, <1>5, <1>7, <1>9, <2>7, <2>10, <3>1, Bounds
  <2>12. ~ (sb.Base + sb.Length <= Lower(si))
    <3>1. Lower(si) <= a
      <4>. HIDE DEF si
      <4>. QED BY <1>4, <2>5, <2>6 DEF Lower
    <3>. DEFINE low == Lower(si)
    <3>2. low \in Int /\ Aligned(low) /\ low <= a
      BY <2>4, <2>5, <3>1
    <3>. HIDE DEF p, sb, low
    <3>3. p < low => p + PageSize <= low
      BY <1>5, <3>2, AlignedGap
    <3>4. low <= p
      BY <1>4, <1>5, <3>2, <3>3, Bounds
    <3>5. ~ (sb.Base + sb.Length <= low)
      BY <1>5, <1>7, <1>9, <3>2, <3>4
    <3>. QED BY <3>5 DEF low
  <2>. QED BY <2>9, <2>11, <2>12
<1>. QED BY <1>10, <1>11

LEMMA NextBitsInv == TypeInv /\ ListInv /\ BitsInv /\ ExtentsKept /\ [Next]_vars => BitsInv'
<1>. SUFFICES ASSUME TypeInv, ListInv, BitsInv, ExtentsKept, [Next]_vars,
                     NEW b \in 1 .. First, NEW v \in VirtualPages,
                     Overlaps(KernelSections'[b], v)
              PROVE  pt'[v] \in {0, v}
  BY DEF BitsInv
<1>1. KernelSections'[b] = KernelSections[b]
  BY LoadedKept DEF vars
<1>2. Overlaps(KernelSections[b], v) /\ pt[v] \in {0, v} /\ pt \in [VirtualPages -> Nat]
  BY <1>1 DEF BitsInv, TypeInv, TypeOK
<1>3. CASE pt' = pt
  BY <1>2, <1>3
<1>4. ASSUME NEW i \in InUse, NEW a \in KernelStart .. KernelEnd, Touch(i, a), pt' # pt
      PROVE  pt'[v] \in {0, v}
  <2>1. CASE v = PageOf(a)
    <3>1. pt' = [pt EXCEPT ![v] = v]
      BY <1>2, <1>4, <2>1, TouchMapsTrue
    <3>. QED BY <1>2, <3>1
  <2>2. CASE v # PageOf(a)
    <3>1. \E page \in Nat : pt' = [pt EXCEPT ![PageOf(a)] = page]
      <4>1. PICK j \in 1 .. Len(KernelSections) : \E s \in Section :
                 MapPage(a, RoundDown((a - s.Base + s.MemSource) % Word))
        BY <1>4, TouchIs
      <4>2. PICK s \in Section : MapPage(a, RoundDown((a - s.Base + s.MemSource) % Word))
        BY <4>1
      <4>3. RoundDown((a - s.Base + s.MemSource) % Word) \in Nat
        <5>. DEFINE x == a - s.Base + s.MemSource
        <5>1. x \in Int
          <6>1. s.Base \in Nat /\ s.MemSource \in Nat
            BY SectionFields
          <6>. QED BY <6>1, Bounds
        <5>. HIDE DEF x
        <5>2. RoundDown(x % Word) \in Nat
          BY <5>1, ModWord, RoundDownIs
        <5>. QED BY <5>2 DEF x
      <4>. QED BY <1>2, <4>2, <4>3, MapPageType DEF TypeInv, TypeOK
    <3>. QED BY <1>2, <2>2, <3>1
  <2>. QED BY <2>1, <2>2
<1>5. pt' = pt \/ \E i \in InUse : \E a \in KernelStart .. KernelEnd : Touch(i, a)
  BY DEF Next, Sbrk, Create, vars
<1>. QED BY <1>3, <1>4, <1>5

(* Wherever a page of a loaded section is mapped, it is mapped to the page *)
(* it was loaded in, its first and partial page too, and no fault on the   *)
(* heap or on a stack maps such a page to another.                         *)
THEOREM LoadedPagesTrue == Spec /\ []ExtentsKept => []BitsPagesTrue
<1>1. ASSUME ListInv, BitsInv PROVE BitsPagesTrue
  <2>1. SUFFICES ASSUME NEW i \in 1 .. First, NEW v \in VirtualPages,
                        Overlaps(KernelSections[i], v), pt[v] # 0
                 PROVE  pt[v] = PageOf((v * PageSize - KernelSections[i].Base
                                          + KernelSections[i].MemSource) % Word)
    BY DEF BitsPagesTrue, Overlaps, First
  <2>2. pt[v] = v
    BY <1>1, <2>1 DEF BitsInv
  <2>3. KernelSections[i].Base \in Nat /\ KernelSections[i].MemSource = KernelSections[i].Base
    BY <1>1, LoadedFields DEF ListInv, ListOK
  <2>4. /\ v * PageSize \in Nat /\ v * PageSize <= KernelEnd /\ PageOf(v * PageSize) = v
    BY VirtualPageIs
  <2>. DEFINE p == v * PageSize
              b == KernelSections[i].Base
  <2>. HIDE DEF p, b
  <2>5. p \in Nat /\ p < Word /\ b \in Nat
    BY <2>3, <2>4, Bounds DEF p, b
  <2>6. (p - b + b) % Word = p
    <3>1. p - b + b = p
      BY <2>5
    <3>. QED BY <2>5, <3>1, WordSmall
  <2>. QED BY <2>2, <2>3, <2>4, <2>6 DEF p, b
<1>2. Init => ListInv
  BY InitListOK DEF ListInv
<1>. QED BY InitTypeInv, NextTypeInv, NextListInv, InitBitsInv, NextBitsInv, <1>1, <1>2, PTL DEF Spec
=============================================================================
