------------------------------ MODULE Sections ------------------------------
(***************************************************************************)
(* The address arithmetic of kernel/core/section.cpp: extents of sections, *)
(* their comparison, and the search for free space.                        *)
(*                                                                         *)
(* A section occupies LowerPadding, ExpandDown, Length, ExpandUp and       *)
(* UpperPadding bytes, one after the other, with Base where Length starts. *)
(* Addresses are unsigned integers of the build, modulo Word.              *)
(***************************************************************************)
EXTENDS Integers, Sequences, FiniteSetsExt

CONSTANTS
    Word,          \* 2^32 in the kernel
    PageSize,
    KernelStart,   \* KERNEL_START and KERNEL_END, the last byte
    KernelEnd,
    ProcessStart,  \* USER_START and USER_END
    ProcessEnd

Address == 0 .. Word - 1

ASSUME SectionsAssumption ==
    /\ Word \in Nat \ {0} /\ PageSize \in Nat \ {0} /\ Word % PageSize = 0
    /\ {KernelStart, KernelEnd, ProcessStart, ProcessEnd} \subseteq Address
    /\ KernelStart % PageSize = 0 /\ ProcessStart % PageSize = 0

SectionFlags == {"Defined", "KernelSection", "AutoExpand", "Bits"}

Section == [Base : Address, Length : Address,
            ExpandDown : Address, ExpandUp : Address,
            LowerPadding : Address, UpperPadding : Address,
            MemSource : Address, Flags : SUBSET SectionFlags]

(* A section as Kernel::InitKernel makes one of every ELF section, and the *)
(* console of its frame buffer: memory that is where it was loaded.        *)
Loaded(base, length) ==
    [Base |-> base, Length |-> length, ExpandDown |-> 0, ExpandUp |-> 0,
     LowerPadding |-> 0, UpperPadding |-> 0, MemSource |-> base,
     Flags |-> {"Defined", "Bits", "KernelSection"}]

RangeMin(s) == IF "KernelSection" \in s.Flags THEN KernelStart ELSE ProcessStart
RangeMax(s) == IF "KernelSection" \in s.Flags THEN KernelEnd ELSE ProcessEnd

(* & GetPageMask(), and the same after adding GetPageSize() - 1.           *)
RoundDown(a) == a - (a % PageSize)
RoundUp(a) == RoundDown((a + PageSize - 1) % Word)

-----------------------------------------------------------------------------
(* CheckExtents.  Its staged comparisons are those of the exact sums: it   *)
(* is careful not to overflow.  A section whose sums leave the range has   *)
(* no extent, and neither has one that ends with the range's last byte.    *)
Lower(s) == s.Base - s.ExpandDown - s.LowerPadding
Limit(s) == s.Base + s.Length + s.ExpandUp + s.UpperPadding

HasExtent(s) ==
    /\ "Defined" \in s.Flags
    /\ RangeMin(s) <= Lower(s)
    /\ Limit(s) <= RangeMax(s)
    /\ Lower(s) < Limit(s)

Extent(s) == [Lower |-> Lower(s), Upper |-> Limit(s) - 1]

(* What CheckExtents leaves in ext->Length in any case.                    *)
ExtentLength(s) ==
    (s.LowerPadding + s.ExpandDown + s.Length + s.ExpandUp + s.UpperPadding) % Word

(* Mutant: an extent that contains the other is not recognised.            *)
EqualByEnds(e1, e2) ==
    \/ e2.Lower <= e1.Lower /\ e1.Lower <= e2.Upper
    \/ e2.Lower <= e1.Upper /\ e1.Upper <= e2.Upper

(* Extent::operator==, true of extents that have a byte in common.         *)
Equal(e1, e2) ==
    \/ EqualByEnds(e1, e2)
    \/ e1.Lower < e2.Lower /\ e1.Upper > e2.Upper

_isfree(list, e) ==
    \A i \in 1 .. Len(list) : HasExtent(list[i]) => ~ Equal(e, Extent(list[i]))

-----------------------------------------------------------------------------
(* _findfree looks at the start of the range and behind every section.     *)
Starts(list, request) ==
    [i \in 0 .. Len(list) |->
        RoundUp((IF i = 0 THEN RangeMin(request) ELSE Limit(list[i])) % Word)]

At(low, request) ==
    [Lower |-> low, Upper |-> (low + ExtentLength(request) - 1) % Word]

Suits(list, request, low) ==
    /\ low >= RangeMin(request)
    /\ At(low, request).Upper <= RangeMax(request)
    /\ _isfree(list, At(low, request))

(* The request with its Base set to the first place that suits, as a set   *)
(* that is empty when _findfree returns NULL.                              *)
FindFree(list, request) ==
    LET start == Starts(list, request)
        good  == {i \in DOMAIN start : Suits(list, request, start[i])}
    IN  IF good = {} THEN {}
        ELSE {[request EXCEPT !.Base =
                  (start[Min(good)] + request.LowerPadding + request.ExpandDown)
                      % Word]}
=============================================================================
