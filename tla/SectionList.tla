---------------------------- MODULE SectionList ----------------------------
(***************************************************************************)
(* SectionList (include/sys/sectionlist.h, kernel/core/section.cpp): the   *)
(* sections of the kernel and of a process behind one interface, each in a *)
(* list of its own.  Before the heap exists both are arrays; kmain then    *)
(* copies them to linked lists and dumps them to the console.              *)
(*                                                                         *)
(* A section is its identity.  Its contents, which LinkedList::SetItem     *)
(* assigns where ArrayList::SetItem replaces a pointer, are left out: both *)
(* get sections of the kernel only, so that no flag changes.               *)
(***************************************************************************)
EXTENDS LinkedList, ArrayList

CONSTANTS
    KernelItems,    \* the sections that have the flag KernelSection
    ProcessItems

Items == KernelItems \cup ProcessItems

ASSUME SectionListAssumption ==
    /\ KernelItems \cap ProcessItems = {}
    /\ Wild \notin Items

VARIABLES
    KernelSections, ProcessSections,
    call,       \* the last call and its answer
    dump        \* Serialize: its Enumerator and what it has written

vars == <<KernelSections, ProcessSections, call, dump>>

-----------------------------------------------------------------------------
(* The virtual calls of IList.                                             *)
Kind(list) == list.kind

AddTo(list, item) ==
    IF Kind(list) = "array" THEN ArrayAdd(list, item) ELSE LinkedAdd(list, item)

InsertInto(list, item, index) ==
    IF Kind(list) = "array" THEN ArrayInsert(list, item, index)
    ELSE LinkedInsert(list, item, index)

RemoveFrom(list, item) ==
    IF Kind(list) = "array" THEN ArrayRemove(list, item) ELSE LinkedRemove(list, item)

RemoveIndexFrom(list, index) ==
    IF Kind(list) = "array" THEN ArrayRemoveAt(list, index) ELSE LinkedRemoveAt(list, index)

SetItemOf(list, index, item) ==
    IF Kind(list) = "array" THEN ArraySetItem(list, index, item) ELSE list

Cleared(list) ==
    IF Kind(list) = "array" THEN ArrayClear(list) ELSE LinkedClear(list)

ItemOf(list, index) ==
    IF Kind(list) = "array" THEN list.arr[index] ELSE ItemAt(list, index)

IndexIn(list, item) ==
    IF Kind(list) = "array" THEN ArrayIndexOf(list, item) ELSE _find(list, item)

-----------------------------------------------------------------------------
Idle == [at |-> "none", ke |-> NULL, pe |-> NULL, proc |-> FALSE, shown |-> <<>>]

Registered(x) == IndexIn(KernelSections, x) >= 0 \/ IndexIn(ProcessSections, x) >= 0

(* No dump is under way, and no call has gone through a NULL pointer.      *)
Running == dump.at = "none" /\ call # <<"panic">>

Called(c) == Running /\ call' = c /\ UNCHANGED dump

Panic == Called(<<"panic">>) /\ UNCHANGED <<KernelSections, ProcessSections>>

(* Add, and Insert, which ignores its index.  A Section object is          *)
(* registered once.                                                        *)
Add(x) ==
    /\ Called(<<"Add", x>>)
    /\ ~ Registered(x)
    /\ IF x \in KernelItems
       THEN KernelSections' = AddTo(KernelSections, x) /\ UNCHANGED ProcessSections
       ELSE ProcessSections' = AddTo(ProcessSections, x) /\ UNCHANGED KernelSections

(* Insert of the list that GetKernelSections returns.                      *)
Insert(x, index) ==
    /\ Called(<<"Insert", x, index>>)
    /\ ~ Registered(x)
    /\ KernelSections' = InsertInto(KernelSections, x, index)
    /\ UNCHANGED ProcessSections

Remove(x) ==
    /\ Called(<<"Remove", x>>)
    /\ IF x \in KernelItems
       THEN KernelSections' = RemoveFrom(KernelSections, x) /\ UNCHANGED ProcessSections
       ELSE ProcessSections' = RemoveFrom(ProcessSections, x) /\ UNCHANGED KernelSections

(* For an index in the part of the process the three look in the kernel's  *)
(* list too, at the place the process has the section.                     *)
KernelIndex(index) ==
    IF index < KernelSections.count THEN index ELSE index - KernelSections.count

(* GetItem and SetItem of a linked list go through what _item returns.     *)
NoNode(index) ==
    Kind(KernelSections) # "array" /\ _item(KernelSections, KernelIndex(index)) = NULL

RemoveAt(index) ==
    /\ Called(<<"RemoveAt", index>>)
    /\ KernelSections' = RemoveIndexFrom(KernelSections, KernelIndex(index))
    /\ UNCHANGED ProcessSections

SetItem(index, x) ==
    /\ ~ Registered(x)
    /\ \/ NoNode(index) /\ Panic
       \/ /\ ~ NoNode(index)
          /\ Called(<<"SetItem", index, x>>)
          /\ KernelSections' = SetItemOf(KernelSections, KernelIndex(index), x)
          /\ UNCHANGED ProcessSections

GetItem(index) ==
    \/ NoNode(index) /\ Panic
    \/ /\ ~ NoNode(index)
       /\ Called(<<"GetItem", index, ItemOf(KernelSections, KernelIndex(index))>>)
       /\ UNCHANGED <<KernelSections, ProcessSections>>

Clear ==
    /\ Called(<<"Clear">>)
    /\ KernelSections' = Cleared(KernelSections)
    /\ ProcessSections' = Cleared(ProcessSections)

Count ==
    /\ Called(<<"Count", KernelSections.count + ProcessSections.count>>)
    /\ UNCHANGED <<KernelSections, ProcessSections>>

Contains(x) ==
    /\ Called(<<"Contains", x, Registered(x)>>)
    /\ UNCHANGED <<KernelSections, ProcessSections>>

IndexOf(x) ==
    LET i == IndexIn(KernelSections, x)
    IN  /\ Called(<<"IndexOf", x, IF i >= 0 THEN i ELSE IndexIn(ProcessSections, x)>>)
        /\ UNCHANGED <<KernelSections, ProcessSections>>

(* Mutant: every item is inserted at the same index.                       *)
CopyToStart(list, dest) ==
    LET copied[i \in 0 .. list.count] ==
            IF i = 0 THEN dest ELSE InsertInto(copied[i-1], ItemOf(list, i - 1), 0)
    IN  copied[list.count]

(* ConvertToLinkedList: CopyTo inserts item after item, at the index it    *)
(* has reached, into a new list.                                           *)
CopyTo(list, dest) ==
    LET copied[i \in 0 .. list.count] ==
            IF i = 0 THEN dest ELSE InsertInto(copied[i-1], ItemOf(list, i - 1), i - 1)
    IN  copied[list.count]

ConvertToLinkedList ==
    /\ Called(<<"ConvertToLinkedList">>)
    /\ Kind(KernelSections) = "array"
    /\ KernelSections' = CopyTo(KernelSections, NewLinkedList)
    /\ ProcessSections' = CopyTo(ProcessSections, NewLinkedList)

-----------------------------------------------------------------------------
(* Serialize walks the composed list with SectionList::Enumerator, which   *)
(* tries the kernel's enumerator first at every step, also after that one  *)
(* has come to its end and starts again.                                   *)
Serialize ==
    /\ Running
    /\ Kind(KernelSections) = "linked"
    /\ dump' = [Idle EXCEPT !.at = "dumping"]
    /\ UNCHANGED <<KernelSections, ProcessSections, call>>

MoveNext ==
    /\ dump.at = "dumping"
    /\ LET ke   == LinkedMoveNext(KernelSections, dump.ke)
           proc == dump.proc \/ ke = NULL
           pe   == IF ke = NULL THEN LinkedMoveNext(ProcessSections, dump.pe) ELSE dump.pe
           item == IF proc THEN ProcessSections.nodes[pe].item ELSE KernelSections.nodes[ke].item
           next == [dump EXCEPT !.ke = ke, !.pe = pe, !.proc = proc]
       IN  dump' = IF ke = NULL /\ pe = NULL
                   THEN [next EXCEPT !.at = "done"]
                   ELSE [next EXCEPT !.shown = Append(@, item)]
    /\ UNCHANGED <<KernelSections, ProcessSections, call>>

Dumped ==
    /\ dump.at = "done"
    /\ dump' = Idle
    /\ UNCHANGED <<KernelSections, ProcessSections, call>>

-----------------------------------------------------------------------------
Init ==
    /\ KernelSections = NewArrayList
    /\ ProcessSections = NewArrayList
    /\ call = <<"none">>
    /\ dump = Idle

Next ==
    \/ Clear \/ Count \/ ConvertToLinkedList
    \/ Serialize \/ MoveNext \/ Dumped
    \/ \E x \in Items : Add(x) \/ Remove(x) \/ Contains(x) \/ IndexOf(x)
    \/ \E x \in KernelItems, index \in 0 .. KernelSections.count + 1 : Insert(x, index)
    \/ \E index \in 0 .. KernelSections.count + ProcessSections.count - 1 :
          \/ RemoveAt(index) \/ GetItem(index)
          \/ \E x \in KernelItems : SetItem(index, x)

Spec == Init /\ [][Next]_vars

-----------------------------------------------------------------------------
(* The items of a list, in order.                                          *)
Contents(list) == [i \in 1 .. list.count |-> ItemOf(list, i - 1)]

(* The nodes from the last to the first.                                   *)
WalkBack(list) ==
    LET c[i \in 0 .. Cardinality(DOMAIN list.nodes)] ==
            IF i = 0 THEN list.l
            ELSE IF c[i-1] = NULL THEN NULL ELSE list.nodes[c[i-1]].prev
    IN  c

(* A linked list meets each of its nodes once on the way forward and once, *)
(* in the opposite order, on the way back, count of them, and none is left *)
(* over; an array has count items and nothing wild among them.             *)
Coherent(list) ==
    IF Kind(list) = "array"
    THEN list.count \in 0 .. Capacity /\ \A i \in 0 .. list.count - 1 : list.arr[i] \in Items
    ELSE LET n == Cardinality(DOMAIN list.nodes)
         IN  /\ list.count = n
             /\ {Walk(list)[i] : i \in 0 .. n - 1} = DOMAIN list.nodes
             /\ Walk(list)[n] = NULL
             /\ \A i \in 0 .. n - 1 : WalkBack(list)[n - 1 - i] = Walk(list)[i]
             /\ WalkBack(list)[n] = NULL

(* Every operation leaves both lists whole: forward chain, backward chain, *)
(* the two ends, the counter and the nodes in the heap agree.              *)
ListsCoherent == Coherent(KernelSections) /\ Coherent(ProcessSections)

(* A dump misses no section and shows none that is not there: the kernel's *)
(* once each and in order, then sections of the process only, and every    *)
(* one of them; with no process it is exact.                               *)
DumpMissesNone ==
    dump.at = "done" =>
        LET ks == Contents(KernelSections)
            ps == Contents(ProcessSections)
            n  == Len(dump.shown)
        IN  /\ n >= Len(ks)
            /\ \A i \in 1 .. Len(ks) : dump.shown[i] = ks[i]
            /\ {dump.shown[i] : i \in Len(ks) + 1 .. n} = {ps[i] : i \in 1 .. Len(ps)}

(* What the index loop that Serialize was written with, and now has in a   *)
(* comment, would show: every section of both lists once, in order.        *)
DumpOnce ==
    dump.at = "done" =>
        dump.shown = Contents(KernelSections) \o Contents(ProcessSections)

(* The calls that break the promise: on an array, Remove of a section that *)
(* has one behind it, which goes too; and what is done with an index in    *)
(* the part of the process.                                                *)
RemovesTwo(list, x) == Kind(list) = "array" /\ IndexIn(list, x) \in 0 .. list.count - 2

Departs ==
    \/ \E x \in Items :
          /\ RemovesTwo(IF x \in KernelItems THEN KernelSections ELSE ProcessSections, x)
          /\ Remove(x)
    \/ \E index \in KernelSections.count .. KernelSections.count + ProcessSections.count - 1 :
          \/ RemoveAt(index) \/ GetItem(index)
          \/ \E x \in KernelItems : SetItem(index, x)

(* The composed list, whatever it is kept in, is the pair of sequences of  *)
(* AbsSectionList, but for what these calls do to it; the calls after them *)
(* keep the promise again.                                                 *)
Abs == INSTANCE AbsSectionList
         WITH kernel <- Contents(KernelSections),
              process <- Contents(ProcessSections),
              bounded <- Kind(KernelSections) = "array"

ImplementsAbs == Abs!Init /\ [][Abs!Next \/ Departs]_(Abs!vars)
=============================================================================
