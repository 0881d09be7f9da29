----------------------------- MODULE DeltaQueue -----------------------------
(***************************************************************************)
(* The containers of include/linkedlist.h and include/queue.h as values.   *)
(*                                                                         *)
(* A LinkedList or a Queue is the sequence of its items.  A DeltaQueue is  *)
(* the sequence of its nodes [item, d]: a node is due d nanoseconds after  *)
(* the node before it, so that the time left for a node is _sumto of it.   *)
(* d is an unsigned integer of the build: arithmetic is modulo Modulus     *)
(* (2^64 in the kernel).                                                   *)
(***************************************************************************)
EXTENDS Integers, SequencesExt

CONSTANT Modulus

ASSUME ModulusAssumption == Modulus \in Nat \ {0}

Delta == 0 .. Modulus - 1

NodeOf(Items) == [item : Items, d : Delta]

-----------------------------------------------------------------------------
(* LinkedList<T>::_find: the position of the first node that holds t, or 0 *)
_find(q, t) == SelectInSeq(q, LAMBDA n : n.item = t)

(* DeltaQueue::_sumto without its overflow: the nanoseconds until the k-th *)
(* node is due, and 0 for k = 0.                                           *)
Sums(q) ==
    LET sum[k \in 0 .. Len(q)] == IF k = 0 THEN 0 ELSE sum[k-1] + q[k].d
    IN  sum

SumTo(q, k) == Sums(q)[k]

(* Mutant: the plain LinkedList::_remove, which forgets the d of the node. *)
_removePlain(q, k) == RemoveAt(q, k)

(* DeltaQueue::_remove: the node leaves and the next one inherits its d.   *)
_remove(q, k) ==
    LET rest == RemoveAt(q, k)
    IN  IF k < Len(q) THEN [rest EXCEPT ![k].d = (@ + q[k].d) % Modulus]
                      ELSE rest

(* LinkedList<T>::Remove on a DeltaQueue: the first node of t, if any.     *)
RemoveItem(q, t) == IF _find(q, t) = 0 THEN q ELSE _remove(q, _find(q, t))

(* The walk of DeltaQueue::InsertAtDelta: what is left of its parameter    *)
(* value when the walk has passed node k.                                  *)
Values(q, v) ==
    LET value[k \in 0 .. Len(q)] ==
            IF k = 0 THEN v ELSE (value[k-1] - q[k].d) % Modulus
    IN  value

(* DeltaQueue::InsertAtDelta.  At node k, value is compared with the d of  *)
(* the node after it: the walk stops with the new node in front of that    *)
(* one, and the subtraction meant for that one then clears the d of the    *)
(* new node, which c->next has become.  Else the node goes at the end.     *)
StopsAt(q, v, k) == k < Len(q) /\ Values(q, v)[k-1] <= q[k+1].d

InsertAtDelta(q, t, v) ==
    IF \E k \in 1 .. Len(q) : StopsAt(q, v, k)
    THEN LET k == CHOOSE k \in 1 .. Len(q) :
                      /\ StopsAt(q, v, k)
                      /\ \A j \in 1 .. k - 1 : ~ StopsAt(q, v, j)
         IN  InsertAt(q, k + 1, [item |-> t, d |-> 0])
    ELSE Append(q, [item |-> t, d |-> Values(q, v)[Len(q)]])

(* Mutant: every node is charged all of decval.                            *)
LeftUncharged(q, decval) ==
    LET left[k \in 0 .. Len(q)] == decval
    IN  left

(* The walk of DeltaQueue::DecreaseDelta: what is left of decval after     *)
(* node k, 0 once a node could take all of it and the walk ended.          *)
Left(q, decval) ==
    LET left[k \in 0 .. Len(q)] ==
            IF k = 0 THEN decval
            ELSE IF q[k].d >= left[k-1] THEN 0 ELSE left[k-1] - q[k].d
    IN  left

(* Mutant: only a first node that can give all of decval gives anything.   *)
DecreaseDeltaOfFirst(q, decval) ==
    [k \in 1 .. Len(q) |->
        [q[k] EXCEPT !.d = IF k = 1 /\ @ >= decval THEN @ - decval ELSE @]]

(* DeltaQueue::DecreaseDelta: each node gives what it can.                 *)
DecreaseDelta(q, decval) ==
    [k \in 1 .. Len(q) |->
        [q[k] EXCEPT !.d = IF @ >= Left(q, decval)[k-1]
                           THEN @ - Left(q, decval)[k-1] ELSE 0]]

(* DeltaQueue::GetZero takes the first node off when its d is 0.           *)
HasZero(q) == q # <<>> /\ Head(q).d = 0
GetZero(q) == Head(q).item

-----------------------------------------------------------------------------
(* What a list must be for its users: it holds every member of S once, and *)
(* nothing else.                                                           *)
ListsExactly(s, S) == IsInjective(s) /\ ToSet(s) = S

Items(q) == [k \in 1 .. Len(q) |-> q[k].item]
=============================================================================
