----------------------------- MODULE ArrayList -----------------------------
(***************************************************************************)
(* ArrayList<T, capacity> (include/arraylist.h): the list of what exists   *)
(* before the heap does.  arr has one slot too many, the memory behind the *)
(* array, because ShiftUp stores there and ShiftDown reads there.          *)
(***************************************************************************)
EXTENDS Integers, Sequences

CONSTANTS
    Capacity,
    Wild        \* what a slot holds that was never stored to

ASSUME ArrayListAssumption == Capacity \in Nat

NewArrayList == [kind |-> "array", count |-> 0, arr |-> [i \in 0 .. Capacity |-> Wild]]

ArrayAdd(list, item) ==
    IF list.count < Capacity
    THEN [list EXCEPT !.arr[list.count] = item, !.count = @ + 1]
    ELSE list

(* Both copy one element more than c.                                      *)
Shift(arr, d, s, c) ==
    [i \in DOMAIN arr |-> IF i \in d .. d + c THEN arr[s + i - d] ELSE arr[i]]

ShiftDown(list, d, s, c) == [list EXCEPT !.arr = Shift(@, d, s, c)]

ShiftUp(list, d, s, c) == [list EXCEPT !.arr = Shift(@, d, s, c)]

ArraySetItem(list, index, item) == [list EXCEPT !.arr[index] = item]

ArrayIndexOf(list, item) ==
    LET at == {i \in 0 .. list.count - 1 : list.arr[i] = item}
    IN  IF at = {} THEN -1 ELSE CHOOSE i \in at : \A j \in at : i <= j

ArrayInsert(list, item, index) ==
    IF index >= 0 /\ index <= list.count /\ list.count < Capacity
    THEN [ArraySetItem(ShiftUp(list, index + 1, index, list.count - index), index, item)
             EXCEPT !.count = @ + 1]
    ELSE list

ArrayRemoveAt(list, index) ==
    IF index >= 0 /\ index < list.count
    THEN [ShiftDown(list, index, index + 1, list.count - index - 1) EXCEPT !.count = @ - 1]
    ELSE list

(* Remove removes at the place of the item twice.                          *)
ArrayRemove(list, item) ==
    LET loc == ArrayIndexOf(list, item)
    IN  ArrayRemoveAt(ArrayRemoveAt(list, loc), loc)

ArrayClear(list) == [list EXCEPT !.count = 0]
=============================================================================
