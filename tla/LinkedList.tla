----------------------------- MODULE LinkedList -----------------------------
(***************************************************************************)
(* LinkedList<T> (include/linkedlist.h) with its pointers.  A list is the  *)
(* record of its fields f, l and count and of its nodes; a pointer is the  *)
(* number of a node or NULL.  new adds a node, delete takes one away, so   *)
(* that the use of a deleted node has no value.                            *)
(***************************************************************************)
EXTENDS Integers, Sequences, FiniteSets

NULL == 0

NewLinkedList == [kind |-> "linked", f |-> NULL, l |-> NULL, count |-> 0, nodes |-> <<>>]

(* new Node(item), at an address no node has.                              *)
Address(list) ==
    LET free == (1 .. Cardinality(DOMAIN list.nodes) + 1) \ DOMAIN list.nodes
    IN  CHOOSE n \in free : \A m \in free : n <= m

NewNode(list, n, item) ==
    [list EXCEPT !.nodes = [m \in DOMAIN @ \cup {n} |->
         IF m = n THEN [item |-> item, next |-> NULL, prev |-> NULL] ELSE @[m]]]

Delete(list, n) ==
    [list EXCEPT !.nodes = [m \in DOMAIN @ \ {n} |-> @[m]]]

-----------------------------------------------------------------------------
_insertbef(list, cur, n) ==
    LET before == list.nodes[cur].prev
        left   == IF before # NULL
                  THEN [list EXCEPT !.nodes[before].next = n, !.nodes[n].prev = before]
                  ELSE [list EXCEPT !.nodes[n].prev = NULL, !.f = n]
    IN  [left EXCEPT !.nodes[cur].prev = n, !.nodes[n].next = cur, !.count = @ + 1]

_insertend(list, n) ==
    LET linked == IF list.l = NULL
                  THEN [list EXCEPT !.f = n, !.l = n]
                  ELSE [list EXCEPT !.nodes[n].prev = list.l,
                                    !.nodes[list.l].next = n, !.l = n]
    IN  [linked EXCEPT !.count = @ + 1]

(* Mutant: the successor of a removed node keeps its prev.                 *)
_removeForward(list, n) ==
    LET node  == list.nodes[n]
        left  == IF node.prev # NULL
                 THEN [list EXCEPT !.nodes[node.prev].next = node.next]
                 ELSE [list EXCEPT !.f = node.next]
        right == IF node.next # NULL THEN left ELSE [left EXCEPT !.l = node.prev]
    IN  IF n = NULL THEN list ELSE [Delete(right, n) EXCEPT !.count = @ - 1]

_remove(list, n) ==
    LET node  == list.nodes[n]
        left  == IF node.prev # NULL
                 THEN [list EXCEPT !.nodes[node.prev].next = node.next]
                 ELSE [list EXCEPT !.f = node.next]
        right == IF node.next # NULL
                 THEN [left EXCEPT !.nodes[node.next].prev = node.prev]
                 ELSE [left EXCEPT !.l = node.prev]
    IN  IF n = NULL THEN list ELSE [Delete(right, n) EXCEPT !.count = @ - 1]

(* The loop c = f; while(c) c = c->next of _find, _item and CopyTo: c      *)
(* after so many rounds, from one end or the other.                        *)
Walk(list) ==
    LET c[i \in 0 .. Cardinality(DOMAIN list.nodes)] ==
            IF i = 0 THEN list.f
            ELSE IF c[i-1] = NULL THEN NULL ELSE list.nodes[c[i-1]].next
    IN  c

_item(list, index) == IF index \in DOMAIN Walk(list) THEN Walk(list)[index] ELSE NULL

ItemAt(list, index) == list.nodes[_item(list, index)].item

_find(list, item) ==
    LET at == {i \in DOMAIN Walk(list) :
                  Walk(list)[i] # NULL /\ ItemAt(list, i) = item}
    IN  IF at = {} THEN -1 ELSE CHOOSE i \in at : \A j \in at : i <= j

-----------------------------------------------------------------------------
LinkedAdd(list, item) ==
    LET n == Address(list) IN _insertend(NewNode(list, n, item), n)

LinkedInsert(list, item, index) ==
    LET next == _item(list, index)
        n    == Address(list)
        new  == NewNode(list, n, item)
    IN  IF next # NULL THEN _insertbef(new, next, n) ELSE _insertend(new, n)

LinkedRemoveAt(list, index) == _remove(list, _item(list, index))

LinkedRemove(list, item) ==
    IF _find(list, item) < 0 THEN list ELSE LinkedRemoveAt(list, _find(list, item))

LinkedClear(list) ==
    LET left[i \in 0 .. Cardinality(DOMAIN list.nodes)] ==
            IF i = 0 THEN list ELSE _remove(left[i-1], left[i-1].l)
    IN  left[Cardinality(DOMAIN list.nodes)]

(* Mutant: the first step goes to the second item.                         *)
LinkedMoveNextLate(list, c) ==
    IF c # NULL THEN list.nodes[c].next
    ELSE IF list.f = NULL THEN NULL ELSE list.nodes[list.f].next

(* LinkedList::Enumerator: c is NULL before the first item and, again,     *)
(* after the last.                                                         *)
LinkedMoveNext(list, c) == IF c = NULL THEN list.f ELSE list.nodes[c].next
=============================================================================
