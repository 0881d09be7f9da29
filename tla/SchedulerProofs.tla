--------------------------- MODULE SchedulerProofs ---------------------------
(***************************************************************************)
(* Proofs about Scheduler for every set of threads, every number of        *)
(* priorities, every slice, tick and sleep time and every width of the     *)
(* delta counters.                                                         *)
(***************************************************************************)
EXTENDS Scheduler, NaturalsInduction, FiniteSetTheorems, SequenceTheorems, TLAPS

-----------------------------------------------------------------------------
(* Smallest elements, and induction along a list.                          *)

(* A nonempty set of natural numbers has a smallest element.               *)
LEMMA SmallestElement ==
  ASSUME NEW S, S \subseteq Nat, S # {}
  PROVE  \E m \in S : \A n \in S : m <= n
<1>1. PICK m \in S : \A n \in S : <<n, m>> \notin OpToRel(<, Nat)
  BY NatLessThanWellFounded, WFMin, Zenon
<1>2. ASSUME NEW n \in S PROVE ~ n < m
  BY <1>1, Zenon DEF OpToRel
<1>. QED BY <1>2

(* A walk of n steps in D that starts with a and whose i-th step takes v   *)
(* to G[i][v].                                                             *)
IsWalk(f, n, D, a, G) ==
    /\ f \in [0 .. n -> D]
    /\ f[0] = a
    /\ \A i \in 1 .. n : f[i] = G[i][f[i-1]]

(* A walk of any length exists, if every step leads to a value of D.       *)
LEMMA WalkExists ==
    ASSUME NEW n \in Nat, NEW D, NEW a \in D, NEW G \in [1 .. n -> [D -> D]]
    PROVE  \E f : IsWalk(f, n, D, a, G)
<1> DEFINE Goes(f, m) == IsWalk(f, m, D, a, G)
           Bad == {m \in 0 .. n : ~ \E f : Goes(f, m)}
<1>1. SUFFICES ASSUME Bad # {} PROVE FALSE
    <2>1. n \in 0 .. n
        OBVIOUS
    <2>2. \E f : Goes(f, n)
        BY <2>1
    <2> QED BY <2>2
<1>2. Bad \subseteq Nat
    OBVIOUS
<1>3. PICK m \in Bad : \A k \in Bad : m <= k
    <2> HIDE DEF Bad
    <2> QED BY <1>1, <1>2, SmallestElement
<1>4. m \in 0 .. n /\ ~ \E f : Goes(f, m)
    OBVIOUS
<1>5. CASE m = 0
    <2>1. Goes([i \in 0 .. 0 |-> a], 0)
        BY DEF IsWalk
    <2> QED BY <2>1, <1>4, <1>5
<1>6. CASE m # 0
    <2>1. m \in 1 .. n /\ m - 1 \in 0 .. n /\ m - 1 \notin Bad
        <3>1. m \in 1 .. n /\ m - 1 \in 0 .. n /\ ~ (m <= m - 1)
            BY <1>4, <1>6
        <3> HIDE DEF Bad
        <3> QED BY <3>1, <1>3
    <2>2. PICK f : Goes(f, m - 1)
        BY <2>1
    <2> HIDE DEF Bad
    <2> DEFINE g == [i \in 0 .. m |-> IF i < m THEN f[i] ELSE G[m][f[m-1]]]
    <2>3. /\ f \in [0 .. m - 1 -> D]
          /\ f[0] = a
          /\ \A i \in 1 .. m - 1 : f[i] = G[i][f[i-1]]
        BY <2>2 DEF IsWalk
    <2> HIDE DEF Goes
    <2>4. G[m][f[m-1]] \in D
        BY <2>1, <2>3
    <2>5. g \in [0 .. m -> D]
        BY <2>1, <2>3, <2>4
    <2>6. /\ \A i \in 0 .. m - 1 : g[i] = f[i]
          /\ g[m] = G[m][f[m-1]]
        BY <2>1
    <2> HIDE DEF g
    <2>7. ASSUME NEW i \in 1 .. m PROVE g[i] = G[i][g[i-1]]
        <3>1. i - 1 \in 0 .. m - 1 /\ g[i-1] = f[i-1]
            BY <2>1, <2>6
        <3>2. CASE i = m
            BY <3>1, <3>2, <2>6
        <3>3. CASE i \in 1 .. m - 1
            <4>1. g[i] = f[i] /\ f[i] = G[i][f[i-1]]
                BY <3>3, <2>1, <2>3, <2>6
            <4> QED BY <4>1, <3>1
        <3> QED BY <3>2, <3>3, <2>1
    <2>8. Goes(g, m)
        <3>1. 0 \in 0 .. m - 1
            BY <2>1
        <3> QED BY <3>1, <2>3, <2>5, <2>6, <2>7 DEF Goes, IsWalk
    <2> QED BY <2>8, <1>4
<1> QED BY <1>5, <1>6

(* Induction along a walk of n steps: what holds at its start, and after   *)
(* each step if it held before it, holds at every position.                *)
LEMMA WalkInduction ==
    ASSUME NEW n \in Nat, NEW S,
           0 \in S,
           \A i \in 1 .. n : i - 1 \in S => i \in S
    PROVE  \A i \in 0 .. n : i \in S
<1> DEFINE Bad == {i \in 0 .. n : i \notin S}
<1>1. SUFFICES ASSUME Bad # {} PROVE FALSE
    OBVIOUS
<1>2. Bad \subseteq Nat
    OBVIOUS
<1>3. PICK m \in Bad : \A k \in Bad : m <= k
    <2> HIDE DEF Bad
    <2> QED BY <1>1, <1>2, SmallestElement
<1>4. m \in 1 .. n /\ m \notin S
    OBVIOUS
<1>5. m - 1 \in 0 .. n /\ ~ (m <= m - 1)
    BY <1>4
<1>6. m - 1 \in S
    BY <1>3, <1>5
<1> QED BY <1>4, <1>6

-----------------------------------------------------------------------------
(* The containers of DeltaQueue.                                           *)
Nodes(q) == \A k \in 1 .. Len(q) : q[k].d \in Nat

(* What the walk of DecreaseDelta has left is a natural number at every    *)
(* node, and obeys the loop of the code.                                   *)
LEMMA LeftWalk ==
    ASSUME NEW q, Len(q) \in Nat, Nodes(q), NEW decval \in Nat
    PROVE  /\ Left(q, decval) \in [0 .. Len(q) -> Nat]
           /\ Left(q, decval)[0] = decval
           /\ \A k \in 1 .. Len(q) :
                 Left(q, decval)[k] =
                     IF q[k].d >= Left(q, decval)[k-1]
                     THEN 0 ELSE Left(q, decval)[k-1] - q[k].d
<1> DEFINE n == Len(q)
           L == Left(q, decval)
           G == [k \in 1 .. n |-> [v \in Nat |->
                    IF q[k].d >= v THEN 0 ELSE v - q[k].d]]
<1>1. G \in [1 .. n -> [Nat -> Nat]]
    BY DEF Nodes
<1>2. PICK f : IsWalk(f, n, Nat, decval, G)
    <2>1. n \in Nat /\ decval \in Nat
        OBVIOUS
    <2> HIDE DEF G, n
    <2> QED BY <1>1, <2>1, WalkExists, Zenon
<1>3. \A k \in 1 .. n : f[k] = IF q[k].d >= f[k-1] THEN 0 ELSE f[k-1] - q[k].d
    <2> SUFFICES ASSUME NEW k \in 1 .. n
                 PROVE f[k] = IF q[k].d >= f[k-1] THEN 0 ELSE f[k-1] - q[k].d
        OBVIOUS
    <2>0. n \in Nat
        OBVIOUS
    <2>1. f[k-1] \in Nat /\ f[k] = G[k][f[k-1]]
        <3> HIDE DEF G, n
        <3>1. k - 1 \in 0 .. n
            BY <2>0
        <3>2. f \in [0 .. n -> Nat] /\ f[k] = G[k][f[k-1]]
            BY <1>2 DEF IsWalk
        <3> QED BY <3>1, <3>2
    <2> QED BY <2>1
<1>4. f = [k \in 0 .. n |-> IF k = 0 THEN decval
              ELSE IF q[k].d >= f[k-1] THEN 0 ELSE f[k-1] - q[k].d]
    BY <1>2, <1>3 DEF IsWalk
<1>5. L = [k \in 0 .. n |-> IF k = 0 THEN decval
              ELSE IF q[k].d >= L[k-1] THEN 0 ELSE L[k-1] - q[k].d]
    BY <1>4, Zenon DEF Left
<1> HIDE DEF L, n
<1>6. /\ L[0] = decval
      /\ \A k \in 1 .. n : L[k] = IF q[k].d >= L[k-1] THEN 0 ELSE L[k-1] - q[k].d
    BY <1>5 DEF n
<1>7. \A k \in 0 .. n : L[k] \in Nat
    <2> DEFINE S == {k \in 0 .. n : L[k] \in Nat}
    <2>1. 0 \in S
        BY <1>6 DEF n
    <2>2. ASSUME NEW k \in 1 .. n, k - 1 \in S PROVE k \in S
        <3>1. L[k-1] \in Nat /\ q[k].d \in Nat /\ k \in 0 .. n
            BY <2>2 DEF n, Nodes
        <3>2. L[k] = IF q[k].d >= L[k-1] THEN 0 ELSE L[k-1] - q[k].d
            BY <1>6
        <3>3. L[k] \in Nat
            BY <3>1, <3>2
        <3> QED BY <3>1, <3>3
    <2> HIDE DEF S
    <2>3. \A k \in 0 .. n : k \in S
        BY <2>1, <2>2, WalkInduction DEF n
    <2> QED BY <2>3 DEF S
<1> QED BY <1>5, <1>6, <1>7 DEF L, n

-----------------------------------------------------------------------------
(* Lists that hold every member of a set exactly once.                     *)

LEMMA ListsExactlyElements ==
    ASSUME NEW T, NEW s \in Seq(T), NEW S
    PROVE  ListsExactly(s, S) <=>
              /\ \A i, j \in 1 .. Len(s) : s[i] = s[j] => i = j
              /\ \A i \in 1 .. Len(s) : s[i] \in S
              /\ \A t \in S : \E i \in 1 .. Len(s) : s[i] = t
<1>1. DOMAIN s = 1 .. Len(s)
    OBVIOUS
<1> QED BY <1>1 DEF ListsExactly, IsInjective, ToSet

(* r is s without its k-th element. *)
IsDrop(r, s, k) ==
    /\ Len(r) = Len(s) - 1
    /\ \A i \in 1 .. Len(s) - 1 : r[i] = IF i < k THEN s[i] ELSE s[i+1]

(* r is s with t put at position k. *)
IsPut(r, s, k, t) ==
    /\ Len(r) = Len(s) + 1
    /\ \A i \in 1 .. Len(s) + 1 :
          r[i] = IF i < k THEN s[i] ELSE IF i = k THEN t ELSE s[i-1]

(* Dropping the k-th element of a list drops that member of the set. *)
LEMMA DropLists ==
    ASSUME NEW T, NEW s \in Seq(T), NEW r \in Seq(T), NEW S,
           ListsExactly(s, S),
           NEW k \in 1 .. Len(s), IsDrop(r, s, k)
    PROVE  ListsExactly(r, S \ {s[k]})
<1>1. /\ \A i, j \in 1 .. Len(s) : s[i] = s[j] => i = j
      /\ \A i \in 1 .. Len(s) : s[i] \in S
      /\ \A t \in S : \E i \in 1 .. Len(s) : s[i] = t
    BY ListsExactlyElements
<1>0. /\ Len(r) = Len(s) - 1
      /\ \A i \in 1 .. Len(r) : r[i] = IF i < k THEN s[i] ELSE s[i+1]
    BY DEF IsDrop
<1>2. ASSUME NEW i \in 1 .. Len(r), NEW j \in 1 .. Len(r), r[i] = r[j]
      PROVE  i = j
    <2> DEFINE at(m) == IF m < k THEN m ELSE m + 1
    <2>1. /\ at(i) \in 1 .. Len(s) /\ r[i] = s[at(i)]
          /\ at(j) \in 1 .. Len(s) /\ r[j] = s[at(j)]
        BY <1>0
    <2>2. at(i) = at(j)
        <3> HIDE DEF at
        <3> QED BY <1>1, <1>2, <2>1
    <2> QED BY <2>2
<1>3. \A i \in 1 .. Len(r) : r[i] \in S \ {s[k]}
    <2> SUFFICES ASSUME NEW i \in 1 .. Len(r) PROVE r[i] \in S \ {s[k]}
        OBVIOUS
    <2> DEFINE at(m) == IF m < k THEN m ELSE m + 1
    <2>1. at(i) \in 1 .. Len(s) /\ at(i) # k /\ r[i] = s[at(i)]
        BY <1>0
    <2> HIDE DEF at
    <2> QED BY <1>1, <2>1
<1>4. ASSUME NEW t \in S \ {s[k]} PROVE \E i \in 1 .. Len(r) : r[i] = t
    <2>1. PICK j \in 1 .. Len(s) : s[j] = t
        BY <1>1, <1>0
    <2>2. CASE j < k
        <3>1. j \in 1 .. Len(r) /\ r[j] = t
            BY <2>1, <2>2, <1>0
        <3> QED BY <3>1
    <2>3. CASE j > k
        <3>1. j - 1 \in 1 .. Len(r) /\ r[j-1] = t
            BY <2>1, <2>3, <1>0
        <3> QED BY <3>1
    <2>4. j # k
        BY <2>1
    <2> QED BY <2>2, <2>3, <2>4
<1> QED BY <1>2, <1>3, <1>4, ListsExactlyElements

(* Putting a new member t at position k of a list adds it to the set. *)
LEMMA PutLists ==
    ASSUME NEW T, NEW s \in Seq(T), NEW r \in Seq(T), NEW S,
           ListsExactly(s, S),
           NEW k \in 1 .. Len(s) + 1, NEW t, t \notin S, IsPut(r, s, k, t)
    PROVE  ListsExactly(r, S \cup {t})
<1>1. /\ \A i, j \in 1 .. Len(s) : s[i] = s[j] => i = j
      /\ \A i \in 1 .. Len(s) : s[i] \in S
      /\ \A u \in S : \E i \in 1 .. Len(s) : s[i] = u
    BY ListsExactlyElements
<1>0. /\ Len(r) = Len(s) + 1
      /\ \A i \in 1 .. Len(r) :
            r[i] = IF i < k THEN s[i] ELSE IF i = k THEN t ELSE s[i-1]
    BY DEF IsPut
<1> DEFINE from(i) == IF i < k THEN i ELSE i - 1
<1>2. /\ r[k] = t
      /\ \A i \in 1 .. Len(r) : i # k =>
            from(i) \in 1 .. Len(s) /\ r[i] = s[from(i)] /\ r[i] # t
    BY <1>1, <1>0
<1>3. ASSUME NEW i \in 1 .. Len(r), NEW j \in 1 .. Len(r), r[i] = r[j]
      PROVE  i = j
    <2>1. CASE i = k \/ j = k
        BY <1>2, <1>3, <2>1
    <2>2. CASE i # k /\ j # k
        <3> DEFINE fi == from(i)
                   fj == from(j)
        <3>1. fi \in 1 .. Len(s) /\ fj \in 1 .. Len(s) /\ s[fi] = s[fj]
            BY <1>2, <1>3, <2>2
        <3>2. fi = fj
            <4> HIDE DEF fi, fj
            <4> QED BY <1>1, <3>1
        <3> QED BY <3>2, <2>2
    <2> QED BY <2>1, <2>2
<1>4. \A i \in 1 .. Len(r) : r[i] \in S \cup {t}
    BY <1>1, <1>2, <1>0
<1>5. ASSUME NEW u \in S \cup {t} PROVE \E i \in 1 .. Len(r) : r[i] = u
    <2>1. CASE u = t
        <3>1. k \in 1 .. Len(r) /\ r[k] = t
            BY <1>0
        <3> QED BY <3>1, <2>1
    <2>2. CASE u \in S
        <3>1. PICK j \in 1 .. Len(s) : s[j] = u
            BY <1>1, <2>2
        <3>2. CASE j < k
            <4>1. j \in 1 .. Len(r) /\ r[j] = u
                BY <3>1, <3>2, <1>0
            <4> QED BY <4>1
        <3>3. CASE j >= k
            <4>1. j + 1 \in 1 .. Len(r) /\ r[j+1] = u
                BY <3>1, <3>3, <1>0
            <4> QED BY <4>1
        <3> QED BY <3>2, <3>3
    <2> QED BY <2>1, <2>2
<1> QED BY <1>3, <1>4, <1>5, ListsExactlyElements

LEMMA RemoveAtElements ==
    ASSUME NEW T, NEW s \in Seq(T), NEW k \in 1 .. Len(s)
    PROVE  /\ RemoveAt(s, k) \in Seq(T)
           /\ IsDrop(RemoveAt(s, k), s, k)
<1> DEFINE front == SubSeq(s, 1, k - 1)
           back  == SubSeq(s, k + 1, Len(s))
<1>1. /\ front \in Seq(T) /\ Len(front) = k - 1
      /\ \A i \in 1 .. k - 1 : front[i] = s[i]
    BY SubSeqProperties
<1>2. /\ back \in Seq(T) /\ Len(back) = Len(s) - k
      /\ \A i \in 1 .. Len(s) - k : back[i] = s[k + i]
    BY SubSeqProperties
<1>3. RemoveAt(s, k) = front \o back
    BY DEF RemoveAt
<1> HIDE DEF front, back
<1>0. Len(s) \in Nat /\ k \in Nat /\ k >= 1 /\ k <= Len(s)
    OBVIOUS
<1>4. /\ front \o back \in Seq(T)
      /\ Len(front \o back) = Len(s) - 1
      /\ \A i \in 1 .. Len(s) - 1 :
            (front \o back)[i] = IF i <= k - 1 THEN front[i] ELSE back[i - (k - 1)]
    <2>1. /\ front \o back \in Seq(T)
          /\ Len(front \o back) = Len(front) + Len(back)
          /\ \A i \in 1 .. Len(front) + Len(back) :
                (front \o back)[i] =
                    IF i <= Len(front) THEN front[i] ELSE back[i - Len(front)]
        BY <1>1, <1>2, ConcatProperties
    <2>2. Len(front) + Len(back) = Len(s) - 1
        BY <1>0, <1>1, <1>2
    <2> QED BY <2>1, <2>2, <1>1
<1>5. ASSUME NEW i \in 1 .. Len(s) - 1
      PROVE  (front \o back)[i] = IF i < k THEN s[i] ELSE s[i+1]
    <2>1. CASE i < k
        BY <2>1, <1>0, <1>1, <1>4
    <2>2. CASE i >= k
        <3>1. i - (k - 1) \in 1 .. Len(s) - k /\ k + (i - (k - 1)) = i + 1
            BY <2>2, <1>0
        <3>2. back[i - (k - 1)] = s[k + (i - (k - 1))]
            BY <3>1, <1>2
        <3> QED BY <3>1, <3>2, <2>2, <1>0, <1>4
    <2>3. i < k \/ i >= k
        BY <1>0
    <2> QED BY <2>1, <2>2, <2>3, Zenon
<1> QED BY <1>3, <1>4, <1>5 DEF IsDrop

LEMMA InsertAtElements ==
    ASSUME NEW T, NEW s \in Seq(T), NEW k \in 1 .. Len(s) + 1, NEW t \in T
    PROVE  /\ InsertAt(s, k, t) \in Seq(T)
           /\ IsPut(InsertAt(s, k, t), s, k, t)
<1> DEFINE front == SubSeq(s, 1, k - 1)
           back  == SubSeq(s, k, Len(s))
<1>0. Len(s) \in Nat /\ k \in Nat /\ k >= 1 /\ k <= Len(s) + 1
    OBVIOUS
<1>1. /\ front \in Seq(T) /\ Len(front) = k - 1
      /\ \A i \in 1 .. k - 1 : front[i] = s[i]
    BY SubSeqProperties
<1>2. /\ back \in Seq(T) /\ Len(back) = Len(s) - k + 1
      /\ \A i \in 1 .. Len(s) - k + 1 : back[i] = s[k + i - 1]
    BY SubSeqProperties
<1>3. InsertAt(s, k, t) = (front \o <<t>>) \o back
    BY DEF InsertAt
<1> HIDE DEF front, back
<1>4. /\ front \o <<t>> \in Seq(T) /\ Len(front \o <<t>>) = k
      /\ \A i \in 1 .. k - 1 : (front \o <<t>>)[i] = s[i]
      /\ (front \o <<t>>)[k] = t
    BY <1>1
<1> DEFINE head == front \o <<t>>
<1> HIDE DEF head
<1>5. /\ InsertAt(s, k, t) = head \o back
      /\ head \in Seq(T) /\ Len(head) = k
      /\ \A i \in 1 .. k - 1 : head[i] = s[i]
      /\ head[k] = t
    BY <1>3, <1>4 DEF head
<1>6. /\ head \o back \in Seq(T)
      /\ Len(head \o back) = Len(s) + 1
      /\ \A i \in 1 .. Len(s) + 1 :
            (head \o back)[i] = IF i <= k THEN head[i] ELSE back[i - k]
    <2>1. /\ head \o back \in Seq(T)
          /\ Len(head \o back) = Len(head) + Len(back)
          /\ \A i \in 1 .. Len(head) + Len(back) :
                (head \o back)[i] =
                    IF i <= Len(head) THEN head[i] ELSE back[i - Len(head)]
        BY <1>2, <1>5, ConcatProperties
    <2>2. Len(head) + Len(back) = Len(s) + 1
        BY <1>0, <1>2, <1>5
    <2> QED BY <2>1, <2>2, <1>5
<1>7. ASSUME NEW i \in 1 .. Len(s) + 1
      PROVE  (head \o back)[i] =
                IF i < k THEN s[i] ELSE IF i = k THEN t ELSE s[i-1]
    <2>1. CASE i <= k
        BY <2>1, <1>5, <1>6
    <2>2. CASE i > k
        <3>1. i - k \in 1 .. Len(s) - k + 1 /\ k + (i - k) - 1 = i - 1
            BY <2>2
        <3>2. back[i - k] = s[k + (i - k) - 1]
            BY <3>1, <1>2
        <3> QED BY <3>1, <3>2, <2>2, <1>6
    <2>3. i <= k \/ i > k
        BY <1>0
    <2> QED BY <2>1, <2>2, <2>3, Zenon
<1> QED BY <1>5, <1>6, <1>7 DEF IsPut

-----------------------------------------------------------------------------
(* The operations of LinkedList and DeltaQueue on such lists.              *)

LEMMA MinOfIndices ==
    ASSUME NEW I, I \subseteq Nat, I # {}
    PROVE  Min(I) \in I
<1>1. \E m \in I : \A k \in I : m <= k
    BY SmallestElement
<1> QED BY <1>1, Zenon DEF Min

(* _find returns the position of a node of t, or 0 if there is none. *)
LEMMA FindNode ==
    ASSUME NEW q, Len(q) \in Nat, NEW t
    PROVE  IF \E i \in 1 .. Len(q) : q[i].item = t
           THEN _find(q, t) \in 1 .. Len(q) /\ q[_find(q, t)].item = t
           ELSE _find(q, t) = 0
<1> DEFINE I == {i \in 1 .. Len(q) : q[i].item = t}
<1>1. _find(q, t) = IF I # {} THEN Min(I) ELSE 0
    BY DEF _find, SelectInSeq
<1>2. I \subseteq Nat
    OBVIOUS
<1>3. CASE I = {}
    BY <1>1, <1>3
<1>4. CASE I # {}
    <2>1. Min(I) \in I
        BY <1>2, <1>4, MinOfIndices
    <2> QED BY <1>1, <1>4, <2>1
<1> QED BY <1>3, <1>4

(* LinkedList::Remove of a thread a list holds takes it out of the list. *)
LEMMA RemoveFirstLists ==
    ASSUME NEW T, NEW s \in Seq(T), NEW S, ListsExactly(s, S), NEW t \in S
    PROVE  /\ RemoveFirst(s, t) \in Seq(T)
           /\ ListsExactly(RemoveFirst(s, t), S \ {t})
<1> DEFINE I == {i \in 1 .. Len(s) : s[i] = t}
           k == Min(I)
<1>1. \E i \in 1 .. Len(s) : s[i] = t
    BY ListsExactlyElements
<1>2. RemoveFirst(s, t) = RemoveAt(s, k)
    BY <1>1 DEF RemoveFirst, SelectInSeq
<1>3. k \in I
    <2>1. I \subseteq Nat /\ I # {}
        BY <1>1
    <2> QED BY <2>1, MinOfIndices
<1>4. k \in 1 .. Len(s) /\ s[k] = t
    BY <1>3
<1> HIDE DEF k
<1>5. ListsExactly(RemoveAt(s, k), S \ {s[k]})
    BY <1>4, RemoveAtElements, DropLists
<1> QED BY <1>2, <1>4, <1>5, RemoveAtElements

LEMMA AppendLists ==
    ASSUME NEW T, NEW s \in Seq(T), NEW S, ListsExactly(s, S),
           NEW t \in T, t \notin S
    PROVE  /\ Append(s, t) \in Seq(T)
           /\ ListsExactly(Append(s, t), S \cup {t})
<1>1. Append(s, t) \in Seq(T) /\ IsPut(Append(s, t), s, Len(s) + 1, t)
    BY AppendProperties DEF IsPut
<1>2. Len(s) + 1 \in 1 .. Len(s) + 1
    OBVIOUS
<1> QED BY <1>1, <1>2, PutLists

LEMMA DeltaIsNat == Delta \subseteq Nat
BY ModulusAssumption DEF Delta

LEMMA ModIsDelta ==
    ASSUME NEW x \in Int
    PROVE  x % Modulus \in Delta
BY ModulusAssumption DEF Delta

LEMMA SetDelta ==
    ASSUME NEW T, NEW node \in NodeOf(T), NEW x \in Delta
    PROVE  /\ [node EXCEPT !.d = x] \in NodeOf(T)
           /\ [node EXCEPT !.d = x].item = node.item
           /\ [node EXCEPT !.d = x].d = x
BY DEF NodeOf

(* Every node of a delta queue has a natural d, and its items are a list.  *)
LEMMA QueueFacts ==
    ASSUME NEW T, NEW q \in Seq(NodeOf(T))
    PROVE  /\ Len(q) \in Nat
           /\ Nodes(q)
           /\ \A k \in 1 .. Len(q) :
                 q[k] \in NodeOf(T) /\ q[k].item \in T /\ q[k].d \in Delta
           /\ Items(q) \in Seq(T)
           /\ Len(Items(q)) = Len(q)
           /\ \A k \in 1 .. Len(q) : Items(q)[k] = q[k].item
<1>1. Len(q) \in Nat
    OBVIOUS
<1>2. \A k \in 1 .. Len(q) : q[k] \in NodeOf(T)
    OBVIOUS
<1>3. \A k \in 1 .. Len(q) : q[k].item \in T /\ q[k].d \in Delta
    BY <1>2 DEF NodeOf
<1>4. /\ Items(q) \in Seq(T)
      /\ Len(Items(q)) = Len(q)
      /\ \A k \in 1 .. Len(q) : Items(q)[k] = q[k].item
    BY <1>1, <1>3 DEF Items
<1> QED BY <1>1, <1>2, <1>3, <1>4, DeltaIsNat DEF Nodes

(* DeltaQueue::_remove takes one node out and keeps every d in range. *)
LEMMA _removeLists ==
    ASSUME NEW T, NEW q \in Seq(NodeOf(T)), NEW S, ListsExactly(Items(q), S),
           NEW k \in 1 .. Len(q)
    PROVE  /\ _remove(q, k) \in Seq(NodeOf(T))
           /\ ListsExactly(Items(_remove(q, k)), S \ {q[k].item})
<1> DEFINE rest == RemoveAt(q, k)
           r == _remove(q, k)
<1>1. rest \in Seq(NodeOf(T)) /\ IsDrop(rest, q, k)
    BY RemoveAtElements
<1>2. Len(q) \in Nat /\ Len(rest) = Len(q) - 1
    BY <1>1 DEF IsDrop
<1>3. r \in Seq(NodeOf(T)) /\ Len(r) = Len(rest)
      /\ \A i \in 1 .. Len(rest) : r[i].item = rest[i].item
    <2>1. CASE k < Len(q)
        <3> DEFINE n == (rest[k].d + q[k].d) % Modulus
        <3>1. r = [rest EXCEPT ![k] = [rest[k] EXCEPT !.d = n]]
            BY <2>1 DEF _remove
        <3>2. k \in 1 .. Len(rest)
            BY <2>1, <1>2
        <3>3. rest[k] \in NodeOf(T) /\ rest[k].d \in Delta /\ q[k].d \in Delta
            BY <3>2, <1>1, QueueFacts
        <3>4. n \in Delta
            <4>1. rest[k].d + q[k].d \in Int
                <5>1. rest[k].d \in Nat /\ q[k].d \in Nat
                    BY <3>3, DeltaIsNat, Zenon
                <5> QED BY <5>1
            <4> QED BY <4>1, ModIsDelta
        <3> HIDE DEF n, rest, r
        <3>5. [rest[k] EXCEPT !.d = n] \in NodeOf(T)
              /\ [rest[k] EXCEPT !.d = n].item = rest[k].item
            BY <3>3, <3>4, SetDelta
        <3> QED BY <1>1, <3>1, <3>2, <3>5
    <2>2. CASE ~ (k < Len(q))
        BY <2>2, <1>1 DEF _remove
    <2> QED BY <2>1, <2>2
<1> HIDE DEF rest, r
<1>4. IsDrop(Items(r), Items(q), k)
    <2>1. /\ Len(Items(r)) = Len(q) - 1 /\ Len(Items(q)) = Len(q)
          /\ \A i \in 1 .. Len(q) - 1 : Items(r)[i] = r[i].item
          /\ \A i \in 1 .. Len(q) : Items(q)[i] = q[i].item
        BY <1>2, <1>3, QueueFacts
    <2>2. \A i \in 1 .. Len(q) - 1 :
             r[i].item = IF i < k THEN q[i].item ELSE q[i+1].item
        BY <1>1, <1>2, <1>3 DEF IsDrop
    <2>3. \A i \in 1 .. Len(q) - 1 : i \in 1 .. Len(q) /\ i + 1 \in 1 .. Len(q)
        BY <1>2
    <2> QED BY <2>1, <2>2, <2>3 DEF IsDrop
<1>5. Items(r) \in Seq(T) /\ Items(q) \in Seq(T) /\ k \in 1 .. Len(Items(q))
      /\ Items(q)[k] = q[k].item
    BY <1>3, QueueFacts
<1>6. ListsExactly(Items(r), S \ {q[k].item})
    BY <1>4, <1>5, DropLists
<1> QED BY <1>3, <1>6 DEF r

(* LinkedList::Remove on a delta queue, of a thread that is in it or not. *)
LEMMA RemoveItemLists ==
    ASSUME NEW T, NEW q \in Seq(NodeOf(T)), NEW S, ListsExactly(Items(q), S),
           NEW t
    PROVE  /\ RemoveItem(q, t) \in Seq(NodeOf(T))
           /\ ListsExactly(Items(RemoveItem(q, t)), S \ {t})
           /\ t \notin S => RemoveItem(q, t) = q
<1>1. /\ \A i \in 1 .. Len(q) : q[i].item \in S
      /\ \A u \in S : \E i \in 1 .. Len(q) : q[i].item = u
    BY QueueFacts, ListsExactlyElements
<1>2. CASE t \in S
    <2>1. _find(q, t) \in 1 .. Len(q) /\ q[_find(q, t)].item = t
        BY <1>1, <1>2, FindNode
    <2>2. RemoveItem(q, t) = _remove(q, _find(q, t))
        BY <2>1 DEF RemoveItem
    <2> QED BY <1>2, <2>1, <2>2, _removeLists
<1>3. CASE t \notin S
    <2>1. _find(q, t) = 0
        BY <1>1, <1>3, FindNode
    <2>2. RemoveItem(q, t) = q /\ S \ {t} = S
        BY <2>1, <1>3 DEF RemoveItem
    <2> QED BY <2>2
<1> QED BY <1>2, <1>3

(* The walk of InsertAtDelta carries a delta from node to node. *)
LEMMA ValuesWalk ==
    ASSUME NEW q, Len(q) \in Nat, Nodes(q), NEW v \in Delta
    PROVE  /\ Values(q, v) \in [0 .. Len(q) -> Delta]
           /\ Values(q, v)[0] = v
           /\ \A k \in 1 .. Len(q) :
                 Values(q, v)[k] = (Values(q, v)[k-1] - q[k].d) % Modulus
<1> DEFINE n == Len(q)
           V == Values(q, v)
           G == [k \in 1 .. n |-> [x \in Delta |-> (x - q[k].d) % Modulus]]
<1>1. G \in [1 .. n -> [Delta -> Delta]]
    <2>1. \A k \in 1 .. n, x \in Delta : x - q[k].d \in Int
        BY DeltaIsNat DEF Nodes
    <2> QED BY <2>1, ModIsDelta
<1>2. PICK f : IsWalk(f, n, Delta, v, G)
    <2>1. n \in Nat /\ v \in Delta
        OBVIOUS
    <2> HIDE DEF G, n
    <2> QED BY <1>1, <2>1, WalkExists, Zenon
<1>3. \A k \in 1 .. n : f[k] = (f[k-1] - q[k].d) % Modulus
    <2> SUFFICES ASSUME NEW k \in 1 .. n
                 PROVE f[k] = (f[k-1] - q[k].d) % Modulus
        OBVIOUS
    <2>1. f[k-1] \in Delta
        BY <1>2 DEF IsWalk
    <2>2. f[k] = G[k][f[k-1]]
        BY <1>2 DEF IsWalk
    <2> QED BY <2>1, <2>2
<1>4. f = [k \in 0 .. n |-> IF k = 0 THEN v ELSE (f[k-1] - q[k].d) % Modulus]
    BY <1>2, <1>3 DEF IsWalk
<1>5. V = [k \in 0 .. n |-> IF k = 0 THEN v ELSE (V[k-1] - q[k].d) % Modulus]
    BY <1>4, Zenon DEF Values
<1> HIDE DEF V, n
<1>6. V[0] = v /\ \A k \in 1 .. n : V[k] = (V[k-1] - q[k].d) % Modulus
    BY <1>5 DEF n
<1>7. \A k \in 0 .. n : V[k] \in Delta
    <2> DEFINE S == {k \in 0 .. n : V[k] \in Delta}
    <2>1. 0 \in S
        BY <1>6 DEF n
    <2>2. ASSUME NEW k \in 1 .. n, k - 1 \in S PROVE k \in S
        <3>1. V[k-1] - q[k].d \in Int
            <4>1. V[k-1] \in Nat /\ q[k].d \in Nat
                BY <2>2, DeltaIsNat DEF n, Nodes
            <4> QED BY <4>1
        <3>2. V[k] \in Delta
            BY <3>1, <1>6, ModIsDelta
        <3> QED BY <3>2 DEF n
    <2> HIDE DEF S
    <2>3. \A k \in 0 .. n : k \in S
        BY <2>1, <2>2, WalkInduction DEF n
    <2> QED BY <2>3 DEF S
<1> QED BY <1>5, <1>6, <1>7 DEF V, n

(* Where InsertAtDelta puts the new node.                                  *)
LEMMA InsertAtDeltaPuts ==
    ASSUME NEW T, NEW q \in Seq(NodeOf(T)), NEW t \in T, NEW v \in Delta
    PROVE  \E k \in 1 .. Len(q) + 1, node \in NodeOf(T) :
              /\ node.item = t
              /\ k = Len(q) + 1 \/ node.d = 0
              /\ InsertAtDelta(q, t, v) \in Seq(NodeOf(T))
              /\ IsPut(InsertAtDelta(q, t, v), q, k, node)
<1> DEFINE r == InsertAtDelta(q, t, v)
<1>1. CASE \E k \in 1 .. Len(q) : StopsAt(q, v, k)
    <2> DEFINE Stops == {k \in 1 .. Len(q) : StopsAt(q, v, k)}
               First(k) == /\ StopsAt(q, v, k)
                           /\ \A j \in 1 .. k - 1 : ~ StopsAt(q, v, j)
               k == CHOOSE k \in 1 .. Len(q) : First(k)
               node == [item |-> t, d |-> 0]
    <2>1. \E m \in 1 .. Len(q) : First(m)
        <3>1. Stops \subseteq Nat /\ Stops # {}
            BY <1>1
        <3>2. PICK m \in Stops : \A j \in Stops : m <= j
            <4> HIDE DEF Stops
            <4> QED BY <3>1, SmallestElement
        <3>3. \A j \in 1 .. m - 1 : j \in 1 .. Len(q) /\ ~ (m <= j)
            BY <3>2
        <3> QED BY <3>2, <3>3
    <2>2. k \in 1 .. Len(q)
        <3> HIDE DEF First
        <3> QED BY <2>1
    <2>3. r = InsertAt(q, k + 1, node)
        BY <1>1, Zenon DEF InsertAtDelta
    <2>4. node \in NodeOf(T) /\ node.item = t /\ node.d = 0
        BY ModulusAssumption DEF NodeOf, Delta
    <2> HIDE DEF k, node, r
    <2>5. k + 1 \in 1 .. Len(q) + 1
        BY <2>2
    <2>6. r \in Seq(NodeOf(T)) /\ IsPut(r, q, k + 1, node)
        BY <2>3, <2>4, <2>5, InsertAtElements
    <2> QED BY <2>4, <2>5, <2>6 DEF r
<1>2. CASE ~ \E k \in 1 .. Len(q) : StopsAt(q, v, k)
    <2> DEFINE node == [item |-> t, d |-> Values(q, v)[Len(q)]]
    <2>1. r = Append(q, node)
        BY <1>2 DEF InsertAtDelta
    <2>2. Values(q, v)[Len(q)] \in Delta
        BY QueueFacts, ValuesWalk
    <2>3. node \in NodeOf(T) /\ node.item = t
        BY <2>2 DEF NodeOf
    <2> HIDE DEF node, r
    <2>4. Len(q) + 1 \in 1 .. Len(q) + 1
        OBVIOUS
    <2>5. r \in Seq(NodeOf(T)) /\ IsPut(r, q, Len(q) + 1, node)
        BY <2>1, <2>3, AppendProperties DEF IsPut
    <2> QED BY <2>3, <2>4, <2>5 DEF r
<1> QED BY <1>1, <1>2

(* InsertAtDelta puts the new thread somewhere in the list, whatever time  *)
(* it is given, and moves no other.                                        *)
LEMMA InsertAtDeltaLists ==
    ASSUME NEW T, NEW q \in Seq(NodeOf(T)), NEW S, ListsExactly(Items(q), S),
           NEW t \in T, t \notin S, NEW v \in Delta
    PROVE  /\ InsertAtDelta(q, t, v) \in Seq(NodeOf(T))
           /\ ListsExactly(Items(InsertAtDelta(q, t, v)), S \cup {t})
<1> DEFINE r == InsertAtDelta(q, t, v)
<1>1. PICK k \in 1 .. Len(q) + 1, node \in NodeOf(T) :
         /\ node.item = t
         /\ r \in Seq(NodeOf(T))
         /\ IsPut(r, q, k, node)
    BY InsertAtDeltaPuts
<1> HIDE DEF r
<1>2. /\ Items(r) \in Seq(T) /\ Items(q) \in Seq(T)
      /\ Len(Items(q)) = Len(q) /\ Len(Items(r)) = Len(r)
      /\ \A i \in 1 .. Len(q) : Items(q)[i] = q[i].item
      /\ \A i \in 1 .. Len(r) : Items(r)[i] = r[i].item
    BY <1>1, QueueFacts
<1>3. Len(r) = Len(q) + 1
    BY <1>1 DEF IsPut
<1>4. \A i \in 1 .. Len(q) + 1 :
         r[i].item = IF i < k THEN q[i].item
                     ELSE IF i = k THEN t ELSE q[i-1].item
    BY <1>1 DEF IsPut
<1>5. \A i \in 1 .. Len(q) + 1 :
         /\ i < k => i \in 1 .. Len(q)
         /\ i > k => i - 1 \in 1 .. Len(q)
    OBVIOUS
<1>6. IsPut(Items(r), Items(q), k, t)
    <2>1. Len(Items(r)) = Len(Items(q)) + 1
        BY <1>2, <1>3
    <2>2. ASSUME NEW i \in 1 .. Len(q) + 1
          PROVE  Items(r)[i] = IF i < k THEN Items(q)[i]
                               ELSE IF i = k THEN t ELSE Items(q)[i-1]
        <3>1. Items(r)[i] = r[i].item
            BY <1>2, <1>3
        <3>2. CASE i < k
            BY <3>1, <3>2, <1>2, <1>4, <1>5
        <3>3. CASE i = k
            BY <3>1, <3>3, <1>4
        <3>4. CASE i > k
            <4>1. Items(q)[i-1] = q[i-1].item
                BY <3>4, <1>2, <1>5
            <4> QED BY <3>1, <3>4, <4>1, <1>4
        <3> QED BY <3>2, <3>3, <3>4
    <2> QED BY <2>1, <2>2, <1>2 DEF IsPut
<1> QED BY <1>1, <1>2, <1>6, PutLists DEF r

(* DecreaseDelta changes no item. *)
LEMMA DecreaseDeltaLists ==
    ASSUME NEW T, NEW q \in Seq(NodeOf(T)), NEW decval \in Nat
    PROVE  /\ DecreaseDelta(q, decval) \in Seq(NodeOf(T))
           /\ Items(DecreaseDelta(q, decval)) = Items(q)
<1> DEFINE r == DecreaseDelta(q, decval)
           L == Left(q, decval)
           d(k) == IF q[k].d >= L[k-1] THEN q[k].d - L[k-1] ELSE 0
<1>1. \A k \in 1 .. Len(q) : L[k-1] \in Nat
    BY QueueFacts, LeftWalk
<1>2. r = [k \in 1 .. Len(q) |-> [q[k] EXCEPT !.d = d(k)]]
    BY DEF DecreaseDelta
<1> HIDE DEF L, r
<1>3. \A k \in 1 .. Len(q) : d(k) \in Delta
    BY <1>1, QueueFacts, ModulusAssumption DEF Delta
<1> HIDE DEF d
<1>4. \A k \in 1 .. Len(q) :
         /\ [q[k] EXCEPT !.d = d(k)] \in NodeOf(T)
         /\ [q[k] EXCEPT !.d = d(k)].item = q[k].item
    BY <1>3, QueueFacts, SetDelta
<1>5. /\ r \in Seq(NodeOf(T)) /\ Len(r) = Len(q)
      /\ \A k \in 1 .. Len(q) : r[k].item = q[k].item
    <2> DEFINE node(k) == [q[k] EXCEPT !.d = d(k)]
    <2>1. /\ r = [k \in 1 .. Len(q) |-> node(k)]
          /\ \A k \in 1 .. Len(q) : node(k) \in NodeOf(T)
                                    /\ node(k).item = q[k].item
        BY <1>2, <1>4
    <2> HIDE DEF node
    <2> QED BY <2>1, QueueFacts
<1> QED BY <1>5 DEF Items, r

-----------------------------------------------------------------------------
(* The time left.                                                          *)

(* _sumto adds up the nodes from the head.                                 *)
LEMMA SumsWalk ==
    ASSUME NEW q, Len(q) \in Nat, Nodes(q)
    PROVE  /\ \A k \in 0 .. Len(q) : SumTo(q, k) \in Nat
           /\ SumTo(q, 0) = 0
           /\ \A k \in 1 .. Len(q) : SumTo(q, k) = SumTo(q, k-1) + q[k].d
<1> DEFINE n == Len(q)
           M == Sums(q)
           G == [k \in 1 .. n |-> [v \in Nat |-> v + q[k].d]]
<1>1. G \in [1 .. n -> [Nat -> Nat]]
    BY DEF Nodes
<1>2. PICK f : IsWalk(f, n, Nat, 0, G)
    <2>1. n \in Nat /\ 0 \in Nat
        OBVIOUS
    <2> HIDE DEF G, n
    <2> QED BY <1>1, <2>1, WalkExists, Zenon
<1>3. \A k \in 1 .. n : f[k] = f[k-1] + q[k].d
    <2> SUFFICES ASSUME NEW k \in 1 .. n PROVE f[k] = f[k-1] + q[k].d
        OBVIOUS
    <2>1. f[k-1] \in Nat
        BY <1>2 DEF IsWalk
    <2>2. f[k] = G[k][f[k-1]]
        BY <1>2 DEF IsWalk
    <2> QED BY <2>1, <2>2
<1>4. f = [k \in 0 .. n |-> IF k = 0 THEN 0 ELSE f[k-1] + q[k].d]
    BY <1>2, <1>3 DEF IsWalk
<1>5. M = [k \in 0 .. n |-> IF k = 0 THEN 0 ELSE M[k-1] + q[k].d]
    BY <1>4, Zenon DEF Sums
<1> HIDE DEF M, n
<1>6. M[0] = 0 /\ \A k \in 1 .. n : M[k] = M[k-1] + q[k].d
    BY <1>5 DEF n
<1>7. \A k \in 0 .. n : M[k] \in Nat
    <2> DEFINE S == {k \in 0 .. n : M[k] \in Nat}
    <2>1. 0 \in S
        BY <1>6 DEF n
    <2>2. ASSUME NEW k \in 1 .. n, k - 1 \in S PROVE k \in S
        BY <1>6, <2>2 DEF n, Nodes
    <2> HIDE DEF S
    <2>3. \A k \in 0 .. n : k \in S
        BY <2>1, <2>2, WalkInduction DEF n
    <2> QED BY <2>3 DEF S
<1> QED BY <1>6, <1>7 DEF M, n, SumTo

(* Once the head is not due, nobody is.                                    *)
LEMMA HeadIsFirstDue ==
    ASSUME NEW T, NEW q \in Seq(NodeOf(T)), ~ HasZero(q)
    PROVE  \A k \in 1 .. Len(q) : SumTo(q, k) > 0
<1>1. /\ Len(q) \in Nat
      /\ \A k \in 1 .. Len(q) : q[k].d \in Nat
      /\ \A k \in 0 .. Len(q) : SumTo(q, k) \in Nat
      /\ SumTo(q, 0) = 0
      /\ \A k \in 1 .. Len(q) : SumTo(q, k) = SumTo(q, k-1) + q[k].d
    BY QueueFacts, SumsWalk DEF Nodes
<1> DEFINE S == {k \in 0 .. Len(q) : k > 0 => SumTo(q, k) > 0}
<1>2. 0 \in S
    BY <1>1
<1>3. ASSUME NEW k \in 1 .. Len(q), k - 1 \in S PROVE k \in S
    <2>1. CASE k = 1
        <3>1. q[1].d # 0
            BY <2>1 DEF HasZero
        <3> QED BY <1>1, <2>1, <3>1
    <2>2. CASE k # 1
        BY <1>1, <1>3, <2>2
    <2> QED BY <2>1, <2>2
<1> HIDE DEF S
<1>4. \A k \in 0 .. Len(q) : k \in S
    BY <1>1, <1>2, <1>3, WalkInduction
<1> QED BY <1>1, <1>4 DEF S

(* Max of the library, which is a CHOOSE.                                  *)
LEMMA MaxOfTwo ==
    ASSUME NEW a \in Int, NEW b \in Int
    PROVE  Max({a, b}) = IF a >= b THEN a ELSE b
<1>1. \E x \in {a, b} : \A y \in {a, b} : x >= y
    BY DEF Max
<1>2. /\ Max({a, b}) \in {a, b}
      /\ \A y \in {a, b} : Max({a, b}) >= y
    BY <1>1 DEF Max
<1> HIDE DEF Max
<1> QED BY <1>2

(* However DecreaseDelta spreads decval over the nodes, it takes exactly   *)
(* that off the time every node has left.                                  *)
LEMMA DecreaseDeltaSums ==
    ASSUME NEW T, NEW q \in Seq(NodeOf(T)), NEW decval \in Nat
    PROVE  \A k \in 1 .. Len(q) :
              SumTo(DecreaseDelta(q, decval), k) = Max({0, SumTo(q, k) - decval})
<1> DEFINE r == DecreaseDelta(q, decval)
           L == Left(q, decval)
<1>1. /\ Len(q) \in Nat
      /\ \A k \in 1 .. Len(q) : q[k].d \in Nat
      /\ \A k \in 0 .. Len(q) : SumTo(q, k) \in Nat
      /\ SumTo(q, 0) = 0
      /\ \A k \in 1 .. Len(q) : SumTo(q, k) = SumTo(q, k-1) + q[k].d
    BY QueueFacts, SumsWalk DEF Nodes
<1>2. r \in Seq(NodeOf(T)) /\ Len(r) = Len(q)
    <2>1. r \in Seq(NodeOf(T))
        BY DecreaseDeltaLists
    <2> QED BY <1>1, <2>1 DEF DecreaseDelta
<1>3. /\ \A k \in 0 .. Len(q) : L[k] \in Nat
      /\ L[0] = decval
      /\ \A k \in 1 .. Len(q) : L[k] = IF q[k].d >= L[k-1] THEN 0 ELSE L[k-1] - q[k].d
    <2>1. Nodes(q)
        BY QueueFacts
    <2> HIDE DEF L
    <2> QED BY <1>1, <2>1, LeftWalk DEF L
<1>4. \A k \in 1 .. Len(q) : r[k].d = IF q[k].d >= L[k-1] THEN q[k].d - L[k-1] ELSE 0
    <2>1. \A k \in 1 .. Len(q) : q[k] \in NodeOf(T)
        BY QueueFacts
    <2> HIDE DEF L
    <2> QED BY <2>1 DEF DecreaseDelta, NodeOf, L
<1>5. /\ \A k \in 0 .. Len(q) : SumTo(r, k) \in Nat
      /\ SumTo(r, 0) = 0
      /\ \A k \in 1 .. Len(q) : SumTo(r, k) = SumTo(r, k-1) + r[k].d
    <2> HIDE DEF r
    <2> QED BY <1>2, QueueFacts, SumsWalk
<1> HIDE DEF r, L
<1> DEFINE S == {k \in 0 .. Len(q) : /\ SumTo(r, k) - L[k] = SumTo(q, k) - decval
                                     /\ SumTo(r, k) = 0 \/ L[k] = 0}
<1>6. 0 \in S
    BY <1>1, <1>3, <1>5
<1>7. ASSUME NEW k \in 1 .. Len(q), k - 1 \in S PROVE k \in S
    <2>1. k - 1 \in 0 .. Len(q)
        BY <1>1
    <2>2. /\ SumTo(r, k) = SumTo(r, k-1) + r[k].d
          /\ SumTo(q, k) = SumTo(q, k-1) + q[k].d
          /\ L[k] = IF q[k].d >= L[k-1] THEN 0 ELSE L[k-1] - q[k].d
          /\ r[k].d = IF q[k].d >= L[k-1] THEN q[k].d - L[k-1] ELSE 0
          /\ SumTo(r, k-1) \in Nat /\ SumTo(q, k-1) \in Nat /\ L[k-1] \in Nat /\ q[k].d \in Nat
        BY <1>1, <1>3, <1>4, <1>5, <2>1
    <2>3. /\ SumTo(r, k-1) - L[k-1] = SumTo(q, k-1) - decval
          /\ SumTo(r, k-1) = 0 \/ L[k-1] = 0
        BY <1>7
    <2>4. /\ SumTo(r, k) - L[k] = SumTo(q, k) - decval
          /\ SumTo(r, k) = 0 \/ L[k] = 0
        <3>1. PICK x, y, d, l \in Nat : /\ x = SumTo(r, k-1) /\ y = SumTo(q, k-1)
                                        /\ d = q[k].d /\ l = L[k-1]
            BY <2>2, Zenon
        <3>2. x - l = y - decval /\ (x = 0 \/ l = 0)
            BY <2>3, <3>1
        <3>3. CASE d >= l
            <4>1. SumTo(r, k) = x + (d - l) /\ L[k] = 0 /\ SumTo(q, k) = y + d
                BY <2>2, <3>1, <3>3
            <4> QED BY <3>2, <4>1
        <3>4. CASE ~ (d >= l)
            <4>1. SumTo(r, k) = x + 0 /\ L[k] = l - d /\ SumTo(q, k) = y + d
                BY <2>2, <3>1, <3>4
            <4> QED BY <3>2, <3>4, <4>1
        <3> QED BY <3>3, <3>4
    <2> QED BY <1>1, <2>4
<1> HIDE DEF S
<1>8. \A k \in 0 .. Len(q) : k \in S
    BY <1>1, <1>6, <1>7, WalkInduction
<1>9. ASSUME NEW k \in 1 .. Len(q)
      PROVE  SumTo(r, k) = Max({0, SumTo(q, k) - decval})
    <2>1. k \in 0 .. Len(q)
        BY <1>1
    <2>2. /\ SumTo(r, k) - L[k] = SumTo(q, k) - decval
          /\ SumTo(r, k) = 0 \/ L[k] = 0
          /\ SumTo(r, k) \in Nat /\ SumTo(q, k) \in Nat /\ L[k] \in Nat
        BY <1>1, <1>3, <1>5, <1>8, <2>1 DEF S
    <2>3. Max({0, SumTo(q, k) - decval}) =
              IF 0 >= SumTo(q, k) - decval THEN 0 ELSE SumTo(q, k) - decval
        BY <2>2, MaxOfTwo
    <2> QED BY <2>2, <2>3
<1> QED BY <1>9 DEF r

LEMMA SmallRemainder ==
    ASSUME NEW a \in Nat, a < Modulus
    PROVE  a % Modulus = a
BY ModulusAssumption

(* What ListsExactly says of the nodes of a queue.                         *)
LEMMA ItemsExactly ==
    ASSUME NEW T, NEW q \in Seq(NodeOf(T)), NEW S, ListsExactly(Items(q), S)
    PROVE  /\ \A i, j \in 1 .. Len(q) : q[i].item = q[j].item => i = j
           /\ \A i \in 1 .. Len(q) : q[i].item \in S
           /\ \A t \in S : \E i \in 1 .. Len(q) : q[i].item = t
<1>1. /\ Items(q) \in Seq(T)
      /\ Len(Items(q)) = Len(q)
      /\ \A k \in 1 .. Len(q) : Items(q)[k] = q[k].item
    BY QueueFacts
<1> DEFINE it == Items(q)
<1> HIDE DEF it
<1>2. /\ \A i, j \in 1 .. Len(it) : it[i] = it[j] => i = j
      /\ \A i \in 1 .. Len(it) : it[i] \in S
      /\ \A t \in S : \E i \in 1 .. Len(it) : it[i] = t
    BY <1>1, ListsExactlyElements DEF it
<1> QED BY <1>1, <1>2 DEF it

(* The items two queues share, but for t, have the same time left if it is *)
(* one a counter can hold.                                                 *)
KeepsTimes(q, r, t) ==
    \A i \in 1 .. Len(q), j \in 1 .. Len(r) :
        q[i].item = r[j].item /\ q[i].item # t /\ SumTo(q, i) < Modulus
            => SumTo(r, j) = SumTo(q, i)

(* SumsWalk for the nodes of a queue.                                      *)
LEMMA QueueSums ==
    ASSUME NEW T, NEW q \in Seq(NodeOf(T))
    PROVE  /\ Len(q) \in Nat
           /\ \A k \in 1 .. Len(q) : q[k].d \in Nat
           /\ \A k \in 0 .. Len(q) : SumTo(q, k) \in Nat
           /\ SumTo(q, 0) = 0
           /\ \A k \in 1 .. Len(q) : SumTo(q, k) = SumTo(q, k-1) + q[k].d
BY QueueFacts, SumsWalk DEF Nodes

(* The nodes of _remove(q, k).                                             *)
LEMMA _removeNodes ==
    ASSUME NEW T, NEW q \in Seq(NodeOf(T)), NEW k \in 1 .. Len(q)
    PROVE  LET r == _remove(q, k)
           IN  /\ Len(r) = Len(q) - 1
               /\ \A i \in 1 .. Len(q) - 1 :
                     /\ r[i].item = IF i < k THEN q[i].item ELSE q[i+1].item
                     /\ r[i].d = IF i < k THEN q[i].d
                                 ELSE IF i = k THEN (q[k+1].d + q[k].d) % Modulus
                                 ELSE q[i+1].d
<1> DEFINE rest == RemoveAt(q, k)
           r == _remove(q, k)
<1>1. rest \in Seq(NodeOf(T)) /\ IsDrop(rest, q, k)
    BY RemoveAtElements
<1>2. Len(q) \in Nat /\ Len(rest) = Len(q) - 1
      /\ \A i \in 1 .. Len(q) - 1 : rest[i] = IF i < k THEN q[i] ELSE q[i+1]
    BY <1>1 DEF IsDrop
<1>3. CASE k < Len(q)
    <2> DEFINE n == (rest[k].d + q[k].d) % Modulus
    <2>1. r = [rest EXCEPT ![k] = [rest[k] EXCEPT !.d = n]]
        BY <1>3 DEF _remove
    <2>2. k \in 1 .. Len(rest) /\ rest[k] = q[k+1] /\ rest[k] \in NodeOf(T)
        BY <1>1, <1>2, <1>3
    <2>3. [rest[k] EXCEPT !.d = n].item = q[k+1].item /\ [rest[k] EXCEPT !.d = n].d = n
        BY <2>2 DEF NodeOf
    <2>4. n = (q[k+1].d + q[k].d) % Modulus
        BY <2>2
    <2> HIDE DEF n, rest, r
    <2>5. Len(r) = Len(rest) /\ r[k].item = q[k+1].item /\ r[k].d = n
          /\ \A i \in 1 .. Len(rest) : i # k => r[i] = rest[i]
        BY <1>1, <2>1, <2>2, <2>3
    <2>6. ASSUME NEW i \in 1 .. Len(q) - 1
          PROVE  /\ r[i].item = IF i < k THEN q[i].item ELSE q[i+1].item
                 /\ r[i].d = IF i < k THEN q[i].d
                             ELSE IF i = k THEN (q[k+1].d + q[k].d) % Modulus
                             ELSE q[i+1].d
        <3>1. CASE i = k
            BY <2>4, <2>5, <3>1
        <3>2. CASE i # k
            BY <1>2, <2>5, <3>2
        <3> QED BY <3>1, <3>2
    <2> QED BY <1>2, <2>5, <2>6 DEF r
<1>4. CASE k = Len(q)
    <2>1. r = rest
        BY <1>4 DEF _remove
    <2> HIDE DEF rest, r
    <2>2. \A i \in 1 .. Len(q) - 1 : i < k
        BY <1>2, <1>4
    <2> QED BY <1>2, <2>1, <2>2 DEF r
<1> QED BY <1>2, <1>3, <1>4

(* The next node inherits the time of the one that leaves.                 *)
LEMMA _removeSums ==
    ASSUME NEW T, NEW q \in Seq(NodeOf(T)), NEW S, ListsExactly(Items(q), S),
           NEW k \in 1 .. Len(q)
    PROVE  KeepsTimes(q, _remove(q, k), q[k].item)
<1> DEFINE r == _remove(q, k)
           Place(i) == IF i < k THEN i ELSE i + 1
<1>1. /\ Len(r) = Len(q) - 1
      /\ \A i \in 1 .. Len(q) - 1 :
            /\ r[i].item = IF i < k THEN q[i].item ELSE q[i+1].item
            /\ r[i].d = IF i < k THEN q[i].d
                        ELSE IF i = k THEN (q[k+1].d + q[k].d) % Modulus
                        ELSE q[i+1].d
    BY _removeNodes
<1>2. r \in Seq(NodeOf(T))
    BY _removeLists
<1> HIDE DEF r
<1>3. /\ Len(q) \in Nat
      /\ \A i \in 1 .. Len(q) : q[i].d \in Nat
      /\ \A i \in 0 .. Len(q) : SumTo(q, i) \in Nat
      /\ SumTo(q, 0) = 0
      /\ \A i \in 1 .. Len(q) : SumTo(q, i) = SumTo(q, i-1) + q[i].d
    BY QueueSums
<1>4. /\ \A i \in 0 .. Len(r) : SumTo(r, i) \in Nat
      /\ SumTo(r, 0) = 0
      /\ \A i \in 1 .. Len(r) : SumTo(r, i) = SumTo(r, i-1) + r[i].d
    BY <1>2, QueueSums
<1> DEFINE P(i) == IF i < k THEN SumTo(r, i) = SumTo(q, i)
                   ELSE SumTo(q, i+1) < Modulus => SumTo(r, i) = SumTo(q, i+1)
           I == {i \in 0 .. Len(r) : P(i)}
<1>5. 0 \in I
    BY <1>1, <1>3, <1>4
<1>6. ASSUME NEW i \in 1 .. Len(r), i - 1 \in I PROVE i \in I
    <2>1. /\ i \in 1 .. Len(q) /\ i + 1 \in 1 .. Len(q) /\ i - 1 \in 0 .. Len(q)
          /\ i - 1 \in 0 .. Len(r) /\ i \in 0 .. Len(q) /\ i \in 0 .. Len(r)
          /\ i \in 1 .. Len(q) - 1 /\ i \in Int /\ k \in Int
          /\ (i + 1) - 1 = i /\ (i - 1) + 1 = i
        BY <1>1, <1>3
    <2>2. /\ SumTo(r, i) = SumTo(r, i-1) + r[i].d
          /\ SumTo(q, i) = SumTo(q, i-1) + q[i].d
          /\ SumTo(r, i-1) \in Nat /\ SumTo(q, i-1) \in Nat
          /\ SumTo(r, i) \in Nat /\ SumTo(q, i) \in Nat
          /\ q[i].d \in Nat
        BY <1>3, <1>4, <2>1
    <2>3. SumTo(q, i+1) = SumTo(q, i) + q[i+1].d /\ q[i+1].d \in Nat
        BY <1>3, <2>1
    <2>4. r[i].d = IF i < k THEN q[i].d
                   ELSE IF i = k THEN (q[i+1].d + q[i].d) % Modulus
                   ELSE q[i+1].d
        BY <1>1, <2>1
    <2>5. P(i-1)
        BY <1>6
    <2>6. CASE i < k
        <3>1. SumTo(r, i-1) = SumTo(q, i-1)
            BY <2>1, <2>5, <2>6
        <3>2. SumTo(r, i) = SumTo(q, i)
            BY <2>2, <2>4, <2>6, <3>1
        <3> QED BY <2>1, <2>6, <3>2
    <2>7. CASE i = k
        <3>1. SumTo(r, i-1) = SumTo(q, i-1)
            BY <2>1, <2>5, <2>7
        <3>2. ASSUME SumTo(q, i+1) < Modulus
              PROVE  SumTo(r, i) = SumTo(q, i+1)
            <4>1. PICK u, x, y \in Nat :
                     u = SumTo(q, i-1) /\ x = q[i].d /\ y = q[i+1].d
                BY <2>2, <2>3
            <4>2. SumTo(q, i+1) = (u + x) + y
                BY <2>2, <2>3, <4>1, Zenon
            <4>3. y + x \in Nat /\ y + x < Modulus
                BY <3>2, <4>2, ModulusAssumption
            <4>4. (y + x) % Modulus = y + x
                BY <4>3, SmallRemainder
            <4>5. r[i].d = y + x
                BY <2>1, <2>4, <2>7, <4>1, <4>4
            <4>6. SumTo(r, i) = u + (y + x)
                BY <2>2, <3>1, <4>1, <4>5, Zenon
            <4>7. u + (y + x) = (u + x) + y
                BY <4>1
            <4> QED BY <4>2, <4>6, <4>7, Zenon
        <3> QED BY <2>1, <2>7, <3>2
    <2>8. CASE i > k
        <3>1. ASSUME SumTo(q, i+1) < Modulus
              PROVE  SumTo(r, i) = SumTo(q, i+1)
            <4>1. SumTo(q, i) < Modulus
                BY <2>2, <2>3, <3>1, ModulusAssumption
            <4>2. SumTo(r, i-1) = SumTo(q, i)
                BY <2>1, <2>5, <2>8, <4>1
            <4>3. r[i].d = q[i+1].d
                BY <2>1, <2>4, <2>8
            <4> QED BY <2>2, <2>3, <4>2, <4>3
        <3> QED BY <2>1, <2>8, <3>1
    <2> QED BY <2>1, <2>6, <2>7, <2>8
<1> HIDE DEF P
<1>7. \A i \in 0 .. Len(r) : P(i)
    <2>1. Len(r) \in Nat
        BY <1>2
    <2> HIDE DEF I
    <2>2. \A i \in 0 .. Len(r) : i \in I
        BY <1>5, <1>6, <2>1, WalkInduction
    <2> QED BY <2>2 DEF I
<1>8. ASSUME NEW j \in 1 .. Len(r), SumTo(q, Place(j)) < Modulus
      PROVE  SumTo(r, j) = SumTo(q, Place(j))
    <2>1. j \in 0 .. Len(r) /\ j \in Int /\ k \in Int /\ P(j)
        BY <1>1, <1>3, <1>7
    <2>2. CASE j < k
        BY <1>8, <2>1, <2>2 DEF P
    <2>3. CASE ~ (j < k)
        BY <1>8, <2>1, <2>3 DEF P
    <2> QED BY <2>2, <2>3
<1>9. ASSUME NEW i \in 1 .. Len(q), NEW j \in 1 .. Len(r), q[i].item = r[j].item,
             SumTo(q, i) < Modulus
      PROVE  SumTo(r, j) = SumTo(q, i)
    <2>1. Place(j) \in 1 .. Len(q) /\ q[Place(j)].item = r[j].item
        BY <1>1, <1>3
    <2>2. i = Place(j)
        <3> HIDE DEF Place
        <3>1. \A a, b \in 1 .. Len(q) : q[a].item = q[b].item => a = b
            BY ItemsExactly
        <3> QED BY <1>9, <2>1, <3>1
    <2> QED BY <1>8, <1>9, <2>2
<1> QED BY <1>9 DEF KeepsTimes, r

(* Waking up leaves the others the time they have.                         *)
LEMMA RemoveItemSums ==
    ASSUME NEW T, NEW q \in Seq(NodeOf(T)), NEW S, ListsExactly(Items(q), S),
           NEW t
    PROVE  KeepsTimes(q, RemoveItem(q, t), t)
<1>1. CASE _find(q, t) = 0
    <2>1. \A a, b \in 1 .. Len(q) : q[a].item = q[b].item => a = b
        BY ItemsExactly
    <2> QED BY <1>1, <2>1 DEF RemoveItem, KeepsTimes
<1>2. CASE _find(q, t) # 0
    <2>1. _find(q, t) \in 1 .. Len(q) /\ q[_find(q, t)].item = t
        BY <1>2, QueueFacts, FindNode
    <2>2. RemoveItem(q, t) = _remove(q, _find(q, t))
        BY <1>2 DEF RemoveItem
    <2> QED BY <2>1, <2>2, _removeSums
<1> QED BY <1>1, <1>2

(* Where InsertAtDelta puts the new node, it delays nobody: at the end, or *)
(* with a d of 0.                                                          *)
LEMMA PutSums ==
    ASSUME NEW T, NEW q \in Seq(NodeOf(T)), NEW r \in Seq(NodeOf(T)), NEW node,
           NEW k \in 1 .. Len(q) + 1, IsPut(r, q, k, node),
           k = Len(q) + 1 \/ node.d = 0
    PROVE  \A i \in 1 .. Len(q) :
              SumTo(q, i) = SumTo(r, IF i < k THEN i ELSE i + 1)
<1>1. /\ Len(q) \in Nat
      /\ \A i \in 1 .. Len(q) : q[i].d \in Nat
      /\ \A i \in 0 .. Len(q) : SumTo(q, i) \in Nat
      /\ SumTo(q, 0) = 0
      /\ \A i \in 1 .. Len(q) : SumTo(q, i) = SumTo(q, i-1) + q[i].d
    BY QueueSums
<1>2. /\ \A i \in 0 .. Len(r) : SumTo(r, i) \in Nat
      /\ SumTo(r, 0) = 0
      /\ \A i \in 1 .. Len(r) : SumTo(r, i) = SumTo(r, i-1) + r[i].d
    BY QueueSums
<1>3. Len(r) = Len(q) + 1
      /\ \A i \in 1 .. Len(q) + 1 :
            r[i] = IF i < k THEN q[i] ELSE IF i = k THEN node ELSE q[i-1]
    BY DEF IsPut
<1> DEFINE P(i) == SumTo(r, i) =
                       IF i < k THEN SumTo(q, i)
                       ELSE IF i = k THEN SumTo(q, i-1) + node.d ELSE SumTo(q, i-1)
           I == {i \in 0 .. Len(r) : P(i)}
<1>4. 0 \in I
    BY <1>1, <1>2, <1>3
<1>5. ASSUME NEW i \in 1 .. Len(r), i - 1 \in I PROVE i \in I
    <2>1. /\ i \in 0 .. Len(r) /\ i \in 1 .. Len(q) + 1 /\ i - 1 \in 0 .. Len(q)
          /\ i \in Int /\ k \in Int /\ i - 1 \in Int
        BY <1>1, <1>3
    <2>2. /\ SumTo(r, i) = SumTo(r, i-1) + r[i].d
          /\ r[i] = IF i < k THEN q[i] ELSE IF i = k THEN node ELSE q[i-1]
          /\ SumTo(q, i-1) \in Nat
        BY <1>1, <1>2, <1>3, <2>1
    <2>3. P(i-1)
        BY <1>5
    <2>4. CASE i < k
        <3>1. i \in 1 .. Len(q)
            BY <1>1, <2>1, <2>4
        <3>2. SumTo(q, i) = SumTo(q, i-1) + q[i].d
            BY <1>1, <3>1
        <3>3. SumTo(r, i-1) = SumTo(q, i-1)
            BY <2>1, <2>3, <2>4
        <3> QED BY <2>1, <2>2, <2>4, <3>2, <3>3
    <2>5. CASE i = k
        <3>1. SumTo(r, i-1) = SumTo(q, i-1)
            BY <2>1, <2>3, <2>5
        <3> QED BY <2>1, <2>2, <2>5, <3>1
    <2>6. CASE i > k
        <3>1. i - 1 \in 1 .. Len(q) /\ node.d = 0 /\ (i - 1) - 1 \in 0 .. Len(q)
            BY <1>1, <2>1, <2>6
        <3>2. SumTo(q, i-1) = SumTo(q, (i-1)-1) + q[i-1].d /\ SumTo(q, (i-1)-1) \in Nat
            BY <1>1, <3>1
        <3>3. SumTo(r, i-1) = SumTo(q, (i-1)-1)
            BY <2>1, <2>3, <2>6, <3>1, <3>2
        <3>4. SumTo(r, i) = SumTo(q, i-1)
            BY <2>1, <2>2, <2>6, <3>2, <3>3
        <3> QED BY <2>1, <2>6, <3>4
    <2> QED BY <2>1, <2>4, <2>5, <2>6
<1> HIDE DEF P
<1>6. \A i \in 0 .. Len(r) : P(i)
    <2>1. Len(r) \in Nat
        BY <1>1, <1>3
    <2> HIDE DEF I
    <2>2. \A i \in 0 .. Len(r) : i \in I
        BY <1>4, <1>5, <2>1, WalkInduction
    <2> QED BY <2>2 DEF I
<1>7. ASSUME NEW i \in 1 .. Len(q)
      PROVE  SumTo(q, i) = SumTo(r, IF i < k THEN i ELSE i + 1)
    <2>1. i \in 0 .. Len(r) /\ i + 1 \in 0 .. Len(r) /\ (i + 1) - 1 = i /\ i \in Int /\ k \in Int
        BY <1>1, <1>3
    <2>2. CASE i < k
        BY <1>6, <2>1, <2>2 DEF P
    <2>3. CASE ~ (i < k)
        <3>1. SumTo(r, i+1) = SumTo(q, i)
            BY <1>6, <2>1, <2>3 DEF P
        <3> QED BY <2>3, <3>1
    <2> QED BY <2>2, <2>3
<1> QED BY <1>7

(* Going to sleep leaves the others the time they have.                    *)
LEMMA InsertAtDeltaSums ==
    ASSUME NEW T, NEW q \in Seq(NodeOf(T)), NEW S, ListsExactly(Items(q), S),
           NEW t \in T, t \notin S, NEW v \in Delta
    PROVE  KeepsTimes(q, InsertAtDelta(q, t, v), t)
<1> DEFINE r == InsertAtDelta(q, t, v)
<1>1. PICK k \in 1 .. Len(q) + 1, node \in NodeOf(T) :
         /\ k = Len(q) + 1 \/ node.d = 0
         /\ r \in Seq(NodeOf(T))
         /\ IsPut(r, q, k, node)
    BY InsertAtDeltaPuts
<1>2. \A a, b \in 1 .. Len(r) : r[a].item = r[b].item => a = b
    <2>1. r \in Seq(NodeOf(T)) /\ ListsExactly(Items(r), S \cup {t})
        BY InsertAtDeltaLists
    <2> HIDE DEF r
    <2> QED BY <2>1, ItemsExactly
<1> HIDE DEF r
<1>3. Len(q) \in Nat /\ Len(r) = Len(q) + 1
      /\ \A i \in 1 .. Len(q) + 1 :
            r[i] = IF i < k THEN q[i] ELSE IF i = k THEN node ELSE q[i-1]
    BY <1>1 DEF IsPut
<1>4. \A i \in 1 .. Len(q) :
         SumTo(q, i) = SumTo(r, IF i < k THEN i ELSE i + 1)
    BY <1>1, PutSums
<1>5. ASSUME NEW i \in 1 .. Len(q), NEW j \in 1 .. Len(r), q[i].item = r[j].item
      PROVE  SumTo(r, j) = SumTo(q, i)
    <2> DEFINE at == IF i < k THEN i ELSE i + 1
    <2>1. at \in 1 .. Len(r) /\ r[at] = q[i]
        <3>1. CASE i < k
            BY <1>3, <3>1
        <3>2. CASE ~ (i < k)
            <4>1. /\ i + 1 \in 1 .. Len(q) + 1 /\ ~ (i + 1 < k) /\ i + 1 # k
                  /\ (i + 1) - 1 = i
                BY <1>3, <3>2
            <4>2. r[i+1] = q[(i+1)-1]
                BY <1>3, <4>1
            <4> QED BY <1>3, <3>2, <4>1, <4>2
        <3> QED BY <3>1, <3>2
    <2>2. SumTo(q, i) = SumTo(r, at)
        BY <1>4
    <2> HIDE DEF at
    <2>3. j = at
        BY <1>2, <1>5, <2>1
    <2> QED BY <2>2, <2>3
<1> QED BY <1>5 DEF KeepsTimes, r

LEMMA SameSums ==
    ASSUME NEW T, NEW q \in Seq(NodeOf(T)), NEW S, ListsExactly(Items(q), S),
           NEW t
    PROVE  KeepsTimes(q, q, t)
<1>1. \A a, b \in 1 .. Len(q) : q[a].item = q[b].item => a = b
    BY ItemsExactly
<1> QED BY <1>1, Zenon DEF KeepsTimes

(* ... and so do two changes of the list on account of the same item.      *)
LEMMA KeepsTimesTwice ==
    ASSUME NEW T, NEW q \in Seq(NodeOf(T)), NEW r \in Seq(NodeOf(T)), NEW s,
           NEW S, ListsExactly(Items(q), S), NEW t,
           ListsExactly(Items(r), S \ {t}),
           KeepsTimes(q, r, t), KeepsTimes(r, s, t)
    PROVE  KeepsTimes(q, s, t)
<1>1. ASSUME NEW i \in 1 .. Len(q), NEW j \in 1 .. Len(s),
             q[i].item = s[j].item, q[i].item # t, SumTo(q, i) < Modulus
      PROVE  SumTo(s, j) = SumTo(q, i)
    <2>1. q[i].item \in S
        BY ItemsExactly
    <2>2. q[i].item \in S \ {t}
        BY <1>1, <2>1
    <2>3. PICK m \in 1 .. Len(r) : r[m].item = q[i].item
        <3> DEFINE rest == S \ {t}
        <3>1. ListsExactly(Items(r), rest) /\ q[i].item \in rest
            BY <2>2
        <3> HIDE DEF rest
        <3>2. \A u \in rest : \E m \in 1 .. Len(r) : r[m].item = u
            BY <3>1, ItemsExactly
        <3> QED BY <3>1, <3>2
    <2>4. SumTo(r, m) = SumTo(q, i)
        BY <1>1, <2>3 DEF KeepsTimes
    <2>5. SumTo(s, j) = SumTo(r, m)
        BY <1>1, <2>3, <2>4 DEF KeepsTimes
    <2> QED BY <2>4, <2>5
<1> QED BY <1>1 DEF KeepsTimes

-----------------------------------------------------------------------------
(* The scheduler.                                                          *)

(* The inductive invariant: the types alone are not inductive, because the *)
(* thread WakeNext takes off the sleeping list is only known to be asleep  *)
(* by QueueCoherent.                                                       *)
IInv == TypeOK /\ QueueCoherent

LEMMA LocationFacts ==
    ASSUME TypeOK, NEW t \in Threads
    PROVE  /\ location[t] \in Locations
           /\ location[t] >= 0 => location[t] \in Priorities
           /\ \A p \in Priorities : p \in Int /\ p >= 0
           /\ Priority[t] \in Priorities
           /\ Priority[t] \in Locations
BY SchedulerAssumption
   DEF TypeOK, Locations, Priorities, LOC_SLEEPING, LOC_BLOCKING, LOC_RELEASED

(* _Release finds the thread wherever it is and disturbs no other.         *)
LEMMA ReleaseLists ==
    ASSUME IInv, NEW t \in Threads
    PROVE  /\ RunningWithout(t) \in [Priorities -> Seq(Threads)]
           /\ \A p \in Priorities :
                 ListsExactly(RunningWithout(t)[p], At(p) \ {t})
           /\ SleepingWithout(t) \in Seq(NodeOf(Threads))
           /\ ListsExactly(Items(SleepingWithout(t)), At(LOC_SLEEPING) \ {t})
           /\ BlockingWithout(t) \in Seq(Threads)
           /\ ListsExactly(BlockingWithout(t), At(LOC_BLOCKING) \ {t})
<1>1. /\ running_tasks \in [Priorities -> Seq(Threads)]
      /\ \A p \in Priorities : ListsExactly(running_tasks[p], At(p))
      /\ sleeping_tasks \in Seq(NodeOf(Threads))
      /\ ListsExactly(Items(sleeping_tasks), At(LOC_SLEEPING))
      /\ blocking_tasks \in Seq(Threads)
      /\ ListsExactly(blocking_tasks, At(LOC_BLOCKING))
    BY DEF IInv, TypeOK, QueueCoherent
<1>2. \A l : (t \in At(l) <=> location[t] = l)
             /\ (location[t] # l => At(l) \ {t} = At(l))
    BY DEF At
<1>3. /\ RunningWithout(t) \in [Priorities -> Seq(Threads)]
      /\ \A p \in Priorities :
            ListsExactly(RunningWithout(t)[p], At(p) \ {t})
    <2>1. CASE location[t] >= 0
        <3>1. location[t] \in Priorities
            BY <2>1, LocationFacts DEF IInv
        <3>2. /\ RemoveFirst(running_tasks[location[t]], t) \in Seq(Threads)
              /\ ListsExactly(RemoveFirst(running_tasks[location[t]], t),
                              At(location[t]) \ {t})
            BY <1>1, <1>2, <3>1, RemoveFirstLists
        <3>3. RunningWithout(t) = [running_tasks EXCEPT ![location[t]] =
                                      RemoveFirst(running_tasks[location[t]], t)]
            BY <2>1 DEF RunningWithout
        <3> QED BY <1>1, <1>2, <3>1, <3>2, <3>3
    <2>2. CASE ~ (location[t] >= 0)
        <3>1. RunningWithout(t) = running_tasks
            BY <2>2 DEF RunningWithout
        <3>2. \A p \in Priorities : location[t] # p
            BY <2>2, LocationFacts DEF IInv
        <3> QED BY <1>1, <1>2, <3>1, <3>2
    <2> QED BY <2>1, <2>2
<1>4. /\ SleepingWithout(t) \in Seq(NodeOf(Threads))
      /\ ListsExactly(Items(SleepingWithout(t)), At(LOC_SLEEPING) \ {t})
    BY <1>1, <1>2, RemoveItemLists DEF SleepingWithout
<1>5. /\ BlockingWithout(t) \in Seq(Threads)
      /\ ListsExactly(BlockingWithout(t), At(LOC_BLOCKING) \ {t})
    <2>1. CASE location[t] = LOC_BLOCKING
        BY <1>1, <1>2, <2>1, RemoveFirstLists DEF BlockingWithout
    <2>2. CASE location[t] # LOC_BLOCKING
        BY <1>1, <1>2, <2>2 DEF BlockingWithout
    <2> QED BY <2>1, <2>2
<1> QED BY <1>3, <1>4, <1>5

(* Who is where after a thread has moved to l.                             *)
LEMMA AtNext ==
    ASSUME TypeOK, NEW t \in Threads, NEW l \in Locations, SetLocation(t, l)
    PROVE  /\ location' \in [Threads -> Locations]
           /\ At(l)' = (At(l) \ {t}) \cup {t}
           /\ \A m : m # l => At(m)' = At(m) \ {t}
           /\ t \notin At(l) \ {t}
<1>1. /\ location \in [Threads -> Locations]
      /\ location' = [location EXCEPT ![t] = l]
    BY DEF TypeOK, SetLocation
<1>2. /\ location' \in [Threads -> Locations]
      /\ location'[t] = l
      /\ \A u \in Threads \ {t} : location'[u] = location[u]
    BY <1>1
<1> QED BY <1>2 DEF At

LEMMA LocationsDiffer ==
    /\ LOC_SLEEPING \in Locations /\ LOC_BLOCKING \in Locations
    /\ LOC_RELEASED \in Locations
    /\ LOC_SLEEPING # LOC_BLOCKING
    /\ LOC_SLEEPING # LOC_RELEASED /\ LOC_BLOCKING # LOC_RELEASED
    /\ \A p \in Priorities : /\ p # LOC_SLEEPING /\ p # LOC_BLOCKING
                             /\ p # LOC_RELEASED /\ p \in Locations
BY SchedulerAssumption
   DEF Locations, Priorities, LOC_SLEEPING, LOC_BLOCKING, LOC_RELEASED

-----------------------------------------------------------------------------
(* Initially every list is empty and every thread released. *)
LEMMA InitIInv == Init => IInv
<1> SUFFICES ASSUME Init PROVE IInv
    OBVIOUS
<1>1. TypeOK
    BY SchedulerAssumption, LocationsDiffer DEF Init, TypeOK
<1>2. \A l : l # LOC_RELEASED => At(l) = {}
    BY DEF Init, At
<1>3. <<>> \in Seq(Threads) /\ ListsExactly(<<>>, {})
    BY DEF ListsExactly, IsInjective, ToSet
<1>4. Items(<<>>) = <<>>
    BY DEF Items
<1>5. QueueCoherent
    BY <1>2, <1>3, <1>4, LocationsDiffer DEF Init, QueueCoherent
<1> QED BY <1>1, <1>5 DEF IInv

LEMMA DescheduleIInv ==
    ASSUME IInv, NEW t \in Threads, Deschedule(t)
    PROVE  IInv'
<1>1. SetLocation(t, LOC_RELEASED) /\ TypeOK
    BY DEF Deschedule, IInv
<1>2. /\ location' \in [Threads -> Locations]
      /\ \A m : m # LOC_RELEASED => At(m)' = At(m) \ {t}
    BY <1>1, AtNext, LocationsDiffer
<1>3. TypeOK'
    BY <1>1, <1>2, ReleaseLists DEF Deschedule, TypeOK
<1>4. QueueCoherent'
    BY <1>2, ReleaseLists, LocationsDiffer DEF Deschedule, QueueCoherent
<1> QED BY <1>3, <1>4 DEF IInv

(* _Reschedule, called by Reschedule and by ScheduleNext. *)
LEMMA _RescheduleLists ==
    ASSUME IInv, NEW t \in Threads, _Reschedule(t)
    PROVE  /\ running_tasks' \in [Priorities -> Seq(Threads)]
           /\ sleeping_tasks' \in Seq(NodeOf(Threads))
           /\ blocking_tasks' \in Seq(Threads)
           /\ location' \in [Threads -> Locations]
           /\ time_to_run' \in [Threads -> Nat]
           /\ QueueCoherent'
<1> DEFINE p == Priority[t]
           R == RunningWithout(t)
<1>1. SetLocation(t, p) /\ TypeOK
    BY DEF _Reschedule, JoinRunning, IInv
<1>2. p \in Priorities /\ p \in Locations
    <2>1. TypeOK
        BY DEF IInv
    <2>2. Priority[t] \in Priorities /\ Priority[t] \in Locations
        BY <2>1, LocationFacts
    <2> QED BY <2>2
<1> HIDE DEF p
<1>3. /\ location' \in [Threads -> Locations]
      /\ At(p)' = (At(p) \ {t}) \cup {t}
      /\ \A m : m # p => At(m)' = At(m) \ {t}
      /\ t \notin At(p) \ {t}
    BY <1>1, <1>2, AtNext
<1>4. running_tasks' = [R EXCEPT ![p] = Append(R[p], t)]
    BY DEF _Reschedule, JoinRunning, p
<1>5. /\ R \in [Priorities -> Seq(Threads)]
      /\ \A i \in Priorities : ListsExactly(R[i], At(i) \ {t})
    BY ReleaseLists
<1> HIDE DEF R
<1>6. /\ Append(R[p], t) \in Seq(Threads)
      /\ ListsExactly(Append(R[p], t), (At(p) \ {t}) \cup {t})
    BY <1>2, <1>3, <1>5, AppendLists
<1>7. /\ running_tasks' \in [Priorities -> Seq(Threads)]
      /\ \A i \in Priorities : ListsExactly(running_tasks'[i], At(i)')
    BY <1>2, <1>3, <1>4, <1>5, <1>6
<1>8. /\ sleeping_tasks' \in Seq(NodeOf(Threads))
      /\ blocking_tasks' \in Seq(Threads)
      /\ ListsExactly(Items(sleeping_tasks)', At(LOC_SLEEPING)')
      /\ ListsExactly(blocking_tasks', At(LOC_BLOCKING)')
    BY <1>2, <1>3, ReleaseLists, LocationsDiffer DEF _Reschedule
<1>9. time_to_run' \in [Threads -> Nat]
    BY <1>1, SchedulerAssumption DEF _Reschedule, JoinRunning, TypeOK
<1> QED BY <1>3, <1>7, <1>8, <1>9 DEF QueueCoherent

LEMMA RescheduleIInv ==
    ASSUME IInv, NEW t \in Threads, Reschedule(t)
    PROVE  IInv'
BY _RescheduleLists DEF Reschedule, IInv, TypeOK

LEMMA BlockIInv ==
    ASSUME IInv, NEW t \in Threads, Block(t)
    PROVE  IInv'
<1>1. SetLocation(t, LOC_BLOCKING) /\ TypeOK
    BY DEF Block, IInv
<1>2. /\ location' \in [Threads -> Locations]
      /\ At(LOC_BLOCKING)' = (At(LOC_BLOCKING) \ {t}) \cup {t}
      /\ \A m : m # LOC_BLOCKING => At(m)' = At(m) \ {t}
      /\ t \notin At(LOC_BLOCKING) \ {t}
    BY <1>1, AtNext, LocationsDiffer
<1>3. /\ blocking_tasks' \in Seq(Threads)
      /\ ListsExactly(blocking_tasks', At(LOC_BLOCKING)')
    <2> DEFINE B == BlockingWithout(t)
               S == At(LOC_BLOCKING) \ {t}
    <2>1. B \in Seq(Threads) /\ ListsExactly(B, S) /\ t \notin S
        BY ReleaseLists
    <2> HIDE DEF B, S
    <2>2. Append(B, t) \in Seq(Threads) /\ ListsExactly(Append(B, t), S \cup {t})
        BY <2>1, AppendLists
    <2>3. blocking_tasks' = Append(B, t)
        BY DEF Block, B
    <2> QED BY <1>2, <2>2, <2>3 DEF S
<1>4. TypeOK'
    BY <1>1, <1>2, <1>3, ReleaseLists DEF Block, TypeOK
<1>5. QueueCoherent'
    <2>1. \A p \in Priorities : ListsExactly(running_tasks'[p], At(p)')
        <3>1. \A p \in Priorities : At(p)' = At(p) \ {t}
            BY <1>2, LocationsDiffer
        <3>2. running_tasks' = RunningWithout(t)
            BY DEF Block
        <3> QED BY <3>1, <3>2, ReleaseLists
    <2>2. ListsExactly(Items(sleeping_tasks)', At(LOC_SLEEPING)')
        BY <1>2, ReleaseLists, LocationsDiffer DEF Block
    <2> QED BY <1>3, <2>1, <2>2 DEF QueueCoherent
<1> QED BY <1>4, <1>5 DEF IInv

LEMMA SleepIInv ==
    ASSUME IInv, NEW t \in Threads, NEW ns \in SleepTimes, Sleep(t, ns)
    PROVE  IInv'
<1>1. SetLocation(t, LOC_SLEEPING) /\ TypeOK
    BY DEF Sleep, IInv
<1>2. /\ location' \in [Threads -> Locations]
      /\ At(LOC_SLEEPING)' = (At(LOC_SLEEPING) \ {t}) \cup {t}
      /\ \A m : m # LOC_SLEEPING => At(m)' = At(m) \ {t}
      /\ t \notin At(LOC_SLEEPING) \ {t}
    BY <1>1, AtNext, LocationsDiffer
<1>3. /\ sleeping_tasks' \in Seq(NodeOf(Threads))
      /\ ListsExactly(Items(sleeping_tasks)', At(LOC_SLEEPING)')
    <2>1. ns \in Delta
        BY SchedulerAssumption
    <2> DEFINE q == SleepingWithout(t)
               S == At(LOC_SLEEPING) \ {t}
               r == InsertAtDelta(q, t, ns)
    <2>2. q \in Seq(NodeOf(Threads)) /\ ListsExactly(Items(q), S) /\ t \notin S
        BY ReleaseLists
    <2>3. sleeping_tasks' = r
        BY DEF Sleep
    <2> HIDE DEF q, S
    <2>4. r \in Seq(NodeOf(Threads)) /\ ListsExactly(Items(r), S \cup {t})
        BY <2>1, <2>2, InsertAtDeltaLists
    <2>5. Items(sleeping_tasks)' = Items(r)
        BY <2>3 DEF Items
    <2> HIDE DEF r
    <2> QED BY <1>2, <2>3, <2>4, <2>5 DEF S
<1>4. TypeOK'
    BY <1>1, <1>2, <1>3, ReleaseLists DEF Sleep, TypeOK
<1>5. QueueCoherent'
    <2>1. \A p \in Priorities : ListsExactly(running_tasks'[p], At(p)')
        <3>1. \A p \in Priorities : At(p)' = At(p) \ {t}
            BY <1>2, LocationsDiffer
        <3>2. running_tasks' = RunningWithout(t)
            BY DEF Sleep
        <3> QED BY <3>1, <3>2, ReleaseLists
    <2>2. ListsExactly(blocking_tasks', At(LOC_BLOCKING)')
        BY <1>2, ReleaseLists, LocationsDiffer DEF Sleep
    <2> QED BY <1>3, <2>1, <2>2 DEF QueueCoherent
<1> QED BY <1>4, <1>5 DEF IInv

LEMMA TimerTickIInv ==
    ASSUME IInv, TimerTick
    PROVE  IInv'
<1>1. /\ sleeping_tasks' \in Seq(NodeOf(Threads))
      /\ Items(sleeping_tasks)' = Items(sleeping_tasks)
    <2>1. sleeping_tasks \in Seq(NodeOf(Threads)) /\ Interval \in Nat
        BY SchedulerAssumption DEF IInv, TypeOK
    <2> QED BY <2>1, DecreaseDeltaLists DEF TimerTick
<1>2. \A l : At(l)' = At(l)
    BY DEF TimerTick, At
<1>3. TypeOK'
    BY <1>1 DEF TimerTick, IInv, TypeOK
<1>4. QueueCoherent'
    BY <1>1, <1>2 DEF TimerTick, IInv, QueueCoherent
<1> QED BY <1>3, <1>4 DEF IInv

(* The thread GetZero returns is asleep, so that _Reschedule looks for it  *)
(* on the sleeping list only, where it no longer is.                       *)
LEMMA WokenThread ==
    ASSUME IInv, HasZero(sleeping_tasks)
    PROVE  LET t    == GetZero(sleeping_tasks)
               rest == _remove(sleeping_tasks, 1)
           IN  /\ t \in Threads
               /\ location[t] = LOC_SLEEPING
               /\ rest \in Seq(NodeOf(Threads))
               /\ ListsExactly(Items(rest), At(LOC_SLEEPING) \ {t})
               /\ RemoveItem(rest, t) = rest
               /\ RunningWithout(t) = running_tasks
               /\ BlockingWithout(t) = blocking_tasks
<1> DEFINE q    == sleeping_tasks
           t    == GetZero(sleeping_tasks)
           S    == At(LOC_SLEEPING)
           rest == _remove(sleeping_tasks, 1)
<1>1. /\ q \in Seq(NodeOf(Threads))
      /\ ListsExactly(Items(q), S)
    BY DEF IInv, TypeOK, QueueCoherent
<1>2. 1 \in 1 .. Len(q) /\ t = q[1].item
    BY <1>1 DEF HasZero, GetZero
<1>3. Items(q) \in Seq(Threads) /\ Len(Items(q)) = Len(q)
      /\ Items(q)[1] = t
    BY <1>1, <1>2, QueueFacts
<1>4. t \in S
    BY <1>1, <1>2, <1>3, ListsExactlyElements
<1>5. t \in Threads /\ location[t] = LOC_SLEEPING
    BY <1>4 DEF At
<1>6. /\ rest \in Seq(NodeOf(Threads))
      /\ ListsExactly(Items(rest), S \ {t})
    BY <1>1, <1>2, _removeLists
<1>7. RemoveItem(rest, t) = rest
    <2> HIDE DEF rest, t, S
    <2>1. t \notin S \ {t}
        OBVIOUS
    <2> QED BY <1>6, <2>1, RemoveItemLists
<1>8. RunningWithout(t) = running_tasks /\ BlockingWithout(t) = blocking_tasks
    BY <1>5 DEF RunningWithout, BlockingWithout, LOC_SLEEPING, LOC_BLOCKING
<1> QED BY <1>5, <1>6, <1>7, <1>8

LEMMA WakeNextIInv ==
    ASSUME IInv, WakeNext
    PROVE  IInv'
<1>1. PICK t \in Threads, rest \in Seq(NodeOf(Threads)) :
         /\ t = GetZero(sleeping_tasks)
         /\ rest = _remove(sleeping_tasks, 1)
         /\ location[t] = LOC_SLEEPING
         /\ ListsExactly(Items(rest), At(LOC_SLEEPING) \ {t})
         /\ RemoveItem(rest, t) = rest
         /\ RunningWithout(t) = running_tasks
         /\ BlockingWithout(t) = blocking_tasks
    <2> HIDE DEF IInv
    <2>1. HasZero(sleeping_tasks)
        BY DEF WakeNext
    <2> QED BY <2>1, WokenThread
<1>2. /\ JoinRunning(t)
      /\ sleeping_tasks' = rest
      /\ blocking_tasks' = blocking_tasks
      /\ UNCHANGED <<CurrentThread, phase>>
    BY <1>1 DEF WakeNext
<1>3. PICK p \in Priorities : p = Priority[t] /\ p \in Locations
    BY <1>1, LocationFacts DEF IInv
<1>4. TypeOK /\ SetLocation(t, p)
    BY <1>2, <1>3 DEF JoinRunning, IInv
<1>5. /\ location' \in [Threads -> Locations]
      /\ At(p)' = (At(p) \ {t}) \cup {t}
      /\ \A m : m # p => At(m)' = At(m) \ {t}
      /\ t \notin At(p) \ {t}
    BY <1>3, <1>4, AtNext
<1>6. \A l : l # LOC_SLEEPING => At(l) \ {t} = At(l)
    BY <1>1 DEF At
<1>7. /\ running_tasks \in [Priorities -> Seq(Threads)]
      /\ \A i \in Priorities : ListsExactly(running_tasks[i], At(i) \ {t})
    <2>1. \A i \in Priorities : At(i) \ {t} = At(i)
        BY <1>6, LocationsDiffer
    <2> QED BY <2>1 DEF IInv, TypeOK, QueueCoherent
<1>8. running_tasks' = [running_tasks EXCEPT ![p] = Append(running_tasks[p], t)]
    BY <1>1, <1>2, <1>3 DEF JoinRunning
<1>9. /\ Append(running_tasks[p], t) \in Seq(Threads)
      /\ ListsExactly(Append(running_tasks[p], t), (At(p) \ {t}) \cup {t})
    BY <1>1, <1>3, <1>5, <1>7, AppendLists
<1>10. /\ running_tasks' \in [Priorities -> Seq(Threads)]
       /\ \A i \in Priorities : ListsExactly(running_tasks'[i], At(i)')
    BY <1>3, <1>5, <1>7, <1>8, <1>9
<1>11. time_to_run' \in [Threads -> Nat]
    BY <1>1, <1>2, <1>3, <1>4, SchedulerAssumption DEF JoinRunning, TypeOK
<1>12. ListsExactly(Items(sleeping_tasks)', At(LOC_SLEEPING)')
    <2>1. At(LOC_SLEEPING)' = At(LOC_SLEEPING) \ {t}
        BY <1>3, <1>5, LocationsDiffer
    <2>2. Items(sleeping_tasks)' = Items(rest)
        BY <1>2 DEF Items
    <2> QED BY <1>1, <2>1, <2>2
<1>13. ListsExactly(blocking_tasks', At(LOC_BLOCKING)')
    <2>1. At(LOC_BLOCKING)' = At(LOC_BLOCKING)
        BY <1>3, <1>5, <1>6, LocationsDiffer
    <2> QED BY <1>2, <2>1 DEF IInv, QueueCoherent
<1>14. QueueCoherent'
    BY <1>10, <1>12, <1>13 DEF QueueCoherent
<1>15. TypeOK'
    BY <1>1, <1>2, <1>4, <1>5, <1>10, <1>11 DEF TypeOK
<1> QED BY <1>14, <1>15 DEF IInv

LEMMA SameQueuesIInv ==
    ASSUME QueueCoherent, UNCHANGED <<queues, location>>
    PROVE  QueueCoherent'
BY DEF queues, QueueCoherent, At, Items

LEMMA ScheduleNextIInv ==
    ASSUME IInv, ScheduleNext
    PROVE  IInv'
<1>1. PICK p \in Priorities :
         LET next == Head(running_tasks[p])
         IN  /\ IsHighestReady(p)
             /\ CurrentThread' = next
             /\ \/ /\ SliceLeft(next)
                   /\ time_to_run' = [time_to_run EXCEPT ![next] = @ - Interval]
                   /\ UNCHANGED <<queues, location>>
                \/ /\ ~ SliceLeft(next)
                   /\ _Reschedule(next)
    BY DEF ScheduleNext
<1> DEFINE next == Head(running_tasks[p])
<1>2. next \in Threads
    BY <1>1 DEF IInv, TypeOK, IsHighestReady
<1>3. CurrentThread' = next /\ phase' = "thread"
    BY <1>1 DEF ScheduleNext
<1>4. \/ /\ SliceLeft(next)
         /\ time_to_run' = [time_to_run EXCEPT ![next] = @ - Interval]
         /\ UNCHANGED <<queues, location>>
      \/ _Reschedule(next)
    BY <1>1
<1> HIDE DEF next
<1>5. CASE /\ SliceLeft(next)
           /\ time_to_run' = [time_to_run EXCEPT ![next] = @ - Interval]
           /\ UNCHANGED <<queues, location>>
    <2>1. time_to_run[next] - Interval \in Nat
        BY <1>2, <1>5, SchedulerAssumption DEF SliceLeft, IInv, TypeOK
    <2>2. TypeOK'
        BY <1>2, <1>3, <1>5, <2>1 DEF IInv, TypeOK, queues
    <2> QED BY <1>5, <2>2, SameQueuesIInv DEF IInv
<1>6. CASE _Reschedule(next)
    BY <1>2, <1>3, <1>6, _RescheduleLists DEF IInv, TypeOK
<1> QED BY <1>4, <1>5, <1>6

LEMMA NextIInv == IInv /\ [Next]_vars => IInv'
<1> SUFFICES ASSUME IInv, [Next]_vars PROVE IInv'
    OBVIOUS
<1>1. CASE \E t \in Threads : Deschedule(t)
    BY <1>1, DescheduleIInv
<1>2. CASE \E t \in Threads : Reschedule(t)
    BY <1>2, RescheduleIInv
<1>3. CASE \E t \in Threads : Block(t)
    BY <1>3, BlockIInv
<1>4. CASE \E t \in Threads : \E ns \in SleepTimes : Sleep(t, ns)
    BY <1>4, SleepIInv
<1>5. CASE TimerTick
    BY <1>5, TimerTickIInv
<1>6. CASE WakeNext
    BY <1>6, WakeNextIInv
<1>7. CASE WakeDone
    <2>1. TypeOK'
        BY <1>7 DEF WakeDone, queues, IInv, TypeOK
    <2> QED BY <1>7, <2>1, SameQueuesIInv DEF WakeDone, IInv
<1>8. CASE ScheduleNext
    BY <1>8, ScheduleNextIInv
<1>9. CASE ScheduleNone
    <2>1. TypeOK'
        BY <1>9 DEF ScheduleNone, queues, IInv, TypeOK
    <2> QED BY <1>9, <2>1, SameQueuesIInv DEF ScheduleNone, IInv
<1>10. CASE UNCHANGED vars
    <2>1. TypeOK'
        BY <1>10 DEF vars, queues, IInv, TypeOK
    <2> QED BY <1>10, <2>1, SameQueuesIInv DEF vars, IInv
<1> QED BY <1>1, <1>2, <1>3, <1>4, <1>5, <1>6, <1>7, <1>8, <1>9, <1>10
        DEF Next, Tick

-----------------------------------------------------------------------------
(* The scheduler's fields always have their types: in particular, the      *)
(* delta counters never leave the range of the type they are kept in and   *)
(* time_to_run never underflows.                                           *)
THEOREM SchedulerTypeCorrect == Spec => []TypeOK
<1>1. IInv => TypeOK
    BY DEF IInv
<1> QED BY <1>1, InitIInv, NextIInv, PTL DEF Spec

(* Whatever the threads call and whenever the timer ticks, every thread is *)
(* in the one list its location names, exactly once.                       *)
THEOREM SchedulerQueueCoherent == Spec => []QueueCoherent
<1>1. IInv => QueueCoherent
    BY DEF IInv
<1> QED BY <1>1, InitIInv, NextIInv, PTL DEF Spec

-----------------------------------------------------------------------------
(***************************************************************************)
(* The scheduler implements AbsScheduler.  Each call and each round of the *)
(* wake loop is one abstract step; the time a tick takes off the sleepers  *)
(* and the end of the loop are seen as the start of the tick and as a      *)
(* stutter.                                                                *)
(***************************************************************************)

(* What the abstract scheduler sees of the threads.                        *)
Status == [t \in Threads |-> StatusOf(location[t])]

(* A ready thread is in the queue of its own priority: needed, besides the *)
(* inductive invariant, to conclude from the queue _GetNextThread chose to *)
(* the priority of the thread at its head.                                 *)
InOwnQueue == \A t \in Threads : location[t] >= 0 => location[t] = Priority[t]

RInv == IInv /\ InOwnQueue

LEMMA StatusOfLocation ==
    /\ \A p \in Priorities : StatusOf(p) = "ready"
    /\ StatusOf(LOC_SLEEPING) = "sleeping"
    /\ StatusOf(LOC_BLOCKING) = "blocked"
    /\ StatusOf(LOC_RELEASED) = "released"
<1>1. \A p \in Priorities : p >= 0 /\ p # LOC_SLEEPING /\ p # LOC_BLOCKING
                                   /\ p # LOC_RELEASED
    BY SchedulerAssumption
       DEF Priorities, LOC_SLEEPING, LOC_BLOCKING, LOC_RELEASED
<1>2. /\ ~ (LOC_SLEEPING >= 0)
      /\ ~ (LOC_BLOCKING >= 0)
      /\ ~ (LOC_RELEASED >= 0)
      /\ LOC_SLEEPING # LOC_BLOCKING
      /\ LOC_SLEEPING # LOC_RELEASED
      /\ LOC_BLOCKING # LOC_RELEASED
    BY DEF LOC_SLEEPING, LOC_BLOCKING, LOC_RELEASED
<1> QED BY <1>1, <1>2 DEF StatusOf

LEMMA ReadyLocation ==
    ASSUME TypeOK, NEW t \in Threads
    PROVE  StatusOf(location[t]) = "ready" <=> location[t] \in Priorities
BY StatusOfLocation DEF TypeOK, Locations

LEMMA StatusNext ==
    ASSUME TypeOK, NEW t \in Threads, NEW l \in Locations, SetLocation(t, l)
    PROVE  Status' = [Status EXCEPT ![t] = StatusOf(l)]
<1>1. /\ location'[t] = l
      /\ \A u \in Threads \ {t} : location'[u] = location[u]
    BY DEF TypeOK, SetLocation
<1> QED BY <1>1 DEF Status

(* Every action that moves a thread moves it to its own queue or out of    *)
(* the ready queues.                                                       *)
LEMMA MovePreserves ==
    ASSUME TypeOK, InOwnQueue, NEW t \in Threads, NEW l,
           SetLocation(t, l), l = Priority[t] \/ ~ (l >= 0)
    PROVE  InOwnQueue'
<1>1. /\ location'[t] = l
      /\ \A u \in Threads \ {t} : location'[u] = location[u]
    BY DEF TypeOK, SetLocation
<1> QED BY <1>1 DEF InOwnQueue

LEMMA InOwnQueueNext == RInv /\ [Next]_vars => InOwnQueue'
<1> SUFFICES ASSUME IInv, TypeOK, InOwnQueue, [Next]_vars PROVE InOwnQueue'
    BY DEF RInv, IInv
<1>1. CASE UNCHANGED location
    BY <1>1 DEF InOwnQueue
<1>2. ASSUME NEW t \in Threads, Deschedule(t) PROVE InOwnQueue'
    <2>1. SetLocation(t, LOC_RELEASED) /\ ~ (LOC_RELEASED >= 0)
        BY <1>2 DEF Deschedule, LOC_RELEASED
    <2> QED BY <2>1, MovePreserves
<1>3. ASSUME NEW t \in Threads, Block(t) PROVE InOwnQueue'
    <2>1. SetLocation(t, LOC_BLOCKING) /\ ~ (LOC_BLOCKING >= 0)
        BY <1>3 DEF Block, LOC_BLOCKING
    <2> QED BY <2>1, MovePreserves
<1>4. ASSUME NEW t \in Threads, NEW ns \in SleepTimes, Sleep(t, ns)
      PROVE  InOwnQueue'
    <2>1. SetLocation(t, LOC_SLEEPING) /\ ~ (LOC_SLEEPING >= 0)
        BY <1>4 DEF Sleep, LOC_SLEEPING
    <2> QED BY <2>1, MovePreserves
<1>5. ASSUME NEW t \in Threads, JoinRunning(t) PROVE InOwnQueue'
    <2>1. SetLocation(t, Priority[t])
        BY <1>5 DEF JoinRunning
    <2> QED BY <2>1, MovePreserves
<1>6. CASE WakeNext
    <2>1. PICK t \in Threads : t = GetZero(sleeping_tasks)
        BY <1>6, WokenThread DEF WakeNext
    <2> QED BY <1>5, <1>6, <2>1 DEF WakeNext
<1>7. CASE ScheduleNext
    <2>1. PICK p \in Priorities :
             /\ IsHighestReady(p)
             /\ \/ UNCHANGED location
                \/ _Reschedule(Head(running_tasks[p]))
        BY <1>7 DEF ScheduleNext
    <2>2. PICK t \in Threads : t = Head(running_tasks[p])
        BY <2>1 DEF TypeOK, IsHighestReady
    <2> QED BY <1>1, <1>5, <2>1, <2>2 DEF _Reschedule
<1>8. ASSUME NEW t \in Threads, Reschedule(t) PROVE InOwnQueue'
    BY <1>5, <1>8 DEF Reschedule, _Reschedule
<1> QED BY <1>1, <1>2, <1>3, <1>4, <1>6, <1>7, <1>8
        DEF Next, Tick, TimerTick, WakeDone, ScheduleNone, vars

-----------------------------------------------------------------------------
(* The queue _GetNextThread chooses holds the ready threads of the highest *)
(* priority at which there are any.                                        *)
LEMMA HeadIsBest ==
    ASSUME RInv, NEW p \in Priorities, IsHighestReady(p),
           NEW t \in Threads, t = Head(running_tasks[p])
    PROVE  /\ StatusOf(location[t]) = "ready"
           /\ \A u \in Threads : StatusOf(location[u]) = "ready"
                                     => Priority[u] <= Priority[t]
<1>1. TypeOK /\ QueueCoherent /\ InOwnQueue
    BY DEF RInv, IInv
<1>2. \A q \in Priorities : running_tasks[q] \in Seq(Threads)
                            /\ ListsExactly(running_tasks[q], At(q))
    BY <1>1 DEF TypeOK, QueueCoherent
<1>3. location[t] = p
    <2>1. 1 \in 1 .. Len(running_tasks[p]) /\ running_tasks[p][1] = t
        BY <1>2 DEF IsHighestReady
    <2>2. t \in At(p)
        BY <1>2, <2>1, ListsExactlyElements
    <2> QED BY <2>2 DEF At
<1>4. Priority[t] = p
    BY <1>1, <1>3, LocationFacts DEF InOwnQueue
<1>5. ASSUME NEW u \in Threads, StatusOf(location[u]) = "ready"
      PROVE  Priority[u] <= Priority[t]
    <2>1. PICK q \in Priorities : q = location[u]
        BY <1>1, <1>5, ReadyLocation
    <2>2. Priority[u] = q
        BY <1>1, <2>1, LocationFacts DEF InOwnQueue
    <2>3. u \in At(q)
        BY <2>1 DEF At
    <2>4. running_tasks[q] # <<>>
        <3>1. PICK i \in 1 .. Len(running_tasks[q]) : running_tasks[q][i] = u
            BY <1>2, <2>3, ListsExactlyElements
        <3> QED BY <1>2, <3>1
    <2>5. ~ (q > p)
        BY <2>4 DEF IsHighestReady
    <2> QED BY <1>4, <2>2, <2>5, SchedulerAssumption DEF Priorities
<1> QED BY <1>1, <1>3, <1>5, StatusOfLocation

(* When every queue is empty, no thread is ready.                          *)
LEMMA NobodyReady ==
    ASSUME RInv, \A p \in Priorities : running_tasks[p] = <<>>
    PROVE  \A u \in Threads : StatusOf(location[u]) # "ready"
<1> SUFFICES ASSUME NEW u \in Threads, StatusOf(location[u]) = "ready"
             PROVE  FALSE
    OBVIOUS
<1>1. TypeOK /\ QueueCoherent
    BY DEF RInv, IInv
<1>2. PICK q \in Priorities : q = location[u]
    BY <1>1, ReadyLocation
<1>3. u \in At(q)
    BY <1>2 DEF At
<1>4. running_tasks[q] \in Seq(Threads) /\ ListsExactly(running_tasks[q], At(q))
    BY <1>1 DEF TypeOK, QueueCoherent
<1>5. PICK i \in 1 .. Len(running_tasks[q]) : running_tasks[q][i] = u
    BY <1>3, <1>4, ListsExactlyElements
<1> QED BY <1>5

-----------------------------------------------------------------------------
LEMMA InitRefines == Init => Abs!Init
BY StatusOfLocation DEF Init, Abs!Init

LEMMA BecomeRefines ==
    ASSUME TypeOK, NEW t \in Threads, NEW l \in Locations, SetLocation(t, l),
           phase = "thread", UNCHANGED <<CurrentThread, phase>>
    PROVE  Abs!Next
<1>1. Status' = [Status EXCEPT ![t] = StatusOf(l)]
    BY StatusNext
<1>2. StatusOf(l) \in Abs!Statuses
    BY StatusOfLocation DEF Abs!Statuses, Locations
<1>3. Abs!Become(t, StatusOf(l))
    BY <1>1 DEF Abs!Become, Status
<1> QED BY <1>2, <1>3 DEF Abs!Next

LEMMA StepRefines == RInv /\ [Next]_vars => [Abs!Next]_(Abs!vars)
<1> SUFFICES ASSUME RInv, IInv, TypeOK, [Next]_vars
             PROVE  [Abs!Next]_(Abs!vars)
    BY DEF RInv, IInv
<1>0. /\ LOC_SLEEPING \in Locations
      /\ LOC_BLOCKING \in Locations
      /\ LOC_RELEASED \in Locations
    BY DEF Locations
<1>1. ASSUME NEW t \in Threads, Deschedule(t) PROVE Abs!Next
    BY <1>0, <1>1, BecomeRefines DEF Deschedule
<1>2. ASSUME NEW t \in Threads, Reschedule(t) PROVE Abs!Next
    <2>1. SetLocation(t, Priority[t]) /\ Priority[t] \in Locations
        BY <1>2, LocationFacts DEF Reschedule, _Reschedule, JoinRunning
    <2> QED BY <1>2, <2>1, BecomeRefines DEF Reschedule
<1>3. ASSUME NEW t \in Threads, Block(t) PROVE Abs!Next
    BY <1>0, <1>3, BecomeRefines DEF Block
<1>4. ASSUME NEW t \in Threads, NEW ns \in SleepTimes, Sleep(t, ns)
      PROVE  Abs!Next
    BY <1>0, <1>4, BecomeRefines DEF Sleep
<1>5. CASE TimerTick
    <2>1. Abs!Tick
        BY <1>5 DEF TimerTick, Abs!Tick
    <2> QED BY <2>1 DEF Abs!Next
<1>6. CASE WakeNext
    <2>1. PICK t \in Threads : /\ t = GetZero(sleeping_tasks)
                               /\ location[t] = LOC_SLEEPING
        BY <1>6, WokenThread DEF WakeNext
    <2>2. SetLocation(t, Priority[t]) /\ Priority[t] \in Locations
        BY <1>6, <2>1, LocationFacts DEF WakeNext, JoinRunning
    <2>3. Status' = [Status EXCEPT ![t] = "ready"]
        BY <2>2, StatusNext, StatusOfLocation, LocationFacts
    <2>4. Abs!Wake(t)
        BY <1>6, <2>1, <2>3, StatusOfLocation DEF WakeNext, Abs!Wake, Status
    <2> QED BY <2>4 DEF Abs!Next
<1>7. CASE WakeDone
    BY <1>7 DEF WakeDone, Abs!vars
<1>8. CASE ScheduleNext
    <2>1. PICK p \in Priorities :
             LET next == Head(running_tasks[p])
             IN  /\ IsHighestReady(p)
                 /\ CurrentThread' = next
                 /\ UNCHANGED location \/ _Reschedule(next)
        BY <1>8 DEF ScheduleNext
    <2>2. PICK t \in Threads : t = Head(running_tasks[p])
        BY <2>1 DEF TypeOK, IsHighestReady
    <2>3. /\ StatusOf(location[t]) = "ready"
          /\ \A u \in Threads : StatusOf(location[u]) = "ready"
                                    => Priority[u] <= Priority[t]
        BY <2>1, <2>2, HeadIsBest
    <2>4. Status' = Status
        <3>1. CASE UNCHANGED location
            BY <3>1 DEF Status
        <3>2. CASE _Reschedule(t)
            <4>1. SetLocation(t, Priority[t]) /\ Priority[t] \in Priorities
                  /\ Priority[t] \in Locations
                BY <3>2, LocationFacts DEF _Reschedule, JoinRunning
            <4>2. Status' = [Status EXCEPT ![t] = "ready"]
                BY <4>1, StatusNext, StatusOfLocation
            <4> QED BY <2>3, <4>2 DEF Status
        <3> QED BY <2>1, <2>2, <3>1, <3>2
    <2>5. phase # "thread" /\ phase' = "thread" /\ CurrentThread' = t
        BY <1>8, <2>1, <2>2 DEF ScheduleNext
    <2>6. Abs!Dispatch(t)
        BY <2>3, <2>4, <2>5 DEF Abs!Dispatch, Abs!Ready, Status
    <2> QED BY <2>6 DEF Abs!Next
<1>9. CASE ScheduleNone
    <2>1. \A u \in Threads : StatusOf(location[u]) # "ready"
        BY <1>9, NobodyReady DEF ScheduleNone
    <2>2. Abs!Stay
        BY <1>9, <2>1 DEF ScheduleNone, queues, Abs!Stay, Abs!Ready
    <2> QED BY <2>2 DEF Abs!Next
<1>10. CASE UNCHANGED vars
    BY <1>10 DEF vars, Abs!vars
<1> QED BY <1>1, <1>2, <1>3, <1>4, <1>5, <1>6, <1>7, <1>8, <1>9, <1>10
        DEF Next, Tick

(* The scheduler implements its abstract specification: between ticks only *)
(* calls move threads, a tick wakes only sleepers and dispatches a ready   *)
(* thread of the highest priority, if there is one.                        *)
THEOREM SchedulerImplementsAbs == Spec => ImplementsAbs
<1>1. Init => RInv
    BY InitIInv DEF Init, RInv, InOwnQueue, LOC_RELEASED
<1>2. RInv /\ [Next]_vars => RInv'
    BY NextIInv, InOwnQueueNext DEF RInv
<1> QED BY <1>1, <1>2, InitRefines, StepRefines, PTL
        DEF Spec, ImplementsAbs, Abs!Spec

-----------------------------------------------------------------------------
(* The sleeping list and the time.                                         *)

(* TimerTick leaves its loop only when the head of the list is not due.    *)
NobodyDue == phase = "schedule" => ~ HasZero(sleeping_tasks)

LEMMA NobodyDueNext == NobodyDue /\ [Next]_vars => NobodyDue'
<1> SUFFICES ASSUME NobodyDue, [Next]_vars PROVE NobodyDue'
    OBVIOUS
<1>1. CASE WakeDone
    BY <1>1 DEF WakeDone, queues, NobodyDue, HasZero
<1>2. CASE UNCHANGED vars
    BY <1>2 DEF vars, queues, NobodyDue, HasZero
<1>3. CASE Next /\ ~ WakeDone
    BY <1>3 DEF Next, Tick, Deschedule, Reschedule, Block, Sleep, TimerTick,
                WakeNext, ScheduleNext, ScheduleNone, NobodyDue
<1> QED BY <1>1, <1>2, <1>3

(* When the handler comes to choose the next thread, no thread whose time  *)
(* has run out is left asleep: the head of the list is not due, and a node *)
(* is never due before the head.                                           *)
THEOREM SchedulerNoOverdueSleeper == Spec => []NoOverdueSleeper
<1>1. Init => NobodyDue
    BY DEF Init, NobodyDue
<1>2. TypeOK /\ NobodyDue => NoOverdueSleeper
    BY HeadIsFirstDue DEF TypeOK, NobodyDue, NoOverdueSleeper
<1> QED BY <1>1, <1>2, NobodyDueNext, SchedulerTypeCorrect, PTL DEF Spec

-----------------------------------------------------------------------------
(* What TickExact says of one step.                                       *)
TickStep ==
    phase = "thread" /\ phase' = "wake" =>
        /\ Len(sleeping_tasks') = Len(sleeping_tasks)
        /\ \A k \in 1 .. Len(sleeping_tasks) :
              /\ sleeping_tasks'[k].item = sleeping_tasks[k].item
              /\ SumTo(sleeping_tasks', k) =
                    Max({0, SumTo(sleeping_tasks, k) - Interval})

LEMMA NextTickStep ==
    ASSUME TypeOK, Next
    PROVE  TickStep
<1>1. CASE TimerTick
    <2> DEFINE q == sleeping_tasks
               r == DecreaseDelta(q, Interval)
    <2>1. q \in Seq(NodeOf(Threads)) /\ Interval \in Nat
        BY SchedulerAssumption DEF TypeOK
    <2>2. sleeping_tasks' = r
        BY <1>1 DEF TimerTick
    <2>3. r \in Seq(NodeOf(Threads)) /\ Items(r) = Items(q)
        BY <2>1, DecreaseDeltaLists
    <2>4. \A k \in 1 .. Len(q) : SumTo(r, k) = Max({0, SumTo(q, k) - Interval})
        BY <2>1, DecreaseDeltaSums
    <2>5. Len(r) = Len(q) /\ \A k \in 1 .. Len(q) : r[k].item = q[k].item
        <3> HIDE DEF q, r
        <3> QED BY <2>1, <2>3, QueueFacts
    <2> HIDE DEF r
    <2> QED BY <2>2, <2>4, <2>5 DEF TickStep
<1>2. CASE ~ TimerTick
    BY <1>2 DEF Next, Tick, Deschedule, Reschedule, Block, Sleep, WakeNext,
                WakeDone, ScheduleNext, ScheduleNone, TickStep
<1> QED BY <1>1, <1>2

(* A tick takes exactly Interval off the time every sleeper has left, and  *)
(* forgets none of them.                                                   *)
THEOREM SchedulerTickExact == Spec => TickExact
<1>1. TypeOK /\ [Next]_vars => [TickStep]_vars
    BY NextTickStep
<1> QED BY <1>1, SchedulerTypeCorrect, PTL DEF Spec, TickExact, TickStep

-----------------------------------------------------------------------------
(* Nobody but t has its time changed.                                      *)
OnlyDisturbs(t) ==
    \A u \in Threads \ {t} :
        Asleep(u) /\ Asleep(u)' /\ Fits(u) => TimeLeft(u)' = TimeLeft(u)

LEMMA KeptTimes ==
    ASSUME IInv, IInv', NEW t, KeepsTimes(sleeping_tasks, sleeping_tasks', t)
    PROVE  OnlyDisturbs(t)
<1> DEFINE q == sleeping_tasks
           r == sleeping_tasks'
<1>1. SUFFICES ASSUME NEW u \in Threads \ {t}, _find(q, u) # 0, _find(r, u) # 0,
                      SumTo(q, _find(q, u)) < Modulus
               PROVE  SumTo(r, _find(r, u)) = SumTo(q, _find(q, u))
    BY DEF OnlyDisturbs, Asleep, TimeLeft, Fits
<1>2. Len(q) \in Nat /\ Len(r) \in Nat
    BY DEF IInv, TypeOK
<1> HIDE DEF q, r
<1>3. /\ _find(q, u) \in 1 .. Len(q) /\ q[_find(q, u)].item = u
      /\ _find(r, u) \in 1 .. Len(r) /\ r[_find(r, u)].item = u
    BY <1>1, <1>2, FindNode
<1>4. KeepsTimes(q, r, t)
    BY DEF q, r
<1> QED BY <1>1, <1>3, <1>4 DEF KeepsTimes

(* _Release of a thread gives the time it had left to the next one.        *)
LEMMA ReleaseSums ==
    ASSUME IInv, NEW t \in Threads
    PROVE  KeepsTimes(sleeping_tasks, SleepingWithout(t), t)
<1>1. /\ sleeping_tasks \in Seq(NodeOf(Threads))
      /\ ListsExactly(Items(sleeping_tasks), At(LOC_SLEEPING))
    BY DEF IInv, TypeOK, QueueCoherent
<1> QED BY <1>1, RemoveItemSums, SameSums DEF SleepingWithout

(* What SleepersUndisturbed says of one step.                              *)
UndisturbedStep ==
    phase' # "wake" \/ phase = "wake" =>
        \E t \in Threads \cup {StartupThread} : \A u \in Threads \ {t} :
            Asleep(u) /\ Asleep(u)' /\ Fits(u) => TimeLeft(u)' = TimeLeft(u)

LEMMA UndisturbedIfKept ==
    ASSUME IInv, IInv', NEW t \in Threads \cup {StartupThread},
           KeepsTimes(sleeping_tasks, sleeping_tasks', t)
    PROVE  UndisturbedStep
<1>1. OnlyDisturbs(t)
    BY KeptTimes
<1> QED BY <1>1 DEF OnlyDisturbs, UndisturbedStep

LEMMA NextUndisturbedStep ==
    ASSUME IInv, IInv', Next
    PROVE  UndisturbedStep
<1>1. /\ sleeping_tasks \in Seq(NodeOf(Threads))
      /\ ListsExactly(Items(sleeping_tasks), At(LOC_SLEEPING))
    BY DEF IInv, TypeOK, QueueCoherent
<1>2. ASSUME NEW t \in Threads, sleeping_tasks' = SleepingWithout(t)
      PROVE  UndisturbedStep
    BY <1>2, ReleaseSums, UndisturbedIfKept
<1>3. ASSUME sleeping_tasks' = sleeping_tasks
      PROVE  UndisturbedStep
    <2>1. KeepsTimes(sleeping_tasks, sleeping_tasks', StartupThread)
        BY <1>1, <1>3, SameSums
    <2> QED BY <2>1, UndisturbedIfKept
<1>4. ASSUME NEW t \in Threads, Deschedule(t) PROVE UndisturbedStep
    BY <1>2, <1>4 DEF Deschedule
<1>5. ASSUME NEW t \in Threads, Reschedule(t) PROVE UndisturbedStep
    BY <1>2, <1>5 DEF Reschedule, _Reschedule
<1>6. ASSUME NEW t \in Threads, Block(t) PROVE UndisturbedStep
    BY <1>2, <1>6 DEF Block
<1>7. ASSUME NEW t \in Threads, NEW ns \in SleepTimes, Sleep(t, ns)
      PROVE  UndisturbedStep
    <2> DEFINE q == SleepingWithout(t)
               S == At(LOC_SLEEPING)
               r == InsertAtDelta(q, t, ns)
    <2>1. sleeping_tasks' = r /\ ns \in Delta
        BY <1>7, SchedulerAssumption DEF Sleep
    <2>2. q \in Seq(NodeOf(Threads)) /\ ListsExactly(Items(q), S \ {t})
        BY ReleaseLists
    <2>3. KeepsTimes(sleeping_tasks, q, t)
        BY ReleaseSums
    <2> HIDE DEF q
    <2>4. KeepsTimes(q, r, t)
        <3> DEFINE rest == S \ {t}
        <3>1. ListsExactly(Items(q), rest) /\ t \notin rest
            BY <2>2
        <3> HIDE DEF rest
        <3> QED BY <2>1, <2>2, <3>1, InsertAtDeltaSums
    <2> HIDE DEF r, S
    <2>5. KeepsTimes(sleeping_tasks, r, t)
        BY <1>1, <2>2, <2>3, <2>4, KeepsTimesTwice DEF S
    <2> QED BY <2>1, <2>5, UndisturbedIfKept
<1>8. CASE TimerTick
    BY <1>8 DEF TimerTick, UndisturbedStep
<1>9. CASE WakeNext
    <2> DEFINE t == GetZero(sleeping_tasks)
               rest == _remove(sleeping_tasks, 1)
    <2>1. HasZero(sleeping_tasks)
        BY <1>9 DEF WakeNext
    <2>2. t \in Threads /\ RemoveItem(rest, t) = rest
        BY <2>1, WokenThread
    <2>3. sleeping_tasks' = rest
        BY <1>9, <2>2 DEF WakeNext
    <2>4. 1 \in 1 .. Len(sleeping_tasks) /\ t = sleeping_tasks[1].item
        BY <1>1, <2>1 DEF HasZero, GetZero
    <2> HIDE DEF t
    <2>5. KeepsTimes(sleeping_tasks, rest, t)
        BY <1>1, <2>4, _removeSums
    <2> HIDE DEF rest
    <2> QED BY <2>2, <2>3, <2>5, UndisturbedIfKept
<1>10. CASE WakeDone \/ ScheduleNone
    BY <1>3, <1>10 DEF WakeDone, ScheduleNone, queues
<1>11. CASE ScheduleNext
    <2>1. PICK p \in Priorities :
             /\ IsHighestReady(p)
             /\ \/ UNCHANGED queues
                \/ _Reschedule(Head(running_tasks[p]))
        BY <1>11 DEF ScheduleNext, queues
    <2>2. CASE UNCHANGED queues
        BY <1>3, <2>2 DEF queues
    <2>3. CASE _Reschedule(Head(running_tasks[p]))
        <3>1. Head(running_tasks[p]) \in Threads
            BY <2>1 DEF IInv, TypeOK, IsHighestReady
        <3> QED BY <1>2, <2>3, <3>1 DEF _Reschedule
    <2> QED BY <2>1, <2>2, <2>3
<1> QED BY <1>4, <1>5, <1>6, <1>7, <1>8, <1>9, <1>10, <1>11 DEF Next, Tick

(* Threads that go to sleep, are woken early or are woken by the timer     *)
(* leave the other sleepers the time they have left, unless it is more     *)
(* than a counter holds.                                                   *)
THEOREM SchedulerSleepersUndisturbed == Spec => SleepersUndisturbed
<1>1. IInv /\ IInv' /\ [Next]_vars => [UndisturbedStep]_vars
    BY NextUndisturbedStep
<1> QED BY <1>1, InitIInv, NextIInv, PTL
        DEF Spec, SleepersUndisturbed, UndisturbedStep
=============================================================================
