------------------------- MODULE SectionListProofs -------------------------
(* That the section list is whole after every operation, that a dump is    *)
(* complete, and that the lists implement the pair of sequences of         *)
(* AbsSectionList.                                                         *)
EXTENDS SectionList, NaturalsInduction, FiniteSetTheorems, SequenceTheorems, TLAPS

(* A nonempty set of natural numbers has a smallest element.               *)
LEMMA SmallestElement ==
  ASSUME NEW S, S \subseteq Nat, S # {}
  PROVE  \E m \in S : \A n \in S : m <= n
<1>1. PICK m \in S : \A n \in S : <<n, m>> \notin OpToRel(<, Nat)
  BY NatLessThanWellFounded, WFMin, Zenon
<1>2. ASSUME NEW n \in S PROVE ~ n < m
  BY <1>1, Zenon DEF OpToRel
<1>. QED BY <1>2

(* A walk of n steps in D that starts with a and whose i-th step takes v   *)
(* to G[i][v].                                                             *)
IsWalk(f, n, D, a, G) ==
    /\ f \in [0 .. n -> D]
    /\ f[0] = a
    /\ \A i \in 1 .. n : f[i] = G[i][f[i-1]]

(* A walk of any length exists, if every step leads to a value of D.       *)
LEMMA WalkExists ==
    ASSUME NEW n \in Nat, NEW D, NEW a \in D, NEW G \in [1 .. n -> [D -> D]]
    PROVE  \E f : IsWalk(f, n, D, a, G)
<1> DEFINE Goes(f, m) == IsWalk(f, m, D, a, G)
           Bad == {m \in 0 .. n : ~ \E f : Goes(f, m)}
<1>1. SUFFICES ASSUME Bad # {} PROVE FALSE
    <2>1. n \in 0 .. n
        OBVIOUS
    <2>2. \E f : Goes(f, n)
        BY <2>1
    <2> QED BY <2>2
<1>2. Bad \subseteq Nat
    OBVIOUS
<1>3. PICK m \in Bad : \A k \in Bad : m <= k
    <2> HIDE DEF Bad
    <2> QED BY <1>1, <1>2, SmallestElement
<1>4. m \in 0 .. n /\ ~ \E f : Goes(f, m)
    OBVIOUS
<1>5. CASE m = 0
    <2>1. Goes([i \in 0 .. 0 |-> a], 0)
        BY DEF IsWalk
    <2> QED BY <2>1, <1>4, <1>5
<1>6. CASE m # 0
    <2>1. m \in 1 .. n /\ m - 1 \in 0 .. n /\ m - 1 \notin Bad
        <3>1. m \in 1 .. n /\ m - 1 \in 0 .. n /\ ~ (m <= m - 1)
            BY <1>4, <1>6
        <3> HIDE DEF Bad
        <3> QED BY <3>1, <1>3
    <2>2. PICK f : Goes(f, m - 1)
        BY <2>1
    <2> HIDE DEF Bad
    <2> DEFINE g == [i \in 0 .. m |-> IF i < m THEN f[i] ELSE G[m][f[m-1]]]
    <2>3. /\ f \in [0 .. m - 1 -> D]
          /\ f[0] = a
          /\ \A i \in 1 .. m - 1 : f[i] = G[i][f[i-1]]
        BY <2>2 DEF IsWalk
    <2> HIDE DEF Goes
    <2>4. G[m][f[m-1]] \in D
        BY <2>1, <2>3
    <2>5. g \in [0 .. m -> D]
        BY <2>1, <2>3, <2>4
    <2>6. /\ \A i \in 0 .. m - 1 : g[i] = f[i]
          /\ g[m] = G[m][f[m-1]]
        BY <2>1
    <2> HIDE DEF g
    <2>7. ASSUME NEW i \in 1 .. m PROVE g[i] = G[i][g[i-1]]
        <3>1. i - 1 \in 0 .. m - 1 /\ g[i-1] = f[i-1]
            BY <2>1, <2>6
        <3>2. CASE i = m
            BY <3>1, <3>2, <2>6
        <3>3. CASE i \in 1 .. m - 1
            <4>1. g[i] = f[i] /\ f[i] = G[i][f[i-1]]
                BY <3>3, <2>1, <2>3, <2>6
            <4> QED BY <4>1, <3>1
        <3> QED BY <3>2, <3>3, <2>1
    <2>8. Goes(g, m)
        <3>1. 0 \in 0 .. m - 1
            BY <2>1
        <3> QED BY <3>1, <2>3, <2>5, <2>6, <2>7 DEF Goes, IsWalk
    <2> QED BY <2>8, <1>4
<1> QED BY <1>5, <1>6

(* Induction along a walk of n steps: what holds at its start, and after   *)
(* each step if it held before it, holds at every position.                *)
LEMMA WalkInduction ==
    ASSUME NEW n \in Nat, NEW S,
           0 \in S,
           \A i \in 1 .. n : i - 1 \in S => i \in S
    PROVE  \A i \in 0 .. n : i \in S
<1> DEFINE Bad == {i \in 0 .. n : i \notin S}
<1>1. SUFFICES ASSUME Bad # {} PROVE FALSE
    OBVIOUS
<1>2. Bad \subseteq Nat
    OBVIOUS
<1>3. PICK m \in Bad : \A k \in Bad : m <= k
    <2> HIDE DEF Bad
    <2> QED BY <1>1, <1>2, SmallestElement
<1>4. m \in 1 .. n /\ m \notin S
    OBVIOUS
<1>5. m - 1 \in 0 .. n /\ ~ (m <= m - 1)
    BY <1>4
<1>6. m - 1 \in S
    BY <1>3, <1>5
<1> QED BY <1>4, <1>6

(* The sequence s with x at the place k, and s without its k-th element.   *)
Put(s, k, x) ==
    [i \in 1 .. Len(s) + 1 |-> IF i < k THEN s[i] ELSE IF i = k THEN x ELSE s[i-1]]

Drop(s, k) == [i \in 1 .. Len(s) - 1 |-> IF i < k THEN s[i] ELSE s[i+1]]

LEMMA PutInserts ==
    ASSUME NEW T, NEW s \in Seq(T), NEW x \in T, NEW k \in 1 .. Len(s) + 1
    PROVE  /\ Put(s, k, x) \in Seq(T)
           /\ Len(Put(s, k, x)) = Len(s) + 1
           /\ Abs!Seqs!InsertAt(s, k, x) = Put(s, k, x)
           /\ k = Len(s) + 1 => Append(s, x) = Put(s, k, x)
<1>1. \A i \in 1 .. Len(s) + 1 : Put(s, k, x)[i] \in T
    BY DEF Put
<1>2. Put(s, k, x) \in [1 .. Len(s) + 1 -> T]
    BY <1>1 DEF Put
<1>3. Len(s) + 1 \in Nat
    OBVIOUS
<1>4. Put(s, k, x) \in Seq(T) /\ Len(Put(s, k, x)) = Len(s) + 1
    BY <1>2, <1>3
<1> DEFINE front == SubSeq(s, 1, k - 1)
           back == SubSeq(s, k, Len(s))
<1>5. /\ front \in Seq(T) /\ Len(front) = k - 1
      /\ \A i \in 1 .. k - 1 : front[i] = s[i]
    OBVIOUS
<1>6. /\ back \in Seq(T) /\ Len(back) = Len(s) - k + 1
      /\ \A i \in 1 .. Len(s) - k + 1 : back[i] = s[k + i - 1]
    OBVIOUS
<1> DEFINE whole == front \o <<x>> \o back
<1>7. whole = Put(s, k, x)
    <2> HIDE DEF front, back
    <2>1. whole \in Seq(T) /\ Len(whole) = Len(s) + 1
        BY <1>5, <1>6
    <2>2. ASSUME NEW i \in 1 .. Len(s) + 1 PROVE whole[i] = Put(s, k, x)[i]
        <3>1. CASE i < k
            BY <3>1, <1>5, <1>6 DEF Put
        <3>2. CASE i = k
            <4>1. whole[i] = x
                BY <3>2, <1>5, <1>6
            <4>2. Put(s, k, x)[i] = x
                BY <3>2 DEF Put
            <4> HIDE DEF whole
            <4> QED BY <4>1, <4>2
        <3>3. CASE i > k
            <4>1. whole[i] = back[i - k] /\ i - k \in 1 .. Len(s) - k + 1
                <5>0. front \o <<x>> \in Seq(T) /\ Len(front \o <<x>>) = k
                    <6>1. <<x>> \in Seq(T) /\ Len(<<x>>) = 1
                        OBVIOUS
                    <6>2. Len(front) = k - 1 /\ front \in Seq(T)
                        BY <1>5
                    <6> QED BY <6>1, <6>2
                <5>1. PICK mid \in Seq(T) : mid = front \o <<x>> /\ Len(mid) = k
                    BY <5>0
                <5>2. i - k \in 1 .. Len(s) - k + 1
                    BY <3>3
                <5>3. (mid \o back)[i] = back[i - k]
                    BY <1>6, <3>3, <5>1, <5>2
                <5> QED BY <5>1, <5>2, <5>3
            <4>2. back[i - k] = s[k + (i - k) - 1] /\ k + (i - k) - 1 = i - 1
                BY <4>1, <1>6
            <4>3. Put(s, k, x)[i] = s[i-1]
                BY <3>3 DEF Put
            <4> HIDE DEF whole
            <4> QED BY <4>1, <4>2, <4>3
        <3>4. i < k \/ i = k \/ i > k
            OBVIOUS
        <3> HIDE DEF whole
        <3> QED BY <3>1, <3>2, <3>3, <3>4
    <2> HIDE DEF whole
    <2> QED BY <2>1, <2>2, <1>4, SeqEqual
<1>8. ASSUME k = Len(s) + 1 PROVE Append(s, x) = Put(s, k, x)
    <2>1. \A i \in 1 .. Len(s) + 1 : Append(s, x)[i] = Put(s, k, x)[i]
        BY <1>8 DEF Put
    <2>2. Append(s, x) \in Seq(T) /\ Len(Append(s, x)) = Len(s) + 1
        OBVIOUS
    <2> QED BY <1>4, <2>1, <2>2, SeqEqual
<1> QED BY <1>4, <1>7, <1>8 DEF Abs!Seqs!InsertAt

LEMMA DropRemoves ==
    ASSUME NEW T, NEW s \in Seq(T), NEW k \in 1 .. Len(s)
    PROVE  /\ Drop(s, k) \in Seq(T)
           /\ Len(Drop(s, k)) = Len(s) - 1
           /\ Abs!Seqs!RemoveAt(s, k) = Drop(s, k)
<1>1. \A i \in 1 .. Len(s) - 1 : Drop(s, k)[i] \in T
    BY DEF Drop
<1>2. Drop(s, k) \in [1 .. Len(s) - 1 -> T]
    BY <1>1 DEF Drop
<1>3. Len(s) - 1 \in Nat
    OBVIOUS
<1>4. Drop(s, k) \in Seq(T) /\ Len(Drop(s, k)) = Len(s) - 1
    BY <1>2, <1>3
<1> DEFINE front == SubSeq(s, 1, k - 1)
           back == SubSeq(s, k + 1, Len(s))
<1>5. /\ front \in Seq(T) /\ Len(front) = k - 1
      /\ \A i \in 1 .. k - 1 : front[i] = s[i]
    OBVIOUS
<1>6. /\ back \in Seq(T) /\ Len(back) = Len(s) - k
      /\ \A i \in 1 .. Len(s) - k : back[i] = s[k + i]
    OBVIOUS
<1> DEFINE whole == front \o back
<1>7. whole = Drop(s, k)
    <2> HIDE DEF front, back
    <2>1. whole \in Seq(T) /\ Len(whole) = Len(s) - 1
        BY <1>5, <1>6
    <2>2. ASSUME NEW i \in 1 .. Len(s) - 1 PROVE whole[i] = Drop(s, k)[i]
        <3>1. CASE i < k
            BY <3>1, <1>5, <1>6 DEF Drop
        <3>2. CASE i >= k
            <4>1. whole[i] = back[i - k + 1] /\ i - k + 1 \in 1 .. Len(s) - k
                BY <3>2, <1>5, <1>6
            <4> QED BY <4>1, <3>2, <1>6 DEF Drop
        <3>3. i < k \/ i >= k
            OBVIOUS
        <3> HIDE DEF whole
        <3> QED BY <3>1, <3>2, <3>3
    <2> HIDE DEF whole
    <2> QED BY <2>1, <2>2, <1>4, SeqEqual
<1> QED BY <1>4, <1>7 DEF Abs!Seqs!RemoveAt

-----------------------------------------------------------------------------
(* Linked lists.                                                           *)
Node == [item : Items, next : Nat, prev : Nat]

LinkedLists ==
    [kind : {"linked"}, f : Nat, l : Nat, count : Nat,
     nodes : UNION {[D -> Node] : D \in SUBSET (Nat \ {NULL})}]

(* c is the chain of the nodes of L between its two NULLs, and s what they *)
(* hold.                                                                   *)
Chain(L, c, s) ==
    /\ L.count = Len(s)
    /\ c \in [0 .. Len(s) + 1 -> Nat] /\ c[0] = NULL /\ c[Len(s) + 1] = NULL
    /\ L.f = c[1] /\ L.l = c[Len(s)]
    /\ \A i \in 1 .. Len(s) :
          /\ c[i] \in DOMAIN L.nodes
          /\ L.nodes[c[i]] = [item |-> s[i], next |-> c[i+1], prev |-> c[i-1]]
    /\ \A i, j \in 1 .. Len(s) : c[i] = c[j] => i = j
    /\ \A d \in DOMAIN L.nodes : \E i \in 1 .. Len(s) : d = c[i]

Links(L, s) == L \in LinkedLists /\ s \in Seq(Items) /\ \E c : Chain(L, c, s)

LEMMA LinkedParts ==
    ASSUME NEW L \in LinkedLists
    PROVE  /\ L.kind = "linked" /\ L.f \in Nat /\ L.l \in Nat /\ L.count \in Nat
           /\ DOMAIN L.nodes \subseteq Nat \ {NULL}
           /\ L.nodes \in [DOMAIN L.nodes -> Node]
           /\ \A d \in DOMAIN L.nodes : d # NULL /\ d \in Nat
           /\ L = [kind |-> "linked", f |-> L.f, l |-> L.l, count |-> L.count,
                   nodes |-> L.nodes]
<1>1. PICK D \in SUBSET (Nat \ {NULL}) : L.nodes \in [D -> Node]
    BY DEF LinkedLists
<1>2. DOMAIN L.nodes = D
    BY <1>1
<1> QED BY <1>1, <1>2 DEF LinkedLists

LEMMA LinkedWhole ==
    ASSUME NEW f \in Nat, NEW l \in Nat, NEW n \in Nat,
           NEW D, D \subseteq Nat \ {NULL}, NEW nodes \in [D -> Node]
    PROVE  [kind |-> "linked", f |-> f, l |-> l, count |-> n, nodes |-> nodes]
              \in LinkedLists
<1>1. nodes \in UNION {[E -> Node] : E \in SUBSET (Nat \ {NULL})}
    OBVIOUS
<1> HIDE DEF Node
<1> QED BY <1>1 DEF LinkedLists

LEMMA ChainParts ==
    ASSUME NEW L \in LinkedLists, NEW s \in Seq(Items), NEW c, Chain(L, c, s)
    PROVE  /\ L.count = Len(s)
           /\ L.f = c[1] /\ L.l = c[Len(s)]
           /\ \A i \in 0 .. Len(s) + 1 : c[i] \in Nat
           /\ c[0] = NULL /\ c[Len(s) + 1] = NULL
           /\ \A i \in 1 .. Len(s) :
                 /\ c[i] \in DOMAIN L.nodes /\ c[i] # NULL /\ c[i] \in Nat
                 /\ L.nodes[c[i]].item = s[i]
                 /\ L.nodes[c[i]].next = c[i+1]
                 /\ L.nodes[c[i]].prev = c[i-1]
           /\ \A i, j \in 1 .. Len(s) : c[i] = c[j] => i = j
           /\ \A d \in DOMAIN L.nodes : \E i \in 1 .. Len(s) : d = c[i]
<1>1. ASSUME NEW i \in 1 .. Len(s)
      PROVE  /\ c[i] \in DOMAIN L.nodes /\ c[i] # NULL /\ c[i] \in Nat
             /\ L.nodes[c[i]].item = s[i]
             /\ L.nodes[c[i]].next = c[i+1]
             /\ L.nodes[c[i]].prev = c[i-1]
    <2>1. /\ c[i] \in DOMAIN L.nodes
          /\ L.nodes[c[i]] = [item |-> s[i], next |-> c[i+1], prev |-> c[i-1]]
        BY DEF Chain
    <2>2. c[i] # NULL /\ c[i] \in Nat
        BY <2>1, LinkedParts
    <2> QED BY <2>1, <2>2
<1> QED BY <1>1 DEF Chain

(* As many nodes as the counter says.                                      *)
LEMMA ChainCardinality ==
    ASSUME NEW L \in LinkedLists, NEW s \in Seq(Items), NEW c, Chain(L, c, s)
    PROVE  IsFiniteSet(DOMAIN L.nodes) /\ Cardinality(DOMAIN L.nodes) = Len(s)
<1> DEFINE n == Len(s)
           D == DOMAIN L.nodes
           b == [i \in 1 .. n |-> c[i]]
<1>1. n \in Nat
    OBVIOUS
<1>2. b \in [1 .. n -> D]
    BY DEF Chain
<1>3. b \in Bijection(1 .. n, D)
    <2>1. \A i, j \in 1 .. n : b[i] = b[j] => i = j
        BY DEF Chain
    <2>2. \A d \in D : \E i \in 1 .. n : b[i] = d
        BY DEF Chain
    <2> HIDE DEF b, n, D
    <2> QED BY <1>2, <2>1, <2>2 DEF Bijection, Injection, Surjection, IsInjective
<1>4. IsFiniteSet(1 .. n) /\ Cardinality(1 .. n) = n
    <2> HIDE DEF n
    <2> QED BY <1>1, FS_Interval
<1> HIDE DEF n, D, b
<1>5. ExistsBijection(1 .. n, D)
    BY <1>3 DEF ExistsBijection
<1> QED BY <1>4, <1>5, FS_Bijection DEF n, D

(* new finds an address that no node has.                                  *)
LEMMA AddressIsFresh ==
    ASSUME NEW L \in LinkedLists, NEW s \in Seq(Items), NEW c, Chain(L, c, s)
    PROVE  Address(L) \in Nat \ {NULL} /\ Address(L) \notin DOMAIN L.nodes
<1> DEFINE n == Len(s)
           D == DOMAIN L.nodes
           free == (1 .. n + 1) \ D
<1>1. n \in Nat /\ IsFiniteSet(D) /\ Cardinality(D) = n
    BY ChainCardinality
<1>2. free # {}
    <2>1. SUFFICES ASSUME 1 .. n + 1 \subseteq D PROVE FALSE
        OBVIOUS
    <2> HIDE DEF n, D
    <2>2. Cardinality(1 .. n + 1) = n + 1 /\ n + 1 \in Nat
        BY <1>1, FS_Interval
    <2>3. Cardinality(1 .. n + 1) <= Cardinality(D)
        BY <1>1, <2>1, FS_Subset
    <2> QED BY <1>1, <2>2, <2>3
<1>3. free \subseteq Nat \ {NULL}
    BY DEF NULL
<1>4. \E a \in free : \A m \in free : a <= m
    <2> HIDE DEF free
    <2> QED BY <1>2, <1>3, SmallestElement
<1>5. Address(L) \in free
    <2>1. Address(L) = CHOOSE a \in free : \A m \in free : a <= m
        BY <1>1 DEF Address
    <2> HIDE DEF free
    <2> QED BY <1>4, <2>1
<1> QED BY <1>3, <1>5

(* The walks from the two ends follow the chain.                           *)
LEMMA WalkFollows ==
    ASSUME NEW L \in LinkedLists, NEW s \in Seq(Items), NEW c, Chain(L, c, s)
    PROVE  /\ DOMAIN Walk(L) = 0 .. Len(s)
           /\ \A i \in 0 .. Len(s) : Walk(L)[i] = c[i+1]
<1> DEFINE n == Len(s)
           W == Walk(L)
           f == [i \in 0 .. n |-> c[i+1]]
<1>1. n \in Nat /\ Cardinality(DOMAIN L.nodes) = n
    BY ChainCardinality
<1>2. /\ L.f = c[1]
      /\ \A i \in 1 .. n : c[i] # NULL /\ L.nodes[c[i]].next = c[i+1]
    BY ChainParts
<1>3. f = [i \in 0 .. n |-> IF i = 0 THEN L.f
              ELSE IF f[i-1] = NULL THEN NULL ELSE L.nodes[f[i-1]].next]
    <2> SUFFICES ASSUME NEW i \in 0 .. n
                 PROVE f[i] = IF i = 0 THEN L.f
                    ELSE IF f[i-1] = NULL THEN NULL ELSE L.nodes[f[i-1]].next
        OBVIOUS
    <2>1. CASE i = 0
        BY <2>1, <1>2
    <2>2. CASE i # 0
        <3>1. i \in 1 .. n /\ f[i-1] = c[i] /\ f[i] = c[i+1]
            BY <2>2
        <3> HIDE DEF f
        <3> QED BY <3>1, <2>2, <1>2
    <2> QED BY <2>1, <2>2
<1>4. W = [i \in 0 .. n |-> IF i = 0 THEN L.f
              ELSE IF W[i-1] = NULL THEN NULL ELSE L.nodes[W[i-1]].next]
    <2> HIDE DEF f, n
    <2> QED BY <1>1, <1>3, Zenon DEF Walk
<1> HIDE DEF W, n
<1>5. /\ DOMAIN W = 0 .. n
      /\ W[0] = L.f
      /\ \A i \in 1 .. n : W[i] = IF W[i-1] = NULL THEN NULL ELSE L.nodes[W[i-1]].next
    BY <1>1, <1>4
<1>6. \A i \in 0 .. n : W[i] = c[i+1]
    <2> DEFINE S == {i \in 0 .. n : W[i] = c[i+1]}
    <2>1. 0 \in S
        BY <1>1, <1>2, <1>5
    <2>2. ASSUME NEW i \in 1 .. n, i - 1 \in S PROVE i \in S
        <3>1. W[i-1] = c[i] /\ i \in 0 .. n
            BY <1>1, <2>2
        <3> QED BY <1>2, <1>5, <3>1
    <2> HIDE DEF S
    <2>3. \A i \in 0 .. n : i \in S
        BY <1>1, <2>1, <2>2, WalkInduction
    <2> QED BY <2>3 DEF S
<1> QED BY <1>5, <1>6 DEF W, n

LEMMA WalkBackFollows ==
    ASSUME NEW L \in LinkedLists, NEW s \in Seq(Items), NEW c, Chain(L, c, s)
    PROVE  \A i \in 0 .. Len(s) : WalkBack(L)[i] = c[Len(s) - i]
<1> DEFINE n == Len(s)
           W == WalkBack(L)
           f == [i \in 0 .. n |-> c[n - i]]
<1>1. n \in Nat /\ Cardinality(DOMAIN L.nodes) = n
    BY ChainCardinality
<1>2. /\ L.l = c[n]
      /\ \A i \in 1 .. n : c[i] # NULL /\ L.nodes[c[i]].prev = c[i-1]
    BY ChainParts
<1>3. f = [i \in 0 .. n |-> IF i = 0 THEN L.l
              ELSE IF f[i-1] = NULL THEN NULL ELSE L.nodes[f[i-1]].prev]
    <2> SUFFICES ASSUME NEW i \in 0 .. n
                 PROVE f[i] = IF i = 0 THEN L.l
                    ELSE IF f[i-1] = NULL THEN NULL ELSE L.nodes[f[i-1]].prev
        OBVIOUS
    <2>1. CASE i = 0
        BY <2>1, <1>2
    <2>2. CASE i # 0
        <3>1. /\ n - (i - 1) \in 1 .. n /\ (n - (i - 1)) - 1 = n - i
              /\ f[i-1] = c[n - (i - 1)] /\ f[i] = c[n - i]
            BY <2>2, <1>1
        <3> HIDE DEF f, n
        <3> QED BY <3>1, <2>2, <1>2
    <2> QED BY <2>1, <2>2
<1>4. W = [i \in 0 .. n |-> IF i = 0 THEN L.l
              ELSE IF W[i-1] = NULL THEN NULL ELSE L.nodes[W[i-1]].prev]
    <2> HIDE DEF f, n
    <2> QED BY <1>1, <1>3, Zenon DEF WalkBack
<1> HIDE DEF W, n
<1>5. /\ W[0] = L.l
      /\ \A i \in 1 .. n : W[i] = IF W[i-1] = NULL THEN NULL ELSE L.nodes[W[i-1]].prev
    BY <1>1, <1>4
<1>6. \A i \in 0 .. n : W[i] = c[n - i]
    <2> DEFINE S == {i \in 0 .. n : W[i] = c[n - i]}
    <2>1. 0 \in S
        BY <1>1, <1>2, <1>5
    <2>2. ASSUME NEW i \in 1 .. n, i - 1 \in S PROVE i \in S
        <3>1. /\ W[i-1] = c[n - (i - 1)] /\ i \in 0 .. n
              /\ n - (i - 1) \in 1 .. n /\ (n - (i - 1)) - 1 = n - i
            BY <1>1, <2>2
        <3> QED BY <1>2, <1>5, <3>1
    <2> HIDE DEF S
    <2>3. \A i \in 0 .. n : i \in S
        BY <1>1, <2>1, <2>2, WalkInduction
    <2> QED BY <2>3 DEF S
<1> QED BY <1>6 DEF W, n

LEMMA ItemFollows ==
    ASSUME NEW L \in LinkedLists, NEW s \in Seq(Items), NEW c, Chain(L, c, s)
    PROVE  /\ \A i \in 1 .. Len(s) + 1 : _item(L, i - 1) = c[i]
           /\ \A i \in Nat : i >= Len(s) => _item(L, i) = NULL
           /\ \A i \in 1 .. Len(s) : ItemAt(L, i - 1) = s[i]
<1>1. ASSUME NEW i \in 1 .. Len(s) + 1 PROVE _item(L, i - 1) = c[i]
    <2>1. i - 1 \in 0 .. Len(s) /\ (i - 1) + 1 = i
        OBVIOUS
    <2> QED BY <2>1, WalkFollows DEF _item
<1>2. ASSUME NEW i \in Nat, i >= Len(s) PROVE _item(L, i) = NULL
    <2>1. CASE i = Len(s)
        <3>1. Len(s) + 1 \in 1 .. Len(s) + 1 /\ (Len(s) + 1) - 1 = Len(s)
            OBVIOUS
        <3> QED BY <1>1, <3>1, <2>1 DEF Chain
    <2>2. CASE i > Len(s)
        BY <2>2, WalkFollows DEF _item
    <2> QED BY <1>2, <2>1, <2>2
<1>3. ASSUME NEW i \in 1 .. Len(s) PROVE ItemAt(L, i - 1) = s[i]
    <2>1. _item(L, i - 1) = c[i]
        BY <1>1
    <2>2. L.nodes[c[i]].item = s[i]
        BY ChainParts
    <2> QED BY <2>1, <2>2 DEF ItemAt
<1> QED BY <1>1, <1>2, <1>3

(* R is L with the node a, which holds x, in front of the k-th.            *)
IsLinked(R, L, c, k, a, x) ==
    /\ R \in LinkedLists
    /\ R.f = IF k = 1 THEN a ELSE L.f
    /\ R.l = IF k = L.count + 1 THEN a ELSE L.l
    /\ R.count = L.count + 1
    /\ DOMAIN R.nodes = DOMAIN L.nodes \cup {a}
    /\ R.nodes[a].item = x /\ R.nodes[a].next = c[k] /\ R.nodes[a].prev = c[k-1]
    /\ \A m \in DOMAIN L.nodes :
          /\ R.nodes[m].item = L.nodes[m].item
          /\ R.nodes[m].next = IF m = c[k-1] THEN a ELSE L.nodes[m].next
          /\ R.nodes[m].prev = IF m = c[k] THEN a ELSE L.nodes[m].prev

LEMMA NewNodeParts ==
    ASSUME NEW L \in LinkedLists, NEW a \in Nat \ {NULL}, a \notin DOMAIN L.nodes,
           NEW x \in Items
    PROVE  LET new == NewNode(L, a, x)
           IN  /\ new \in LinkedLists
               /\ new.f = L.f /\ new.l = L.l /\ new.count = L.count
               /\ DOMAIN new.nodes = DOMAIN L.nodes \cup {a}
               /\ new.nodes[a] = [item |-> x, next |-> NULL, prev |-> NULL]
               /\ \A m \in DOMAIN L.nodes : new.nodes[m] = L.nodes[m]
<1> DEFINE nodes == [m \in DOMAIN L.nodes \cup {a} |->
                 IF m = a THEN [item |-> x, next |-> NULL, prev |-> NULL] ELSE L.nodes[m]]
           new == [kind |-> "linked", f |-> L.f, l |-> L.l, count |-> L.count, nodes |-> nodes]
<1>1. NewNode(L, a, x) = new
    <2>1. L = [kind |-> "linked", f |-> L.f, l |-> L.l, count |-> L.count,
               nodes |-> L.nodes]
        BY LinkedParts
    <2>2. NewNode(L, a, x) = [L EXCEPT !.nodes = nodes]
        BY DEF NewNode
    <2> HIDE DEF nodes
    <2> QED BY <2>1, <2>2
<1>2. nodes \in [DOMAIN L.nodes \cup {a} -> Node]
    <2>1. [item |-> x, next |-> NULL, prev |-> NULL] \in Node
        BY DEF Node, NULL
    <2> HIDE DEF Node
    <2> QED BY <2>1, LinkedParts
<1>3. new \in LinkedLists
    <2>1. DOMAIN L.nodes \cup {a} \subseteq Nat \ {NULL}
        BY LinkedParts
    <2> HIDE DEF nodes
    <2> QED BY <1>2, <2>1, LinkedWhole, LinkedParts
<1> QED BY <1>1, <1>3

LEMMA SetNext ==
    ASSUME NEW L \in LinkedLists, NEW b \in DOMAIN L.nodes, NEW v \in Nat
    PROVE  LET R == [L EXCEPT !.nodes[b].next = v]
           IN  /\ R \in LinkedLists
               /\ R.f = L.f /\ R.l = L.l /\ R.count = L.count
               /\ DOMAIN R.nodes = DOMAIN L.nodes
               /\ \A m \in DOMAIN L.nodes :
                     /\ R.nodes[m].item = L.nodes[m].item
                     /\ R.nodes[m].next = IF m = b THEN v ELSE L.nodes[m].next
                     /\ R.nodes[m].prev = L.nodes[m].prev
<1> DEFINE nodes == [L.nodes EXCEPT ![b].next = v]
           R == [kind |-> "linked", f |-> L.f, l |-> L.l, count |-> L.count,
                 nodes |-> nodes]
<1>1. [L EXCEPT !.nodes[b].next = v] = R
    <2>1. L = [kind |-> "linked", f |-> L.f, l |-> L.l, count |-> L.count,
               nodes |-> L.nodes]
        BY LinkedParts
    <2> QED BY <2>1
<1>2. /\ nodes \in [DOMAIN L.nodes -> Node]
      /\ \A m \in DOMAIN L.nodes :
            /\ nodes[m].item = L.nodes[m].item
            /\ nodes[m].next = IF m = b THEN v ELSE L.nodes[m].next
            /\ nodes[m].prev = L.nodes[m].prev
    BY LinkedParts DEF Node
<1>3. DOMAIN nodes = DOMAIN L.nodes
    OBVIOUS
<1> HIDE DEF nodes
<1>4. R \in LinkedLists
    BY <1>2, LinkedWhole, LinkedParts
<1> QED BY <1>1, <1>2, <1>3, <1>4

LEMMA SetPrev ==
    ASSUME NEW L \in LinkedLists, NEW b \in DOMAIN L.nodes, NEW v \in Nat
    PROVE  LET R == [L EXCEPT !.nodes[b].prev = v]
           IN  /\ R \in LinkedLists
               /\ R.f = L.f /\ R.l = L.l /\ R.count = L.count
               /\ DOMAIN R.nodes = DOMAIN L.nodes
               /\ \A m \in DOMAIN L.nodes :
                     /\ R.nodes[m].item = L.nodes[m].item
                     /\ R.nodes[m].prev = IF m = b THEN v ELSE L.nodes[m].prev
                     /\ R.nodes[m].next = L.nodes[m].next
<1> DEFINE nodes == [L.nodes EXCEPT ![b].prev = v]
           R == [kind |-> "linked", f |-> L.f, l |-> L.l, count |-> L.count,
                 nodes |-> nodes]
<1>1. [L EXCEPT !.nodes[b].prev = v] = R
    <2>1. L = [kind |-> "linked", f |-> L.f, l |-> L.l, count |-> L.count,
               nodes |-> L.nodes]
        BY LinkedParts
    <2> QED BY <2>1
<1>2. /\ nodes \in [DOMAIN L.nodes -> Node]
      /\ \A m \in DOMAIN L.nodes :
            /\ nodes[m].item = L.nodes[m].item
            /\ nodes[m].prev = IF m = b THEN v ELSE L.nodes[m].prev
            /\ nodes[m].next = L.nodes[m].next
    BY LinkedParts DEF Node
<1>3. DOMAIN nodes = DOMAIN L.nodes
    OBVIOUS
<1> HIDE DEF nodes
<1>4. R \in LinkedLists
    BY <1>2, LinkedWhole, LinkedParts
<1> QED BY <1>1, <1>2, <1>3, <1>4

LEMMA SetF ==
    ASSUME NEW L \in LinkedLists, NEW v \in Nat
    PROVE  LET R == [L EXCEPT !.f = v]
           IN  /\ R \in LinkedLists
               /\ R.f = v /\ R.l = L.l /\ R.count = L.count
               /\ R.nodes = L.nodes
<1>1. [L EXCEPT !.f = v] =
         [kind |-> "linked", f |-> v, l |-> L.l, count |-> L.count, nodes |-> L.nodes]
    <2>1. L = [kind |-> "linked", f |-> L.f, l |-> L.l, count |-> L.count,
               nodes |-> L.nodes]
        BY LinkedParts
    <2> QED BY <2>1
<1> QED BY <1>1, LinkedParts, LinkedWhole

LEMMA SetL ==
    ASSUME NEW L \in LinkedLists, NEW v \in Nat
    PROVE  LET R == [L EXCEPT !.l = v]
           IN  /\ R \in LinkedLists
               /\ R.f = L.f /\ R.l = v /\ R.count = L.count
               /\ R.nodes = L.nodes
<1>1. [L EXCEPT !.l = v] =
         [kind |-> "linked", f |-> L.f, l |-> v, count |-> L.count, nodes |-> L.nodes]
    <2>1. L = [kind |-> "linked", f |-> L.f, l |-> L.l, count |-> L.count,
               nodes |-> L.nodes]
        BY LinkedParts
    <2> QED BY <2>1
<1> QED BY <1>1, LinkedParts, LinkedWhole

LEMMA SetCount ==
    ASSUME NEW L \in LinkedLists, NEW v \in Nat
    PROVE  LET R == [L EXCEPT !.count = v]
           IN  /\ R \in LinkedLists
               /\ R.f = L.f /\ R.l = L.l /\ R.count = v
               /\ R.nodes = L.nodes
<1>1. [L EXCEPT !.count = v] =
         [kind |-> "linked", f |-> L.f, l |-> L.l, count |-> v, nodes |-> L.nodes]
    <2>1. L = [kind |-> "linked", f |-> L.f, l |-> L.l, count |-> L.count,
               nodes |-> L.nodes]
        BY LinkedParts
    <2> QED BY <2>1
<1> QED BY <1>1, LinkedParts, LinkedWhole

LEMMA InsertEndLinks ==
    ASSUME NEW L \in LinkedLists, NEW s \in Seq(Items), NEW c, Chain(L, c, s),
           NEW a \in Nat \ {NULL}, a \notin DOMAIN L.nodes, NEW x \in Items
    PROVE  IsLinked(_insertend(NewNode(L, a, x), a), L, c, Len(s) + 1, a, x)
<1> DEFINE new == NewNode(L, a, x)
           n == Len(s)
<1>1. /\ new \in LinkedLists
      /\ new.f = L.f /\ new.l = L.l /\ new.count = L.count
      /\ DOMAIN new.nodes = DOMAIN L.nodes \cup {a}
      /\ new.nodes[a] = [item |-> x, next |-> NULL, prev |-> NULL]
      /\ \A m \in DOMAIN L.nodes : new.nodes[m] = L.nodes[m]
    BY NewNodeParts
<1> HIDE DEF new
<1>2. /\ n \in Nat /\ L.count = n /\ L.f = c[1] /\ L.l = c[n] /\ c[0] = NULL /\ c[n+1] = NULL
      /\ \A i \in 1 .. n : c[i] \in DOMAIN L.nodes /\ c[i] # NULL
      /\ L.f \in Nat /\ L.l \in Nat /\ L.count \in Nat
    <2>1. /\ n \in Nat /\ L.count = n /\ L.f = c[1] /\ L.l = c[n] /\ c[0] = NULL /\ c[n+1] = NULL
          /\ \A i \in 1 .. n : c[i] \in DOMAIN L.nodes /\ c[i] # NULL
        BY ChainParts
    <2>2. L.f \in Nat /\ L.l \in Nat /\ L.count \in Nat
        BY LinkedParts
    <2> HIDE DEF n
    <2> QED BY <2>1, <2>2
<1>3. \A m \in DOMAIN L.nodes : m # NULL /\ m # a
    BY LinkedParts
<1> HIDE DEF n
<1>4. CASE L.l = NULL
    <2> DEFINE R1 == [new EXCEPT !.f = a]
               R2 == [R1 EXCEPT !.l = a]
               R3 == [R2 EXCEPT !.count = @ + 1]
    <2>1. _insertend(new, a) = R3
        BY <1>1, <1>4 DEF _insertend
    <2>2. n = 0
        <3>1. SUFFICES ASSUME n # 0 PROVE FALSE
            OBVIOUS
        <3>2. n \in 1 .. n
            BY <1>2, <3>1
        <3> QED BY <1>2, <1>4, <3>2
    <2>3. R1 \in LinkedLists /\ R1.f = a /\ R1.count = L.count /\ R1.nodes = new.nodes
        BY <1>1, SetF
    <2> HIDE DEF R1
    <2>4. R2 \in LinkedLists /\ R2.f = a /\ R2.l = a /\ R2.count = L.count /\ R2.nodes = new.nodes
        BY <2>3, SetL
    <2> HIDE DEF R2
    <2>5. /\ R3 \in LinkedLists /\ R3.f = a /\ R3.l = a /\ R3.count = L.count + 1
          /\ R3.nodes = new.nodes
        <3>1. R3 = [R2 EXCEPT !.count = L.count + 1] /\ L.count + 1 \in Nat
            BY <2>4, <1>2
        <3> QED BY <3>1, <2>4, SetCount
    <2> HIDE DEF R3
    <2>6. IsLinked(R3, L, c, n + 1, a, x)
        BY <2>2, <2>5, <1>1, <1>2, <1>3 DEF IsLinked
    <2> QED BY <2>1, <2>6 DEF new, n
<1>5. CASE L.l # NULL
    <2> DEFINE R1 == [new EXCEPT !.nodes[a].prev = L.l]
               R2 == [R1 EXCEPT !.nodes[L.l].next = a]
               R3 == [R2 EXCEPT !.l = a]
               R4 == [R3 EXCEPT !.count = @ + 1]
    <2>1. _insertend(new, a) = R4
        BY <1>1, <1>5 DEF _insertend
    <2>2. n \in Nat \ {0} /\ L.l \in DOMAIN L.nodes
        BY <1>2, <1>5
    <2>3. /\ R1 \in LinkedLists /\ R1.f = L.f /\ R1.l = L.l /\ R1.count = L.count
          /\ DOMAIN R1.nodes = DOMAIN new.nodes
          /\ \A m \in DOMAIN new.nodes :
                     /\ R1.nodes[m].item = new.nodes[m].item
                     /\ R1.nodes[m].prev = IF m = a THEN L.l ELSE new.nodes[m].prev
                     /\ R1.nodes[m].next = new.nodes[m].next
        <3>1. a \in DOMAIN new.nodes /\ L.l \in Nat
            BY <1>1, <1>2
        <3> QED BY <1>1, <3>1, SetPrev
    <2> HIDE DEF R1
    <2>4. /\ R2 \in LinkedLists /\ R2.f = L.f /\ R2.l = L.l /\ R2.count = L.count
          /\ DOMAIN R2.nodes = DOMAIN R1.nodes
          /\ \A m \in DOMAIN R1.nodes :
                     /\ R2.nodes[m].item = R1.nodes[m].item
                     /\ R2.nodes[m].next = IF m = L.l THEN a ELSE R1.nodes[m].next
                     /\ R2.nodes[m].prev = R1.nodes[m].prev
        <3>1. L.l \in DOMAIN R1.nodes
            BY <1>1, <2>2, <2>3
        <3> QED BY <2>3, <3>1, SetNext
    <2> HIDE DEF R2
    <2>5. R3 \in LinkedLists /\ R3.f = L.f /\ R3.l = a /\ R3.count = L.count /\ R3.nodes = R2.nodes
        BY <2>4, SetL
    <2> HIDE DEF R3
    <2>6. /\ R4 \in LinkedLists /\ R4.f = L.f /\ R4.l = a /\ R4.count = L.count + 1
          /\ R4.nodes = R2.nodes
        <3>1. R4 = [R3 EXCEPT !.count = L.count + 1] /\ L.count + 1 \in Nat
            BY <2>5, <1>2
        <3> QED BY <3>1, <2>5, SetCount
    <2> HIDE DEF R4
    <2>7. IsLinked(R4, L, c, n + 1, a, x)
        <3>1. /\ R4.f = IF n + 1 = 1 THEN a ELSE L.f
              /\ R4.l = IF n + 1 = L.count + 1 THEN a ELSE L.l
              /\ (n + 1) - 1 = n
            <4>1. n \in Nat /\ L.count = n /\ n + 1 # 1 /\ (n + 1) - 1 = n
                BY <2>2, <1>2
            <4>2. R4.f = L.f /\ R4.l = a
                BY <2>6
            <4> QED BY <4>1, <4>2
        <3>2. DOMAIN R4.nodes = DOMAIN L.nodes \cup {a}
            BY <2>3, <2>4, <2>6, <1>1
        <3>3. R4.nodes[a].item = x /\ R4.nodes[a].next = c[n+1] /\ R4.nodes[a].prev = c[n]
            BY <2>2, <2>3, <2>4, <2>6, <1>1, <1>2, <1>3
        <3>4. ASSUME NEW m \in DOMAIN L.nodes
              PROVE  /\ R4.nodes[m].item = L.nodes[m].item
                     /\ R4.nodes[m].next = IF m = c[n] THEN a ELSE L.nodes[m].next
                     /\ R4.nodes[m].prev = IF m = c[n+1] THEN a ELSE L.nodes[m].prev
            <4>1. /\ m \in DOMAIN new.nodes /\ new.nodes[m] = L.nodes[m]
                  /\ m # a /\ m # NULL /\ R4.nodes = R2.nodes
                BY <2>6, <1>1, <1>3
            <4>2. /\ R1.nodes[m].item = L.nodes[m].item
                  /\ R1.nodes[m].next = L.nodes[m].next
                  /\ R1.nodes[m].prev = L.nodes[m].prev
                BY <2>3, <4>1
            <4>3. m \in DOMAIN R1.nodes
                BY <2>3, <4>1
            <4>4. /\ R2.nodes[m].item = L.nodes[m].item
                  /\ R2.nodes[m].next = IF m = L.l THEN a ELSE L.nodes[m].next
                  /\ R2.nodes[m].prev = L.nodes[m].prev
                BY <2>4, <4>2, <4>3
            <4>5. L.l = c[n] /\ c[n+1] = NULL
                BY <1>2
            <4> QED BY <4>1, <4>4, <4>5
        <3>5. R4 \in LinkedLists /\ R4.count = L.count + 1
            BY <2>6
        <3> QED BY <3>1, <3>2, <3>3, <3>4, <3>5 DEF IsLinked
    <2> QED BY <2>1, <2>7 DEF new, n
<1> QED BY <1>4, <1>5

LEMMA InsertBeforeLinks ==
    ASSUME NEW L \in LinkedLists, NEW s \in Seq(Items), NEW c, Chain(L, c, s),
           NEW a \in Nat \ {NULL}, a \notin DOMAIN L.nodes, NEW x \in Items,
           NEW k \in 1 .. Len(s)
    PROVE  IsLinked(_insertbef(NewNode(L, a, x), c[k], a), L, c, k, a, x)
<1> DEFINE new == NewNode(L, a, x)
           n == Len(s)
<1>1. /\ new \in LinkedLists
      /\ new.f = L.f /\ new.l = L.l /\ new.count = L.count
      /\ DOMAIN new.nodes = DOMAIN L.nodes \cup {a}
      /\ new.nodes[a] = [item |-> x, next |-> NULL, prev |-> NULL]
      /\ \A m \in DOMAIN L.nodes : new.nodes[m] = L.nodes[m]
    BY NewNodeParts
<1> HIDE DEF new
<1>2. /\ n \in Nat /\ k \in 1 .. n /\ L.count = n /\ L.f = c[1] /\ c[0] = NULL
      /\ \A i \in 1 .. n : c[i] \in DOMAIN L.nodes /\ c[i] # NULL /\ c[i] \in Nat
      /\ L.nodes[c[k]].prev = c[k-1]
      /\ L.f \in Nat /\ L.l \in Nat /\ L.count \in Nat
    <2>1. /\ n \in Nat /\ k \in 1 .. n /\ L.count = n /\ L.f = c[1] /\ c[0] = NULL
          /\ \A i \in 1 .. n : c[i] \in DOMAIN L.nodes /\ c[i] # NULL /\ c[i] \in Nat
        BY ChainParts
    <2>2. L.nodes[c[k]].prev = c[k-1]
        BY ChainParts
    <2>3. L.f \in Nat /\ L.l \in Nat /\ L.count \in Nat
        BY LinkedParts
    <2> HIDE DEF n
    <2> QED BY <2>1, <2>2, <2>3
<1>3. \A m \in DOMAIN L.nodes : m # NULL /\ m # a
    BY LinkedParts
<1> HIDE DEF n
<1> DEFINE cur == c[k]
           before == c[k-1]
<1>4. /\ cur \in DOMAIN L.nodes /\ new.nodes[cur].prev = before
      /\ before # NULL => k # 1 /\ before \in DOMAIN L.nodes
      /\ before = NULL => k = 1
    BY <1>1, <1>2
<1> DEFINE Fits(R) ==
         /\ _insertbef(new, cur, a) =
               [R EXCEPT !.nodes[cur].prev = a, !.nodes[a].next = cur, !.count = @ + 1]
         /\ R.f = IF k = 1 THEN a ELSE L.f
         /\ R.l = L.l /\ R.count = L.count
         /\ DOMAIN R.nodes = DOMAIN new.nodes
         /\ \A m \in DOMAIN new.nodes :
               /\ R.nodes[m].item = new.nodes[m].item
               /\ R.nodes[m].next = IF m = before THEN a ELSE new.nodes[m].next
               /\ R.nodes[m].prev = IF m = a THEN before ELSE new.nodes[m].prev
<1>5. PICK left \in LinkedLists : Fits(left)
    <2>1. CASE before # NULL
        <3> DEFINE R1 == [new EXCEPT !.nodes[before].next = a]
                   R2 == [R1 EXCEPT !.nodes[a].prev = before]
        <3>1. _insertbef(new, cur, a) =
               [R2 EXCEPT !.nodes[cur].prev = a, !.nodes[a].next = cur, !.count = @ + 1]
            BY <1>4, <2>1 DEF _insertbef
        <3>2. /\ R1 \in LinkedLists /\ R1.f = new.f /\ R1.l = L.l /\ R1.count = L.count
              /\ DOMAIN R1.nodes = DOMAIN new.nodes
              /\ \A m \in DOMAIN new.nodes :
                     /\ R1.nodes[m].item = new.nodes[m].item
                     /\ R1.nodes[m].next = IF m = before THEN a ELSE new.nodes[m].next
                     /\ R1.nodes[m].prev = new.nodes[m].prev
            <4>1. before \in DOMAIN new.nodes
                BY <1>1, <1>4, <2>1
            <4> HIDE DEF before
            <4> QED BY <1>1, <4>1, SetNext
        <3> HIDE DEF R1
        <3>3. /\ R2 \in LinkedLists /\ R2.f = new.f /\ R2.l = L.l /\ R2.count = L.count
              /\ DOMAIN R2.nodes = DOMAIN R1.nodes
              /\ \A m \in DOMAIN R1.nodes :
                     /\ R2.nodes[m].item = R1.nodes[m].item
                     /\ R2.nodes[m].prev = IF m = a THEN before ELSE R1.nodes[m].prev
                     /\ R2.nodes[m].next = R1.nodes[m].next
            <4>1. a \in DOMAIN R1.nodes /\ before \in Nat
                BY <1>1, <1>4, <2>1, <3>2, LinkedParts
            <4> HIDE DEF before
            <4> QED BY <3>2, <4>1, SetPrev
        <3> HIDE DEF R2
        <3>4. k # 1 /\ R2.f = L.f
            BY <1>1, <1>4, <2>1, <3>3
        <3> HIDE DEF before, cur
        <3>5. Fits(R2)
            BY <3>1, <3>2, <3>3, <3>4
        <3> HIDE DEF Fits
        <3> QED BY <3>3, <3>5
    <2>2. CASE before = NULL
        <3> DEFINE R1 == [new EXCEPT !.nodes[a].prev = NULL]
                   R2 == [R1 EXCEPT !.f = a]
        <3>1. _insertbef(new, cur, a) =
               [R2 EXCEPT !.nodes[cur].prev = a, !.nodes[a].next = cur, !.count = @ + 1]
            BY <1>4, <2>2 DEF _insertbef
        <3>2. /\ R1 \in LinkedLists /\ R1.f = new.f /\ R1.l = L.l /\ R1.count = L.count
              /\ DOMAIN R1.nodes = DOMAIN new.nodes
              /\ \A m \in DOMAIN new.nodes :
                     /\ R1.nodes[m].item = new.nodes[m].item
                     /\ R1.nodes[m].prev = IF m = a THEN NULL ELSE new.nodes[m].prev
                     /\ R1.nodes[m].next = new.nodes[m].next
            <4>1. a \in DOMAIN new.nodes /\ NULL \in Nat
                BY <1>1 DEF NULL
            <4> QED BY <1>1, <4>1, SetPrev
        <3> HIDE DEF R1
        <3>3. /\ R2 \in LinkedLists /\ R2.f = a /\ R2.l = L.l /\ R2.count = L.count
              /\ R2.nodes = R1.nodes
            BY <3>2, SetF
        <3> HIDE DEF R2
        <3>4. /\ R2.f = IF k = 1 THEN a ELSE L.f
              /\ \A m \in DOMAIN new.nodes : m # before
            BY <1>1, <1>3, <1>4, <2>2, <3>3
        <3> HIDE DEF before, cur
        <3>5. Fits(R2)
            BY <3>1, <3>2, <3>3, <3>4, <2>2
        <3> HIDE DEF Fits
        <3> QED BY <3>3, <3>5
    <2> QED BY <2>1, <2>2
<1> DEFINE R3 == [left EXCEPT !.nodes[cur].prev = a]
           R4 == [R3 EXCEPT !.nodes[a].next = cur]
           R5 == [R4 EXCEPT !.count = @ + 1]
<1>6. _insertbef(new, cur, a) = R5
    BY <1>5
<1>7. /\ R3 \in LinkedLists /\ R3.f = left.f /\ R3.l = L.l /\ R3.count = L.count
      /\ DOMAIN R3.nodes = DOMAIN new.nodes
      /\ \A m \in DOMAIN new.nodes :
             /\ R3.nodes[m].item = left.nodes[m].item
             /\ R3.nodes[m].prev = IF m = cur THEN a ELSE left.nodes[m].prev
             /\ R3.nodes[m].next = left.nodes[m].next
    <2>1. cur \in DOMAIN left.nodes
        BY <1>1, <1>4, <1>5
    <2> HIDE DEF cur
    <2>2. /\ left \in LinkedLists /\ left.l = L.l /\ left.count = L.count
          /\ DOMAIN left.nodes = DOMAIN new.nodes
        BY <1>5
    <2> QED BY <2>1, <2>2, SetPrev
<1> HIDE DEF R3
<1>8. /\ R4 \in LinkedLists /\ R4.f = R3.f /\ R4.l = L.l /\ R4.count = L.count
      /\ DOMAIN R4.nodes = DOMAIN R3.nodes
      /\ \A m \in DOMAIN R3.nodes :
             /\ R4.nodes[m].item = R3.nodes[m].item
             /\ R4.nodes[m].next = IF m = a THEN cur ELSE R3.nodes[m].next
             /\ R4.nodes[m].prev = R3.nodes[m].prev
    <2>1. a \in DOMAIN R3.nodes /\ cur \in Nat
        BY <1>1, <1>2, <1>7
    <2> HIDE DEF cur
    <2> QED BY <1>7, <2>1, SetNext
<1> HIDE DEF R4
<1>9. /\ R5 \in LinkedLists /\ R5.f = R3.f /\ R5.l = L.l /\ R5.count = L.count + 1
      /\ R5.nodes = R4.nodes
    <2>1. R5 = [R4 EXCEPT !.count = L.count + 1] /\ L.count + 1 \in Nat
        BY <1>8, <1>2
    <2> QED BY <2>1, <1>8, SetCount
<1> HIDE DEF R5
<1>10. R5.f = IF k = 1 THEN a ELSE L.f
    BY <1>5, <1>7, <1>9
<1>11. R5.l = IF k = L.count + 1 THEN a ELSE L.l
    BY <1>2, <1>9
<1>12. DOMAIN R5.nodes = DOMAIN L.nodes \cup {a}
    BY <1>1, <1>7, <1>8, <1>9
<1>13. R5.nodes[a].item = x /\ R5.nodes[a].next = cur /\ R5.nodes[a].prev = before
    <2> HIDE DEF before
    <2> QED BY <1>1, <1>3, <1>4, <1>5, <1>7, <1>8, <1>9
<1>14. ASSUME NEW m \in DOMAIN L.nodes
       PROVE  /\ R5.nodes[m].item = L.nodes[m].item
              /\ R5.nodes[m].next = IF m = before THEN a ELSE L.nodes[m].next
              /\ R5.nodes[m].prev = IF m = cur THEN a ELSE L.nodes[m].prev
    <2> HIDE DEF before, cur
    <2> QED BY <1>1, <1>3, <1>5, <1>7, <1>8, <1>9
<1>15. IsLinked(R5, L, c, k, a, x)
    BY <1>9, <1>10, <1>11, <1>12, <1>13, <1>14 DEF IsLinked
<1> QED BY <1>6, <1>15 DEF new

(* A chain with one node more is a chain.                                  *)
LEMMA ChainPut ==
    ASSUME NEW L \in LinkedLists, NEW s \in Seq(Items), NEW c, Chain(L, c, s),
           NEW a \in Nat \ {NULL}, a \notin DOMAIN L.nodes, NEW x \in Items,
           NEW k \in 1 .. Len(s) + 1, NEW R, IsLinked(R, L, c, k, a, x)
    PROVE  Links(R, Put(s, k, x))
<1> DEFINE n == Len(s)
           t == Put(s, k, x)
           d == [i \in 0 .. n + 2 |-> IF i < k THEN c[i] ELSE IF i = k THEN a ELSE c[i-1]]
<1>1. /\ L.count = n /\ L.f = c[1] /\ L.l = c[n] /\ c[0] = NULL /\ c[n+1] = NULL
      /\ \A i \in 0 .. n + 1 : c[i] \in Nat
      /\ \A i \in 1 .. n :
             /\ c[i] \in DOMAIN L.nodes /\ c[i] # NULL /\ c[i] \in Nat
             /\ L.nodes[c[i]].item = s[i]
             /\ L.nodes[c[i]].next = c[i+1]
             /\ L.nodes[c[i]].prev = c[i-1]
      /\ \A i, j \in 1 .. n : c[i] = c[j] => i = j
      /\ \A m \in DOMAIN L.nodes : \E i \in 1 .. n : m = c[i]
    <2>1. /\ L.count = n /\ L.f = c[1] /\ L.l = c[n] /\ c[0] = NULL /\ c[n+1] = NULL
          /\ \A i \in 0 .. n + 1 : c[i] \in Nat
        BY ChainParts
    <2>2. \A i \in 1 .. n :
             /\ c[i] \in DOMAIN L.nodes /\ c[i] # NULL /\ c[i] \in Nat
             /\ L.nodes[c[i]].item = s[i]
             /\ L.nodes[c[i]].next = c[i+1]
             /\ L.nodes[c[i]].prev = c[i-1]
        <3>1. ASSUME NEW i \in 1 .. n
              PROVE  /\ c[i] \in DOMAIN L.nodes /\ c[i] # NULL /\ c[i] \in Nat
                     /\ L.nodes[c[i]].item = s[i]
            BY ChainParts
        <3>2. ASSUME NEW i \in 1 .. n
              PROVE  L.nodes[c[i]].next = c[i+1] /\ L.nodes[c[i]].prev = c[i-1]
            BY ChainParts
        <3> QED BY <3>1, <3>2
    <2>3. \A i, j \in 1 .. n : c[i] = c[j] => i = j
        BY DEF Chain
    <2>4. \A m \in DOMAIN L.nodes : \E i \in 1 .. n : m = c[i]
        BY DEF Chain
    <2> HIDE DEF n
    <2> QED BY <2>1, <2>2, <2>3, <2>4
<1>2. /\ R \in LinkedLists
      /\ R.f = IF k = 1 THEN a ELSE L.f
      /\ R.l = IF k = L.count + 1 THEN a ELSE L.l
      /\ R.count = L.count + 1
      /\ DOMAIN R.nodes = DOMAIN L.nodes \cup {a}
      /\ R.nodes[a].item = x /\ R.nodes[a].next = c[k] /\ R.nodes[a].prev = c[k-1]
      /\ \A m \in DOMAIN L.nodes :
          /\ R.nodes[m].item = L.nodes[m].item
          /\ R.nodes[m].next = IF m = c[k-1] THEN a ELSE L.nodes[m].next
          /\ R.nodes[m].prev = IF m = c[k] THEN a ELSE L.nodes[m].prev
    BY DEF IsLinked
<1>3. /\ n \in Nat /\ k \in 1 .. n + 1
      /\ t \in Seq(Items) /\ Len(t) = n + 1
      /\ \A i \in 1 .. n + 1 : t[i] = IF i < k THEN s[i] ELSE IF i = k THEN x ELSE s[i-1]
    <2>1. t \in Seq(Items) /\ Len(t) = n + 1
        BY PutInserts
    <2> QED BY <2>1 DEF Put
<1> HIDE DEF t
<1>4. d \in [0 .. n + 2 -> Nat]
    <2> HIDE DEF n
    <2> QED BY <1>1, <1>3
<1>5. /\ \A i \in 0 .. n + 2 : i < k => d[i] = c[i]
      /\ d[k] = a
      /\ \A i \in 0 .. n + 2 : i > k => d[i] = c[i-1]
    BY <1>3
<1> HIDE DEF d, n
<1>a. ASSUME NEW i \in 1 .. n
      PROVE  (c[i] = c[k-1] <=> i = k - 1) /\ (c[i] = c[k] <=> i = k)
    <2>0. c[i] # NULL /\ i \in 1 .. n
        BY <1>1
    <2>1. CASE k = 1
        <3>1. c[k-1] = NULL /\ i # k - 1
            BY <2>1, <1>1
        <3>2. k \in 1 .. n
            BY <2>1, <1>3
        <3> QED BY <1>1, <2>0, <3>1, <3>2
    <2>2. CASE k = n + 1
        <3>1. c[k] = NULL /\ i # k
            BY <2>2, <1>1, <1>3
        <3>2. k - 1 \in 1 .. n
            BY <2>2, <1>3
        <3> QED BY <1>1, <2>0, <3>1, <3>2
    <2>3. CASE k # 1 /\ k # n + 1
        <3>1. k \in 1 .. n /\ k - 1 \in 1 .. n
            BY <2>3, <1>3
        <3> QED BY <1>1, <2>0, <3>1
    <2> QED BY <2>1, <2>2, <2>3
<1>b. ASSUME NEW i \in 1 .. n
      PROVE  /\ c[i] \in DOMAIN R.nodes
             /\ R.nodes[c[i]].item = s[i]
             /\ R.nodes[c[i]].next = IF i = k - 1 THEN a ELSE c[i+1]
             /\ R.nodes[c[i]].prev = IF i = k THEN a ELSE c[i-1]
    <2> DEFINE m == c[i]
    <2>1. /\ m \in DOMAIN L.nodes /\ L.nodes[m].item = s[i]
          /\ L.nodes[m].next = c[i+1] /\ L.nodes[m].prev = c[i-1]
        BY <1>1
    <2>2. (m = c[k-1] <=> i = k - 1) /\ (m = c[k] <=> i = k)
        BY <1>a
    <2> HIDE DEF m
    <2>3. /\ m \in DOMAIN R.nodes /\ R.nodes[m].item = s[i]
          /\ R.nodes[m].next = IF i = k - 1 THEN a ELSE c[i+1]
          /\ R.nodes[m].prev = IF i = k THEN a ELSE c[i-1]
        BY <1>2, <2>1, <2>2
    <2> QED BY <2>3 DEF m
<1>6. ASSUME NEW i \in 1 .. n + 1
      PROVE  /\ d[i] \in DOMAIN R.nodes
             /\ R.nodes[d[i]].item = t[i]
             /\ R.nodes[d[i]].next = d[i+1]
             /\ R.nodes[d[i]].prev = d[i-1]
    <2>1. CASE i < k
        <3>1. /\ i \in 1 .. n /\ i - 1 \in 0 .. n + 2 /\ i - 1 < k /\ i # k
              /\ i \in 0 .. n + 2 /\ i + 1 \in 0 .. n + 2
            BY <1>3, <2>1
        <3>2. d[i] = c[i] /\ d[i-1] = c[i-1] /\ t[i] = s[i]
            BY <1>3, <1>5, <2>1, <3>1
        <3>3. d[i+1] = IF i = k - 1 THEN a ELSE c[i+1]
            <4>1. CASE i = k - 1
                <5>1. i + 1 = k
                    BY <1>3, <4>1
                <5> QED BY <4>1, <5>1, <1>5
            <4>2. CASE i # k - 1
                <5>1. i + 1 < k
                    BY <1>3, <2>1, <4>2
                <5> QED BY <4>2, <5>1, <3>1, <1>5
            <4> QED BY <4>1, <4>2
        <3> QED BY <1>b, <3>1, <3>2, <3>3
    <2>2. CASE i = k
        <3>1. /\ k - 1 \in 0 .. n + 2 /\ k - 1 < k /\ k + 1 \in 0 .. n + 2 /\ k + 1 > k
              /\ (k + 1) - 1 = k
            BY <1>3
        <3>2. d[k] = a /\ d[k-1] = c[k-1] /\ d[k+1] = c[k]
            BY <1>5, <3>1
        <3>3. t[k] = x
            BY <1>3
        <3> QED BY <2>2, <3>2, <3>3, <1>2
    <2>3. CASE i > k
        <3>0. PICK j \in 1 .. n : j = i - 1
            BY <1>3, <2>3
        <3>1. /\ j >= k /\ i \in 0 .. n + 2 /\ i + 1 \in 0 .. n + 2 /\ j \in 0 .. n + 2
              /\ i + 1 > k /\ (i + 1) - 1 = j + 1 /\ j # k - 1
            BY <1>3, <2>3, <3>0
        <3>2. d[i] = c[j] /\ d[i+1] = c[j+1]
            BY <1>5, <2>3, <3>0, <3>1
        <3>3. t[i] = s[j]
            BY <1>3, <2>3, <3>0
        <3>4. d[i-1] = IF j = k THEN a ELSE c[j-1]
            <4>1. CASE j = k
                BY <1>5, <3>0, <4>1
            <4>2. CASE j # k
                <5>1. j > k
                    BY <1>3, <3>1, <4>2
                <5> QED BY <1>5, <3>0, <3>1, <4>2, <5>1
            <4> QED BY <4>1, <4>2
        <3> QED BY <1>b, <3>1, <3>2, <3>3, <3>4
    <2>4. i < k \/ i = k \/ i > k
        BY <1>3
    <2> QED BY <2>1, <2>2, <2>3, <2>4
<1>7. ASSUME NEW i \in 1 .. n + 1
      PROVE  R.nodes[d[i]] = [item |-> t[i], next |-> d[i+1], prev |-> d[i-1]]
    <2>1. R.nodes[d[i]] \in Node
        BY <1>2, <1>6, LinkedParts
    <2>2. R.nodes[d[i]] = [item |-> R.nodes[d[i]].item, next |-> R.nodes[d[i]].next,
                           prev |-> R.nodes[d[i]].prev]
        <3> DEFINE node == R.nodes[d[i]]
        <3> HIDE DEF node
        <3>1. node \in Node => node = [item |-> node.item, next |-> node.next, prev |-> node.prev]
            BY DEF Node
        <3> QED BY <2>1, <3>1 DEF node
    <2> QED BY <2>2, <1>6
<1>8. ASSUME NEW i \in 1 .. n + 1, NEW j \in 1 .. n + 1, d[i] = d[j]
      PROVE  i = j
    <2> DEFINE old(m) == IF m < k THEN m ELSE m - 1
    <2>1. ASSUME NEW m \in 1 .. n + 1, m # k
          PROVE  old(m) \in 1 .. n /\ d[m] = c[old(m)] /\ d[m] # a
        <3>1. old(m) \in 1 .. n /\ m \in 0 .. n + 2
            BY <1>3, <2>1
        <3>2. d[m] = c[old(m)]
            BY <1>3, <1>5, <2>1, <3>1
        <3> HIDE DEF old
        <3> QED BY <1>1, <3>1, <3>2
    <2>2. CASE i = k
        BY <1>5, <1>8, <2>1, <2>2
    <2>3. CASE j = k
        BY <1>5, <1>8, <2>1, <2>3
    <2>4. CASE i # k /\ j # k
        <3>1. old(i) = old(j)
            <4>1. /\ old(i) \in 1 .. n /\ d[i] = c[old(i)]
                  /\ old(j) \in 1 .. n /\ d[j] = c[old(j)]
                BY <2>1, <2>4
            <4>2. \A p, q \in 1 .. n : c[p] = c[q] => p = q
                BY <1>1
            <4> HIDE DEF old, d
            <4> QED BY <1>8, <4>1, <4>2
        <3> QED BY <1>3, <2>4, <3>1
    <2> QED BY <2>2, <2>3, <2>4
<1>9. ASSUME NEW m \in DOMAIN R.nodes PROVE \E i \in 1 .. n + 1 : m = d[i]
    <2>1. CASE m = a
        BY <1>3, <1>5, <2>1
    <2>2. CASE m # a
        <3>1. PICK i \in 1 .. n : m = c[i]
            BY <1>1, <1>2, <2>2
        <3>2. CASE i < k
            <4>1. i \in 1 .. n + 1 /\ i \in 0 .. n + 2
                BY <1>3
            <4>2. d[i] = m
                BY <1>5, <3>1, <3>2, <4>1
            <4> QED BY <4>1, <4>2
        <3>3. CASE i >= k
            <4>1. i + 1 \in 1 .. n + 1 /\ i + 1 \in 0 .. n + 2 /\ i + 1 > k /\ (i + 1) - 1 = i
                BY <1>3, <3>3
            <4>2. d[i+1] = m
                BY <1>5, <3>1, <4>1
            <4> QED BY <4>1, <4>2
        <3> QED BY <1>3, <3>2, <3>3
    <2> QED BY <2>1, <2>2
<1>10. d[0] = NULL /\ d[n+2] = NULL
    <2>1. 0 \in 0 .. n + 2 /\ 0 < k /\ n + 2 \in 0 .. n + 2 /\ n + 2 > k /\ (n + 2) - 1 = n + 1
        BY <1>3
    <2> QED BY <2>1, <1>1, <1>5
<1>11. R.f = d[1] /\ R.l = d[n+1]
    <2>1. R.f = d[1]
        <3>1. CASE k = 1
            BY <3>1, <1>2, <1>5
        <3>2. CASE k # 1
            <4>1. 1 < k /\ 1 \in 0 .. n + 2
                BY <1>3, <3>2
            <4>2. d[1] = c[1]
                BY <1>5, <4>1
            <4>3. R.f = L.f
                BY <1>2, <3>2
            <4>4. L.f = c[1]
                BY <1>1
            <4> QED BY <4>2, <4>3, <4>4
        <3> QED BY <3>1, <3>2
    <2>2. R.l = d[n+1]
        <3>1. CASE k = n + 1
            <4>1. d[n+1] = a
                BY <1>5, <3>1
            <4>2. R.l = a
                BY <1>1, <1>2, <3>1
            <4> QED BY <4>1, <4>2
        <3>2. CASE k # n + 1
            <4>0. n \in Nat /\ k \in 1 .. n + 1
                BY <1>3
            <4>1. n + 1 > k /\ n + 1 \in 0 .. n + 2 /\ (n + 1) - 1 = n
                BY <3>2, <4>0
            <4>2. d[n+1] = c[n]
                <5>1. d[n+1] = c[(n + 1) - 1]
                    BY <1>5, <4>1
                <5> QED BY <4>1, <5>1
            <4>3. R.l = L.l
                BY <1>1, <1>2, <3>2
            <4> QED BY <1>1, <4>2, <4>3
        <3> QED BY <3>1, <3>2
    <2> QED BY <2>1, <2>2
<1>12. Chain(R, d, t)
    <2>1. Len(t) = n + 1 /\ Len(t) + 1 = n + 2
        BY <1>3
    <2>2. R.count = Len(t)
        BY <1>1, <1>2, <2>1
    <2> QED BY <1>4, <1>6, <1>7, <1>8, <1>9, <1>10, <1>11, <2>1, <2>2 DEF Chain
<1> QED BY <1>2, <1>3, <1>12 DEF Links, t

(* Insert puts an item in front of the one that has its index, or at the   *)
(* end; Add puts it at the end.                                            *)
LEMMA LinkedInsertLinks ==
    ASSUME NEW L, NEW s, Links(L, s), NEW x \in Items, NEW index \in Nat
    PROVE  Links(LinkedInsert(L, x, index),
                 Put(s, IF index < Len(s) THEN index + 1 ELSE Len(s) + 1, x))
<1>1. PICK c : Chain(L, c, s)
    BY DEF Links
<1>2. L \in LinkedLists /\ s \in Seq(Items)
    BY DEF Links
<1> DEFINE a == Address(L)
<1>3. a \in Nat \ {NULL} /\ a \notin DOMAIN L.nodes
    BY <1>1, <1>2, AddressIsFresh
<1>4. CASE index < Len(s)
    <2>1. index + 1 \in 1 .. Len(s) /\ index + 1 \in 1 .. Len(s) + 1 /\ (index + 1) - 1 = index
        BY <1>2, <1>4
    <2>2. _item(L, index) = c[index+1]
        BY <1>1, <1>2, <2>1, ItemFollows
    <2>3. c[index+1] # NULL
        BY <1>1, <1>2, <2>1, ChainParts
    <2> DEFINE R == _insertbef(NewNode(L, a, x), c[index+1], a)
    <2>4. LinkedInsert(L, x, index) = R
        BY <2>2, <2>3 DEF LinkedInsert
    <2> HIDE DEF a
    <2>5. IsLinked(R, L, c, index + 1, a, x)
        BY <1>1, <1>2, <1>3, <2>1, InsertBeforeLinks
    <2> HIDE DEF R
    <2>6. Links(R, Put(s, index + 1, x))
        BY <1>1, <1>2, <1>3, <2>1, <2>5, ChainPut
    <2> QED BY <1>4, <2>4, <2>6
<1>5. CASE ~ (index < Len(s))
    <2>1. Len(s) + 1 \in 1 .. Len(s) + 1
        BY <1>2
    <2>2. _item(L, index) = NULL
        BY <1>1, <1>2, <1>5, ItemFollows
    <2> DEFINE R == _insertend(NewNode(L, a, x), a)
    <2>4. LinkedInsert(L, x, index) = R
        BY <2>2 DEF LinkedInsert
    <2> HIDE DEF a
    <2>5. IsLinked(R, L, c, Len(s) + 1, a, x)
        BY <1>1, <1>2, <1>3, InsertEndLinks
    <2> HIDE DEF R
    <2>6. Links(R, Put(s, Len(s) + 1, x))
        BY <1>1, <1>2, <1>3, <2>1, <2>5, ChainPut
    <2> QED BY <1>5, <2>4, <2>6
<1> QED BY <1>4, <1>5

LEMMA LinkedAddLinks ==
    ASSUME NEW L, NEW s, Links(L, s), NEW x \in Items
    PROVE  Links(LinkedAdd(L, x), Append(s, x))
<1>1. PICK c : Chain(L, c, s)
    BY DEF Links
<1>2. L \in LinkedLists /\ s \in Seq(Items)
    BY DEF Links
<1> DEFINE a == Address(L)
           R == _insertend(NewNode(L, a, x), a)
<1>3. a \in Nat \ {NULL} /\ a \notin DOMAIN L.nodes
    BY <1>1, <1>2, AddressIsFresh
<1>4. Len(s) + 1 \in 1 .. Len(s) + 1
    BY <1>2
<1>5. LinkedAdd(L, x) = R
    BY DEF LinkedAdd
<1> HIDE DEF a
<1>6. IsLinked(R, L, c, Len(s) + 1, a, x)
    BY <1>1, <1>2, <1>3, InsertEndLinks
<1> HIDE DEF R
<1>7. Links(R, Put(s, Len(s) + 1, x))
    BY <1>1, <1>2, <1>3, <1>4, <1>6, ChainPut
<1>8. Append(s, x) = Put(s, Len(s) + 1, x)
    BY <1>2, <1>4, PutInserts
<1> QED BY <1>5, <1>7, <1>8

(* R is L without the k-th node.                                           *)
IsUnlinked(R, L, c, k) ==
    /\ R \in LinkedLists
    /\ R.f = IF k = 1 THEN c[k+1] ELSE L.f
    /\ R.l = IF k = L.count THEN c[k-1] ELSE L.l
    /\ R.count = L.count - 1
    /\ DOMAIN R.nodes = DOMAIN L.nodes \ {c[k]}
    /\ \A m \in DOMAIN L.nodes \ {c[k]} :
          /\ R.nodes[m].item = L.nodes[m].item
          /\ R.nodes[m].next = IF m = c[k-1] THEN c[k+1] ELSE L.nodes[m].next
          /\ R.nodes[m].prev = IF m = c[k+1] THEN c[k-1] ELSE L.nodes[m].prev

LEMMA DeleteParts ==
    ASSUME NEW L \in LinkedLists, NEW n
    PROVE  LET R == Delete(L, n)
           IN  /\ R \in LinkedLists
               /\ R.f = L.f /\ R.l = L.l /\ R.count = L.count
               /\ DOMAIN R.nodes = DOMAIN L.nodes \ {n}
               /\ \A m \in DOMAIN L.nodes \ {n} : R.nodes[m] = L.nodes[m]
<1> DEFINE nodes == [m \in DOMAIN L.nodes \ {n} |-> L.nodes[m]]
           R == [kind |-> "linked", f |-> L.f, l |-> L.l, count |-> L.count,
                 nodes |-> nodes]
<1>1. Delete(L, n) = R
    <2>1. L = [kind |-> "linked", f |-> L.f, l |-> L.l, count |-> L.count,
               nodes |-> L.nodes]
        BY LinkedParts
    <2>2. Delete(L, n) = [L EXCEPT !.nodes = nodes]
        BY DEF Delete
    <2> HIDE DEF nodes
    <2> QED BY <2>1, <2>2
<1>2. nodes \in [DOMAIN L.nodes \ {n} -> Node]
    <2> HIDE DEF Node
    <2> QED BY LinkedParts
<1>3. R \in LinkedLists
    <2>1. DOMAIN L.nodes \ {n} \subseteq Nat \ {NULL}
        BY LinkedParts
    <2> HIDE DEF nodes
    <2> QED BY <1>2, <2>1, LinkedWhole, LinkedParts
<1> QED BY <1>1, <1>3

LEMMA RemoveUnlinks ==
    ASSUME NEW L \in LinkedLists, NEW s \in Seq(Items), NEW c, Chain(L, c, s),
           NEW k \in 1 .. Len(s)
    PROVE  IsUnlinked(_remove(L, c[k]), L, c, k)
<1> DEFINE n == Len(s)
           cur == c[k]
           before == L.nodes[cur].prev
           after == L.nodes[cur].next
<1>1. /\ n \in Nat /\ k \in 1 .. n /\ L.count = n /\ c[0] = NULL /\ c[n+1] = NULL
      /\ \A i \in 1 .. n : c[i] \in DOMAIN L.nodes /\ c[i] # NULL /\ c[i] \in Nat
      /\ cur \in DOMAIN L.nodes /\ cur # NULL
      /\ after = c[k+1] /\ before = c[k-1]
      /\ L.f \in Nat /\ L.l \in Nat /\ L.count \in Nat
    <2>1. n \in Nat /\ k \in 1 .. n
        OBVIOUS
    <2>2. L.f \in Nat /\ L.l \in Nat /\ L.count \in Nat
        BY LinkedParts
    <2>3. /\ L.count = n /\ c[0] = NULL /\ c[n+1] = NULL
          /\ \A i \in 1 .. n : c[i] \in DOMAIN L.nodes /\ c[i] # NULL /\ c[i] \in Nat
        BY ChainParts
    <2>4. /\ cur \in DOMAIN L.nodes /\ cur # NULL
          /\ after = c[k+1] /\ before = c[k-1]
        BY ChainParts
    <2> QED BY <2>1, <2>2, <2>3, <2>4
<1>2. /\ \A m \in DOMAIN L.nodes : m # NULL
      /\ before \in Nat /\ after \in Nat
    <2>1. k - 1 \in 0 .. n + 1 /\ k + 1 \in 0 .. n + 1
        BY <1>1
    <2>2. \A i \in 0 .. n + 1 : c[i] \in Nat
        BY ChainParts
    <2>3. \A m \in DOMAIN L.nodes : m # NULL
        BY LinkedParts
    <2>4. before \in Nat /\ after \in Nat
        BY <1>1, <2>1, <2>2
    <2> QED BY <2>3, <2>4
<1>3. /\ before # NULL => k # 1 /\ before \in DOMAIN L.nodes
      /\ before = NULL => k = 1
      /\ after # NULL => k # n /\ after \in DOMAIN L.nodes
      /\ after = NULL => k = n
    <2>1. k = 1 \/ k - 1 \in 1 .. n
        BY <1>1
    <2>2. k = n \/ k + 1 \in 1 .. n
        BY <1>1
    <2> QED BY <1>1, <2>1, <2>2
<1> HIDE DEF n
<1> DEFINE left == IF before # NULL
                   THEN [L EXCEPT !.nodes[before].next = after]
                   ELSE [L EXCEPT !.f = after]
           right == IF after # NULL
                    THEN [left EXCEPT !.nodes[after].prev = before]
                    ELSE [left EXCEPT !.l = before]
           R == [Delete(right, cur) EXCEPT !.count = @ - 1]
<1>4. _remove(L, cur) = R
    <2>1. _remove(L, cur) = IF cur = NULL THEN L ELSE R
        BY Zenon DEF _remove
    <2> HIDE DEF R
    <2> QED BY <1>1, <2>1
<1>5. /\ left \in LinkedLists
      /\ left.f = IF k = 1 THEN after ELSE L.f
      /\ left.l = L.l /\ left.count = L.count
      /\ DOMAIN left.nodes = DOMAIN L.nodes
      /\ \A m \in DOMAIN L.nodes :
            /\ left.nodes[m].item = L.nodes[m].item
            /\ left.nodes[m].next = IF m = before THEN after ELSE L.nodes[m].next
            /\ left.nodes[m].prev = L.nodes[m].prev
    <2> HIDE DEF before, after
    <2>1. CASE before # NULL
        <3> DEFINE R1 == [L EXCEPT !.nodes[before].next = after]
        <3>1. /\ R1 \in LinkedLists
              /\ R1.f = L.f /\ R1.l = L.l /\ R1.count = L.count
              /\ DOMAIN R1.nodes = DOMAIN L.nodes
              /\ \A m \in DOMAIN L.nodes :
                   /\ R1.nodes[m].item = L.nodes[m].item
                   /\ R1.nodes[m].next = IF m = before THEN after ELSE L.nodes[m].next
                   /\ R1.nodes[m].prev = L.nodes[m].prev
            BY <1>2, <1>3, <2>1, SetNext
        <3>2. left = R1
            BY <2>1
        <3> HIDE DEF R1, left
        <3> QED BY <1>3, <2>1, <3>1, <3>2
    <2>2. CASE before = NULL
        <3> DEFINE R1 == [L EXCEPT !.f = after]
        <3>1. /\ R1 \in LinkedLists
              /\ R1.f = after /\ R1.l = L.l /\ R1.count = L.count
              /\ R1.nodes = L.nodes
            BY <1>2, SetF
        <3>2. left = R1
            BY <2>2
        <3> HIDE DEF R1, left
        <3> QED BY <1>2, <1>3, <2>2, <3>1, <3>2
    <2> QED BY <2>1, <2>2
<1> HIDE DEF left
<1>6. /\ right \in LinkedLists
      /\ right.f = left.f
      /\ right.l = IF k = n THEN before ELSE L.l
      /\ right.count = L.count
      /\ DOMAIN right.nodes = DOMAIN L.nodes
      /\ \A m \in DOMAIN L.nodes :
            /\ right.nodes[m].item = L.nodes[m].item
            /\ right.nodes[m].next = left.nodes[m].next
            /\ right.nodes[m].prev = IF m = after THEN before ELSE L.nodes[m].prev
    <2> HIDE DEF before, after
    <2>1. CASE after # NULL
        <3> DEFINE R1 == [left EXCEPT !.nodes[after].prev = before]
        <3>0. after \in DOMAIN left.nodes
            BY <1>3, <1>5, <2>1
        <3>1. /\ R1 \in LinkedLists
              /\ R1.f = left.f /\ R1.l = left.l /\ R1.count = left.count
              /\ DOMAIN R1.nodes = DOMAIN left.nodes
              /\ \A m \in DOMAIN left.nodes :
                   /\ R1.nodes[m].item = left.nodes[m].item
                   /\ R1.nodes[m].prev = IF m = after THEN before ELSE left.nodes[m].prev
                   /\ R1.nodes[m].next = left.nodes[m].next
            BY <1>2, <1>5, <3>0, SetPrev
        <3>2. right = R1
            BY <2>1
        <3> HIDE DEF R1, right
        <3> QED BY <1>3, <1>5, <2>1, <3>1, <3>2
    <2>2. CASE after = NULL
        <3> DEFINE R1 == [left EXCEPT !.l = before]
        <3>1. /\ R1 \in LinkedLists
              /\ R1.f = left.f /\ R1.l = before /\ R1.count = left.count
              /\ R1.nodes = left.nodes
            BY <1>2, <1>5, SetL
        <3>2. right = R1
            BY <2>2
        <3> HIDE DEF R1, right
        <3> QED BY <1>2, <1>3, <1>5, <2>2, <3>1, <3>2
    <2> QED BY <2>1, <2>2
<1> HIDE DEF right
<1> DEFINE rest == Delete(right, cur)
<1>7. /\ rest \in LinkedLists
      /\ rest.f = right.f /\ rest.l = right.l /\ rest.count = right.count
      /\ DOMAIN rest.nodes = DOMAIN right.nodes \ {cur}
      /\ \A m \in DOMAIN right.nodes \ {cur} : rest.nodes[m] = right.nodes[m]
    BY <1>6, DeleteParts
<1> HIDE DEF rest
<1>8. /\ R \in LinkedLists /\ R.f = rest.f /\ R.l = rest.l /\ R.count = L.count - 1
      /\ R.nodes = rest.nodes
    <2>1. R = [rest EXCEPT !.count = L.count - 1]
        BY <1>6, <1>7 DEF rest
    <2>2. L.count - 1 \in Nat
        BY <1>1
    <2> HIDE DEF R
    <2> QED BY <1>7, <2>1, <2>2, SetCount
<1> HIDE DEF R
<1>9. R.f = IF k = 1 THEN after ELSE L.f
    BY <1>5, <1>6, <1>7, <1>8
<1>10. R.l = IF k = L.count THEN before ELSE L.l
    BY <1>1, <1>6, <1>7, <1>8
<1>11. DOMAIN R.nodes = DOMAIN L.nodes \ {cur}
    BY <1>6, <1>7, <1>8
<1>12. ASSUME NEW m \in DOMAIN L.nodes \ {cur}
       PROVE  /\ R.nodes[m].item = L.nodes[m].item
              /\ R.nodes[m].next = IF m = before THEN after ELSE L.nodes[m].next
              /\ R.nodes[m].prev = IF m = after THEN before ELSE L.nodes[m].prev
    <2> HIDE DEF before, after, cur
    <2> QED BY <1>5, <1>6, <1>7, <1>8
<1>13. IsUnlinked(R, L, c, k)
    BY <1>1, <1>8, <1>9, <1>10, <1>11, <1>12 DEF IsUnlinked
<1> QED BY <1>4, <1>13

(* A chain with one node less is a chain.                                  *)
LEMMA ChainDrop ==
    ASSUME NEW L \in LinkedLists, NEW s \in Seq(Items), NEW c, Chain(L, c, s),
           NEW k \in 1 .. Len(s), NEW R, IsUnlinked(R, L, c, k)
    PROVE  Links(R, Drop(s, k))
<1> DEFINE n == Len(s)
<1>0. n \in Nat /\ k \in 1 .. n
    OBVIOUS
<1>1. /\ L.count = n /\ L.f = c[1] /\ L.l = c[n] /\ c[0] = NULL /\ c[n+1] = NULL
      /\ \A i \in 0 .. n + 1 : c[i] \in Nat
      /\ \A i \in 1 .. n :
             /\ c[i] \in DOMAIN L.nodes /\ c[i] # NULL /\ c[i] \in Nat
             /\ L.nodes[c[i]].item = s[i]
             /\ L.nodes[c[i]].next = c[i+1]
             /\ L.nodes[c[i]].prev = c[i-1]
      /\ \A i, j \in 1 .. n : c[i] = c[j] => i = j
      /\ \A m \in DOMAIN L.nodes : \E i \in 1 .. n : m = c[i]
    <2>1. /\ L.count = n /\ L.f = c[1] /\ L.l = c[n] /\ c[0] = NULL /\ c[n+1] = NULL
          /\ \A i \in 0 .. n + 1 : c[i] \in Nat
        BY ChainParts
    <2>2. \A i \in 1 .. n :
             /\ c[i] \in DOMAIN L.nodes /\ c[i] # NULL /\ c[i] \in Nat
             /\ L.nodes[c[i]].item = s[i]
             /\ L.nodes[c[i]].next = c[i+1]
             /\ L.nodes[c[i]].prev = c[i-1]
        BY ChainParts
    <2>3. \A i, j \in 1 .. n : c[i] = c[j] => i = j
        BY ChainParts
    <2>4. \A m \in DOMAIN L.nodes : \E i \in 1 .. n : m = c[i]
        BY ChainParts
    <2> HIDE DEF n
    <2> QED BY <2>1, <2>2, <2>3, <2>4
<1> DEFINE t == Drop(s, k)
           d == [i \in 0 .. n |-> IF i < k THEN c[i] ELSE c[i+1]]
<1>2. /\ R \in LinkedLists
      /\ R.f = IF k = 1 THEN c[k+1] ELSE L.f
      /\ R.l = IF k = L.count THEN c[k-1] ELSE L.l
      /\ R.count = L.count - 1
      /\ DOMAIN R.nodes = DOMAIN L.nodes \ {c[k]}
      /\ \A m \in DOMAIN L.nodes \ {c[k]} :
          /\ R.nodes[m].item = L.nodes[m].item
          /\ R.nodes[m].next = IF m = c[k-1] THEN c[k+1] ELSE L.nodes[m].next
          /\ R.nodes[m].prev = IF m = c[k+1] THEN c[k-1] ELSE L.nodes[m].prev
    BY DEF IsUnlinked
<1>3. /\ t \in Seq(Items) /\ Len(t) = n - 1
      /\ \A i \in 1 .. n - 1 : t[i] = IF i < k THEN s[i] ELSE s[i+1]
    <2>1. t \in Seq(Items) /\ Len(t) = n - 1
        BY DropRemoves
    <2> QED BY <2>1 DEF Drop
<1> HIDE DEF t
<1>4. d \in [0 .. n -> Nat]
    <2> HIDE DEF n
    <2> QED BY <1>0, <1>1
<1>5. /\ \A i \in 0 .. n : i < k => d[i] = c[i]
      /\ \A i \in 0 .. n : i >= k => d[i] = c[i+1]
    BY <1>0
<1> HIDE DEF d, n
<1>a. ASSUME NEW i \in 1 .. n
      PROVE  (c[i] = c[k-1] <=> i = k - 1) /\ (c[i] = c[k+1] <=> i = k + 1)
             /\ (c[i] = c[k] <=> i = k)
    <2>0. c[i] # NULL /\ i \in 1 .. n
        BY <1>1
    <2>1. c[i] = c[k-1] <=> i = k - 1
        <3>1. CASE k = 1
            BY <3>1, <2>0, <1>1
        <3>2. CASE k # 1
            <4>1. k - 1 \in 1 .. n
                BY <3>2, <1>0
            <4> QED BY <1>1, <2>0, <4>1
        <3> QED BY <3>1, <3>2
    <2>2. c[i] = c[k+1] <=> i = k + 1
        <3>1. CASE k = n
            <4>1. c[k+1] = NULL /\ i # k + 1
                BY <3>1, <2>0, <1>0, <1>1
            <4> QED BY <2>0, <4>1
        <3>2. CASE k # n
            <4>1. k + 1 \in 1 .. n
                BY <3>2, <1>0
            <4> QED BY <1>1, <2>0, <4>1
        <3> QED BY <3>1, <3>2
    <2>3. c[i] = c[k] <=> i = k
        BY <1>0, <1>1, <2>0
    <2> QED BY <2>1, <2>2, <2>3
<1>b. ASSUME NEW i \in 1 .. n, i # k
      PROVE  /\ c[i] \in DOMAIN R.nodes
             /\ R.nodes[c[i]].item = s[i]
             /\ R.nodes[c[i]].next = IF i = k - 1 THEN c[k+1] ELSE c[i+1]
             /\ R.nodes[c[i]].prev = IF i = k + 1 THEN c[k-1] ELSE c[i-1]
    <2> DEFINE m == c[i]
    <2>1. /\ m \in DOMAIN L.nodes /\ L.nodes[m].item = s[i]
          /\ L.nodes[m].next = c[i+1] /\ L.nodes[m].prev = c[i-1]
        BY <1>1
    <2>2. (m = c[k-1] <=> i = k - 1) /\ (m = c[k+1] <=> i = k + 1) /\ m # c[k]
        BY <1>a, <1>b
    <2> HIDE DEF m
    <2>3. /\ m \in DOMAIN R.nodes /\ R.nodes[m].item = s[i]
          /\ R.nodes[m].next = IF i = k - 1 THEN c[k+1] ELSE c[i+1]
          /\ R.nodes[m].prev = IF i = k + 1 THEN c[k-1] ELSE c[i-1]
        BY <1>2, <2>1, <2>2
    <2> QED BY <2>3 DEF m
<1>6. ASSUME NEW i \in 1 .. n - 1
      PROVE  /\ d[i] \in DOMAIN R.nodes
             /\ R.nodes[d[i]].item = t[i]
             /\ R.nodes[d[i]].next = d[i+1]
             /\ R.nodes[d[i]].prev = d[i-1]
    <2>1. CASE i < k
        <3>1. /\ i \in 1 .. n /\ i - 1 \in 0 .. n /\ i - 1 < k /\ i # k /\ i # k + 1
              /\ i \in 0 .. n /\ i + 1 \in 0 .. n
            BY <1>0, <2>1
        <3>2. d[i] = c[i] /\ d[i-1] = c[i-1] /\ t[i] = s[i]
            BY <1>3, <1>5, <2>1, <3>1
        <3>3. d[i+1] = IF i = k - 1 THEN c[k+1] ELSE c[i+1]
            <4>1. CASE i = k - 1
                <5>1. i + 1 = k
                    BY <1>0, <4>1
                <5> QED BY <3>1, <4>1, <5>1, <1>5, <1>0
            <4>2. CASE i # k - 1
                <5>1. i + 1 < k
                    BY <1>0, <2>1, <4>2
                <5> QED BY <4>2, <5>1, <3>1, <1>5
            <4> QED BY <4>1, <4>2
        <3> QED BY <1>b, <3>1, <3>2, <3>3
    <2>3. CASE i >= k
        <3>0. PICK j \in 1 .. n : j = i + 1
            BY <1>0, <2>3
        <3>1. /\ j > k /\ i \in 0 .. n /\ j \in 0 .. n /\ i - 1 \in 0 .. n
              /\ j - 1 = i /\ j # k - 1 /\ j # k /\ i = j - 1
            BY <1>0, <2>3, <3>0
        <3>2. d[i] = c[j] /\ d[i+1] = c[j+1]
            <4>1. i + 1 >= k /\ i + 1 \in 0 .. n
                BY <1>0, <2>3
            <4> QED BY <1>5, <2>3, <3>0, <3>1, <4>1
        <3>3. t[i] = s[j]
            BY <1>0, <1>3, <2>3, <3>0
        <3>4. d[i-1] = IF j = k + 1 THEN c[k-1] ELSE c[j-1]
            <4>1. CASE j = k + 1
                <5>1. i - 1 < k /\ i - 1 = k - 1
                    BY <1>0, <3>0, <4>1
                <5> QED BY <1>5, <3>1, <4>1, <5>1
            <4>2. CASE j # k + 1
                <5>1. i - 1 >= k /\ (i - 1) + 1 = i
                    BY <1>0, <2>3, <3>0, <4>2
                <5> QED BY <1>5, <3>1, <4>2, <5>1
            <4> QED BY <4>1, <4>2
        <3> QED BY <1>b, <3>1, <3>2, <3>3, <3>4
    <2>4. i < k \/ i >= k
        BY <1>0
    <2> QED BY <2>1, <2>3, <2>4
<1>7. ASSUME NEW i \in 1 .. n - 1
      PROVE  R.nodes[d[i]] = [item |-> t[i], next |-> d[i+1], prev |-> d[i-1]]
    <2>1. R.nodes[d[i]] \in Node
        BY <1>2, <1>6, LinkedParts
    <2>2. R.nodes[d[i]] = [item |-> R.nodes[d[i]].item, next |-> R.nodes[d[i]].next,
                           prev |-> R.nodes[d[i]].prev]
        <3> DEFINE node == R.nodes[d[i]]
        <3> HIDE DEF node
        <3>1. node \in Node => node = [item |-> node.item, next |-> node.next, prev |-> node.prev]
            BY DEF Node
        <3> QED BY <2>1, <3>1 DEF node
    <2> QED BY <2>2, <1>6
<1>8. ASSUME NEW i \in 1 .. n - 1, NEW j \in 1 .. n - 1, d[i] = d[j]
      PROVE  i = j
    <2> DEFINE old(m) == IF m < k THEN m ELSE m + 1
    <2>1. ASSUME NEW m \in 1 .. n - 1
          PROVE  old(m) \in 1 .. n /\ d[m] = c[old(m)]
        <3>1. old(m) \in 1 .. n /\ m \in 0 .. n
            BY <1>0
        <3>2. d[m] = c[old(m)]
            BY <1>0, <1>5, <3>1
        <3> HIDE DEF old, d
        <3> QED BY <3>1, <3>2
    <2>2. old(i) = old(j)
        <3>1. /\ old(i) \in 1 .. n /\ d[i] = c[old(i)]
              /\ old(j) \in 1 .. n /\ d[j] = c[old(j)]
            BY <2>1
        <3>2. \A p, q \in 1 .. n : c[p] = c[q] => p = q
            BY <1>1
        <3> HIDE DEF old, d
        <3> QED BY <1>8, <3>1, <3>2
    <2> QED BY <1>0, <2>2
<1>9. ASSUME NEW m \in DOMAIN R.nodes PROVE \E i \in 1 .. n - 1 : m = d[i]
    <2>1. PICK i \in 1 .. n : m = c[i]
        BY <1>1, <1>2
    <2>2. i # k
        BY <1>2, <2>1
    <2>3. CASE i < k
        <3>1. i \in 1 .. n - 1 /\ i \in 0 .. n
            BY <1>0, <2>3
        <3>2. d[i] = m
            BY <1>5, <2>1, <2>3, <3>1
        <3> QED BY <3>1, <3>2
    <2>4. CASE i > k
        <3>1. i - 1 \in 1 .. n - 1 /\ i - 1 \in 0 .. n /\ i - 1 >= k /\ (i - 1) + 1 = i
            BY <1>0, <2>4
        <3>2. d[i-1] = m
            BY <1>5, <2>1, <3>1
        <3> QED BY <3>1, <3>2
    <2> QED BY <1>0, <2>2, <2>3, <2>4
<1>10. d[0] = NULL /\ d[n] = NULL
    <2>1. 0 \in 0 .. n /\ 0 < k /\ n \in 0 .. n /\ n >= k
        BY <1>0
    <2> QED BY <2>1, <1>1, <1>5
<1>11. R.f = d[1] /\ R.l = d[n-1]
    <2>1. R.f = d[1]
        <3>0. 1 \in 0 .. n
            BY <1>0
        <3>1. CASE k = 1
            <4>1. d[1] = c[1+1]
                BY <3>0, <3>1, <1>5
            <4>2. R.f = c[k+1]
                BY <3>1, <1>2
            <4> QED BY <4>1, <4>2, <3>1
        <3>2. CASE k # 1
            <4>1. 1 < k
                BY <1>0, <3>2
            <4>2. d[1] = c[1]
                BY <1>5, <3>0, <4>1
            <4>3. R.f = L.f
                BY <1>2, <3>2
            <4>4. L.f = c[1]
                BY <1>1
            <4> QED BY <4>2, <4>3, <4>4
        <3> QED BY <3>1, <3>2
    <2>2. R.l = d[n-1]
        <3>0. n - 1 \in 0 .. n /\ (n - 1) + 1 = n
            BY <1>0
        <3>1. CASE k = n
            <4>0. n - 1 < k
                BY <1>0, <3>1
            <4>1. d[n-1] = c[n-1]
                BY <1>5, <3>0, <4>0
            <4>2. R.l = c[k-1]
                BY <1>1, <1>2, <3>1
            <4> QED BY <3>1, <4>1, <4>2
        <3>2. CASE k # n
            <4>1. n - 1 >= k
                BY <1>0, <3>2
            <4>2. d[n-1] = c[n]
                <5>1. d[n-1] = c[(n - 1) + 1]
                    BY <1>5, <3>0, <4>1
                <5> QED BY <3>0, <5>1
            <4>3. R.l = L.l
                BY <1>1, <1>2, <3>2
            <4>4. L.l = c[n]
                BY <1>1
            <4> QED BY <4>2, <4>3, <4>4
        <3> QED BY <3>1, <3>2
    <2> QED BY <2>1, <2>2
<1>12. Chain(R, d, t)
    <2>1. Len(t) = n - 1 /\ Len(t) + 1 = n
        BY <1>0, <1>3
    <2>2. R.count = Len(t)
        BY <1>1, <1>2, <2>1
    <2> QED BY <1>4, <1>6, <1>7, <1>8, <1>9, <1>10, <1>11, <2>1, <2>2 DEF Chain
<1> QED BY <1>2, <1>3, <1>12 DEF Links, t

(* The first index of x in s, or -1.                                       *)
First(s, x) ==
    LET at == {i \in 0 .. Len(s) - 1 : s[i+1] = x}
    IN  IF at = {} THEN -1 ELSE CHOOSE i \in at : \A j \in at : i <= j

LEMMA FirstFinds ==
    ASSUME NEW s \in Seq(Items), NEW x
    PROVE  \/ /\ First(s, x) = -1
              /\ \A i \in 1 .. Len(s) : s[i] # x
           \/ /\ First(s, x) \in 0 .. Len(s) - 1
              /\ First(s, x) + 1 \in 1 .. Len(s)
              /\ s[First(s, x) + 1] = x
              /\ \A j \in 0 .. Len(s) - 1 : s[j+1] = x => First(s, x) <= j
<1> DEFINE at == {i \in 0 .. Len(s) - 1 : s[i+1] = x}
<1>0. Len(s) \in Nat
    OBVIOUS
<1>1. CASE at = {}
    <2>1. First(s, x) = -1
        BY <1>1 DEF First
    <2>2. ASSUME NEW i \in 1 .. Len(s), s[i] = x PROVE FALSE
        <3>1. i - 1 \in 0 .. Len(s) - 1 /\ (i - 1) + 1 = i
            BY <1>0
        <3>2. i - 1 \in at
            BY <3>1, <2>2
        <3> QED BY <3>2, <1>1
    <2> QED BY <2>1, <2>2
<1>2. CASE at # {}
    <2>1. First(s, x) = CHOOSE i \in at : \A j \in at : i <= j
        BY <1>2 DEF First
    <2>2. \E i \in at : \A j \in at : i <= j
        <3>1. at \subseteq Nat
            BY <1>0
        <3> HIDE DEF at
        <3> QED BY <1>2, <3>1, SmallestElement
    <2> HIDE DEF at
    <2>3. First(s, x) \in at /\ \A j \in at : First(s, x) <= j
        BY <2>1, <2>2
    <2>4. First(s, x) \in 0 .. Len(s) - 1 /\ s[First(s, x) + 1] = x
        BY <2>3 DEF at
    <2>5. First(s, x) + 1 \in 1 .. Len(s)
        BY <1>0, <2>4
    <2>6. \A j \in 0 .. Len(s) - 1 : s[j+1] = x => First(s, x) <= j
        BY <2>3 DEF at
    <2> QED BY <2>4, <2>5, <2>6
<1> QED BY <1>1, <1>2

(* _find and Remove of a linked list.                                      *)
LEMMA FindFirst ==
    ASSUME NEW L, NEW s, Links(L, s), NEW x
    PROVE  _find(L, x) = First(s, x)
<1>1. PICK c : Chain(L, c, s)
    BY DEF Links
<1>2. L \in LinkedLists /\ s \in Seq(Items) /\ Len(s) \in Nat
    BY DEF Links
<1>3. {i \in DOMAIN Walk(L) : Walk(L)[i] # NULL /\ ItemAt(L, i) = x}
         = {i \in 0 .. Len(s) - 1 : s[i+1] = x}
    <2>1. ASSUME NEW i \in 0 .. Len(s) - 1
          PROVE  i \in 0 .. Len(s) /\ Walk(L)[i] # NULL /\ ItemAt(L, i) = s[i+1]
        <3>1. i \in 0 .. Len(s) /\ i + 1 \in 1 .. Len(s) /\ (i + 1) - 1 = i
            BY <1>2
        <3>2. Walk(L)[i] # NULL
            <4>1. Walk(L)[i] = c[i+1]
                BY <1>1, <1>2, <3>1, WalkFollows
            <4>2. c[i+1] # NULL
                BY <1>1, <1>2, <3>1, ChainParts
            <4> QED BY <4>1, <4>2
        <3>3. ItemAt(L, (i + 1) - 1) = s[i+1]
            BY <1>1, <1>2, <3>1, ItemFollows
        <3> QED BY <3>1, <3>2, <3>3
    <2>2. Walk(L)[Len(s)] = NULL
        <3>1. Len(s) \in 0 .. Len(s)
            BY <1>2
        <3> QED BY <1>1, <1>2, <3>1, WalkFollows, ChainParts
    <2>3. DOMAIN Walk(L) = 0 .. Len(s)
        BY <1>1, <1>2, WalkFollows
    <2>4. \A i \in 0 .. Len(s) : i = Len(s) \/ i \in 0 .. Len(s) - 1
        BY <1>2
    <2> QED BY <2>1, <2>2, <2>3, <2>4
<1> DEFINE met == {i \in DOMAIN Walk(L) : Walk(L)[i] # NULL /\ ItemAt(L, i) = x}
           at == {i \in 0 .. Len(s) - 1 : s[i+1] = x}
           FirstOf(S) == IF S = {} THEN -1 ELSE CHOOSE i \in S : \A j \in S : i <= j
<1>4. _find(L, x) = FirstOf(met)
    BY DEF _find
<1>5. First(s, x) = FirstOf(at)
    BY DEF First
<1>6. met = at
    BY <1>3
<1> HIDE DEF met, at, FirstOf
<1> QED BY <1>4, <1>5, <1>6

LEMMA LinkedRemoveAtLinks ==
    ASSUME NEW L, NEW s, Links(L, s), NEW index \in 0 .. Len(s) - 1
    PROVE  Links(LinkedRemoveAt(L, index), Drop(s, index + 1))
<1>1. PICK c : Chain(L, c, s)
    BY DEF Links
<1>2. L \in LinkedLists /\ s \in Seq(Items) /\ Len(s) \in Nat
    BY DEF Links
<1>3. /\ index + 1 \in 1 .. Len(s) /\ index + 1 \in 1 .. Len(s) + 1
      /\ (index + 1) - 1 = index
    BY <1>2
<1>4. _item(L, index) = c[index+1]
    BY <1>1, <1>2, <1>3, ItemFollows
<1> DEFINE R == _remove(L, c[index+1])
<1>5. LinkedRemoveAt(L, index) = R
    BY <1>4 DEF LinkedRemoveAt
<1>6. IsUnlinked(R, L, c, index + 1)
    BY <1>1, <1>2, <1>3, RemoveUnlinks
<1> HIDE DEF R
<1>7. Links(R, Drop(s, index + 1))
    BY <1>1, <1>2, <1>3, <1>6, ChainDrop
<1> QED BY <1>5, <1>7

(* s without the first x in it.                                            *)
Less(s, x) == IF First(s, x) < 0 THEN s ELSE Drop(s, First(s, x) + 1)

LEMMA LinkedRemoveLinks ==
    ASSUME NEW L, NEW s, Links(L, s), NEW x
    PROVE  Links(LinkedRemove(L, x), Less(s, x))
<1>1. _find(L, x) = First(s, x)
    BY FindFirst
<1>2. s \in Seq(Items)
    BY DEF Links
<1>3. CASE First(s, x) < 0
    BY <1>1, <1>3 DEF LinkedRemove, Less
<1>4. CASE ~ (First(s, x) < 0)
    <2>1. First(s, x) \in 0 .. Len(s) - 1
        BY <1>2, <1>4, FirstFinds
    <2>2. Links(LinkedRemoveAt(L, First(s, x)), Drop(s, First(s, x) + 1))
        BY <2>1, LinkedRemoveAtLinks
    <2>3. LinkedRemove(L, x) = LinkedRemoveAt(L, First(s, x))
        BY <1>1, <1>4 DEF LinkedRemove
    <2> QED BY <1>4, <2>2, <2>3 DEF Less
<1> QED BY <1>3, <1>4

LEMMA NewLinkedListLinks == Links(NewLinkedList, <<>>)
<1> DEFINE c == [i \in 0 .. 1 |-> NULL]
<1>1. DOMAIN <<>> = {}
    OBVIOUS
<1>2. <<>> \in [{} -> Node]
    BY <1>1
<1>3. NewLinkedList \in LinkedLists
    <2>1. NULL \in Nat
        BY DEF NULL
    <2>2. {} \subseteq Nat \ {NULL}
        OBVIOUS
    <2> QED BY <1>2, <2>1, <2>2, LinkedWhole DEF NewLinkedList
<1>4. Chain(NewLinkedList, c, <<>>)
    BY <1>1 DEF Chain, NewLinkedList, NULL
<1> QED BY <1>3, <1>4 DEF Links

(* Clear takes the last node away as often as there are nodes.             *)
Whole == {M \in LinkedLists : \E t : Links(M, t)}

LEMMA RemoveLastLinks ==
    ASSUME NEW L, NEW s, Links(L, s)
    PROVE  Links(_remove(L, L.l), IF Len(s) = 0 THEN s ELSE Drop(s, Len(s)))
<1>1. PICK c : Chain(L, c, s)
    BY DEF Links
<1>2. L \in LinkedLists /\ s \in Seq(Items) /\ Len(s) \in Nat
    BY DEF Links
<1>3. L.l = c[Len(s)]
    BY <1>1 DEF Chain
<1>4. CASE Len(s) = 0
    <2>1. L.l = NULL
        BY <1>1, <1>3, <1>4 DEF Chain
    <2>2. _remove(L, L.l) = L
        BY <2>1 DEF _remove
    <2> QED BY <1>4, <2>2
<1>5. CASE Len(s) # 0
    <2>1. Len(s) \in 1 .. Len(s)
        BY <1>2, <1>5
    <2> DEFINE R == _remove(L, c[Len(s)])
    <2>2. IsUnlinked(R, L, c, Len(s))
        BY <1>1, <1>2, <2>1, RemoveUnlinks
    <2> HIDE DEF R
    <2>3. Links(R, Drop(s, Len(s)))
        BY <1>1, <1>2, <2>1, <2>2, ChainDrop
    <2> QED BY <1>3, <1>5, <2>3 DEF R
<1> QED BY <1>4, <1>5

LEMMA LinkedClearLinks ==
    ASSUME NEW L, NEW s, Links(L, s)
    PROVE  Links(LinkedClear(L), <<>>)
<1>1. L \in LinkedLists /\ s \in Seq(Items) /\ Len(s) \in Nat
    BY DEF Links
<1> DEFINE n == Len(s)
           G == [i \in 1 .. n |-> [M \in Whole |-> _remove(M, M.l)]]
           left == CHOOSE left : left = [i \in 0 .. n |->
                       IF i = 0 THEN L ELSE _remove(left[i-1], left[i-1].l)]
<1>2. n \in Nat /\ L \in Whole
    BY <1>1 DEF Whole
<1>3. \A M \in Whole : _remove(M, M.l) \in Whole
    BY RemoveLastLinks DEF Whole, Links
<1>4. G \in [1 .. n -> [Whole -> Whole]]
    BY <1>3
<1>5. PICK f : IsWalk(f, n, Whole, L, G)
    <2> HIDE DEF G, n
    <2> QED BY <1>2, <1>4, WalkExists, Zenon
<1>6. f = [i \in 0 .. n |-> IF i = 0 THEN L ELSE _remove(f[i-1], f[i-1].l)]
    <2>1. f \in [0 .. n -> Whole] /\ f[0] = L
        BY <1>5 DEF IsWalk
    <2>2. ASSUME NEW i \in 1 .. n PROVE f[i] = _remove(f[i-1], f[i-1].l)
        <3>1. f[i] = G[i][f[i-1]]
            BY <1>5 DEF IsWalk
        <3>2. i - 1 \in 0 .. n
            BY <1>2
        <3>3. f[i-1] \in Whole
            BY <2>1, <3>2
        <3> QED BY <3>1, <3>3
    <2> HIDE DEF n
    <2> QED BY <1>2, <2>1, <2>2
<1>7. left = [i \in 0 .. n |-> IF i = 0 THEN L ELSE _remove(left[i-1], left[i-1].l)]
    <2> HIDE DEF n
    <2> QED BY <1>6, Zenon
<1>8. LinkedClear(L) = left[n]
    <2>1. PICK c : Chain(L, c, s)
        BY DEF Links
    <2>2. Cardinality(DOMAIN L.nodes) = n
        BY <1>1, <2>1, ChainCardinality
    <2> HIDE DEF n
    <2> QED BY <2>2, Zenon DEF LinkedClear
<1> HIDE DEF left, n
<1>9. left[0] = L /\ \A i \in 1 .. n : left[i] = _remove(left[i-1], left[i-1].l)
    BY <1>2, <1>7
<1> DEFINE S == {i \in 0 .. n : \E t : Links(left[i], t) /\ Len(t) = n - i}
<1>10. 0 \in S
    <2>1. Links(left[0], s) /\ Len(s) = n - 0
        BY <1>2, <1>9 DEF n
    <2> QED BY <1>2, <2>1
<1>11. ASSUME NEW i \in 1 .. n, i - 1 \in S PROVE i \in S
    <2>1. PICK t : Links(left[i-1], t) /\ Len(t) = n - (i - 1)
        BY <1>11
    <2>2. t \in Seq(Items) /\ Len(t) # 0 /\ Len(t) \in 1 .. Len(t)
        BY <1>2, <2>1 DEF Links
    <2>3. Links(left[i], Drop(t, Len(t)))
        BY <1>9, <2>1, <2>2, RemoveLastLinks
    <2>4. Len(Drop(t, Len(t))) = n - i
        <3>1. Len(Drop(t, Len(t))) = Len(t) - 1
            BY <2>2, DropRemoves
        <3> QED BY <1>2, <2>1, <3>1
    <2> QED BY <2>3, <2>4
<1>12. n \in S
    <2> HIDE DEF S
    <2>1. \A i \in 0 .. n : i \in S
        BY <1>2, <1>10, <1>11, WalkInduction
    <2> QED BY <1>2, <2>1
<1>13. PICK t : Links(left[n], t) /\ Len(t) = n - n
    BY <1>12
<1>14. t = <<>>
    BY <1>2, <1>13 DEF Links
<1> QED BY <1>8, <1>13, <1>14

-----------------------------------------------------------------------------
(* Arrays.                                                                 *)
ArrayLists ==
    [kind : {"array"}, count : 0 .. Capacity, arr : [0 .. Capacity -> Items \cup {Wild}]]

Slots(L, s) ==
    /\ L \in ArrayLists /\ s \in Seq(Items)
    /\ L.count = Len(s)
    /\ \A i \in 1 .. Len(s) : L.arr[i-1] = s[i]

LEMMA ArrayParts ==
    ASSUME NEW L, NEW s, Slots(L, s)
    PROVE  /\ L.kind = "array" /\ L.count = Len(s)
           /\ Len(s) \in 0 .. Capacity /\ Capacity \in Nat
           /\ L.arr \in [0 .. Capacity -> Items \cup {Wild}]
           /\ L = [kind |-> "array", count |-> Len(s), arr |-> L.arr]
           /\ \A i \in 0 .. Len(s) - 1 : L.arr[i] = s[i+1]
<1>1. L \in ArrayLists /\ L.count = Len(s) /\ s \in Seq(Items) /\ Len(s) \in Nat
    BY DEF Slots
<1>2. ASSUME NEW i \in 0 .. Len(s) - 1 PROVE L.arr[i] = s[i+1]
    <2>1. i + 1 \in 1 .. Len(s) /\ (i + 1) - 1 = i
        BY <1>1
    <2>2. L.arr[(i+1)-1] = s[i+1]
        BY <2>1 DEF Slots
    <2> QED BY <2>1, <2>2
<1> QED BY <1>1, <1>2, ArrayListAssumption DEF ArrayLists

LEMMA ArrayWhole ==
    ASSUME NEW n \in 0 .. Capacity, NEW arr \in [0 .. Capacity -> Items \cup {Wild}],
           NEW s \in Seq(Items), Len(s) = n,
           \A i \in 1 .. n : arr[i-1] = s[i]
    PROVE  Slots([kind |-> "array", count |-> n, arr |-> arr], s)
BY DEF Slots, ArrayLists

LEMMA NewArrayListSlots == Slots(NewArrayList, <<>>)
<1> DEFINE arr == [i \in 0 .. Capacity |-> Wild]
<1>1. arr \in [0 .. Capacity -> Items \cup {Wild}]
    OBVIOUS
<1>2. 0 \in 0 .. Capacity /\ <<>> \in Seq(Items) /\ Len(<<>>) = 0
    BY ArrayListAssumption
<1>3. \A i \in 1 .. 0 : arr[i-1] = <<>>[i]
    OBVIOUS
<1>4. NewArrayList = [kind |-> "array", count |-> 0, arr |-> arr]
    BY DEF NewArrayList
<1> HIDE DEF arr
<1> QED BY <1>1, <1>2, <1>3, <1>4, ArrayWhole

LEMMA ArrayChange ==
    ASSUME NEW L, NEW k, NEW a, L = [kind |-> "array", count |-> k, arr |-> a],
           NEW arr, NEW n, NEW i, NEW x
    PROVE  /\ [L EXCEPT !.arr = arr] = [kind |-> "array", count |-> k, arr |-> arr]
           /\ [L EXCEPT !.arr[i] = x]
                 = [kind |-> "array", count |-> k, arr |-> [a EXCEPT ![i] = x]]
           /\ [L EXCEPT !.count = n] = [kind |-> "array", count |-> n, arr |-> a]
<1>1. [L EXCEPT !.arr = arr] = [kind |-> "array", count |-> k, arr |-> arr]
    OBVIOUS
<1>2. [L EXCEPT !.arr[i] = x]
         = [kind |-> "array", count |-> k, arr |-> [a EXCEPT ![i] = x]]
    OBVIOUS
<1>3. [L EXCEPT !.count = n] = [kind |-> "array", count |-> n, arr |-> a]
    OBVIOUS
<1> QED BY <1>1, <1>2, <1>3

LEMMA ArrayAddSlots ==
    ASSUME NEW L, NEW s, Slots(L, s), NEW x \in Items
    PROVE  Slots(ArrayAdd(L, x), IF Len(s) < Capacity THEN Append(s, x) ELSE s)
<1>1. /\ L.count = Len(s) /\ Len(s) \in 0 .. Capacity /\ Capacity \in Nat
      /\ L.arr \in [0 .. Capacity -> Items \cup {Wild}]
      /\ L = [kind |-> "array", count |-> Len(s), arr |-> L.arr]
    BY ArrayParts
<1>2. s \in Seq(Items) /\ \A i \in 1 .. Len(s) : L.arr[i-1] = s[i]
    BY DEF Slots
<1>3. CASE Len(s) < Capacity
    <2> DEFINE arr == [L.arr EXCEPT ![Len(s)] = x]
    <2>1. ArrayAdd(L, x) = [kind |-> "array", count |-> Len(s) + 1, arr |-> arr]
        <3>1. ArrayAdd(L, x) = [[L EXCEPT !.arr[Len(s)] = x] EXCEPT !.count = Len(s) + 1]
            BY <1>1, <1>3 DEF ArrayAdd
        <3>8. L = [kind |-> "array", count |-> Len(s), arr |-> L.arr]
            BY <1>1
        <3>9. [[L EXCEPT !.arr[Len(s)] = x] EXCEPT !.count = Len(s) + 1]
                 = [kind |-> "array", count |-> Len(s) + 1, arr |-> arr]
            <4> DEFINE M == [L EXCEPT !.arr[Len(s)] = x]
            <4>1. M = [kind |-> "array", count |-> Len(s), arr |-> arr]
                BY <3>8, ArrayChange
            <4> HIDE DEF M, arr
            <4>2. [M EXCEPT !.count = Len(s) + 1]
                     = [kind |-> "array", count |-> Len(s) + 1, arr |-> arr]
                BY <4>1, ArrayChange
            <4> QED BY <4>2 DEF M
        <3> QED BY <3>1, <3>9
    <2>2. arr \in [0 .. Capacity -> Items \cup {Wild}]
        BY <1>1
    <2>3. Append(s, x) \in Seq(Items) /\ Len(Append(s, x)) = Len(s) + 1
        BY <1>2
    <2>4. \A i \in 1 .. Len(s) + 1 : arr[i-1] = Append(s, x)[i]
        BY <1>1, <1>2
    <2>5. Len(s) + 1 \in 0 .. Capacity
        BY <1>1, <1>3
    <2> HIDE DEF arr
    <2>6. Slots([kind |-> "array", count |-> Len(s) + 1, arr |-> arr], Append(s, x))
        BY <2>2, <2>3, <2>4, <2>5, ArrayWhole
    <2> QED BY <1>3, <2>1, <2>6
<1>4. CASE ~ (Len(s) < Capacity)
    BY <1>1, <1>4 DEF ArrayAdd
<1> QED BY <1>3, <1>4

LEMMA ArrayIndexFirst ==
    ASSUME NEW L, NEW s, Slots(L, s), NEW x
    PROVE  ArrayIndexOf(L, x) = First(s, x)
<1> DEFINE met == {i \in 0 .. L.count - 1 : L.arr[i] = x}
           at == {i \in 0 .. Len(s) - 1 : s[i+1] = x}
           FirstOf(S) == IF S = {} THEN -1 ELSE CHOOSE i \in S : \A j \in S : i <= j
<1>1. ArrayIndexOf(L, x) = FirstOf(met)
    BY DEF ArrayIndexOf
<1>2. First(s, x) = FirstOf(at)
    BY DEF First
<1>3. met = at
    BY ArrayParts
<1> HIDE DEF met, at, FirstOf
<1> QED BY <1>1, <1>2, <1>3

LEMMA ArraySetItemSlots ==
    ASSUME NEW L, NEW s, Slots(L, s), NEW index \in 0 .. Len(s) - 1, NEW x \in Items
    PROVE  Slots(ArraySetItem(L, index, x), [s EXCEPT ![index+1] = x])
<1>1. /\ L.count = Len(s) /\ Len(s) \in 0 .. Capacity /\ Capacity \in Nat
      /\ L.arr \in [0 .. Capacity -> Items \cup {Wild}]
      /\ L = [kind |-> "array", count |-> Len(s), arr |-> L.arr]
    BY ArrayParts
<1>2. s \in Seq(Items) /\ \A i \in 1 .. Len(s) : L.arr[i-1] = s[i]
    BY DEF Slots
<1> DEFINE arr == [L.arr EXCEPT ![index] = x]
           t == [s EXCEPT ![index+1] = x]
<1>3. ArraySetItem(L, index, x) = [kind |-> "array", count |-> Len(s), arr |-> arr]
    <2>1. ArraySetItem(L, index, x) = [L EXCEPT !.arr[index] = x]
        BY DEF ArraySetItem
    <2>8. L = [kind |-> "array", count |-> Len(s), arr |-> L.arr]
        BY <1>1
    <2>9. [L EXCEPT !.arr[index] = x]
             = [kind |-> "array", count |-> Len(s), arr |-> arr]
        BY <2>8, ArrayChange
    <2> QED BY <2>1, <2>9
<1>4. arr \in [0 .. Capacity -> Items \cup {Wild}]
    BY <1>1
<1>5. t \in Seq(Items) /\ Len(t) = Len(s)
    BY <1>2
<1>6. ASSUME NEW i \in 1 .. Len(s) PROVE arr[i-1] = t[i]
    <2>1. i - 1 \in 0 .. Capacity /\ (i - 1 = index <=> i = index + 1)
        BY <1>1
    <2> QED BY <1>1, <1>2, <2>1
<1> HIDE DEF arr, t
<1>7. Slots([kind |-> "array", count |-> Len(s), arr |-> arr], t)
    BY <1>1, <1>4, <1>5, <1>6, ArrayWhole
<1> QED BY <1>3, <1>7 DEF t

(* A store behind the last item is not seen either.                        *)
LEMMA ArraySetSpareSlots ==
    ASSUME NEW L, NEW s, Slots(L, s), NEW index \in Len(s) .. Capacity, NEW x \in Items
    PROVE  Slots(ArraySetItem(L, index, x), s)
<1>1. /\ L.count = Len(s) /\ Len(s) \in 0 .. Capacity /\ Capacity \in Nat
      /\ L.arr \in [0 .. Capacity -> Items \cup {Wild}]
      /\ L = [kind |-> "array", count |-> Len(s), arr |-> L.arr]
    BY ArrayParts
<1>2. s \in Seq(Items) /\ \A i \in 1 .. Len(s) : L.arr[i-1] = s[i]
    BY DEF Slots
<1> DEFINE arr == [L.arr EXCEPT ![index] = x]
<1>3. ArraySetItem(L, index, x) = [kind |-> "array", count |-> Len(s), arr |-> arr]
    BY <1>1, ArrayChange DEF ArraySetItem
<1>4. arr \in [0 .. Capacity -> Items \cup {Wild}]
    BY <1>1
<1>5. ASSUME NEW i \in 1 .. Len(s) PROVE arr[i-1] = s[i]
    <2>1. i - 1 \in 0 .. Capacity /\ i - 1 # index
        BY <1>1
    <2> QED BY <1>1, <1>2, <2>1
<1> HIDE DEF arr
<1>6. Slots([kind |-> "array", count |-> Len(s), arr |-> arr], s)
    BY <1>1, <1>2, <1>4, <1>5, ArrayWhole
<1> QED BY <1>3, <1>6

(* The copy of one element too many is never seen.                         *)
LEMMA ArrayInsertSlots ==
    ASSUME NEW L, NEW s, Slots(L, s), NEW x \in Items, NEW index \in Nat
    PROVE  Slots(ArrayInsert(L, x, index),
                 IF index <= Len(s) /\ Len(s) < Capacity THEN Put(s, index + 1, x) ELSE s)
<1>1. /\ L.count = Len(s) /\ Len(s) \in 0 .. Capacity /\ Capacity \in Nat
      /\ L.arr \in [0 .. Capacity -> Items \cup {Wild}]
      /\ L = [kind |-> "array", count |-> Len(s), arr |-> L.arr]
      /\ \A i \in 0 .. Len(s) - 1 : L.arr[i] = s[i+1]
    BY ArrayParts
<1>2. s \in Seq(Items)
    BY DEF Slots
<1>3. CASE index <= Len(s) /\ Len(s) < Capacity
    <2> DEFINE n == Len(s)
               moved == Shift(L.arr, index + 1, index, n - index)
               arr == [moved EXCEPT ![index] = x]
               t == Put(s, index + 1, x)
    <2>1. ArrayInsert(L, x, index) = [kind |-> "array", count |-> n + 1, arr |-> arr]
        <3>1. ArrayInsert(L, x, index) =
                 [[[L EXCEPT !.arr = moved] EXCEPT !.arr[index] = x] EXCEPT !.count = n + 1]
            <4>1. L.count = n /\ L.count + 1 = n + 1
                BY <1>1
            <4>2. index >= 0 /\ index <= L.count /\ L.count < Capacity
                BY <1>1, <1>3
            <4> DEFINE up == [L EXCEPT !.arr = moved]
            <4>3. up = ShiftUp(L, index + 1, index, L.count - index) /\ up.count = n
                <5>1. up = ShiftUp(L, index + 1, index, L.count - index)
                    BY <4>1 DEF ShiftUp
                <5> HIDE DEF moved
                <5>2. up = [kind |-> "array", count |-> n, arr |-> moved]
                    BY <1>1, ArrayChange
                <5> QED BY <5>1, <5>2
            <4> HIDE DEF up
            <4>4. [up EXCEPT !.arr[index] = x].count = n
                BY <4>3
            <4>5. ArrayInsert(L, x, index) = [[up EXCEPT !.arr[index] = x] EXCEPT !.count = @ + 1]
                BY <4>2, <4>3, Zenon DEF ArrayInsert, ArraySetItem
            <4> QED BY <4>4, <4>5 DEF up
        <3> HIDE DEF moved
        <3>8. L = [kind |-> "array", count |-> Len(s), arr |-> L.arr]
            BY <1>1
        <3>9. [[[L EXCEPT !.arr = moved] EXCEPT !.arr[index] = x] EXCEPT !.count = n + 1]
                 = [kind |-> "array", count |-> n + 1, arr |-> arr]
            <4> DEFINE M == [L EXCEPT !.arr = moved]
                       N == [M EXCEPT !.arr[index] = x]
            <4>1. M = [kind |-> "array", count |-> Len(s), arr |-> moved]
                BY <3>8, ArrayChange
            <4> HIDE DEF M
            <4>2. N = [kind |-> "array", count |-> Len(s), arr |-> arr]
                BY <4>1, ArrayChange
            <4> HIDE DEF N, arr
            <4>3. [N EXCEPT !.count = n + 1] = [kind |-> "array", count |-> n + 1, arr |-> arr]
                BY <4>2, ArrayChange
            <4> QED BY <4>3 DEF M, N
        <3> QED BY <3>1, <3>9
    <2>2. moved = [i \in 0 .. Capacity |->
                     IF i \in index + 1 .. n + 1 THEN L.arr[i-1] ELSE L.arr[i]]
        <3>1. index + 1 + (n - index) = n + 1 /\ DOMAIN L.arr = 0 .. Capacity
            BY <1>1, <1>3
        <3>2. \A i \in 0 .. Capacity : index + i - (index + 1) = i - 1
            BY <1>1
        <3> QED BY <3>1, <3>2 DEF Shift
    <2> HIDE DEF moved
    <2>3. ASSUME NEW i \in 0 .. Capacity PROVE moved[i] \in Items \cup {Wild}
        <3>1. CASE i \in index + 1 .. n + 1
            <4>1. i - 1 \in 0 .. Capacity
                BY <1>1, <1>3, <3>1
            <4> QED BY <1>1, <2>2, <3>1, <4>1
        <3>2. CASE i \notin index + 1 .. n + 1
            BY <1>1, <2>2, <3>2
        <3> QED BY <3>1, <3>2
    <2>4. arr \in [0 .. Capacity -> Items \cup {Wild}]
        BY <2>2, <2>3
    <2>5. index + 1 \in 1 .. Len(s) + 1 /\ n + 1 \in 0 .. Capacity /\ n \in Nat
        BY <1>1, <1>3
    <2>6. t \in Seq(Items) /\ Len(t) = n + 1
        BY <1>2, <2>5, PutInserts
    <2>7. ASSUME NEW i \in 1 .. n + 1 PROVE arr[i-1] = t[i]
        <3>0. t[i] = IF i < index + 1 THEN s[i] ELSE IF i = index + 1 THEN x ELSE s[i-1]
            BY DEF Put
        <3>1. i - 1 \in 0 .. Capacity /\ index \in 0 .. Capacity
            BY <1>1, <1>3
        <3>2. CASE i < index + 1
            <4>1. /\ i - 1 \notin index + 1 .. n + 1 /\ i - 1 # index
                  /\ i - 1 \in 0 .. Len(s) - 1 /\ (i - 1) + 1 = i
                BY <1>1, <1>3, <3>2
            <4>2. arr[i-1] = L.arr[i-1]
                BY <2>2, <3>1, <4>1
            <4> QED BY <1>1, <3>0, <3>2, <4>1, <4>2
        <3>3. CASE i = index + 1
            <4>1. i - 1 = index
                BY <3>3
            <4> QED BY <2>2, <3>0, <3>1, <3>3, <4>1
        <3>4. CASE i > index + 1
            <4>1. /\ i - 1 \in index + 1 .. n + 1 /\ i - 1 # index
                  /\ (i - 1) - 1 \in 0 .. Len(s) - 1 /\ ((i - 1) - 1) + 1 = i - 1
                BY <1>1, <1>3, <3>4, <2>5
            <4>2. arr[i-1] = L.arr[(i-1)-1]
                BY <2>2, <3>1, <4>1
            <4>3. t[i] = s[i-1]
                BY <3>0, <3>4
            <4> QED BY <1>1, <4>1, <4>2, <4>3
        <3> QED BY <3>2, <3>3, <3>4
    <2> HIDE DEF arr, n, t
    <2>8. Slots([kind |-> "array", count |-> n + 1, arr |-> arr], t)
        BY <2>4, <2>5, <2>6, <2>7, ArrayWhole
    <2> QED BY <1>3, <2>1, <2>8 DEF t
<1>4. CASE ~ (index <= Len(s) /\ Len(s) < Capacity)
    BY <1>1, <1>4 DEF ArrayInsert
<1> QED BY <1>3, <1>4

LEMMA ArrayRemoveAtSlots ==
    ASSUME NEW L, NEW s, Slots(L, s), NEW index \in Int
    PROVE  Slots(ArrayRemoveAt(L, index),
                 IF index \in 0 .. Len(s) - 1 THEN Drop(s, index + 1) ELSE s)
<1>1. /\ L.count = Len(s) /\ Len(s) \in 0 .. Capacity /\ Capacity \in Nat
      /\ L.arr \in [0 .. Capacity -> Items \cup {Wild}]
      /\ L = [kind |-> "array", count |-> Len(s), arr |-> L.arr]
      /\ \A i \in 0 .. Len(s) - 1 : L.arr[i] = s[i+1]
    BY ArrayParts
<1>2. s \in Seq(Items)
    BY DEF Slots
<1>3. CASE index \in 0 .. Len(s) - 1
    <2> DEFINE n == Len(s)
               arr == Shift(L.arr, index, index + 1, n - index - 1)
               t == Drop(s, index + 1)
    <2>1. ArrayRemoveAt(L, index) = [kind |-> "array", count |-> n - 1, arr |-> arr]
        <3>1. ArrayRemoveAt(L, index) = [[L EXCEPT !.arr = arr] EXCEPT !.count = n - 1]
            <4>1. L.count = n /\ L.count - 1 = n - 1 /\ L.count - index - 1 = n - index - 1
                BY <1>1
            <4>2. index >= 0 /\ index < L.count
                BY <1>1, <1>3
            <4> DEFINE down == [L EXCEPT !.arr = arr]
            <4>3. down = ShiftDown(L, index, index + 1, L.count - index - 1) /\ down.count = n
                <5>1. down = ShiftDown(L, index, index + 1, L.count - index - 1)
                    BY <4>1 DEF ShiftDown
                <5> HIDE DEF arr
                <5>2. down = [kind |-> "array", count |-> n, arr |-> arr]
                    BY <1>1, ArrayChange
                <5> QED BY <5>1, <5>2
            <4> HIDE DEF down
            <4>4. ArrayRemoveAt(L, index) = [down EXCEPT !.count = @ - 1]
                BY <4>2, <4>3, Zenon DEF ArrayRemoveAt
            <4> QED BY <4>3, <4>4 DEF down
        <3> HIDE DEF arr
        <3>8. L = [kind |-> "array", count |-> Len(s), arr |-> L.arr]
            BY <1>1
        <3>9. [[L EXCEPT !.arr = arr] EXCEPT !.count = n - 1]
                 = [kind |-> "array", count |-> n - 1, arr |-> arr]
            <4> DEFINE M == [L EXCEPT !.arr = arr]
            <4>1. M = [kind |-> "array", count |-> Len(s), arr |-> arr]
                BY <3>8, ArrayChange
            <4> HIDE DEF M
            <4>2. [M EXCEPT !.count = n - 1] = [kind |-> "array", count |-> n - 1, arr |-> arr]
                BY <4>1, ArrayChange
            <4> QED BY <4>2 DEF M
        <3> QED BY <3>1, <3>9
    <2>2. arr = [i \in 0 .. Capacity |->
                     IF i \in index .. n - 1 THEN L.arr[i+1] ELSE L.arr[i]]
        <3>1. index + (n - index - 1) = n - 1 /\ DOMAIN L.arr = 0 .. Capacity
            BY <1>1, <1>3
        <3>2. \A i \in 0 .. Capacity : index + 1 + i - index = i + 1
            BY <1>1, <1>3
        <3> QED BY <3>1, <3>2 DEF Shift
    <2> HIDE DEF arr
    <2>3. ASSUME NEW i \in 0 .. Capacity PROVE arr[i] \in Items \cup {Wild}
        <3>1. CASE i \in index .. n - 1
            <4>1. i + 1 \in 0 .. Capacity
                BY <1>1, <1>3, <3>1
            <4> QED BY <1>1, <2>2, <3>1, <4>1
        <3>2. CASE i \notin index .. n - 1
            BY <1>1, <2>2, <3>2
        <3> QED BY <3>1, <3>2
    <2>4. arr \in [0 .. Capacity -> Items \cup {Wild}]
        BY <2>2, <2>3
    <2>5. index + 1 \in 1 .. Len(s) /\ n - 1 \in 0 .. Capacity /\ n \in Nat
        BY <1>1, <1>3
    <2>6. t \in Seq(Items) /\ Len(t) = n - 1
        BY <1>2, <2>5, DropRemoves
    <2>7. ASSUME NEW i \in 1 .. n - 1 PROVE arr[i-1] = t[i]
        <3>0. t[i] = IF i < index + 1 THEN s[i] ELSE s[i+1]
            BY DEF Drop
        <3>1. i - 1 \in 0 .. Capacity
            BY <1>1
        <3>2. CASE i < index + 1
            <4>1. /\ i - 1 \notin index .. n - 1
                  /\ i - 1 \in 0 .. Len(s) - 1 /\ (i - 1) + 1 = i
                BY <1>1, <1>3, <3>2
            <4>2. arr[i-1] = L.arr[i-1]
                BY <2>2, <3>1, <4>1
            <4> QED BY <1>1, <3>0, <3>2, <4>1, <4>2
        <3>4. CASE i >= index + 1
            <4>1. /\ i - 1 \in index .. n - 1
                  /\ (i - 1) + 1 = i /\ i \in 0 .. Len(s) - 1
                BY <1>1, <1>3, <3>4, <2>5
            <4>2. arr[i-1] = L.arr[(i-1)+1]
                BY <2>2, <3>1, <4>1
            <4>3. t[i] = s[i+1]
                BY <3>0, <3>4
            <4> QED BY <1>1, <4>1, <4>2, <4>3
        <3>5. i < index + 1 \/ i >= index + 1
            OBVIOUS
        <3> QED BY <3>2, <3>4, <3>5
    <2> HIDE DEF n, t
    <2>8. Slots([kind |-> "array", count |-> n - 1, arr |-> arr], t)
        BY <2>4, <2>5, <2>6, <2>7, ArrayWhole
    <2> QED BY <1>3, <2>1, <2>8 DEF t
<1>4. CASE index \notin 0 .. Len(s) - 1
    <2>1. ArrayRemoveAt(L, index) = L
        BY <1>1, <1>4 DEF ArrayRemoveAt
    <2> QED BY <1>4, <2>1
<1> QED BY <1>3, <1>4

(* s without the element at an index, when there is one.                   *)
LessAt(s, index) == IF index \in 0 .. Len(s) - 1 THEN Drop(s, index + 1) ELSE s

(* Remove of an array removes twice at the place of the item.              *)
LEMMA ArrayRemoveSlots ==
    ASSUME NEW L, NEW s, Slots(L, s), NEW x
    PROVE  Slots(ArrayRemove(L, x), LessAt(LessAt(s, First(s, x)), First(s, x)))
<1> DEFINE loc == First(s, x)
           once == ArrayRemoveAt(L, loc)
           t == LessAt(s, loc)
<1>1. ArrayRemove(L, x) = ArrayRemoveAt(once, loc)
    BY ArrayIndexFirst DEF ArrayRemove
<1>2. loc \in Int
    BY FirstFinds DEF Slots
<1> HIDE DEF loc
<1>3. Slots(once, t)
    BY <1>2, ArrayRemoveAtSlots DEF LessAt
<1> HIDE DEF once, t
<1>4. Slots(ArrayRemoveAt(once, loc), LessAt(t, loc))
    BY <1>2, <1>3, ArrayRemoveAtSlots DEF LessAt
<1> QED BY <1>1, <1>4 DEF t, loc

LEMMA ArrayClearSlots ==
    ASSUME NEW L, NEW s, Slots(L, s)
    PROVE  Slots(ArrayClear(L), <<>>)
<1>1. /\ L.arr \in [0 .. Capacity -> Items \cup {Wild}] /\ 0 \in 0 .. Capacity
      /\ L = [kind |-> "array", count |-> Len(s), arr |-> L.arr]
    BY ArrayParts
<1>2. ArrayClear(L) = [kind |-> "array", count |-> 0, arr |-> L.arr]
    BY <1>1 DEF ArrayClear
<1>3. <<>> \in Seq(Items) /\ Len(<<>>) = 0 /\ \A i \in 1 .. 0 : L.arr[i-1] = <<>>[i]
    OBVIOUS
<1> QED BY <1>1, <1>2, <1>3, ArrayWhole

-----------------------------------------------------------------------------
(* A list of either kind that holds s.                                     *)
Keeps(L, s) == Slots(L, s) \/ Links(L, s)

LEMMA KeepsKind ==
    ASSUME NEW L, NEW s, Keeps(L, s)
    PROVE  /\ s \in Seq(Items) /\ L.count = Len(s)
           /\ Kind(L) \in {"array", "linked"}
           /\ Kind(L) = "array" => Slots(L, s)
           /\ Kind(L) # "array" => Links(L, s)
<1>1. CASE Slots(L, s)
    <2>1. L.kind = "array" /\ L.count = Len(s)
        BY <1>1, ArrayParts
    <2> QED BY <1>1, <2>1 DEF Kind, Slots
<1>2. CASE Links(L, s)
    <2>1. L.kind = "linked"
        BY <1>2, LinkedParts DEF Links
    <2>2. L.count = Len(s) /\ s \in Seq(Items)
        BY <1>2 DEF Links, Chain
    <2> QED BY <1>2, <2>1, <2>2 DEF Kind
<1> QED BY <1>1, <1>2 DEF Keeps

LEMMA KeepsItems ==
    ASSUME NEW L, NEW s, Keeps(L, s)
    PROVE  /\ \A i \in 0 .. Len(s) - 1 : ItemOf(L, i) = s[i+1]
           /\ Contents(L) = s
           /\ \A x : IndexIn(L, x) = First(s, x)
<1>1. s \in Seq(Items) /\ L.count = Len(s) /\ Len(s) \in Nat
    BY KeepsKind
<1>2. ASSUME NEW i \in 1 .. Len(s) PROVE ItemOf(L, i - 1) = s[i]
    <2>1. CASE Kind(L) = "array"
        BY <2>1, KeepsKind DEF ItemOf, Slots
    <2>2. CASE Kind(L) # "array"
        <3>1. Links(L, s)
            BY <2>2, KeepsKind
        <3>2. PICK c : Chain(L, c, s)
            BY <3>1 DEF Links
        <3>3. ItemAt(L, i - 1) = s[i]
            BY <3>1, <3>2, ItemFollows DEF Links
        <3> QED BY <2>2, <3>3 DEF ItemOf
    <2> QED BY <2>1, <2>2
<1>3. ASSUME NEW i \in 0 .. Len(s) - 1 PROVE ItemOf(L, i) = s[i+1]
    <2>1. i + 1 \in 1 .. Len(s) /\ (i + 1) - 1 = i
        BY <1>1
    <2>2. ItemOf(L, (i + 1) - 1) = s[i+1]
        BY <1>2, <2>1
    <2> QED BY <2>1, <2>2
<1>4. Contents(L) = s
    <2>1. Contents(L) = [i \in 1 .. Len(s) |-> s[i]]
        BY <1>1, <1>2 DEF Contents
    <2>2. s = [i \in 1 .. Len(s) |-> s[i]]
        BY <1>1
    <2> QED BY <2>1, <2>2
<1>5. ASSUME NEW x PROVE IndexIn(L, x) = First(s, x)
    <2>1. CASE Kind(L) = "array"
        BY <2>1, KeepsKind, ArrayIndexFirst DEF IndexIn
    <2>2. CASE Kind(L) # "array"
        BY <2>2, KeepsKind, FindFirst DEF IndexIn
    <2> QED BY <2>1, <2>2
<1> QED BY <1>3, <1>4, <1>5

LEMMA KeepsCoherent ==
    ASSUME NEW L, NEW s, Keeps(L, s)
    PROVE  Coherent(L)
<1>1. CASE Kind(L) = "array"
    <2>1. Slots(L, s)
        BY <1>1, KeepsKind
    <2>2. /\ L.count = Len(s) /\ Len(s) \in 0 .. Capacity /\ s \in Seq(Items)
          /\ \A i \in 0 .. Len(s) - 1 : L.arr[i] = s[i+1]
        BY <2>1, ArrayParts DEF Slots
    <2>3. ASSUME NEW i \in 0 .. L.count - 1 PROVE L.arr[i] \in Items
        <3>1. i \in 0 .. Len(s) - 1 /\ i + 1 \in 1 .. Len(s)
            BY <2>2
        <3> QED BY <2>2, <3>1
    <2> QED BY <1>1, <2>2, <2>3 DEF Coherent
<1>2. CASE Kind(L) # "array"
    <2>1. Links(L, s)
        BY <1>2, KeepsKind
    <2>2. PICK c : Chain(L, c, s)
        BY <2>1 DEF Links
    <2>3. L \in LinkedLists /\ s \in Seq(Items)
        BY <2>1 DEF Links
    <2> DEFINE n == Len(s)
    <2>4. n \in Nat /\ L.count = n /\ Cardinality(DOMAIN L.nodes) = n
        <3>1. Cardinality(DOMAIN L.nodes) = n
            BY <2>2, <2>3, ChainCardinality
        <3>2. L.count = n
            BY <2>2 DEF Chain
        <3> QED BY <2>3, <3>1, <3>2
    <2>5. \A i \in 0 .. n : Walk(L)[i] = c[i+1] /\ WalkBack(L)[i] = c[n-i]
        BY <2>2, <2>3, WalkFollows, WalkBackFollows
    <2>6. c[0] = NULL /\ c[n+1] = NULL
        BY <2>2, <2>3, ChainParts
    <2>7. \A i \in 1 .. n : c[i] \in DOMAIN L.nodes
        BY <2>2, <2>3, ChainParts
    <2>8. \A d \in DOMAIN L.nodes : \E i \in 1 .. n : d = c[i]
        BY <2>2, <2>3, ChainParts
    <2> HIDE DEF n
    <2>9. {Walk(L)[i] : i \in 0 .. n - 1} = DOMAIN L.nodes
        <3>1. ASSUME NEW i \in 0 .. n - 1 PROVE Walk(L)[i] \in DOMAIN L.nodes
            <4>1. i \in 0 .. n /\ i + 1 \in 1 .. n
                BY <2>4
            <4> QED BY <2>5, <2>7, <4>1
        <3>2. ASSUME NEW d \in DOMAIN L.nodes PROVE \E i \in 0 .. n - 1 : d = Walk(L)[i]
            <4>1. PICK j \in 1 .. n : d = c[j]
                BY <2>8
            <4>2. j - 1 \in 0 .. n - 1 /\ j - 1 \in 0 .. n /\ (j - 1) + 1 = j
                BY <2>4
            <4>3. d = Walk(L)[j-1]
                BY <2>5, <4>1, <4>2
            <4> QED BY <4>2, <4>3
        <3> QED BY <3>1, <3>2
    <2>10. Walk(L)[n] = NULL /\ WalkBack(L)[n] = NULL
        <3>1. n \in 0 .. n /\ n - n = 0
            BY <2>4
        <3> QED BY <2>5, <2>6, <3>1
    <2>11. ASSUME NEW i \in 0 .. n - 1 PROVE WalkBack(L)[n-1-i] = Walk(L)[i]
        <3>1. i \in 0 .. n /\ n - 1 - i \in 0 .. n /\ n - (n - 1 - i) = i + 1
            BY <2>4
        <3>2. WalkBack(L)[n-1-i] = c[n - (n-1-i)]
            BY <2>5, <3>1
        <3> QED BY <2>5, <3>1, <3>2
    <2> QED BY <1>2, <2>4, <2>9, <2>10, <2>11, Zenon DEF Coherent
<1> QED BY <1>1, <1>2

(* The virtual calls.                                                      *)
LEMMA AddKeeps ==
    ASSUME NEW L, NEW s, Keeps(L, s), NEW x \in Items
    PROVE  /\ Keeps(AddTo(L, x),
                    IF Kind(L) = "array" /\ Len(s) >= Capacity THEN s ELSE Append(s, x))
           /\ Kind(AddTo(L, x)) = Kind(L)
<1>1. CASE Kind(L) = "array"
    <2>1. Slots(ArrayAdd(L, x), IF Len(s) < Capacity THEN Append(s, x) ELSE s)
        BY <1>1, KeepsKind, ArrayAddSlots
    <2>2. Len(s) < Capacity <=> ~ (Len(s) >= Capacity)
        BY KeepsKind, ArrayListAssumption
    <2>3. AddTo(L, x) = ArrayAdd(L, x)
        BY <1>1 DEF AddTo
    <2>4. Kind(ArrayAdd(L, x)) = "array"
        BY <2>1, ArrayParts DEF Kind
    <2> QED BY <1>1, <2>1, <2>2, <2>3, <2>4 DEF Keeps
<1>2. CASE Kind(L) # "array"
    <2>1. Links(LinkedAdd(L, x), Append(s, x))
        BY <1>2, KeepsKind, LinkedAddLinks
    <2>2. AddTo(L, x) = LinkedAdd(L, x)
        BY <1>2 DEF AddTo
    <2>3. Kind(LinkedAdd(L, x)) = "linked" /\ Kind(L) = "linked"
        BY <1>2, <2>1, KeepsKind, LinkedParts DEF Kind, Links
    <2> QED BY <1>2, <2>1, <2>2, <2>3 DEF Keeps
<1> QED BY <1>1, <1>2

InsertedIn(b, s, x, index) ==
    IF b /\ (Len(s) >= Capacity \/ index > Len(s)) THEN s
    ELSE IF index > Len(s) THEN Append(s, x) ELSE Abs!Seqs!InsertAt(s, index + 1, x)

LEMMA InsertKeeps ==
    ASSUME NEW L, NEW s, Keeps(L, s), NEW x \in Items, NEW index \in Nat
    PROVE  /\ Keeps(InsertInto(L, x, index), InsertedIn(Kind(L) = "array", s, x, index))
           /\ Kind(InsertInto(L, x, index)) = Kind(L)
<1>0. s \in Seq(Items) /\ Len(s) \in Nat /\ Capacity \in Nat
    BY KeepsKind, ArrayListAssumption
<1>1. ASSUME index <= Len(s)
      PROVE  Abs!Seqs!InsertAt(s, index + 1, x) = Put(s, index + 1, x)
    <2>1. index + 1 \in 1 .. Len(s) + 1
        BY <1>0, <1>1
    <2> QED BY <1>0, <2>1, PutInserts
<1>2. CASE Kind(L) = "array"
    <2>1. Slots(ArrayInsert(L, x, index),
                IF index <= Len(s) /\ Len(s) < Capacity THEN Put(s, index + 1, x) ELSE s)
        BY <1>2, KeepsKind, ArrayInsertSlots
    <2>2. InsertedIn(TRUE, s, x, index) =
             IF index <= Len(s) /\ Len(s) < Capacity THEN Put(s, index + 1, x) ELSE s
        <3>1. CASE index <= Len(s) /\ Len(s) < Capacity
            <4>1. ~ (Len(s) >= Capacity) /\ ~ (index > Len(s))
                BY <1>0, <3>1
            <4> QED BY <1>1, <3>1, <4>1 DEF InsertedIn
        <3>2. CASE ~ (index <= Len(s) /\ Len(s) < Capacity)
            <4>1. Len(s) >= Capacity \/ index > Len(s)
                BY <1>0, <3>2
            <4> QED BY <3>2, <4>1 DEF InsertedIn
        <3> QED BY <3>1, <3>2
    <2>3. InsertedIn(Kind(L) = "array", s, x, index) = InsertedIn(TRUE, s, x, index)
        BY <1>2 DEF InsertedIn
    <2>4. InsertInto(L, x, index) = ArrayInsert(L, x, index)
        BY <1>2 DEF InsertInto
    <2>5. Kind(ArrayInsert(L, x, index)) = "array"
        BY <2>1, ArrayParts DEF Kind
    <2> QED BY <1>2, <2>1, <2>2, <2>3, <2>4, <2>5 DEF Keeps
<1>3. CASE Kind(L) # "array"
    <2> DEFINE k == IF index < Len(s) THEN index + 1 ELSE Len(s) + 1
    <2>1. Links(LinkedInsert(L, x, index), Put(s, k, x))
        BY <1>3, KeepsKind, LinkedInsertLinks
    <2>2. InsertedIn(FALSE, s, x, index) = Put(s, k, x)
        <3>1. CASE index > Len(s)
            <4>1. k = Len(s) + 1 /\ k \in 1 .. Len(s) + 1
                BY <1>0, <3>1
            <4>2. Append(s, x) = Put(s, k, x)
                BY <1>0, <4>1, PutInserts
            <4> QED BY <3>1, <4>2 DEF InsertedIn
        <3>2. CASE ~ (index > Len(s))
            <4>1. k = index + 1 /\ index <= Len(s)
                BY <1>0, <3>2
            <4> HIDE DEF k
            <4> QED BY <1>1, <3>2, <4>1 DEF InsertedIn
        <3> QED BY <3>1, <3>2
    <2> HIDE DEF k
    <2>3. InsertedIn(Kind(L) = "array", s, x, index) = InsertedIn(FALSE, s, x, index)
        BY <1>3 DEF InsertedIn
    <2>4. InsertInto(L, x, index) = LinkedInsert(L, x, index)
        BY <1>3 DEF InsertInto
    <2>5. Kind(LinkedInsert(L, x, index)) = "linked" /\ Kind(L) = "linked"
        BY <1>3, <2>1, KeepsKind, LinkedParts DEF Kind, Links
    <2> QED BY <1>3, <2>1, <2>2, <2>3, <2>4, <2>5 DEF Keeps
<1> QED BY <1>2, <1>3

(* s when x is removed from a list, of the kind array or not, that holds s. *)
RemovedFrom(b, s, x) ==
    IF b THEN LessAt(LessAt(s, First(s, x)), First(s, x)) ELSE Less(s, x)

LEMMA RemoveKeeps ==
    ASSUME NEW L, NEW s, Keeps(L, s), NEW x
    PROVE  /\ Keeps(RemoveFrom(L, x), RemovedFrom(Kind(L) = "array", s, x))
           /\ Kind(RemoveFrom(L, x)) = Kind(L)
<1>1. CASE Kind(L) = "array"
    <2> DEFINE t == LessAt(LessAt(s, First(s, x)), First(s, x))
    <2>1. t = RemovedFrom(Kind(L) = "array", s, x)
        BY <1>1 DEF RemovedFrom
    <2> HIDE DEF t
    <2>2. Slots(ArrayRemove(L, x), t)
        BY <1>1, KeepsKind, ArrayRemoveSlots DEF t
    <2>3. RemoveFrom(L, x) = ArrayRemove(L, x)
        BY <1>1 DEF RemoveFrom
    <2>4. Kind(ArrayRemove(L, x)) = "array"
        BY <2>2, ArrayParts DEF Kind
    <2> QED BY <1>1, <2>1, <2>2, <2>3, <2>4 DEF Keeps
<1>2. CASE Kind(L) # "array"
    <2>1. Links(LinkedRemove(L, x), Less(s, x))
        BY <1>2, KeepsKind, LinkedRemoveLinks
    <2>2. RemoveFrom(L, x) = LinkedRemove(L, x)
        BY <1>2 DEF RemoveFrom
    <2>3. Kind(LinkedRemove(L, x)) = "linked" /\ Kind(L) = "linked"
        BY <1>2, <2>1, KeepsKind, LinkedParts DEF Kind, Links
    <2> QED BY <1>2, <2>1, <2>2, <2>3 DEF Keeps, RemovedFrom
<1> QED BY <1>1, <1>2

(* A list has no item at an index past its last.                           *)
LEMMA ItemMissing ==
    ASSUME NEW L, NEW s, Links(L, s), NEW index \in Nat
    PROVE  /\ index >= Len(s) => _item(L, index) = NULL
           /\ index < Len(s) => _item(L, index) # NULL
<1>1. PICK c : Chain(L, c, s)
    BY DEF Links
<1>2. L \in LinkedLists /\ s \in Seq(Items) /\ Len(s) \in Nat
    BY DEF Links
<1>3. index >= Len(s) => _item(L, index) = NULL
    BY <1>1, <1>2, ItemFollows
<1>4. ASSUME index < Len(s) PROVE _item(L, index) # NULL
    <2>1. index + 1 \in 1 .. Len(s) /\ index + 1 \in 1 .. Len(s) + 1 /\ (index + 1) - 1 = index
        BY <1>2, <1>4
    <2>2. _item(L, (index + 1) - 1) = c[index + 1]
        BY <1>1, <1>2, <2>1, ItemFollows
    <2>3. \A i \in 1 .. Len(s) : c[i] # NULL
        BY <1>1, <1>2, ChainParts
    <2> QED BY <2>1, <2>2, <2>3
<1> QED BY <1>3, <1>4

LEMMA RemoveIndexKeeps ==
    ASSUME NEW L, NEW s, Keeps(L, s), NEW index \in Nat
    PROVE  /\ Keeps(RemoveIndexFrom(L, index), LessAt(s, index))
           /\ Kind(RemoveIndexFrom(L, index)) = Kind(L)
<1>0. index \in Int /\ s \in Seq(Items) /\ Len(s) \in Nat
    BY KeepsKind
<1>1. CASE Kind(L) = "array"
    <2>1. Slots(ArrayRemoveAt(L, index), LessAt(s, index))
        BY <1>1, <1>0, KeepsKind, ArrayRemoveAtSlots DEF LessAt
    <2>3. RemoveIndexFrom(L, index) = ArrayRemoveAt(L, index)
        BY <1>1 DEF RemoveIndexFrom
    <2>4. Kind(ArrayRemoveAt(L, index)) = "array"
        BY <2>1, ArrayParts DEF Kind
    <2> QED BY <1>1, <2>1, <2>3, <2>4 DEF Keeps
<1>2. CASE Kind(L) # "array"
    <2>1. Links(L, s)
        BY <1>2, KeepsKind
    <2>2. RemoveIndexFrom(L, index) = LinkedRemoveAt(L, index)
        BY <1>2 DEF RemoveIndexFrom
    <2>3. Links(LinkedRemoveAt(L, index), LessAt(s, index))
        <3>1. CASE index \in 0 .. Len(s) - 1
            BY <2>1, <3>1, LinkedRemoveAtLinks DEF LessAt
        <3>2. CASE index \notin 0 .. Len(s) - 1
            <4>1. _item(L, index) = NULL
                BY <1>0, <2>1, <3>2, ItemMissing
            <4>2. LinkedRemoveAt(L, index) = L
                BY <4>1 DEF LinkedRemoveAt, _remove
            <4> QED BY <2>1, <3>2, <4>2 DEF LessAt
        <3> QED BY <3>1, <3>2
    <2>4. Kind(LinkedRemoveAt(L, index)) = "linked" /\ Kind(L) = "linked"
        BY <1>2, <2>3, KeepsKind, LinkedParts DEF Kind, Links
    <2> QED BY <2>2, <2>3, <2>4 DEF Keeps
<1> QED BY <1>1, <1>2

(* s when x is set at an index.                                            *)
SetIn(b, s, index, x) ==
    IF b /\ index \in 0 .. Len(s) - 1 THEN [s EXCEPT ![index+1] = x] ELSE s

LEMMA SetItemKeeps ==
    ASSUME NEW L, NEW s, Keeps(L, s), NEW x \in Items, NEW index \in Nat,
           Kind(L) = "array" => index <= Capacity
    PROVE  /\ Keeps(SetItemOf(L, index, x), SetIn(Kind(L) = "array", s, index, x))
           /\ Kind(SetItemOf(L, index, x)) = Kind(L)
<1>0. s \in Seq(Items) /\ Len(s) \in Nat /\ Capacity \in Nat
    BY KeepsKind, ArrayListAssumption
<1>1. CASE Kind(L) = "array"
    <2> DEFINE t == SetIn(Kind(L) = "array", s, index, x)
    <2>1. Slots(ArraySetItem(L, index, x), t)
        <3>1. CASE index \in 0 .. Len(s) - 1
            BY <1>1, <3>1, KeepsKind, ArraySetItemSlots DEF SetIn
        <3>2. CASE index \notin 0 .. Len(s) - 1
            <4>1. index \in Len(s) .. Capacity
                BY <1>0, <1>1, <3>2
            <4> QED BY <1>1, <3>2, <4>1, KeepsKind, ArraySetSpareSlots DEF SetIn
        <3> QED BY <3>1, <3>2
    <2> HIDE DEF t
    <2>2. SetItemOf(L, index, x) = ArraySetItem(L, index, x)
        BY <1>1 DEF SetItemOf
    <2>3. Kind(ArraySetItem(L, index, x)) = "array"
        BY <2>1, ArrayParts DEF Kind
    <2> QED BY <1>1, <2>1, <2>2, <2>3 DEF Keeps, t
<1>2. CASE Kind(L) # "array"
    <2>1. SetItemOf(L, index, x) = L
        BY <1>2 DEF SetItemOf
    <2> QED BY <1>2, <2>1 DEF SetIn
<1> QED BY <1>1, <1>2

LEMMA ClearKeeps ==
    ASSUME NEW L, NEW s, Keeps(L, s)
    PROVE  Keeps(Cleared(L), <<>>) /\ Kind(Cleared(L)) = Kind(L)
<1>1. CASE Kind(L) = "array"
    <2>1. Slots(ArrayClear(L), <<>>)
        BY <1>1, KeepsKind, ArrayClearSlots
    <2>2. Cleared(L) = ArrayClear(L)
        BY <1>1 DEF Cleared
    <2>3. Kind(ArrayClear(L)) = "array"
        BY <2>1, ArrayParts DEF Kind
    <2> QED BY <1>1, <2>1, <2>2, <2>3 DEF Keeps
<1>2. CASE Kind(L) # "array"
    <2>1. Links(LinkedClear(L), <<>>)
        BY <1>2, KeepsKind, LinkedClearLinks
    <2>2. Cleared(L) = LinkedClear(L)
        BY <1>2 DEF Cleared
    <2>3. Kind(LinkedClear(L)) = "linked" /\ Kind(L) = "linked"
        BY <1>2, <2>1, KeepsKind, LinkedParts DEF Kind, Links
    <2> QED BY <2>1, <2>2, <2>3 DEF Keeps
<1> QED BY <1>1, <1>2

(* CopyTo has inserted the first i items after i rounds.                   *)
LEMMA CopyKeeps ==
    ASSUME NEW L, NEW s, Keeps(L, s)
    PROVE  /\ Keeps(CopyTo(L, NewLinkedList), s)
           /\ Kind(CopyTo(L, NewLinkedList)) = "linked"
<1> DEFINE n == Len(s)
           dest == NewLinkedList
           G == [i \in 1 .. n |-> [M \in Whole |-> LinkedInsert(M, s[i], i - 1)]]
           copied == CHOOSE copied : copied = [i \in 0 .. n |->
               IF i = 0 THEN dest ELSE InsertInto(copied[i-1], ItemOf(L, i - 1), i - 1)]
<1>1. /\ n \in Nat /\ s \in Seq(Items) /\ L.count = n
      /\ \A i \in 1 .. n : s[i] \in Items /\ i - 1 \in Nat
    BY KeepsKind
<1>2. \A i \in 1 .. n : ItemOf(L, i - 1) = s[i]
    <2>1. ASSUME NEW i \in 1 .. n PROVE ItemOf(L, i - 1) = s[i]
        <3>1. i - 1 \in 0 .. Len(s) - 1 /\ (i - 1) + 1 = i
            BY <1>1
        <3>2. ItemOf(L, i - 1) = s[(i - 1) + 1]
            BY <3>1, KeepsItems
        <3> QED BY <3>1, <3>2
    <2> QED BY <2>1
<1>3. dest \in Whole
    BY NewLinkedListLinks DEF Whole, Links
<1>4. ASSUME NEW M \in Whole, NEW i \in 1 .. n
      PROVE  LinkedInsert(M, s[i], i - 1) \in Whole
    <2>1. PICK t : Links(M, t)
        BY DEF Whole
    <2> DEFINE R == LinkedInsert(M, s[i], i - 1)
               u == Put(t, IF i - 1 < Len(t) THEN (i - 1) + 1 ELSE Len(t) + 1, s[i])
    <2>2. s[i] \in Items /\ i - 1 \in Nat
        BY <1>1
    <2>3. Links(R, u)
        BY <2>1, <2>2, LinkedInsertLinks
    <2> HIDE DEF R, u
    <2>4. R \in Whole
        BY <2>3 DEF Whole, Links
    <2> QED BY <2>4 DEF R
<1>5. G \in [1 .. n -> [Whole -> Whole]]
    BY <1>4
<1>6. PICK f : IsWalk(f, n, Whole, dest, G)
    <2> HIDE DEF G, n, dest
    <2> QED BY <1>1, <1>3, <1>5, WalkExists, Zenon
<1>7. \A M \in Whole : \A x, i : InsertInto(M, x, i) = LinkedInsert(M, x, i)
    BY LinkedParts DEF Whole, InsertInto, Kind
<1>8. f = [i \in 0 .. n |->
             IF i = 0 THEN dest ELSE InsertInto(f[i-1], ItemOf(L, i - 1), i - 1)]
    <2>1. f \in [0 .. n -> Whole] /\ f[0] = dest
        BY <1>6 DEF IsWalk
    <2>2. ASSUME NEW i \in 1 .. n
          PROVE  f[i] = InsertInto(f[i-1], ItemOf(L, i - 1), i - 1)
        <3>1. f[i] = G[i][f[i-1]]
            BY <1>6 DEF IsWalk
        <3>2. i - 1 \in 0 .. n
            BY <1>1
        <3>3. f[i-1] \in Whole
            BY <2>1, <3>2
        <3>4. f[i] = LinkedInsert(f[i-1], s[i], i - 1)
            BY <3>1, <3>3
        <3> HIDE DEF G, n
        <3> QED BY <1>2, <1>7, <3>3, <3>4
    <2> HIDE DEF n, dest
    <2> QED BY <1>1, <2>1, <2>2
<1>9. copied = [i \in 0 .. n |->
             IF i = 0 THEN dest ELSE InsertInto(copied[i-1], ItemOf(L, i - 1), i - 1)]
    <2> HIDE DEF n, dest
    <2> QED BY <1>8, Zenon
<1>10. CopyTo(L, dest) = copied[n]
    <2> HIDE DEF n, dest
    <2> QED BY <1>1, Zenon DEF CopyTo
<1> HIDE DEF copied, n, dest, G
<1>11. /\ copied[0] = dest
       /\ \A i \in 1 .. n : copied[i] = InsertInto(copied[i-1], s[i], i - 1)
    <2>1. copied[0] = dest
        BY <1>1, <1>9
    <2>2. ASSUME NEW i \in 1 .. n PROVE copied[i] = InsertInto(copied[i-1], s[i], i - 1)
        <3>1. i \in 0 .. n /\ i # 0
            BY <1>1
        <3>2. copied[i] = InsertInto(copied[i-1], ItemOf(L, i - 1), i - 1)
            BY <1>9, <3>1
        <3> QED BY <1>2, <3>2
    <2> QED BY <2>1, <2>2
<1> DEFINE S == {i \in 0 .. n : Links(copied[i], SubSeq(s, 1, i))}
<1>12. 0 \in S
    <2>1. SubSeq(s, 1, 0) = <<>>
        BY <1>1
    <2>2. Links(copied[0], SubSeq(s, 1, 0))
        BY <1>11, <2>1, NewLinkedListLinks DEF dest
    <2>3. 0 \in 0 .. n
        BY <1>1
    <2> QED BY <2>2, <2>3
<1>13. ASSUME NEW i \in 1 .. n, i - 1 \in S PROVE i \in S
    <2> DEFINE t == SubSeq(s, 1, i - 1)
    <2>1. Links(copied[i-1], t) /\ copied[i-1] \in Whole
        BY <1>13 DEF Whole, Links
    <2>2. t \in Seq(Items) /\ Len(t) = i - 1 /\ \A j \in 1 .. i - 1 : t[j] = s[j]
        BY <1>1 DEF n
    <2> HIDE DEF t
    <2>3. Links(LinkedInsert(copied[i-1], s[i], i - 1),
                Put(t, IF i - 1 < Len(t) THEN (i - 1) + 1 ELSE Len(t) + 1, s[i]))
        BY <1>1, <2>1, LinkedInsertLinks
    <2>4. (IF i - 1 < Len(t) THEN (i - 1) + 1 ELSE Len(t) + 1) = i /\ i \in 1 .. Len(t) + 1
        BY <1>1, <2>2
    <2>5. Put(t, i, s[i]) = SubSeq(s, 1, i)
        <3>1. SubSeq(s, 1, i) \in Seq(Items) /\ Len(SubSeq(s, 1, i)) = i
            BY <1>1 DEF n
        <3>2. \A j \in 1 .. i : SubSeq(s, 1, i)[j] = s[j]
            BY <1>1 DEF n
        <3>3. Put(t, i, s[i]) \in Seq(Items) /\ Len(Put(t, i, s[i])) = i
            <4>1. Len(Put(t, i, s[i])) = Len(t) + 1 /\ Put(t, i, s[i]) \in Seq(Items)
                BY <1>1, <2>2, <2>4, PutInserts
            <4> QED BY <1>1, <2>2, <4>1
        <3>4. ASSUME NEW j \in 1 .. i PROVE Put(t, i, s[i])[j] = s[j]
            <4>1. j \in 1 .. Len(t) + 1 /\ (j < i => j \in 1 .. i - 1)
                BY <1>1, <2>2
            <4>2. Put(t, i, s[i])[j] = IF j < i THEN t[j] ELSE IF j = i THEN s[i] ELSE t[j-1]
                BY <4>1 DEF Put
            <4> QED BY <1>1, <2>2, <4>1, <4>2
        <3> QED BY <3>1, <3>2, <3>3, <3>4, SeqEqual
    <2>6. copied[i] = LinkedInsert(copied[i-1], s[i], i - 1)
        BY <1>7, <1>11, <2>1
    <2>7. i \in 0 .. n
        BY <1>1
    <2> QED BY <2>3, <2>4, <2>5, <2>6, <2>7
<1>14. n \in S
    <2> HIDE DEF S
    <2>1. \A i \in 0 .. n : i \in S
        BY <1>1, <1>12, <1>13, WalkInduction
    <2> QED BY <1>1, <2>1
<1>15. SubSeq(s, 1, n) = s
    BY <1>1, SubSeqFull DEF n
<1>16. Links(copied[n], s)
    BY <1>14, <1>15
<1>17. Kind(copied[n]) = "linked"
    BY <1>16, LinkedParts DEF Links, Kind
<1> QED BY <1>10, <1>16, <1>17 DEF Keeps, dest

-----------------------------------------------------------------------------
(* A list that holds different members of S.                               *)
Distinct(s) == \A i, j \in 1 .. Len(s) : s[i] = s[j] => i = j

Kept(L, S) ==
    Keeps(L, Contents(L)) /\ Contents(L) \in Seq(S) /\ Distinct(Contents(L))

LEMMA KeptBy ==
    ASSUME NEW L, NEW S, NEW s \in Seq(S), Keeps(L, s), Distinct(s)
    PROVE  Kept(L, S) /\ Contents(L) = s
BY KeepsItems DEF Kept

LEMMA DistinctPut ==
    ASSUME NEW S, NEW s \in Seq(S), Distinct(s), NEW x \in S, First(s, x) < 0,
           S \subseteq Items, NEW k \in 1 .. Len(s) + 1
    PROVE  Distinct(Put(s, k, x))
<1> DEFINE n == Len(s)
           t == Put(s, k, x)
           old(i) == IF i < k THEN i ELSE i - 1
<1>1. n \in Nat /\ k \in 1 .. n + 1
    OBVIOUS
<1>2. \A i \in 1 .. n : s[i] # x
    <2>1. s \in Seq(Items)
        OBVIOUS
    <2> QED BY <1>1, <2>1, FirstFinds
<1>3. Len(t) = n + 1
    BY PutInserts
<1>4. t[k] = x
    BY <1>1 DEF Put
<1>5. ASSUME NEW i \in 1 .. n + 1, i # k
      PROVE  old(i) \in 1 .. n /\ t[i] = s[old(i)] /\ t[i] # x
    <2>1. old(i) \in 1 .. n
        BY <1>1, <1>5
    <2>2. t[i] = s[old(i)]
        BY <1>1, <1>5 DEF Put
    <2> QED BY <1>2, <2>1, <2>2
<1> HIDE DEF t, n
<1>6. ASSUME NEW i \in 1 .. n + 1, NEW j \in 1 .. n + 1, t[i] = t[j] PROVE i = j
    <2>1. CASE i = k
        BY <1>4, <1>5, <1>6, <2>1
    <2>2. CASE j = k
        BY <1>4, <1>5, <1>6, <2>2
    <2>3. CASE i # k /\ j # k
        <3>1. old(i) = old(j)
            <4>1. /\ old(i) \in 1 .. n /\ t[i] = s[old(i)]
                  /\ old(j) \in 1 .. n /\ t[j] = s[old(j)]
                BY <1>5, <2>3
            <4> HIDE DEF old
            <4> QED BY <1>6, <4>1 DEF Distinct, n
        <3> QED BY <1>1, <2>3, <3>1
    <2> QED BY <2>1, <2>2, <2>3
<1> QED BY <1>3, <1>6 DEF Distinct, t

LEMMA DistinctDrop ==
    ASSUME NEW S, NEW s \in Seq(S), Distinct(s), NEW k \in 1 .. Len(s)
    PROVE  /\ Distinct(Drop(s, k))
           /\ \A i \in 1 .. Len(s) - 1 : Drop(s, k)[i] # s[k]
<1> DEFINE n == Len(s)
           t == Drop(s, k)
           old(i) == IF i < k THEN i ELSE i + 1
<1>1. n \in Nat /\ k \in 1 .. n
    OBVIOUS
<1>2. Len(t) = n - 1
    BY DropRemoves
<1>3. ASSUME NEW i \in 1 .. n - 1
      PROVE  old(i) \in 1 .. n /\ t[i] = s[old(i)] /\ old(i) # k
    BY <1>1 DEF Drop
<1> HIDE DEF t, n
<1>4. ASSUME NEW i \in 1 .. n - 1, NEW j \in 1 .. n - 1, t[i] = t[j] PROVE i = j
    <2>1. old(i) = old(j)
        <3>1. /\ old(i) \in 1 .. n /\ t[i] = s[old(i)]
              /\ old(j) \in 1 .. n /\ t[j] = s[old(j)]
            BY <1>3
        <3> HIDE DEF old
        <3> QED BY <1>4, <3>1 DEF Distinct, n
    <2> QED BY <1>1, <2>1
<1>5. ASSUME NEW i \in 1 .. n - 1 PROVE t[i] # s[k]
    <2>1. old(i) \in 1 .. n /\ t[i] = s[old(i)] /\ old(i) # k
        BY <1>3
    <2> HIDE DEF old
    <2> QED BY <1>1, <2>1 DEF Distinct, n
<1> QED BY <1>2, <1>4, <1>5 DEF Distinct, t, n

LEMMA AddKept ==
    ASSUME NEW S, S \subseteq Items, NEW L, Kept(L, S), NEW x \in S, IndexIn(L, x) < 0
    PROVE  LET s == Contents(L)
           IN  /\ Kept(AddTo(L, x), S)
               /\ Kind(AddTo(L, x)) = Kind(L)
               /\ Contents(AddTo(L, x)) =
                     IF Kind(L) = "array" /\ Len(s) >= Capacity THEN s ELSE Append(s, x)
<1> DEFINE s == Contents(L)
           t == IF Kind(L) = "array" /\ Len(s) >= Capacity THEN s ELSE Append(s, x)
           R == AddTo(L, x)
<1>1. Keeps(L, s) /\ s \in Seq(S) /\ Distinct(s)
    BY DEF Kept
<1> HIDE DEF s
<1>2. x \in Items /\ First(s, x) < 0
    BY <1>1, KeepsItems
<1>3. Keeps(R, t) /\ Kind(R) = Kind(L)
    BY <1>1, <1>2, AddKeeps
<1>4. t \in Seq(S) /\ Distinct(t)
    <2>1. Append(s, x) \in Seq(S)
        BY <1>1
    <2>2. Len(s) + 1 \in 1 .. Len(s) + 1
        BY <1>1
    <2>3. Append(s, x) = Put(s, Len(s) + 1, x)
        BY <1>1, <2>2, PutInserts
    <2>4. Distinct(Append(s, x))
        BY <1>1, <1>2, <2>2, <2>3, DistinctPut
    <2> QED BY <1>1, <2>1, <2>4
<1> HIDE DEF t, R
<1>5. Kept(R, S) /\ Contents(R) = t
    BY <1>3, <1>4, KeptBy
<1> QED BY <1>3, <1>5 DEF R, t, s

LEMMA InsertKept ==
    ASSUME NEW S, S \subseteq Items, NEW L, Kept(L, S), NEW x \in S, IndexIn(L, x) < 0,
           NEW index \in Nat
    PROVE  /\ Kept(InsertInto(L, x, index), S)
           /\ Kind(InsertInto(L, x, index)) = Kind(L)
           /\ Contents(InsertInto(L, x, index)) =
                 InsertedIn(Kind(L) = "array", Contents(L), x, index)
<1> DEFINE s == Contents(L)
           t == InsertedIn(Kind(L) = "array", s, x, index)
           R == InsertInto(L, x, index)
<1>1. Keeps(L, s) /\ s \in Seq(S) /\ Distinct(s) /\ Len(s) \in Nat
    BY DEF Kept
<1> HIDE DEF s
<1>2. x \in Items /\ First(s, x) < 0
    BY <1>1, KeepsItems
<1>3. Keeps(R, t) /\ Kind(R) = Kind(L)
    BY <1>1, <1>2, InsertKeeps
<1>4. t \in Seq(S) /\ Distinct(t)
    <2>1. \A k \in 1 .. Len(s) + 1 : Put(s, k, x) \in Seq(S) /\ Distinct(Put(s, k, x))
        BY <1>1, <1>2, PutInserts, DistinctPut
    <2>2. t = s \/ \E k \in 1 .. Len(s) + 1 : t = Put(s, k, x)
        <3>1. CASE index > Len(s)
            <4>1. Len(s) + 1 \in 1 .. Len(s) + 1
                BY <1>1
            <4>2. Append(s, x) = Put(s, Len(s) + 1, x)
                BY <1>1, <4>1, PutInserts
            <4> QED BY <3>1, <4>1, <4>2 DEF InsertedIn
        <3>2. CASE ~ (index > Len(s))
            <4>1. index + 1 \in 1 .. Len(s) + 1
                BY <1>1, <3>2
            <4>2. Abs!Seqs!InsertAt(s, index + 1, x) = Put(s, index + 1, x)
                BY <1>1, <4>1, PutInserts
            <4> QED BY <3>2, <4>1, <4>2 DEF InsertedIn
        <3> QED BY <3>1, <3>2
    <2> HIDE DEF t
    <2> QED BY <1>1, <2>1, <2>2
<1> HIDE DEF t, R
<1>5. Kept(R, S) /\ Contents(R) = t
    BY <1>3, <1>4, KeptBy
<1> QED BY <1>3, <1>5 DEF R, t, s

(* Taking out an element, when there is one, leaves the others distinct.   *)
LEMMA LessAtKept ==
    ASSUME NEW S, NEW s \in Seq(S), Distinct(s), NEW index \in Int
    PROVE  LessAt(s, index) \in Seq(S) /\ Distinct(LessAt(s, index))
<1>1. CASE index \in 0 .. Len(s) - 1
    <2>1. index + 1 \in 1 .. Len(s)
        BY <1>1
    <2> QED BY <1>1, <2>1, DropRemoves, DistinctDrop DEF LessAt
<1>2. CASE index \notin 0 .. Len(s) - 1
    BY <1>2 DEF LessAt
<1> QED BY <1>1, <1>2

(* Without the only x in it, a sequence is what Without asks for.          *)
LEMMA LessWithout ==
    ASSUME NEW S, S \subseteq Items, NEW s \in Seq(S), Distinct(s), NEW x
    PROVE  Less(s, x) \in Abs!Without(s, x)
<1> DEFINE t == Less(s, x)
           at == {i \in DOMAIN s : s[i] = x}
<1>1. s \in Seq(Items) /\ Len(s) \in Nat
    OBVIOUS
<1>2. /\ \A j \in DOMAIN t : t[j] # x
      /\ t \in {s} \cup {Abs!Seqs!RemoveAt(s, i) : i \in at}
    <2>1. CASE First(s, x) < 0
        <3>1. t = s /\ \A i \in 1 .. Len(s) : s[i] # x
            BY <1>1, <2>1, FirstFinds DEF Less
        <3>2. DOMAIN s = 1 .. Len(s)
            BY <1>1
        <3> HIDE DEF t
        <3> QED BY <1>1, <3>1, <3>2
    <2>2. CASE ~ (First(s, x) < 0)
        <3>1. PICK k \in 1 .. Len(s) : k = First(s, x) + 1 /\ s[k] = x
            BY <1>1, <2>2, FirstFinds
        <3>2. t = Drop(s, k)
            BY <2>2, <3>1 DEF Less
        <3> HIDE DEF t
        <3>3. t \in Seq(S) /\ Len(t) = Len(s) - 1 /\ t = Abs!Seqs!RemoveAt(s, k)
            BY <1>1, <3>2, DropRemoves
        <3>4. \A i \in 1 .. Len(s) - 1 : t[i] # x
            BY <1>1, <3>1, <3>2, DistinctDrop
        <3>5. DOMAIN t = 1 .. Len(s) - 1
            BY <3>3
        <3>6. k \in at
            BY <1>1, <3>1
        <3> HIDE DEF at
        <3> QED BY <3>3, <3>4, <3>5, <3>6
    <2> QED BY <2>1, <2>2
<1> QED BY <1>2 DEF Abs!Without

(* Remove of an array takes one section only when no other is behind it.   *)
LEMMA RemovedOnce ==
    ASSUME NEW s \in Seq(Items), NEW x, First(s, x) \notin 0 .. Len(s) - 2
    PROVE  LessAt(LessAt(s, First(s, x)), First(s, x)) = Less(s, x)
<1> DEFINE loc == First(s, x)
           t == LessAt(s, loc)
<1>1. Len(s) \in Nat /\ (loc = -1 \/ (loc \in 0 .. Len(s) - 1 /\ loc + 1 \in 1 .. Len(s)))
    BY FirstFinds
<1>2. t = Less(s, x)
    <2>1. CASE loc < 0
        BY <1>1, <2>1 DEF LessAt, Less
    <2>2. CASE ~ (loc < 0)
        BY <1>1, <2>2 DEF LessAt, Less
    <2> QED BY <2>1, <2>2
<1>3. loc \notin 0 .. Len(t) - 1
    <2>1. CASE loc = -1
        BY <1>1, <2>1 DEF LessAt
    <2>2. CASE loc # -1
        <3>1. loc \in 0 .. Len(s) - 1 /\ loc + 1 \in 1 .. Len(s) /\ loc \notin 0 .. Len(s) - 2
            BY <1>1, <2>2
        <3>2. t = Drop(s, loc + 1)
            BY <3>1 DEF LessAt
        <3> HIDE DEF loc, t
        <3>3. Len(t) = Len(s) - 1
            BY <3>1, <3>2, DropRemoves
        <3> QED BY <1>1, <3>1, <3>3
    <2> QED BY <2>1, <2>2
<1> HIDE DEF t, loc
<1>4. LessAt(t, loc) = t
    BY <1>3 DEF LessAt
<1> QED BY <1>2, <1>4 DEF t, loc

LEMMA RemoveKept ==
    ASSUME NEW S, S \subseteq Items, NEW L, Kept(L, S), NEW x
    PROVE  /\ Kept(RemoveFrom(L, x), S)
           /\ Kind(RemoveFrom(L, x)) = Kind(L)
           /\ ~ RemovesTwo(L, x) =>
                 Contents(RemoveFrom(L, x)) \in Abs!Without(Contents(L), x)
<1> DEFINE s == Contents(L)
           b == Kind(L) = "array"
           t == RemovedFrom(b, s, x)
           R == RemoveFrom(L, x)
<1>1. Keeps(L, s) /\ s \in Seq(S) /\ Distinct(s) /\ Len(s) \in Nat /\ s \in Seq(Items)
    BY DEF Kept
<1>2. IndexIn(L, x) = First(s, x) /\ L.count = Len(s)
    BY <1>1, KeepsItems, KeepsKind
<1> HIDE DEF s
<1>3. First(s, x) \in Int
    BY <1>1, FirstFinds
<1>4. Keeps(R, t) /\ Kind(R) = Kind(L)
    BY <1>1, RemoveKeeps
<1> DEFINE u == LessAt(LessAt(s, First(s, x)), First(s, x))
           v == Less(s, x)
<1>5. u \in Seq(S) /\ Distinct(u)
    BY <1>1, <1>3, LessAtKept
<1>6. v \in Abs!Without(s, x)
    BY <1>1, LessWithout
<1>7. v \in Seq(S) /\ Distinct(v)
    <2>1. v = LessAt(s, First(s, x))
        <3>1. First(s, x) = -1 \/ (First(s, x) \in 0 .. Len(s) - 1 /\ ~ (First(s, x) < 0))
            BY <1>1, FirstFinds
        <3> QED BY <1>1, <3>1 DEF Less, LessAt
    <2> QED BY <1>1, <1>3, <2>1, LessAtKept
<1>8. t = IF b THEN u ELSE v
    BY DEF RemovedFrom
<1>9. ~ RemovesTwo(L, x) => t = v
    <2>1. ASSUME ~ RemovesTwo(L, x), b PROVE u = v
        <3>1. First(s, x) \notin 0 .. Len(s) - 2
            BY <1>2, <2>1 DEF RemovesTwo
        <3> QED BY <1>1, <3>1, RemovedOnce
    <2> HIDE DEF u, v, t, b
    <2> QED BY <1>8, <2>1
<1> HIDE DEF t, R, u, v
<1>10. t \in Seq(S) /\ Distinct(t)
    BY <1>5, <1>7, <1>8
<1>11. Kept(R, S) /\ Contents(R) = t
    BY <1>4, <1>10, KeptBy
<1> QED BY <1>4, <1>6, <1>9, <1>11 DEF R, s

LEMMA RemoveIndexKept ==
    ASSUME NEW S, S \subseteq Items, NEW L, Kept(L, S), NEW index \in Nat
    PROVE  /\ Kept(RemoveIndexFrom(L, index), S)
           /\ Kind(RemoveIndexFrom(L, index)) = Kind(L)
           /\ index < L.count =>
                 /\ index \in 0 .. Len(Contents(L)) - 1
                 /\ Contents(RemoveIndexFrom(L, index)) =
                       Abs!Seqs!RemoveAt(Contents(L), index + 1)
<1> DEFINE s == Contents(L)
           t == LessAt(s, index)
           R == RemoveIndexFrom(L, index)
<1>1. Keeps(L, s) /\ s \in Seq(S) /\ Distinct(s) /\ Len(s) \in Nat
    BY DEF Kept
<1> HIDE DEF s
<1>2. Keeps(R, t) /\ Kind(R) = Kind(L) /\ L.count = Len(s)
    BY <1>1, RemoveIndexKeeps, KeepsKind
<1>3. t \in Seq(S) /\ Distinct(t)
    <2>1. index \in Int
        OBVIOUS
    <2> QED BY <1>1, <2>1, LessAtKept
<1>4. ASSUME index < L.count
      PROVE  index \in 0 .. Len(s) - 1 /\ t = Abs!Seqs!RemoveAt(s, index + 1)
    <2>1. index \in 0 .. Len(s) - 1 /\ index + 1 \in 1 .. Len(s)
        BY <1>1, <1>2, <1>4
    <2> QED BY <1>1, <2>1, DropRemoves DEF LessAt
<1> HIDE DEF t, R
<1>5. Kept(R, S) /\ Contents(R) = t
    BY <1>2, <1>3, KeptBy
<1> QED BY <1>2, <1>4, <1>5 DEF R, s

LEMMA ClearKept ==
    ASSUME NEW S, NEW L, Kept(L, S)
    PROVE  Kept(Cleared(L), S) /\ Kind(Cleared(L)) = Kind(L) /\ Contents(Cleared(L)) = <<>>
<1>1. Keeps(L, Contents(L))
    BY DEF Kept
<1> DEFINE R == Cleared(L)
<1>2. Keeps(R, <<>>) /\ Kind(R) = Kind(L)
    BY <1>1, ClearKeeps
<1>3. <<>> \in Seq(S) /\ Distinct(<<>>)
    BY DEF Distinct
<1> HIDE DEF R
<1>4. Kept(R, S) /\ Contents(R) = <<>>
    BY <1>2, <1>3, KeptBy
<1> QED BY <1>2, <1>4 DEF R

LEMMA CopyKept ==
    ASSUME NEW S, NEW L, Kept(L, S)
    PROVE  LET R == CopyTo(L, NewLinkedList)
           IN  Kept(R, S) /\ Kind(R) = "linked" /\ Contents(R) = Contents(L)
<1> DEFINE R == CopyTo(L, NewLinkedList)
           s == Contents(L)
<1>1. Keeps(L, s) /\ s \in Seq(S) /\ Distinct(s)
    BY DEF Kept
<1> HIDE DEF s
<1>2. Keeps(R, s) /\ Kind(R) = "linked"
    BY <1>1, CopyKeeps
<1> HIDE DEF R
<1>3. Kept(R, S) /\ Contents(R) = s
    BY <1>1, <1>2, KeptBy
<1> QED BY <1>2, <1>3 DEF R, s

-----------------------------------------------------------------------------
(* The actions.                                                            *)

(* Both lists are kept, in the same kind of list.                          *)
ListsInv ==
    /\ Kept(KernelSections, KernelItems)
    /\ Kept(ProcessSections, ProcessItems)
    /\ Kind(KernelSections) = Kind(ProcessSections)

LEMMA ItemsOfBoth ==
    /\ KernelItems \subseteq Items /\ ProcessItems \subseteq Items
    /\ \A x \in Items : x \notin KernelItems <=> x \in ProcessItems
BY SectionListAssumption DEF Items

(* A kept list answers for its contents.                                   *)
LEMMA KeptAnswers ==
    ASSUME NEW S, NEW L, Kept(L, S)
    PROVE  LET s == Contents(L)
           IN  /\ Keeps(L, s) /\ s \in Seq(S) /\ s \in Seq(Items) /\ Distinct(s)
               /\ L.count = Len(s)
               /\ Kind(L) \in {"array", "linked"}
               /\ \A i \in 0 .. Len(s) - 1 : ItemOf(L, i) = s[i+1]
               /\ \A x : IndexIn(L, x) = First(s, x)
<1> DEFINE s == Contents(L)
<1>1. Keeps(L, s) /\ s \in Seq(S) /\ Distinct(s)
    BY DEF Kept
<1> HIDE DEF s
<1> QED BY <1>1, KeepsKind, KeepsItems DEF s

LEMMA BothAnswer ==
    ASSUME ListsInv
    PROVE  LET ks == Contents(KernelSections)
               ps == Contents(ProcessSections)
           IN  /\ ks \in Seq(KernelItems) /\ KernelSections.count = Len(ks)
               /\ ps \in Seq(ProcessItems) /\ ProcessSections.count = Len(ps)
               /\ \A i \in 0 .. Len(ks) - 1 : ItemOf(KernelSections, i) = ks[i+1]
               /\ \A x : /\ IndexIn(KernelSections, x) = First(ks, x)
                         /\ IndexIn(ProcessSections, x) = First(ps, x)
               /\ \A x : /\ First(ks, x) \in Int /\ First(ps, x) \in Int
                         /\ IndexIn(KernelSections, x) \in Int
                         /\ IndexIn(ProcessSections, x) \in Int
<1> DEFINE ks == Contents(KernelSections)
           ps == Contents(ProcessSections)
<1>1. /\ ks \in Seq(KernelItems) /\ ks \in Seq(Items) /\ KernelSections.count = Len(ks)
      /\ \A i \in 0 .. Len(ks) - 1 : ItemOf(KernelSections, i) = ks[i+1]
      /\ \A x : IndexIn(KernelSections, x) = First(ks, x)
    BY KeptAnswers DEF ListsInv
<1>2. /\ ps \in Seq(ProcessItems) /\ ps \in Seq(Items) /\ ProcessSections.count = Len(ps)
      /\ \A x : IndexIn(ProcessSections, x) = First(ps, x)
    BY KeptAnswers DEF ListsInv
<1> HIDE DEF ks, ps
<1>3. \A x : First(ks, x) \in Int /\ First(ps, x) \in Int
    BY <1>1, <1>2, FirstFinds
<1> QED BY <1>1, <1>2, <1>3 DEF ks, ps

LEMMA NotRegistered ==
    ASSUME ListsInv, NEW x, ~ Registered(x)
    PROVE  IndexIn(KernelSections, x) < 0 /\ IndexIn(ProcessSections, x) < 0
BY BothAnswer DEF Registered

LEMMA InitLists ==
    ASSUME Init
    PROVE  ListsInv /\ Abs!Init
<1>1. Keeps(NewArrayList, <<>>) /\ Kind(NewArrayList) = "array"
    BY NewArrayListSlots DEF Keeps, Kind, NewArrayList
<1>2. ASSUME NEW S PROVE Kept(NewArrayList, S) /\ Contents(NewArrayList) = <<>>
    <2>1. <<>> \in Seq(S) /\ Distinct(<<>>)
        BY DEF Distinct
    <2> QED BY <1>1, <2>1, KeptBy
<1> QED BY <1>1, <1>2 DEF Init, ListsInv, Abs!Init

LEMMA AddLists ==
    ASSUME ListsInv, NEW x \in Items, Add(x)
    PROVE  ListsInv' /\ Abs!Add(x)
<1>1. IndexIn(KernelSections, x) < 0 /\ IndexIn(ProcessSections, x) < 0
    BY NotRegistered DEF Add
<1>2. CASE x \in KernelItems
    <2>1. KernelSections' = AddTo(KernelSections, x) /\ UNCHANGED ProcessSections
        BY <1>2 DEF Add
    <2> QED BY <1>1, <1>2, <2>1, AddKept, ItemsOfBoth DEF ListsInv, Add, Called, Abs!Add, Abs!Added
<1>3. CASE x \notin KernelItems
    <2>1. ProcessSections' = AddTo(ProcessSections, x) /\ UNCHANGED KernelSections
        BY <1>3 DEF Add
    <2>2. x \in ProcessItems
        BY <1>3, ItemsOfBoth
    <2> QED BY <1>1, <2>2, <2>1, AddKept, ItemsOfBoth DEF ListsInv, Add, Called, Abs!Add, Abs!Added
<1> QED BY <1>2, <1>3

LEMMA InsertLists ==
    ASSUME ListsInv, NEW x \in KernelItems, NEW index \in Nat, Insert(x, index)
    PROVE  ListsInv' /\ Abs!Insert(x, index)
<1>1. IndexIn(KernelSections, x) < 0
    BY NotRegistered DEF Insert
<1>2. KernelSections' = InsertInto(KernelSections, x, index) /\ UNCHANGED ProcessSections
    BY DEF Insert
<1>3. /\ Kept(KernelSections, KernelItems)' /\ Kind(KernelSections)' = Kind(KernelSections)
      /\ Contents(KernelSections)' =
            InsertedIn(Kind(KernelSections) = "array", Contents(KernelSections), x, index)
    BY <1>1, <1>2, InsertKept, ItemsOfBoth DEF ListsInv
<1> QED BY <1>2, <1>3 DEF ListsInv, Insert, Called, Abs!Insert, Abs!Inserted, InsertedIn

LEMMA RemoveLists ==
    ASSUME ListsInv, NEW x \in Items, Remove(x)
    PROVE  ListsInv' /\ (Abs!Remove(x) \/ Departs)
<1>1. CASE x \in KernelItems
    <2>1. KernelSections' = RemoveFrom(KernelSections, x) /\ UNCHANGED ProcessSections
        BY <1>1 DEF Remove
    <2>2. /\ Kept(KernelSections, KernelItems)' /\ Kind(KernelSections)' = Kind(KernelSections)
          /\ ~ RemovesTwo(KernelSections, x) =>
                Contents(KernelSections)' \in Abs!Without(Contents(KernelSections), x)
        BY <2>1, RemoveKept, ItemsOfBoth DEF ListsInv
    <2>3. CASE RemovesTwo(KernelSections, x)
        BY <1>1, <2>1, <2>2, <2>3 DEF ListsInv, Departs
    <2>4. CASE ~ RemovesTwo(KernelSections, x)
        BY <1>1, <2>1, <2>2, <2>4 DEF ListsInv, Remove, Called, Abs!Remove
    <2> QED BY <2>3, <2>4
<1>2. CASE x \notin KernelItems
    <2>0. x \in ProcessItems
        BY <1>2, ItemsOfBoth
    <2>1. ProcessSections' = RemoveFrom(ProcessSections, x) /\ UNCHANGED KernelSections
        BY <1>2 DEF Remove
    <2>2. /\ Kept(ProcessSections, ProcessItems)' /\ Kind(ProcessSections)' = Kind(ProcessSections)
          /\ ~ RemovesTwo(ProcessSections, x) =>
                Contents(ProcessSections)' \in Abs!Without(Contents(ProcessSections), x)
        BY <2>1, RemoveKept, ItemsOfBoth DEF ListsInv
    <2>3. CASE RemovesTwo(ProcessSections, x)
        BY <1>2, <2>1, <2>2, <2>3 DEF ListsInv, Departs
    <2>4. CASE ~ RemovesTwo(ProcessSections, x)
        BY <1>2, <2>0, <2>1, <2>2, <2>4 DEF ListsInv, Remove, Called, Abs!Remove
    <2> QED BY <2>3, <2>4
<1> QED BY <1>1, <1>2

(* Where the three that take an index look for it.                         *)
LEMMA IndexPlaces ==
    ASSUME ListsInv, NEW index \in 0 .. KernelSections.count + ProcessSections.count - 1
    PROVE  /\ index \in Nat /\ KernelIndex(index) \in Nat
           /\ KernelSections.count = Len(Contents(KernelSections))
           /\ KernelSections.count \in Nat /\ ProcessSections.count \in Nat
           /\ \/ index < KernelSections.count /\ KernelIndex(index) = index
              \/ index \in KernelSections.count .. KernelSections.count + ProcessSections.count - 1
           /\ Kind(KernelSections) = "array" => KernelIndex(index) <= Capacity
<1>1. /\ KernelSections.count = Len(Contents(KernelSections))
      /\ KernelSections.count \in Nat /\ ProcessSections.count \in Nat
    BY BothAnswer
<1>2. PICK k \in Nat, p \in Nat : k = KernelSections.count /\ p = ProcessSections.count
    BY <1>1
<1>3. Kind(KernelSections) = "array" => k <= Capacity /\ p <= Capacity /\ Capacity \in Nat
    <2>1. ASSUME NEW S, NEW L, Kept(L, S), Kind(L) = "array"
          PROVE  L.count <= Capacity /\ Capacity \in Nat
        <3>1. Keeps(L, Contents(L))
            BY <2>1 DEF Kept
        <3>2. Slots(L, Contents(L))
            BY <2>1, <3>1, KeepsKind
        <3> QED BY <3>2, ArrayParts
    <2> QED BY <1>2, <2>1 DEF ListsInv
<1>4. KernelIndex(index) = IF index < k THEN index ELSE index - k
    BY <1>2 DEF KernelIndex
<1>5. index \in 0 .. k + p - 1
    BY <1>2
<1> QED BY <1>1, <1>2, <1>3, <1>4, <1>5

LEMMA RemoveAtLists ==
    ASSUME ListsInv, NEW index \in 0 .. KernelSections.count + ProcessSections.count - 1,
           RemoveAt(index)
    PROVE  /\ ListsInv'
           /\ \/ Abs!RemoveIndex(index) /\ index \in 0 .. Len(Contents(KernelSections)) - 1
              \/ Departs
<1> DEFINE i == KernelIndex(index)
<1>1. KernelSections' = RemoveIndexFrom(KernelSections, i) /\ UNCHANGED ProcessSections
    BY DEF RemoveAt
<1>2. i \in Nat
    BY IndexPlaces
<1>3. /\ Kept(KernelSections, KernelItems)' /\ Kind(KernelSections)' = Kind(KernelSections)
      /\ i < KernelSections.count =>
            /\ i \in 0 .. Len(Contents(KernelSections)) - 1
            /\ Contents(KernelSections)' = Abs!Seqs!RemoveAt(Contents(KernelSections), i + 1)
    <2> HIDE DEF i
    <2> QED BY <1>1, <1>2, RemoveIndexKept, ItemsOfBoth DEF ListsInv
<1>4. ListsInv'
    BY <1>1, <1>3 DEF ListsInv
<1>5. CASE index < KernelSections.count /\ i = index
    BY <1>1, <1>3, <1>4, <1>5 DEF RemoveAt, Called, Abs!RemoveIndex
<1>6. CASE index \in KernelSections.count .. KernelSections.count + ProcessSections.count - 1
    BY <1>4, <1>6 DEF Departs
<1> QED BY <1>5, <1>6, IndexPlaces

(* An item set in a kept list keeps it.                                    *)
LEMMA SetItemKept ==
    ASSUME NEW S, S \subseteq Items, NEW L, Kept(L, S), NEW x \in S, IndexIn(L, x) < 0,
           NEW index \in Nat, Kind(L) = "array" => index <= Capacity
    PROVE  LET R == SetItemOf(L, index, x)
           IN  /\ Kept(R, S) /\ Kind(R) = Kind(L)
               /\ Contents(R) = SetIn(Kind(L) = "array", Contents(L), index, x)
<1> DEFINE R == SetItemOf(L, index, x)
           s == Contents(L)
           r == [s EXCEPT ![index+1] = x]
           t == SetIn(Kind(L) = "array", s, index, x)
<1>1. Keeps(L, s) /\ s \in Seq(S) /\ Distinct(s) /\ Len(s) \in Nat /\ s \in Seq(Items)
    BY KeptAnswers
<1>2. First(s, x) < 0
    BY KeptAnswers
<1> HIDE DEF s
<1>3. Keeps(R, t) /\ Kind(R) = Kind(L)
    <2>1. x \in Items
        OBVIOUS
    <2> QED BY <1>1, <2>1, SetItemKeeps
<1>4. ASSUME index \in 0 .. Len(s) - 1 PROVE r \in Seq(S) /\ Distinct(r)
    <2>0. index + 1 \in 1 .. Len(s)
        BY <1>1, <1>4
    <2>1. r \in Seq(S) /\ Len(r) = Len(s)
        BY <1>1, <2>0
    <2>2. \A i \in 1 .. Len(s) : s[i] # x
        BY <1>1, <1>2, FirstFinds
    <2>3. \A i \in 1 .. Len(s) : r[i] = IF i = index + 1 THEN x ELSE s[i]
        BY <1>1
    <2> HIDE DEF r
    <2>4. ASSUME NEW i \in 1 .. Len(s), NEW j \in 1 .. Len(s), r[i] = r[j] PROVE i = j
        BY <1>1, <2>2, <2>3, <2>4 DEF Distinct
    <2> QED BY <2>1, <2>4 DEF Distinct
<1>5. t \in Seq(S) /\ Distinct(t)
    BY <1>1, <1>4 DEF SetIn
<1> HIDE DEF t, R, r
<1>6. Kept(R, S) /\ Contents(R) = t
    BY <1>3, <1>5, KeptBy
<1> QED BY <1>3, <1>6 DEF R, t, s

LEMMA PanicLists ==
    ASSUME ListsInv, Panic
    PROVE  ListsInv'
BY DEF ListsInv, Panic

(* There is a node for an index below the count of the kernel's list.      *)
LEMMA NodeThere ==
    ASSUME ListsInv, NEW index \in Nat, index < KernelSections.count, KernelIndex(index) = index
    PROVE  ~ NoNode(index)
<1>1. KernelSections.count = Len(Contents(KernelSections))
    BY BothAnswer
<1>2. Kind(KernelSections) # "array" => Links(KernelSections, Contents(KernelSections))
    BY KeptAnswers, KeepsKind DEF ListsInv
<1> QED BY <1>1, <1>2, ItemMissing DEF NoNode

LEMMA SetItemLists ==
    ASSUME ListsInv, NEW index \in 0 .. KernelSections.count + ProcessSections.count - 1,
           NEW x \in KernelItems, SetItem(index, x)
    PROVE  /\ ListsInv'
           /\ \/ Abs!SetItem(index, x) /\ index \in 0 .. Len(Contents(KernelSections)) - 1
              \/ Departs
<1> DEFINE i == KernelIndex(index)
           s == Contents(KernelSections)
           b == Kind(KernelSections) = "array"
<1>1. /\ i \in Nat /\ index \in Nat /\ KernelSections.count = Len(s) /\ Len(s) \in Nat
      /\ b => i <= Capacity
      /\ \/ index < Len(s) /\ i = index
         \/ index \in KernelSections.count .. KernelSections.count + ProcessSections.count - 1
    BY IndexPlaces
<1>2. IndexIn(KernelSections, x) < 0
    BY NotRegistered DEF SetItem
<1>3. CASE NoNode(index)
    <2>1. Panic
        BY <1>3 DEF SetItem
    <2>2. ~ (index < Len(s) /\ i = index)
        BY <1>1, <1>3, NodeThere
    <2>3. index \in KernelSections.count .. KernelSections.count + ProcessSections.count - 1
        BY <1>1, <2>2
    <2> QED BY <2>1, <2>3, PanicLists DEF Departs
<1>4. CASE ~ NoNode(index)
    <2>1. /\ KernelSections' = SetItemOf(KernelSections, i, x) /\ UNCHANGED ProcessSections
          /\ call' = <<"SetItem", index, x>>
        BY <1>4 DEF SetItem, Called, Panic
    <2>2. /\ Kept(KernelSections, KernelItems)' /\ Kind(KernelSections)' = Kind(KernelSections)
          /\ Contents(KernelSections)' = SetIn(b, s, i, x)
        <3> DEFINE R == SetItemOf(KernelSections, i, x)
        <3>1. /\ Kept(R, KernelItems) /\ Kind(R) = Kind(KernelSections)
              /\ Contents(R) = SetIn(b, s, i, x)
            <4> HIDE DEF i
            <4> QED BY <1>1, <1>2, SetItemKept, ItemsOfBoth DEF ListsInv
        <3> HIDE DEF R, i, s, b
        <3>2. KernelSections' = R
            BY <2>1 DEF R
        <3> QED BY <3>1, <3>2
    <2>3. ListsInv'
        BY <2>1, <2>2 DEF ListsInv
    <2>4. CASE index < Len(s) /\ i = index
        <3>1. index \in 0 .. Len(s) - 1
            BY <1>1, <2>4
        <3>2. Contents(KernelSections)' = IF b THEN [s EXCEPT ![index + 1] = x] ELSE s
            <4> HIDE DEF i, s, b
            <4> QED BY <2>2, <2>4, <3>1 DEF SetIn
        <3>3. Abs!SetItem(index, x)
            BY <2>1, <2>2, <3>2 DEF Abs!SetItem
        <3> QED BY <2>3, <3>1, <3>3
    <2>5. CASE index \in KernelSections.count .. KernelSections.count + ProcessSections.count - 1
        BY <2>3, <2>5 DEF Departs
    <2> QED BY <1>1, <2>4, <2>5
<1> QED BY <1>3, <1>4

LEMMA GetItemLists ==
    ASSUME ListsInv, NEW index \in 0 .. KernelSections.count + ProcessSections.count - 1,
           GetItem(index)
    PROVE  /\ ListsInv'
           /\ \/ Abs!GetItem(index) /\ index \in 0 .. Len(Contents(KernelSections)) - 1
              \/ Departs
<1>1. ListsInv'
    BY DEF ListsInv, GetItem, Panic
<1>2. CASE index < KernelSections.count /\ KernelIndex(index) = index
    <2>1. index \in 0 .. Len(Contents(KernelSections)) - 1 /\ index \in Nat
        BY <1>2, IndexPlaces
    <2>2. ~ NoNode(index)
        BY <1>2, <2>1, NodeThere
    <2>3. ItemOf(KernelSections, index) = Contents(KernelSections)[index + 1]
        BY <2>1, BothAnswer
    <2>4. /\ call' = <<"GetItem", index, ItemOf(KernelSections, index)>>
          /\ UNCHANGED <<KernelSections, ProcessSections>>
        BY <1>2, <2>2 DEF GetItem, Called
    <2> QED BY <1>1, <2>1, <2>3, <2>4 DEF Abs!GetItem
<1>3. CASE index \in KernelSections.count .. KernelSections.count + ProcessSections.count - 1
    BY <1>1, <1>3 DEF Departs
<1> QED BY <1>2, <1>3, IndexPlaces

LEMMA ClearLists ==
    ASSUME ListsInv, Clear
    PROVE  ListsInv' /\ Abs!Clear
<1>1. /\ KernelSections' = Cleared(KernelSections)
      /\ ProcessSections' = Cleared(ProcessSections)
    BY DEF Clear
<1> QED BY <1>1, ClearKept DEF ListsInv, Clear, Called, Abs!Clear

LEMMA CountLists ==
    ASSUME ListsInv, Count
    PROVE  ListsInv' /\ Abs!Count
BY BothAnswer DEF ListsInv, Count, Called, Abs!Count

LEMMA ConvertLists ==
    ASSUME ListsInv, ConvertToLinkedList
    PROVE  ListsInv' /\ Abs!Convert
<1>1. /\ KernelSections' = CopyTo(KernelSections, NewLinkedList)
      /\ ProcessSections' = CopyTo(ProcessSections, NewLinkedList)
      /\ Kind(KernelSections) = "array"
      /\ call' = <<"ConvertToLinkedList">>
    BY DEF ConvertToLinkedList, Called
<1> QED BY <1>1, CopyKept DEF ListsInv, Abs!Convert

LEMMA IndexOfLists ==
    ASSUME ListsInv, NEW x \in Items, IndexOf(x)
    PROVE  ListsInv' /\ Abs!IndexOf(x)
<1> DEFINE ks == Contents(KernelSections)
           ps == Contents(ProcessSections)
           k == First(ks, x)
           p == First(ps, x)
<1>1. UNCHANGED <<KernelSections, ProcessSections>>
    BY DEF IndexOf
<1>2. call' = <<"IndexOf", x, IF k >= 0 THEN k ELSE p>>
    BY BothAnswer DEF IndexOf, Called
<1>3. ks \in Seq(Items) /\ ps \in Seq(Items)
    BY KeptAnswers DEF ListsInv
<1> DEFINE Found(i) ==
        \/ \E s \in {ks, ps} : i + 1 \in DOMAIN s /\ s[i + 1] = x
        \/ i = -1 /\ \A s \in {ks, ps} : \A j \in DOMAIN s : s[j] # x
<1>4. \E i \in -1 .. Len(ks) + Len(ps) - 1 : Found(i) /\ i = IF k >= 0 THEN k ELSE p
    <2> HIDE DEF ks, ps
    <2>1. Len(ks) \in Nat /\ Len(ps) \in Nat /\ DOMAIN ks = 1 .. Len(ks) /\ DOMAIN ps = 1 .. Len(ps)
        BY <1>3
    <2>2. \/ k = -1 /\ \A j \in 1 .. Len(ks) : ks[j] # x
          \/ k \in 0 .. Len(ks) - 1 /\ k + 1 \in 1 .. Len(ks) /\ ks[k + 1] = x
        BY <1>3, FirstFinds
    <2>3. \/ p = -1 /\ \A j \in 1 .. Len(ps) : ps[j] # x
          \/ p \in 0 .. Len(ps) - 1 /\ p + 1 \in 1 .. Len(ps) /\ ps[p + 1] = x
        BY <1>3, FirstFinds
    <2> HIDE DEF k, p
    <2> QED BY <2>1, <2>2, <2>3
<1>5. Abs!IndexOf(x)
    <2> HIDE DEF k, p
    <2> QED BY <1>1, <1>2, <1>4 DEF Abs!IndexOf
<1> QED BY <1>1, <1>5 DEF ListsInv

LEMMA ContainsLists ==
    ASSUME ListsInv, NEW x \in Items, Contains(x)
    PROVE  ListsInv' /\ Abs!Contains(x)
<1> DEFINE ks == Contents(KernelSections)
           ps == Contents(ProcessSections)
           both == ks \o ps
<1>1. UNCHANGED <<KernelSections, ProcessSections>>
    BY DEF Contains
<1>2. call' = <<"Contains", x, Registered(x)>>
    BY DEF Contains, Called
<1>3. ks \in Seq(Items) /\ ps \in Seq(Items)
    BY KeptAnswers DEF ListsInv
<1>4. Registered(x) <=> First(ks, x) >= 0 \/ First(ps, x) >= 0
    BY BothAnswer DEF Registered
<1>5. Registered(x) <=> \E i \in DOMAIN both : both[i] = x
    <2> HIDE DEF ks, ps
    <2>1. /\ Len(ks) \in Nat /\ Len(ps) \in Nat
          /\ DOMAIN both = 1 .. Len(ks) + Len(ps)
          /\ \A i \in 1 .. Len(ks) : both[i] = ks[i]
          /\ \A i \in 1 .. Len(ps) : both[Len(ks) + i] = ps[i]
          /\ \A i \in 1 .. Len(ks) + Len(ps) : i > Len(ks) => both[i] = ps[i - Len(ks)]
        BY <1>3
    <2> HIDE DEF both
    <2>2. CASE First(ks, x) >= 0
        BY <1>3, <1>4, <2>1, <2>2, FirstFinds
    <2>3. CASE First(ps, x) >= 0
        <3>1. First(ps, x) + 1 \in 1 .. Len(ps) /\ ps[First(ps, x) + 1] = x
            BY <1>3, <2>3, FirstFinds
        <3>2. Len(ks) + (First(ps, x) + 1) \in DOMAIN both
            BY <2>1, <3>1
        <3> QED BY <1>4, <2>1, <2>3, <3>1, <3>2
    <2>4. CASE ~ (First(ks, x) >= 0) /\ ~ (First(ps, x) >= 0)
        <3>1. /\ \A i \in 1 .. Len(ks) : ks[i] # x
              /\ \A i \in 1 .. Len(ps) : ps[i] # x
            BY <1>3, <2>4, FirstFinds
        <3>2. ASSUME NEW i \in 1 .. Len(ks) + Len(ps) PROVE both[i] # x
            <4>1. CASE i > Len(ks)
                <5>1. i - Len(ks) \in 1 .. Len(ps)
                    BY <2>1, <4>1
                <5> QED BY <2>1, <3>1, <4>1, <5>1
            <4>2. CASE ~ (i > Len(ks))
                BY <2>1, <3>1, <4>2
            <4> QED BY <4>1, <4>2
        <3> QED BY <1>4, <2>1, <2>4, <3>2
    <2> QED BY <2>2, <2>3, <2>4
<1>6. Registered(x) = \E i \in DOMAIN both : both[i] = x
    BY <1>5 DEF Registered
<1>7. Abs!Contains(x)
    BY <1>1, <1>2, <1>6 DEF Abs!Contains
<1> QED BY <1>1, <1>7 DEF ListsInv

(* A dump leaves what the refinement sees as it is.                        *)
LEMMA DumpLists ==
    ASSUME ListsInv, Serialize \/ MoveNext \/ Dumped \/ UNCHANGED vars
    PROVE  ListsInv' /\ UNCHANGED Abs!vars
<1>1. UNCHANGED <<KernelSections, ProcessSections, call>>
    BY DEF Serialize, MoveNext, Dumped, vars
<1> QED BY <1>1 DEF ListsInv, Abs!vars

LEMMA NextLists ==
    ASSUME ListsInv, [Next]_vars
    PROVE  ListsInv' /\ [Abs!Next \/ Departs]_(Abs!vars)
<1> DEFINE n == Len(Contents(KernelSections))
<1>0. KernelSections.count = n /\ n \in Nat
    BY BothAnswer
<1> HIDE DEF n
<1> DEFINE Indices == 0 .. KernelSections.count + ProcessSections.count - 1
<1>1. CASE \E x \in Items : Add(x)
    BY <1>1, AddLists DEF Abs!Next, Items
<1>2. CASE \E x \in Items : Remove(x)
    BY <1>2, RemoveLists DEF Abs!Next, Items
<1>3. CASE \E x \in Items : Contains(x)
    BY <1>3, ContainsLists DEF Abs!Next, Items
<1>4. CASE \E x \in Items : IndexOf(x)
    BY <1>4, IndexOfLists DEF Abs!Next, Items
<1>5. CASE \E x \in KernelItems, index \in 0 .. KernelSections.count + 1 : Insert(x, index)
    <2>1. PICK x \in KernelItems, index \in 0 .. n + 1 : Insert(x, index)
        BY <1>0, <1>5
    <2>2. ListsInv' /\ Abs!Insert(x, index)
        BY <2>1, <1>0, InsertLists
    <2> QED BY <2>2 DEF Abs!Next, n
<1>6. CASE \E index \in Indices : \E x \in KernelItems : SetItem(index, x)
    <2>1. PICK index \in Indices, x \in KernelItems : SetItem(index, x)
        BY <1>6
    <2>2. ListsInv' /\ ((Abs!SetItem(index, x) /\ index \in 0 .. n - 1) \/ Departs)
        BY <2>1, SetItemLists DEF n
    <2> QED BY <2>2 DEF Abs!Next, n
<1>7. CASE \E index \in Indices : RemoveAt(index)
    <2>1. PICK index \in Indices : RemoveAt(index)
        BY <1>7
    <2>2. ListsInv' /\ ((Abs!RemoveIndex(index) /\ index \in 0 .. n - 1) \/ Departs)
        BY <2>1, RemoveAtLists DEF n
    <2> QED BY <2>2 DEF Abs!Next, n
<1>8. CASE \E index \in Indices : GetItem(index)
    <2>1. PICK index \in Indices : GetItem(index)
        BY <1>8
    <2>2. ListsInv' /\ ((Abs!GetItem(index) /\ index \in 0 .. n - 1) \/ Departs)
        BY <2>1, GetItemLists DEF n
    <2> QED BY <2>2 DEF Abs!Next, n
<1>9. CASE Clear
    BY <1>9, ClearLists DEF Abs!Next
<1>10. CASE Count
    BY <1>10, CountLists DEF Abs!Next
<1>11. CASE ConvertToLinkedList
    BY <1>11, ConvertLists DEF Abs!Next
<1>12. CASE Serialize \/ MoveNext \/ Dumped \/ UNCHANGED vars
    BY <1>12, DumpLists
<1> QED BY <1>1, <1>2, <1>3, <1>4, <1>5, <1>6, <1>7, <1>8, <1>9, <1>10, <1>11, <1>12 DEF Next

-----------------------------------------------------------------------------
(* The dump.                                                               *)

(* The enumerator of a linked list goes from item to item, and from the    *)
(* last one back to where it was before the first.                         *)
LEMMA EnumeratorSteps ==
    ASSUME NEW L, NEW s, Links(L, s)
    PROVE  /\ \A i \in 0 .. Len(s) : LinkedMoveNext(L, _item(L, i - 1)) = _item(L, i)
           /\ \A i \in 1 .. Len(s) : /\ _item(L, i - 1) \in Nat \ {NULL}
                                     /\ L.nodes[_item(L, i - 1)].item = s[i]
           /\ _item(L, Len(s)) = NULL
           /\ _item(L, -1) = NULL
<1>1. PICK c : Chain(L, c, s)
    BY DEF Links
<1>2. L \in LinkedLists /\ s \in Seq(Items) /\ Len(s) \in Nat
    BY DEF Links
<1>3. /\ c[0] = NULL /\ c[Len(s) + 1] = NULL /\ L.f = c[1]
      /\ \A i \in 1 .. Len(s) :
            /\ c[i] \in DOMAIN L.nodes /\ c[i] # NULL /\ c[i] \in Nat
            /\ L.nodes[c[i]].next = c[i+1] /\ L.nodes[c[i]].item = s[i]
    BY <1>1, <1>2, ChainParts
<1>4. \A i \in 1 .. Len(s) + 1 : _item(L, i - 1) = c[i]
    BY <1>1, <1>2, ItemFollows
<1>5. _item(L, -1) = NULL
    <2>1. DOMAIN Walk(L) = 0 .. Len(s)
        BY <1>1, <1>2, WalkFollows
    <2> QED BY <1>2, <2>1 DEF _item
<1>6. ASSUME NEW i \in 0 .. Len(s)
      PROVE  LinkedMoveNext(L, _item(L, i - 1)) = _item(L, i)
    <2>1. _item(L, i) = c[i+1]
        <3>1. i + 1 \in 1 .. Len(s) + 1 /\ (i + 1) - 1 = i
            BY <1>2
        <3> QED BY <1>4, <3>1
    <2>2. CASE i = 0
        BY <1>3, <1>5, <2>1, <2>2 DEF LinkedMoveNext
    <2>3. CASE i # 0
        <3>1. i \in 1 .. Len(s) /\ i \in 1 .. Len(s) + 1
            BY <1>2, <2>3
        <3> QED BY <1>3, <1>4, <2>1, <3>1 DEF LinkedMoveNext
    <2> QED BY <2>2, <2>3
<1>7. ASSUME NEW i \in 1 .. Len(s)
      PROVE  _item(L, i - 1) \in Nat \ {NULL} /\ L.nodes[_item(L, i - 1)].item = s[i]
    <2>1. _item(L, i - 1) = c[i]
        BY <1>2, <1>4
    <2> QED BY <1>3, <2>1
<1>8. _item(L, Len(s)) = NULL
    <2>1. Len(s) + 1 \in 1 .. Len(s) + 1 /\ (Len(s) + 1) - 1 = Len(s)
        BY <1>2
    <2> QED BY <1>3, <1>4, <2>1
<1> QED BY <1>5, <1>6, <1>7, <1>8

LEMMA Quotient ==
    ASSUME NEW q \in Nat, NEW N \in Nat \ {0}, NEW r \in 0 .. N - 1
    PROVE  (q * N + r) \div N = q
OBVIOUS

LEMMA QuotientBelow ==
    ASSUME NEW N \in Nat \ {0}, NEW m \in Nat, NEW k \in 0 .. m * N - 1
    PROVE  k \div N \in 0 .. m - 1
OBVIOUS

LEMMA Products ==
    ASSUME NEW b \in Nat, NEW N \in Nat
    PROVE  /\ b * N \in Nat /\ N * b = b * N
           /\ (b + 1) * N = b * N + N
           /\ (b - 1) * N = b * N - N
OBVIOUS

LEMMA SumTimes ==
    ASSUME NEW m \in Nat, NEW i \in Nat, i <= m, NEW N \in Nat
    PROVE  m * N = i * N + (m - i) * N
OBVIOUS

(* What a dump shows at the place j, when the kernel has the sections ks   *)
(* and the process ps: after each of the process n of the kernel's steps   *)
(* pass.                                                                   *)
Due(ks, ps, j) ==
    IF j <= Len(ks) THEN ks[j] ELSE ps[((j - Len(ks) - 1) \div (Len(ks) + 1)) + 1]

LEMMA DueKernel ==
    ASSUME NEW ks, NEW ps, NEW a \in Nat, a <= Len(ks)
    PROVE  Due(ks, ps, a) = ks[a]
BY DEF Due

LEMMA DueProcess ==
    ASSUME NEW ks, NEW ps, Len(ks) \in Nat, NEW a \in 0 .. Len(ks), NEW b \in Nat \ {0}
    PROVE  Due(ks, ps, b * (Len(ks) + 1) + a) = ps[b]
<1>1. PICK n \in Nat : n = Len(ks)
    OBVIOUS
<1>2. PICK N \in Nat \ {0} : N = n + 1
    OBVIOUS
<1>3. PICK p \in Nat : p = b * N
    BY Products
<1>4. PICK q \in Nat : q = (b - 1) * N
    BY Products
<1>5. q = p - N
    BY <1>3, <1>4, Products
<1>6. (q + a) \div N = b - 1
    <2>1. a \in 0 .. N - 1 /\ b - 1 \in Nat
        BY <1>1, <1>2
    <2> QED BY <1>2, <1>4, <2>1, Quotient
<1>7. ~ (p + a <= n) /\ p + a - n - 1 = q + a
    BY <1>1, <1>2, <1>5
<1>8. Due(ks, ps, p + a) = ps[((p + a - n - 1) \div N) + 1]
    BY <1>1, <1>2, <1>7 DEF Due
<1>9. ((p + a - n - 1) \div N) + 1 = b
    BY <1>6, <1>7
<1> QED BY <1>1, <1>2, <1>3, <1>8, <1>9

-----------------------------------------------------------------------------
(* What the record of a dump holds.                                        *)
Dumps ==
    [at : {"none", "dumping", "done"}, ke : Nat, pe : Nat, proc : BOOLEAN, shown : Seq(Items)]

(* The enumerators of a dump d are before the step a of the kernel's list  *)
(* and b of the process's: it has shown as much as that makes.             *)
Reached(d, K, P, n, a, b) ==
    /\ d.ke = _item(K, a - 1)
    /\ d.pe = _item(P, b - 1)
    /\ d.proc <=> b >= 1
    /\ Len(d.shown) = b * (n + 1) + a

ShownDue(d, ks, ps) == \A j \in 1 .. Len(d.shown) : d.shown[j] = Due(ks, ps, j)

DumpOf(d, K, P) ==
    LET ks == Contents(K)
        ps == Contents(P)
    IN  /\ ShownDue(d, ks, ps)
        /\ d.at = "dumping" =>
              \E a \in 0 .. Len(ks), b \in 0 .. Len(ps) : Reached(d, K, P, Len(ks), a, b)
        /\ d.at = "done" => Len(d.shown) = Len(ps) * (Len(ks) + 1) + Len(ks)

DumpInv ==
    /\ dump \in Dumps
    /\ dump.at = "none" => dump = Idle
    /\ dump.at # "none" =>
          /\ Kind(KernelSections) = "linked"
          /\ DumpOf(dump, KernelSections, ProcessSections)

LEMMA IdleDump == Idle \in Dumps /\ Idle.at = "none"
BY DEF Idle, Dumps, NULL

LEMMA LinkedKept ==
    ASSUME NEW S, NEW L, Kept(L, S), Kind(L) = "linked"
    PROVE  Links(L, Contents(L))
<1>1. Keeps(L, Contents(L))
    BY DEF Kept
<1>2. ~ Slots(L, Contents(L))
    BY ArrayParts DEF Slots, Kind
<1> QED BY <1>1, <1>2 DEF Keeps

LEMMA SerializeDump ==
    ASSUME ListsInv, DumpInv, Serialize
    PROVE  DumpInv'
<1> DEFINE K == KernelSections
           P == ProcessSections
           ks == Contents(K)
           ps == Contents(P)
           d == [Idle EXCEPT !.at = "dumping"]
<1>1. UNCHANGED <<KernelSections, ProcessSections>> /\ dump' = d /\ Kind(K) = "linked"
    BY DEF Serialize
<1>2. /\ d \in Dumps /\ d.at = "dumping" /\ d.ke = NULL /\ d.pe = NULL /\ ~ d.proc
      /\ d.shown = <<>>
    <2>1. d = [at |-> "dumping", ke |-> NULL, pe |-> NULL, proc |-> FALSE, shown |-> <<>>]
        <3> DEFINE no == FALSE
                   empty == <<>>
        <3>1. Idle = [at |-> "none", ke |-> NULL, pe |-> NULL, proc |-> no, shown |-> empty]
            BY DEF Idle
        <3> HIDE DEF no, empty
        <3>2. d = [at |-> "dumping", ke |-> NULL, pe |-> NULL, proc |-> no, shown |-> empty]
            BY <3>1
        <3> QED BY <3>2 DEF no, empty
    <2>2. d.at = "dumping" /\ d.ke = NULL /\ d.pe = NULL
        BY <2>1
    <2>3. d.proc = FALSE /\ d.shown = <<>>
        BY <2>1
    <2>4. d \in Dumps
        <3> HIDE DEF d
        <3> QED BY <2>1 DEF Dumps, NULL
    <2> QED BY <2>2, <2>3, <2>4
<1>3. _item(K, -1) = NULL /\ _item(P, -1) = NULL
    <2>1. Links(K, ks) /\ Links(P, ps)
        BY <1>1, LinkedKept DEF ListsInv
    <2> HIDE DEF K, P, ks, ps
    <2> QED BY <2>1, EnumeratorSteps
<1>4. Len(ks) \in Nat /\ Len(ps) \in Nat
    BY BothAnswer
<1> HIDE DEF K, P, ks, ps, d
<1>5. Reached(d, K, P, Len(ks), 0, 0)
    <2>1. 0 * (Len(ks) + 1) + 0 = 0
        BY <1>4
    <2>2. 0 - 1 = -1 /\ Len(<<>>) = 0
        OBVIOUS
    <2> QED BY <1>2, <1>3, <2>1, <2>2 DEF Reached
<1>6. ShownDue(d, ks, ps)
    BY <1>2 DEF ShownDue
<1>7. DumpOf(d, K, P)
    BY <1>2, <1>4, <1>5, <1>6 DEF DumpOf, ks, ps
<1> QED BY <1>1, <1>2, <1>7 DEF DumpInv, K, P

(* A step that shows the item x.                                           *)
LEMMA ShowsDue ==
    ASSUME NEW ks, NEW ps, Len(ks) \in Nat, NEW d \in Dumps, NEW e \in Dumps, NEW x \in Items,
           ShownDue(d, ks, ps), e.shown = Append(d.shown, x),
           x = Due(ks, ps, Len(d.shown) + 1)
    PROVE  ShownDue(e, ks, ps) /\ Len(e.shown) = Len(d.shown) + 1
<1>1. d.shown \in Seq(Items)
    BY DEF Dumps
<1>2. PICK t \in Seq(Items) : t = d.shown
    BY <1>1
<1>3. Len(e.shown) = Len(t) + 1 /\ e.shown = Append(t, x)
    BY <1>2
<1>4. ASSUME NEW j \in 1 .. Len(t) + 1 PROVE Append(t, x)[j] = Due(ks, ps, j)
    <2>1. CASE j = Len(t) + 1
        <3>1. Append(t, x)[j] = x
            BY <2>1
        <3> QED BY <1>2, <2>1, <3>1
    <2>2. CASE j # Len(t) + 1
        <3>1. j \in 1 .. Len(t) /\ Append(t, x)[j] = t[j]
            BY <2>2
        <3> QED BY <1>2, <3>1 DEF ShownDue
    <2> QED BY <2>1, <2>2
<1> QED BY <1>2, <1>3, <1>4 DEF ShownDue

LEMMA ShownFields ==
    ASSUME NEW next \in Dumps, NEW x \in Items
    PROVE  LET e == [next EXCEPT !.shown = Append(@, x)]
           IN  /\ e \in Dumps
               /\ e.at = next.at /\ e.ke = next.ke /\ e.pe = next.pe /\ e.proc = next.proc
               /\ e.shown = Append(next.shown, x)
<1> DEFINE e == [next EXCEPT !.shown = Append(@, x)]
<1>1. next.shown \in Seq(Items)
    BY DEF Dumps
<1>2. PICK t \in Seq(Items) : t = Append(next.shown, x)
    <2>1. PICK s \in Seq(Items) : s = next.shown
        BY <1>1
    <2>2. Append(s, x) \in Seq(Items)
        OBVIOUS
    <2> QED BY <2>1, <2>2
<1>3. e = [next EXCEPT !.shown = t]
    BY <1>2
<1> HIDE DEF e
<1>4. e \in Dumps /\ e.at = next.at /\ e.ke = next.ke /\ e.pe = next.pe /\ e.proc = next.proc
      /\ e.shown = t
    BY <1>3 DEF Dumps
<1> QED BY <1>2, <1>4 DEF e

LEMMA DoneFields ==
    ASSUME NEW next \in Dumps
    PROVE  LET e == [next EXCEPT !.at = "done"]
           IN  e \in Dumps /\ e.at = "done" /\ e.shown = next.shown
BY DEF Dumps

LEMMA MoveNextDump ==
    ASSUME ListsInv, DumpInv, MoveNext
    PROVE  DumpInv'
<1> DEFINE K == KernelSections
           P == ProcessSections
           ks == Contents(K)
           ps == Contents(P)
           n == Len(ks)
           m == Len(ps)
           d == dump
           e == dump'
<1>1. /\ UNCHANGED <<KernelSections, ProcessSections>>
      /\ d \in Dumps /\ d.at = "dumping" /\ Kind(K) = "linked" /\ DumpOf(d, K, P)
    BY DEF MoveNext, DumpInv
<1>2. Links(K, ks) /\ Links(P, ps)
    BY <1>1, LinkedKept DEF ListsInv
<1>3. ks \in Seq(Items) /\ ps \in Seq(Items) /\ n \in Nat /\ m \in Nat
    BY KeptAnswers DEF ListsInv
<1> HIDE DEF ks, ps
<1>4. ShownDue(d, ks, ps)
    BY <1>1 DEF DumpOf, ks, ps
<1>5. PICK a \in 0 .. n, b \in 0 .. m : Reached(d, K, P, n, a, b)
    BY <1>1 DEF DumpOf, ks, ps
<1> HIDE DEF K, P, n, m
<1> DEFINE ke   == LinkedMoveNext(K, d.ke)
           proc == d.proc \/ ke = NULL
           pe   == IF ke = NULL THEN LinkedMoveNext(P, d.pe) ELSE d.pe
           item == IF proc THEN P.nodes[pe].item ELSE K.nodes[ke].item
           next == [d EXCEPT !.ke = ke, !.pe = pe, !.proc = proc]
<1>6. e = IF ke = NULL /\ pe = NULL
          THEN [next EXCEPT !.at = "done"]
          ELSE [next EXCEPT !.shown = Append(@, item)]
    BY DEF MoveNext, K, P
<1> HIDE DEF d, e
<1>7. ke = _item(K, a) /\ LinkedMoveNext(P, d.pe) = _item(P, b)
    BY <1>2, <1>5, EnumeratorSteps DEF Reached, n, m
<1>8. /\ \A i \in 1 .. n : /\ _item(K, i - 1) \in Nat \ {NULL}
                           /\ K.nodes[_item(K, i - 1)].item = ks[i]
      /\ _item(K, n) = NULL /\ _item(K, -1) = NULL
    BY <1>2, EnumeratorSteps DEF n
<1>9. /\ \A i \in 1 .. m : /\ _item(P, i - 1) \in Nat \ {NULL}
                           /\ P.nodes[_item(P, i - 1)].item = ps[i]
      /\ _item(P, m) = NULL
    BY <1>2, EnumeratorSteps DEF m
<1>10. PICK p \in Nat : p = b * (n + 1)
    BY <1>3, Products
<1>11. Len(d.shown) = p + a /\ (d.proc <=> b >= 1) /\ d.pe = _item(P, b - 1) /\ d.pe \in Nat
       /\ d.proc \in BOOLEAN
    BY <1>1, <1>5, <1>10 DEF Reached, Dumps
<1>12. ASSUME e \in Dumps, e.at = "dumping", ShownDue(e, ks, ps),
              NEW aa \in 0 .. n, NEW bb \in 0 .. m, Reached(e, K, P, n, aa, bb)
       PROVE  DumpInv'
    <2>1. DumpOf(e, K, P)
        BY <1>12 DEF DumpOf, n, m, ks, ps
    <2> QED BY <1>1, <1>12, <2>1 DEF DumpInv, K, P, e
<1> HIDE DEF next, item, proc, pe, ke
<1>13. CASE a < n
    <2>1. a + 1 \in 1 .. n /\ (a + 1) - 1 = a
        BY <1>3, <1>13
    <2>2. ke \in Nat \ {NULL} /\ K.nodes[ke].item = ks[a + 1]
        BY <1>7, <1>8, <2>1
    <2>3. pe = d.pe /\ proc \in BOOLEAN /\ (proc <=> b >= 1)
        BY <1>11, <2>2 DEF pe, proc
    <2>4. item = Due(ks, ps, p + (a + 1)) /\ item \in Items
        <3>1. CASE b = 0
            <4>1. p = 0 /\ item = ks[a + 1] /\ p + (a + 1) = a + 1
                BY <1>3, <1>10, <2>2, <2>3, <3>1 DEF item
            <4>2. Due(ks, ps, a + 1) = ks[a + 1] /\ ks[a + 1] \in Items
                BY <1>3, <2>1, DueKernel DEF n
            <4> QED BY <4>1, <4>2
        <3>2. CASE b # 0
            <4>1. b \in 1 .. m /\ b \in Nat \ {0} /\ a + 1 \in 0 .. n
                BY <1>3, <2>1, <3>2
            <4>2. item = ps[b] /\ ps[b] \in Items
                BY <1>3, <1>9, <1>11, <2>3, <4>1 DEF item, m
            <4>3. Due(ks, ps, p + (a + 1)) = ps[b]
                BY <1>3, <1>10, <4>1, DueProcess DEF n
            <4> QED BY <4>2, <4>3
        <3> QED BY <3>1, <3>2
    <2>5. next \in Dumps /\ next.at = d.at /\ next.ke = ke /\ next.pe = pe
          /\ next.proc = proc /\ next.shown = d.shown
        BY <1>1, <1>11, <2>2, <2>3 DEF next, Dumps
    <2>6. e = [next EXCEPT !.shown = Append(@, item)]
        BY <1>6, <2>2
    <2>7. e \in Dumps /\ e.at = "dumping" /\ e.ke = ke /\ e.pe = pe /\ e.proc = proc
          /\ e.shown = Append(d.shown, item)
        BY <1>1, <2>4, <2>5, <2>6, ShownFields
    <2>8. ShownDue(e, ks, ps) /\ Len(e.shown) = p + (a + 1)
        <3>1. Len(d.shown) + 1 = p + (a + 1)
            BY <1>11
        <3> QED BY <1>1, <1>3, <1>4, <2>4, <2>7, <3>1, ShowsDue DEF n
    <2>9. Reached(e, K, P, n, a + 1, b)
        BY <1>7, <1>10, <1>11, <2>1, <2>3, <2>7, <2>8 DEF Reached
    <2> QED BY <1>12, <2>1, <2>7, <2>8, <2>9
<1>14. CASE a = n /\ b < m
    <2>1. b + 1 \in 1 .. m /\ (b + 1) - 1 = b /\ b + 1 \in 0 .. m /\ b + 1 \in Nat \ {0}
        BY <1>3, <1>14
    <2>2. ke = NULL
        BY <1>7, <1>8, <1>14
    <2>3. pe \in Nat \ {NULL} /\ pe = _item(P, b) /\ P.nodes[pe].item = ps[b + 1]
        BY <1>7, <1>9, <2>1, <2>2 DEF pe
    <2>4. proc = TRUE
        BY <2>2 DEF proc
    <2>5. PICK q \in Nat : q = (b + 1) * (n + 1) /\ q = p + (n + 1)
        BY <1>3, <1>10, <2>1, Products
    <2>6. item = Due(ks, ps, q + 0) /\ item \in Items
        <3>1. item = ps[b + 1] /\ ps[b + 1] \in Items
            BY <1>3, <2>1, <2>3, <2>4 DEF item, m
        <3>2. Due(ks, ps, q + 0) = ps[b + 1]
            BY <1>3, <2>1, <2>5, DueProcess DEF n
        <3> QED BY <3>1, <3>2
    <2>7. next \in Dumps /\ next.at = d.at /\ next.ke = ke /\ next.pe = pe
          /\ next.proc = proc /\ next.shown = d.shown
        <3>1. ke \in Nat /\ proc \in BOOLEAN
            BY <2>2, <2>4 DEF NULL
        <3> QED BY <1>1, <2>3, <3>1 DEF next, Dumps
    <2>8. e = [next EXCEPT !.shown = Append(@, item)]
        BY <1>6, <2>3
    <2>9. e \in Dumps /\ e.at = "dumping" /\ e.ke = ke /\ e.pe = pe /\ e.proc = proc
          /\ e.shown = Append(d.shown, item)
        BY <1>1, <2>6, <2>7, <2>8, ShownFields
    <2>10. ShownDue(e, ks, ps) /\ Len(e.shown) = q + 0
        <3>1. Len(d.shown) + 1 = q + 0
            BY <1>11, <1>14, <2>5
        <3> QED BY <1>1, <1>3, <1>4, <2>6, <2>9, <3>1, ShowsDue DEF n
    <2>11. Reached(e, K, P, n, 0, b + 1)
        <3>1. e.ke = _item(K, 0 - 1)
            BY <1>8, <2>2, <2>9
        <3>2. e.pe = _item(P, (b + 1) - 1)
            BY <2>1, <2>3, <2>9
        <3>3. e.proc <=> b + 1 >= 1
            BY <2>1, <2>4, <2>9
        <3> QED BY <2>5, <2>10, <3>1, <3>2, <3>3 DEF Reached
    <2> QED BY <1>3, <1>12, <2>1, <2>9, <2>10, <2>11
<1>15. CASE a = n /\ b = m
    <2>1. ke = NULL /\ pe = NULL
        BY <1>7, <1>8, <1>9, <1>15 DEF pe
    <2>2. proc = TRUE
        BY <2>1 DEF proc
    <2>3. next \in Dumps /\ next.shown = d.shown
        <3>1. ke \in Nat /\ pe \in Nat /\ proc \in BOOLEAN
            BY <2>1, <2>2 DEF NULL
        <3> QED BY <1>1, <3>1 DEF next, Dumps
    <2>4. e \in Dumps /\ e.at = "done" /\ e.shown = d.shown
        BY <1>6, <2>1, <2>3, DoneFields
    <2>5. ShownDue(e, ks, ps) /\ Len(e.shown) = m * (n + 1) + n
        BY <1>4, <1>10, <1>11, <1>15, <2>4 DEF ShownDue
    <2>6. DumpOf(e, K, P)
        BY <2>4, <2>5 DEF DumpOf, n, m, ks, ps
    <2> QED BY <1>1, <2>4, <2>6 DEF DumpInv, K, P, e
<1>16. a < n \/ (a = n /\ b < m) \/ (a = n /\ b = m)
    BY <1>3
<1> QED BY <1>13, <1>14, <1>15, <1>16

(* A call is made when no dump is under way.                               *)
LEMMA CallDump ==
    ASSUME DumpInv, dump.at = "none", UNCHANGED dump
    PROVE  DumpInv'
BY DEF DumpInv

LEMMA NextDump ==
    ASSUME ListsInv, DumpInv, [Next]_vars
    PROVE  DumpInv'
<1>1. CASE dump.at = "none" /\ UNCHANGED dump
    BY <1>1, CallDump
<1>2. CASE Serialize
    BY <1>2, SerializeDump
<1>3. CASE MoveNext
    BY <1>3, MoveNextDump
<1>4. CASE Dumped
    <2>1. dump' = Idle
        BY <1>4 DEF Dumped
    <2> QED BY <2>1, IdleDump DEF DumpInv
<1>5. CASE UNCHANGED vars
    <2>1. UNCHANGED <<KernelSections, ProcessSections, dump>>
        BY <1>5 DEF vars
    <2> QED BY <2>1 DEF DumpInv
<1>6. \/ dump.at = "none" /\ UNCHANGED dump
      \/ Serialize \/ MoveNext \/ Dumped \/ UNCHANGED vars
    BY DEF Next, Called, Clear, Count, ConvertToLinkedList, Add, Remove, Contains, IndexOf,
           Insert, SetItem, RemoveAt, GetItem, Panic, Running
<1> QED BY <1>1, <1>2, <1>3, <1>4, <1>5, <1>6

LEMMA DumpInvComplete ==
    ASSUME ListsInv, DumpInv
    PROVE  DumpMissesNone
<1> DEFINE ks == Contents(KernelSections)
           ps == Contents(ProcessSections)
           n == Len(ks)
           m == Len(ps)
           shown == dump.shown
<1>1. SUFFICES ASSUME dump.at = "done"
               PROVE  /\ Len(shown) >= n
                      /\ \A i \in 1 .. n : shown[i] = ks[i]
                      /\ {shown[i] : i \in n + 1 .. Len(shown)} = {ps[i] : i \in 1 .. m}
    BY DEF DumpMissesNone
<1>2. /\ ShownDue(dump, ks, ps)
      /\ Len(shown) = m * (n + 1) + n
    BY <1>1 DEF DumpInv, DumpOf
<1>3. n \in Nat /\ m \in Nat
    BY BothAnswer
<1> HIDE DEF ks, ps
<1>4. PICK N \in Nat \ {0} : N = n + 1
    BY <1>3
<1>5. PICK p \in Nat : p = m * N
    BY <1>3, <1>4, Products
<1>6. Len(shown) = p + n
    BY <1>2, <1>4, <1>5
<1>7. \A j \in 1 .. p + n : shown[j] = Due(ks, ps, j)
    BY <1>2, <1>6 DEF ShownDue
<1> HIDE DEF shown
<1>8. ASSUME NEW i \in 1 .. n PROVE shown[i] = ks[i]
    <2>1. i \in 1 .. p + n /\ i \in Nat /\ i <= n
        BY <1>3, <1>5
    <2> QED BY <1>7, <2>1, DueKernel
<1>9. ASSUME NEW j \in n + 1 .. p + n PROVE \E i \in 1 .. m : shown[j] = ps[i]
    <2>1. /\ j \in 1 .. p + n /\ ~ (j <= n)
          /\ j - n - 1 \in 0 .. p - 1
        BY <1>3, <1>5
    <2>2. PICK q \in 0 .. m - 1 : q = (j - n - 1) \div N
        BY <1>3, <1>5, <2>1, QuotientBelow
    <2>3. shown[j] = ps[q + 1]
        BY <1>4, <1>7, <2>1, <2>2 DEF Due
    <2>4. q + 1 \in 1 .. m
        BY <1>3
    <2> QED BY <2>3, <2>4
<1>10. ASSUME NEW i \in 1 .. m PROVE \E j \in n + 1 .. p + n : shown[j] = ps[i]
    <2>1. PICK q \in Nat : q = i * N
        BY <1>4, Products
    <2>2. PICK r \in Nat : r = (m - i) * N
        BY <1>3, <1>4, Products
    <2>3. p = q + r
        BY <1>3, <1>4, <1>5, <2>1, <2>2, SumTimes
    <2>4. PICK t \in Nat : t = (i - 1) * N
        BY <1>3, <1>4, Products
    <2>5. q = t + N
        BY <1>4, <2>1, <2>4, Products
    <2>6. q \in n + 1 .. p + n
        BY <1>3, <1>4, <1>5, <2>1, <2>2, <2>3, <2>4, <2>5
    <2>7. Due(ks, ps, q) = ps[i]
        <3>1. 0 \in 0 .. n /\ i \in Nat \ {0} /\ q + 0 = q
            BY <1>3, <2>1
        <3>2. Due(ks, ps, i * (n + 1) + 0) = ps[i]
            BY <1>3, <3>1, DueProcess
        <3> QED BY <1>4, <2>1, <3>1, <3>2
    <2>8. q \in 1 .. p + n
        BY <1>3, <2>6
    <2> QED BY <1>7, <2>6, <2>7, <2>8
<1>11. Len(shown) >= n
    BY <1>3, <1>5, <1>6
<1> HIDE DEF n, m
<1>12. {shown[i] : i \in n + 1 .. p + n} = {ps[i] : i \in 1 .. m}
    BY <1>9, <1>10
<1> QED BY <1>6, <1>8, <1>11, <1>12

-----------------------------------------------------------------------------
(* Whatever is added, inserted, removed, set, cleared or converted, each   *)
(* list stays whole: its two chains, its ends, its counter and its nodes   *)
(* agree, and no array has a wild item among its count.                    *)
THEOREM SectionListCoherent == Spec => []ListsCoherent
<1>1. Init => ListsInv
    BY InitLists
<1>2. ListsInv /\ [Next]_vars => ListsInv'
    BY NextLists
<1>3. ListsInv => ListsCoherent
    BY KeepsCoherent DEF ListsInv, Kept, ListsCoherent
<1> QED BY <1>1, <1>2, <1>3, PTL DEF Spec

(* A dump, once it has ended, has shown the sections of the kernel, each   *)
(* once and in order, and after them sections of the process only, and     *)
(* every one of those.                                                     *)
THEOREM SectionListDumpMissesNone == Spec => []DumpMissesNone
<1> DEFINE IInv == ListsInv /\ DumpInv
<1>1. Init => IInv
    <2>1. Init => dump = Idle
        BY DEF Init
    <2>2. dump = Idle => DumpInv
        BY IdleDump DEF DumpInv
    <2> QED BY <2>1, <2>2, InitLists
<1>2. IInv /\ [Next]_vars => IInv'
    BY NextLists, NextDump
<1>3. IInv => DumpMissesNone
    BY DumpInvComplete
<1> QED BY <1>1, <1>2, <1>3, PTL DEF Spec

(* The lists, arrays or nodes and pointers, implement the two sequences of *)
(* AbsSectionList: every call has the effect and the answer it promises,   *)
(* but for a Remove of an array that takes two sections and the calls with *)
(* an index in the part of the process, which Departs names; a conversion  *)
(* and a dump change nothing.                                              *)
THEOREM SectionListImplementsAbs == Spec => ImplementsAbs
<1>1. Init => ListsInv /\ Abs!Init
    BY InitLists
<1>2. ListsInv /\ [Next]_vars => ListsInv' /\ [Abs!Next \/ Departs]_(Abs!vars)
    BY NextLists
<1> QED BY <1>1, <1>2, PTL DEF Spec, ImplementsAbs
=============================================================================
