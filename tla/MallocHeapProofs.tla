------------------------- MODULE MallocHeapProofs -------------------------
(* Lemmas about what the allocator of Malloc keeps in memory: the sizes of *)
(* chunks in a word's arithmetic, the bins and tries that index the free   *)
(* chunks by size, the tiling of the segment by chunks, and what the       *)
(* routines that take, free, cut and join chunks do to them. MallocProofs  *)
(* builds the proofs of the calls on them.                                 *)
EXTENDS Malloc, NaturalsInduction, FiniteSetTheorems, SequenceTheorems, TLAPS

-----------------------------------------------------------------------------
(* Smallest and largest elements, and induction along a list.              *)

(* A nonempty set of natural numbers has a smallest element.               *)
LEMMA SmallestElement ==
  ASSUME NEW S, S \subseteq Nat, S # {}
  PROVE  \E m \in S : \A n \in S : m <= n
<1>1. PICK m \in S : \A n \in S : <<n, m>> \notin OpToRel(<, Nat)
  BY NatLessThanWellFounded, WFMin, Zenon
<1>2. ASSUME NEW n \in S PROVE ~ n < m
  BY <1>1, Zenon DEF OpToRel
<1>. QED BY <1>2

(* A nonempty set of natural numbers with an upper bound has a largest     *)
(* element: its distance to the bound is the smallest.                     *)
LEMMA LargestElement ==
  ASSUME NEW n \in Nat, NEW S, S \subseteq 0 .. n, S # {}
  PROVE  \E m \in S : \A x \in S : m >= x
<1>. DEFINE T == {n - x : x \in S}
<1>1. T \subseteq Nat /\ T # {}
  <2>1. \A x \in S : n - x \in Nat
    OBVIOUS
  <2>2. PICK x \in S : TRUE
    OBVIOUS
  <2>3. n - x \in T
    OBVIOUS
  <2>. QED BY <2>1, <2>3
<1>2. PICK d \in T : \A y \in T : d <= y
  <2>. HIDE DEF T
  <2>. QED BY <1>1, SmallestElement
<1>3. PICK m \in S : d = n - m
  BY <1>2
<1>4. ASSUME NEW x \in S PROVE m >= x
  <2>1. n - m <= n - x
    BY <1>2, <1>3
  <2>. QED BY <2>1
<1>. QED BY <1>4

(* A walk of n steps in D that starts with a and whose i-th step takes v   *)
(* to G[i][v].                                                             *)
IsWalk(f, n, D, a, G) ==
    /\ f \in [0 .. n -> D]
    /\ f[0] = a
    /\ \A i \in 1 .. n : f[i] = G[i][f[i-1]]

(* A walk of any length exists, if every step leads to a value of D.       *)
LEMMA WalkExists ==
    ASSUME NEW n \in Nat, NEW D, NEW a \in D, NEW G \in [1 .. n -> [D -> D]]
    PROVE  \E f : IsWalk(f, n, D, a, G)
<1> DEFINE Goes(f, m) == IsWalk(f, m, D, a, G)
           Bad == {m \in 0 .. n : ~ \E f : Goes(f, m)}
<1>1. SUFFICES ASSUME Bad # {} PROVE FALSE
    <2>1. n \in 0 .. n
        OBVIOUS
    <2>2. \E f : Goes(f, n)
        BY <2>1
    <2> QED BY <2>2
<1>2. Bad \subseteq Nat
    OBVIOUS
<1>3. PICK m \in Bad : \A k \in Bad : m <= k
    <2> HIDE DEF Bad
    <2> QED BY <1>1, <1>2, SmallestElement
<1>4. m \in 0 .. n /\ ~ \E f : Goes(f, m)
    OBVIOUS
<1>5. CASE m = 0
    <2>1. Goes([i \in 0 .. 0 |-> a], 0)
        BY DEF IsWalk
    <2> QED BY <2>1, <1>4, <1>5
<1>6. CASE m # 0
    <2>1. m \in 1 .. n /\ m - 1 \in 0 .. n /\ m - 1 \notin Bad
        <3>1. m \in 1 .. n /\ m - 1 \in 0 .. n /\ ~ (m <= m - 1)
            BY <1>4, <1>6
        <3> HIDE DEF Bad
        <3> QED BY <3>1, <1>3
    <2>2. PICK f : Goes(f, m - 1)
        BY <2>1
    <2> HIDE DEF Bad
    <2> DEFINE g == [i \in 0 .. m |-> IF i < m THEN f[i] ELSE G[m][f[m-1]]]
    <2>3. /\ f \in [0 .. m - 1 -> D]
          /\ f[0] = a
          /\ \A i \in 1 .. m - 1 : f[i] = G[i][f[i-1]]
        BY <2>2 DEF IsWalk
    <2> HIDE DEF Goes
    <2>4. G[m][f[m-1]] \in D
        BY <2>1, <2>3
    <2>5. g \in [0 .. m -> D]
        BY <2>1, <2>3, <2>4
    <2>6. /\ \A i \in 0 .. m - 1 : g[i] = f[i]
          /\ g[m] = G[m][f[m-1]]
        BY <2>1
    <2> HIDE DEF g
    <2>7. ASSUME NEW i \in 1 .. m PROVE g[i] = G[i][g[i-1]]
        <3>1. i - 1 \in 0 .. m - 1 /\ g[i-1] = f[i-1]
            BY <2>1, <2>6
        <3>2. CASE i = m
            BY <3>1, <3>2, <2>6
        <3>3. CASE i \in 1 .. m - 1
            <4>1. g[i] = f[i] /\ f[i] = G[i][f[i-1]]
                BY <3>3, <2>1, <2>3, <2>6
            <4> QED BY <4>1, <3>1
        <3> QED BY <3>2, <3>3, <2>1
    <2>8. Goes(g, m)
        <3>1. 0 \in 0 .. m - 1
            BY <2>1
        <3> QED BY <3>1, <2>3, <2>5, <2>6, <2>7 DEF Goes, IsWalk
    <2> QED BY <2>8, <1>4
<1> QED BY <1>5, <1>6

(* Induction along a walk of n steps: what holds at its start, and after   *)
(* each step if it held before it, holds at every position.                *)
LEMMA WalkInduction ==
    ASSUME NEW n \in Nat, NEW S,
           0 \in S,
           \A i \in 1 .. n : i - 1 \in S => i \in S
    PROVE  \A i \in 0 .. n : i \in S
<1> DEFINE Bad == {i \in 0 .. n : i \notin S}
<1>1. SUFFICES ASSUME Bad # {} PROVE FALSE
    OBVIOUS
<1>2. Bad \subseteq Nat
    OBVIOUS
<1>3. PICK m \in Bad : \A k \in Bad : m <= k
    <2> HIDE DEF Bad
    <2> QED BY <1>1, <1>2, SmallestElement
<1>4. m \in 1 .. n /\ m \notin S
    OBVIOUS
<1>5. m - 1 \in 0 .. n /\ ~ (m <= m - 1)
    BY <1>4
<1>6. m - 1 \in S
    BY <1>3, <1>5
<1> QED BY <1>4, <1>6

-----------------------------------------------------------------------------
(* Sizes: powers of two, words, padding, and the numbers of the bins.      *)

(* Powers of two: the words and bit numbers of a machine are few enough for *)
(* a table.                                                                *)
LEMMA PowerTable ==
  ASSUME NEW k \in 0 .. 32
  PROVE  2^(k + 1) = 2 * 2^k /\ 2^k \in Nat /\ 2^k > 0
<1>1. /\ 2^0 = 1 /\ 2^1 = 2 /\ 2^2 = 4 /\ 2^3 = 8
      /\ 2^4 = 16 /\ 2^5 = 32 /\ 2^6 = 64 /\ 2^7 = 128
      /\ 2^8 = 256 /\ 2^9 = 512 /\ 2^10 = 1024 /\ 2^11 = 2048
      /\ 2^12 = 4096 /\ 2^13 = 8192 /\ 2^14 = 16384 /\ 2^15 = 32768
      /\ 2^16 = 65536 /\ 2^17 = 131072 /\ 2^18 = 262144 /\ 2^19 = 524288
      /\ 2^20 = 1048576 /\ 2^21 = 2097152 /\ 2^22 = 4194304 /\ 2^23 = 8388608
      /\ 2^24 = 16777216 /\ 2^25 = 33554432 /\ 2^26 = 67108864 /\ 2^27 = 134217728
      /\ 2^28 = 268435456 /\ 2^29 = 536870912 /\ 2^30 = 1073741824 /\ 2^31 = 2147483648
      /\ 2^32 = 4294967296 /\ 2^33 = 8589934592
  OBVIOUS
<1>2. \/ k = 0 \/ k = 1 \/ k = 2 \/ k = 3 \/ k = 4 \/ k = 5 \/ k = 6 \/ k = 7
      \/ k = 8 \/ k = 9 \/ k = 10 \/ k = 11 \/ k = 12 \/ k = 13 \/ k = 14 \/ k = 15
      \/ k = 16 \/ k = 17 \/ k = 18 \/ k = 19 \/ k = 20 \/ k = 21 \/ k = 22 \/ k = 23
      \/ k = 24 \/ k = 25 \/ k = 26 \/ k = 27 \/ k = 28 \/ k = 29 \/ k = 30 \/ k = 31
      \/ k = 32
  OBVIOUS
<1>3. CASE k = 0
  BY <1>1, <1>3
<1>4. CASE k = 1
  BY <1>1, <1>4
<1>5. CASE k = 2
  BY <1>1, <1>5
<1>6. CASE k = 3
  BY <1>1, <1>6
<1>7. CASE k = 4
  BY <1>1, <1>7
<1>8. CASE k = 5
  BY <1>1, <1>8
<1>9. CASE k = 6
  BY <1>1, <1>9
<1>10. CASE k = 7
  BY <1>1, <1>10
<1>11. CASE k = 8
  BY <1>1, <1>11
<1>12. CASE k = 9
  BY <1>1, <1>12
<1>13. CASE k = 10
  BY <1>1, <1>13
<1>14. CASE k = 11
  BY <1>1, <1>14
<1>15. CASE k = 12
  BY <1>1, <1>15
<1>16. CASE k = 13
  BY <1>1, <1>16
<1>17. CASE k = 14
  BY <1>1, <1>17
<1>18. CASE k = 15
  BY <1>1, <1>18
<1>19. CASE k = 16
  BY <1>1, <1>19
<1>20. CASE k = 17
  BY <1>1, <1>20
<1>21. CASE k = 18
  BY <1>1, <1>21
<1>22. CASE k = 19
  BY <1>1, <1>22
<1>23. CASE k = 20
  BY <1>1, <1>23
<1>24. CASE k = 21
  BY <1>1, <1>24
<1>25. CASE k = 22
  BY <1>1, <1>25
<1>26. CASE k = 23
  BY <1>1, <1>26
<1>27. CASE k = 24
  BY <1>1, <1>27
<1>28. CASE k = 25
  BY <1>1, <1>28
<1>29. CASE k = 26
  BY <1>1, <1>29
<1>30. CASE k = 27
  BY <1>1, <1>30
<1>31. CASE k = 28
  BY <1>1, <1>31
<1>32. CASE k = 29
  BY <1>1, <1>32
<1>33. CASE k = 30
  BY <1>1, <1>33
<1>34. CASE k = 31
  BY <1>1, <1>34
<1>35. CASE k = 32
  BY <1>1, <1>35
<1>. QED BY <1>2, <1>3, <1>4, <1>5, <1>6, <1>7, <1>8, <1>9, <1>10, <1>11, <1>12, <1>13, <1>14, <1>15, <1>16, <1>17, <1>18, <1>19, <1>20, <1>21, <1>22, <1>23, <1>24, <1>25, <1>26, <1>27, <1>28, <1>29, <1>30, <1>31, <1>32, <1>33, <1>34, <1>35

(* Larger exponents give larger powers, and multiples.                     *)
LEMMA PowerMultiple ==
  ASSUME NEW j \in 0 .. 33, NEW k \in 0 .. 33, j <= k
  PROVE  /\ 2^j \in Nat /\ 2^j > 0 /\ 2^k \in Nat
         /\ 2^j <= 2^k
         /\ \E q \in Nat : 2^k = q * 2^j
<1>. DEFINE P(d) == /\ 2^(j + d) \in Nat /\ 2^j <= 2^(j + d)
                   /\ \E q \in Nat : 2^(j + d) = q * 2^j
            S == {d \in 0 .. k - j : P(d)}
<1>1. 2^j \in Nat /\ 2^j > 0
  <2>1. CASE j = 33
    <3>1. 2^33 = 8589934592
      OBVIOUS
    <3>. QED BY <2>1, <3>1
  <2>2. CASE j \in 0 .. 32
    BY <2>2, PowerTable
  <2>. QED BY <2>1, <2>2
<1>2. 0 \in S
  <2>1. j + 0 = j /\ 2^j = 1 * 2^j
    BY <1>1
  <2>. QED BY <1>1, <2>1
<1>3. ASSUME NEW d \in 1 .. k - j, d - 1 \in S PROVE d \in S
  <2>1. 2^(j + d) = 2 * 2^(j + (d - 1)) /\ 2^(j + (d - 1)) > 0
    <3>1. j + (d - 1) \in 0 .. 32 /\ (j + (d - 1)) + 1 = j + d
      OBVIOUS
    <3>. QED BY <3>1, PowerTable
  <2>2. P(d - 1) /\ 2^(j + (d - 1)) \in Nat /\ 2^j <= 2^(j + (d - 1))
    BY <1>3
  <2>3. PICK q \in Nat : 2^(j + (d - 1)) = q * 2^j
    BY <2>2
  <2>4. 2 * (q * 2^j) = (2 * q) * 2^j
    BY <1>1
  <2>5. 2^(j + d) = (2 * q) * 2^j /\ 2 * q \in Nat
    BY <2>1, <2>3, <2>4
  <2>6. 2^(j + d) \in Nat /\ 2^j <= 2^(j + d)
    <3>. HIDE DEF P, S
    <3>. QED BY <1>1, <2>1, <2>2
  <2>7. \E p \in Nat : 2^(j + d) = p * 2^j
    BY <2>5
  <2>8. d \in 0 .. k - j
    OBVIOUS
  <2>. QED BY <2>6, <2>7, <2>8, Zenon
<1>4. k - j \in S
  <2>. HIDE DEF S
  <2>. QED BY <1>2, <1>3, WalkInduction
<1>5. P(k - j) /\ j + (k - j) = k
  BY <1>4
<1>. QED BY <1>1, <1>5

(* Powers of two are positive numbers.                                     *)
LEMMA PowerNat ==
  ASSUME NEW k \in 0 .. 33
  PROVE  2^k \in Nat /\ 2^k > 0
<1>1. k <= k
  OBVIOUS
<1>. QED BY <1>1, PowerMultiple

(* The number of values of a size_t.                                       *)
WordRange == 2^SIZE_T_BITSIZE

(* Division with remainder.                                                *)
LEMMA DivMod ==
  ASSUME NEW x \in Int, NEW a \in Nat, a > 0
  PROVE  /\ x % a \in 0 .. a - 1 /\ x \div a \in Int
         /\ x = a * (x \div a) + (x % a)
  OBVIOUS

(* A remainder is the only number of its range at its distance.            *)
LEMMA ModUnique ==
  ASSUME NEW x \in Int, NEW a \in Nat, a > 0, NEW q \in Int, NEW r \in 0 .. a - 1, x = a * q + r
  PROVE  x % a = r /\ x \div a = q
<1>1. /\ x % a \in 0 .. a - 1 /\ x \div a \in Int
      /\ x = a * (x \div a) + (x % a)
  BY DivMod
<1>. DEFINE d == x \div a
            s == x % a
<1>. HIDE DEF d, s
<1>2. s \in 0 .. a - 1 /\ d \in Int /\ a * d + s = a * q + r
  BY <1>1 DEF d, s
<1>3. a * (d - q) = r - s
  BY <1>2
<1>4. d - q = 0
  <2>1. CASE d - q >= 1
    <3>1. a * (d - q) >= a
      BY <2>1, <1>2
    <3>. QED BY <3>1, <1>2, <1>3
  <2>2. CASE d - q <= -1
    <3>1. a * (d - q) <= -a
      BY <2>2, <1>2
    <3>. QED BY <3>1, <1>2, <1>3
  <2>. QED BY <2>1, <2>2, <1>2
<1>5. d = q /\ s = r
  BY <1>2, <1>3, <1>4
<1>. QED BY <1>5 DEF d, s

(* What the constants give of the range of a word and of its half.         *)
LEMMA WordFacts ==
  /\ WordRange \in Nat /\ WordRange >= 4096 /\ WordRange % 8 = 0
  /\ MAX_SIZE_T = WordRange - 1
  /\ HALF_MAX_SIZE_T \in Nat /\ 2 * HALF_MAX_SIZE_T = WordRange - 2
  /\ 2^(SIZE_T_BITSIZE - 1) = HALF_MAX_SIZE_T + 1
<1>1. SIZE_T_BITSIZE \in 12 .. 32
  BY MallocAssumption
<1>2. 2^12 = 4096
  OBVIOUS
<1>3. WordRange \in Nat /\ WordRange >= 4096
  <2>1. 12 \in 0 .. 33 /\ SIZE_T_BITSIZE \in 0 .. 33 /\ 12 <= SIZE_T_BITSIZE
    BY <1>1
  <2>2. 2^12 <= 2^SIZE_T_BITSIZE /\ 2^SIZE_T_BITSIZE \in Nat /\ \E q \in Nat : 2^SIZE_T_BITSIZE = q * 2^12
    BY <2>1, PowerMultiple, Zenon
  <2>. QED BY <2>2, <1>2 DEF WordRange
<1>4. PICK q \in Nat : WordRange = q * 4096
  <2>1. 12 \in 0 .. 33 /\ SIZE_T_BITSIZE \in 0 .. 33 /\ 12 <= SIZE_T_BITSIZE
    BY <1>1
  <2>2. 2^12 <= 2^SIZE_T_BITSIZE /\ 2^SIZE_T_BITSIZE \in Nat /\ \E q \in Nat : 2^SIZE_T_BITSIZE = q * 2^12
    BY <2>1, PowerMultiple, Zenon
  <2>. QED BY <2>2, <1>2 DEF WordRange
<1>5. WordRange % 8 = 0
  BY <1>3, <1>4
<1>6. WordRange = 2 * 2^(SIZE_T_BITSIZE - 1) /\ 2^(SIZE_T_BITSIZE - 1) \in Nat
  <2>1. SIZE_T_BITSIZE - 1 \in 0 .. 32 /\ (SIZE_T_BITSIZE - 1) + 1 = SIZE_T_BITSIZE
    BY <1>1
  <2>. QED BY <2>1, PowerTable DEF WordRange
<1>7. MAX_SIZE_T = WordRange - 1
  BY DEF MAX_SIZE_T, WordRange
<1>8. HALF_MAX_SIZE_T = 2^(SIZE_T_BITSIZE - 1) - 1
  BY <1>3, <1>6, <1>7 DEF HALF_MAX_SIZE_T
<1>. QED BY <1>3, <1>5, <1>6, <1>7, <1>8

(* size_t arithmetic within one turn of the word.                          *)
LEMMA WordOf ==
  ASSUME NEW x \in Int
  PROVE  /\ Word(x) \in 0 .. WordRange - 1
         /\ 0 <= x /\ x < WordRange => Word(x) = x
         /\ -WordRange <= x /\ x < 0 => Word(x) = x + WordRange
         /\ WordRange <= x /\ x < 2 * WordRange => Word(x) = x - WordRange
<1>1. WordRange \in Nat /\ WordRange > 0
  BY WordFacts
<1>2. Word(x) = x % WordRange
  BY DEF Word, WordRange
<1>3. Word(x) \in 0 .. WordRange - 1
  BY <1>1, <1>2, DivMod
<1>4. ASSUME 0 <= x, x < WordRange PROVE Word(x) = x
  <2>1. x = WordRange * 0 + x /\ x \in 0 .. WordRange - 1
    BY <1>1, <1>4
  <2>. QED BY <1>1, <1>2, <2>1, ModUnique
<1>5. ASSUME -WordRange <= x, x < 0 PROVE Word(x) = x + WordRange
  <2>1. x = WordRange * (-1) + (x + WordRange) /\ x + WordRange \in 0 .. WordRange - 1
    BY <1>1, <1>5
  <2>. QED BY <1>1, <1>2, <2>1, ModUnique
<1>6. ASSUME WordRange <= x, x < 2 * WordRange PROVE Word(x) = x - WordRange
  <2>1. x = WordRange * 1 + (x - WordRange) /\ x - WordRange \in 0 .. WordRange - 1
    BY <1>1, <1>6
  <2>. QED BY <1>1, <1>2, <2>1, ModUnique
<1>. QED BY <1>3, <1>4, <1>5, <1>6

(* Rounding down to a multiple of a leaves less than a.                    *)
LEMMA AlignDownFacts ==
  ASSUME NEW x \in Nat, NEW a \in Nat, a > 0
  PROVE  /\ AlignDown(x, a) \in Nat /\ AlignDown(x, a) <= x /\ AlignDown(x, a) > x - a
         /\ AlignDown(x, a) % a = 0
<1>1. x % a \in 0 .. a - 1 /\ x \div a \in Int /\ x = a * (x \div a) + (x % a)
  BY DivMod
<1>2. x \div a >= 0
  <2>1. CASE x \div a <= -1
    <3>1. a * (x \div a) <= -a
      BY <1>1, <2>1
    <3>. QED BY <3>1, <1>1
  <2>. QED BY <2>1, <1>1
<1>3. a * (x \div a) \in Nat
  BY <1>1, <1>2
<1>4. AlignDown(x, a) = a * (x \div a) + 0
  BY <1>1, <1>3 DEF AlignDown
<1>5. AlignDown(x, a) \in Nat /\ AlignDown(x, a) <= x /\ AlignDown(x, a) > x - a
  BY <1>1, <1>3, <1>4
<1>6. 0 \in 0 .. a - 1
  OBVIOUS
<1>. QED BY <1>1, <1>4, <1>5, <1>6, ModUnique

(* Sizes and alignments of the configuration.                              *)
LEMMA SizeFacts ==
  /\ CHUNK_OVERHEAD = 4 /\ MIN_CHUNK_SIZE = 16 /\ MIN_REQUEST = 11 /\ SIZE_T_SIZE = 4
  /\ MALLOC_ALIGNMENT = 8 /\ MAX_REQUEST = WordRange - 64 /\ TOP_FOOT_SIZE = 40
  /\ \A p \in Int : chunk2mem(p) = p + 8 /\ mem2chunk(p) = p - 8
  /\ \A p \in Nat : p % 8 = 0 => align_offset(chunk2mem(p)) = 0 /\ align_as_chunk(p) = p
<1>1. /\ CHUNK_OVERHEAD = 4 /\ MIN_CHUNK_SIZE = 16 /\ MIN_REQUEST = 11 /\ SIZE_T_SIZE = 4
      /\ MALLOC_ALIGNMENT = 8
  BY DEF CHUNK_OVERHEAD, MIN_CHUNK_SIZE, MIN_REQUEST, SIZE_T_SIZE, MALLOC_ALIGNMENT
<1>2. MAX_REQUEST = WordRange - 64
  <2>1. -MIN_CHUNK_SIZE * 4 = -64
    BY <1>1
  <2>2. Word(-64) = (-64) + WordRange
    BY WordOf, WordFacts
  <2>. QED BY <2>1, <2>2, WordFacts DEF MAX_REQUEST
<1>3. \A p \in Int : chunk2mem(p) = p + 8 /\ mem2chunk(p) = p - 8
  BY <1>1 DEF chunk2mem, mem2chunk
<1>4. ASSUME NEW p \in Nat, p % 8 = 0
      PROVE  align_offset(chunk2mem(p)) = 0 /\ align_as_chunk(p) = p
  <2>1. align_offset(chunk2mem(p)) = (-(p + 8)) % 8
    BY <1>1, <1>3 DEF align_offset
  <2>2. (-(p + 8)) % 8 = 0
    BY <1>4
  <2>. QED BY <2>1, <2>2 DEF align_as_chunk
<1>5. TOP_FOOT_SIZE = 40
  <2>1. align_offset(chunk2mem(0)) = 0
    BY <1>4
  <2>2. pad_request(16) = AlignDown(Word(27), 8)
    BY <1>1 DEF pad_request
  <2>3. Word(27) = 27
    BY WordOf, WordFacts
  <2>4. AlignDown(27, 8) = 24
    BY DEF AlignDown
  <2>. QED BY <1>1, <2>1, <2>2, <2>3, <2>4 DEF TOP_FOOT_SIZE
<1>. QED BY <1>1, <1>2, <1>3, <1>4, <1>5

(* What a size becomes as a chunk.                                         *)
LEMMA PadFacts ==
  ASSUME NEW b \in Nat, b < MAX_REQUEST
  PROVE  /\ pad_request(b) \in Nat /\ pad_request(b) % 8 = 0
         /\ pad_request(b) >= b + 4 /\ pad_request(b) <= b + 11
         /\ request2size(b) \in Nat /\ request2size(b) % 8 = 0 /\ request2size(b) >= 16
         /\ request2size(b) >= b + 4 /\ request2size(b) <= b + 16
         /\ b >= MIN_REQUEST => pad_request(b) = request2size(b)
<1>1. b + 11 < WordRange
  BY SizeFacts, WordFacts
<1>2. Word(b + 11) = b + 11
  BY <1>1, WordOf
<1>3. pad_request(b) = AlignDown(b + 11, 8)
  <2>1. b + CHUNK_OVERHEAD + MALLOC_ALIGNMENT - 1 = b + 11
    BY SizeFacts
  <2>. QED BY <2>1, <1>2, SizeFacts DEF pad_request
<1>4. AlignDown(b + 11, 8) = (b + 11) - ((b + 11) % 8)
  BY DEF AlignDown
<1>. QED BY <1>3, <1>4, SizeFacts DEF request2size

(* The exponent of a product of powers.                                    *)
LEMMA PowerSum ==
  ASSUME NEW j \in 0 .. 33, NEW k \in 0 .. 33, j + k <= 33
  PROVE  2^(j + k) = 2^k * 2^j
<1>. DEFINE S == {d \in 0 .. k : 2^(j + d) = 2^d * 2^j}
<1>1. 0 \in S
  <2>0. 2^j \in Nat
    BY PowerNat
  <2>1. 2^0 = 1 /\ 2^j \in Nat /\ j + 0 = j
    BY <2>0
  <2>. QED BY <2>1
<1>2. ASSUME NEW d \in 1 .. k, d - 1 \in S PROVE d \in S
  <2>1. 2^(j + d) = 2 * 2^(j + (d - 1))
    <3>1. j + (d - 1) \in 0 .. 32 /\ (j + (d - 1)) + 1 = j + d
      OBVIOUS
    <3>. QED BY <3>1, PowerTable
  <2>2. 2^d = 2 * 2^(d - 1)
    <3>1. d - 1 \in 0 .. 32 /\ (d - 1) + 1 = d
      OBVIOUS
    <3>. QED BY <3>1, PowerTable
  <2>3. 2^(d - 1) \in Nat /\ 2^j \in Nat
    <3>1. d - 1 \in 0 .. 33
      OBVIOUS
    <3>. QED BY <3>1, PowerNat
  <2>4. 2^(j + (d - 1)) = 2^(d - 1) * 2^j
    BY <1>2
  <2>5. 2 * (2^(d - 1) * 2^j) = (2 * 2^(d - 1)) * 2^j
    BY <2>3
  <2>6. 2^(j + d) = 2^d * 2^j
    BY <2>1, <2>2, <2>4, <2>5, Zenon
  <2>. QED BY <2>6
<1>3. k \in S
  <2>. HIDE DEF S
  <2>. QED BY <1>1, <1>2, WalkInduction
<1>. QED BY <1>3

(* The bits of a number, one after the other.                              *)
LEMMA BitStep ==
  ASSUME NEW s \in Nat, NEW k \in 0 .. 32
  PROVE  /\ Bit(s, k) \in {0, 1}
         /\ s \div 2^k \in Nat /\ s \div 2^(k + 1) \in Nat
         /\ s \div 2^k = 2 * (s \div 2^(k + 1)) + Bit(s, k)
<1>. DEFINE u == 2^k
            d == s \div u
            e == d \div 2
            f == d % 2
            r == s % u
<1>1. u \in Nat /\ u > 0 /\ 2^(k + 1) = 2 * u
  BY PowerTable
<1>2. d \in Int /\ r \in 0 .. u - 1 /\ s = u * d + r
  <2>. HIDE DEF u
  <2>. QED BY <1>1, DivMod
<1>3. Bit(s, k) = f
  BY DEF Bit
<1>. HIDE DEF u, d, r
<1>4. e \in Int /\ f \in {0, 1} /\ d = 2 * e + f
  BY <1>2
<1>. HIDE DEF e, f
<1>5. s = (2 * u) * e + (u * f + r)
  <2>1. u * (2 * e + f) = (2 * u) * e + u * f
    BY <1>1, <1>2, <1>4
  <2>2. u * d = u * (2 * e + f)
    BY <1>4
  <2>3. u * f \in Int /\ (2 * u) * e \in Int
    BY <1>1, <1>4
  <2>4. s = u * d + r /\ r \in Int
    BY <1>1, <1>2
  <2>5. s = ((2 * u) * e + u * f) + r
    BY <2>1, <2>2, <2>4
  <2>. QED BY <2>3, <2>4, <2>5
<1>6. u * f + r \in 0 .. 2 * u - 1
  <2>1. CASE f = 0
    BY <1>1, <1>2, <2>1
  <2>2. CASE f = 1
    BY <1>1, <1>2, <2>2
  <2>. QED BY <1>4, <2>1, <2>2
<1>7. s \div (2 * u) = e
  <2>. DEFINE w == 2 * u
              g == u * f + r
  <2>1. w \in Nat /\ w > 0
    BY <1>1
  <2>2. s = w * e + g /\ g \in 0 .. w - 1 /\ s \in Int
    BY <1>5, <1>6
  <2>. HIDE DEF w, g
  <2>3. s \div w = e
    BY <1>4, <2>1, <2>2, ModUnique
  <2>. QED BY <2>3 DEF w
<1>8. e \in Nat
  <2>1. CASE e <= -1
    <3>1. (2 * u) * e <= -(2 * u)
      BY <1>1, <1>4, <2>1
    <3>. QED BY <3>1, <1>5, <1>6, <1>1, <1>4
  <2>. QED BY <2>1, <1>4
<1>9. d \in Nat
  BY <1>4, <1>8
<1>. QED BY <1>1, <1>3, <1>4, <1>7, <1>8, <1>9 DEF d, u

(* Numbers with the same high part that turn the same way d times agree    *)
(* on all but the low b + 1 - d bits.                                      *)
LEMMA SameTurns ==
  ASSUME NEW s \in Nat, NEW z \in Nat, NEW b \in 0 .. 31, NEW d \in 0 .. b + 1,
         s \div 2^(b + 1) = z \div 2^(b + 1),
         Turns(s, b, d) = Turns(z, b, d)
  PROVE  s \div 2^(b + 1 - d) = z \div 2^(b + 1 - d)
<1>. DEFINE S == {j \in 0 .. d : s \div 2^(b + 1 - j) = z \div 2^(b + 1 - j)}
<1>1. 0 \in S
  <2>1. b + 1 - 0 = b + 1
    OBVIOUS
  <2>. QED BY <2>1
<1>2. ASSUME NEW j \in 1 .. d, j - 1 \in S PROVE j \in S
  <2>. DEFINE k == b + 1 - j
  <2>1. k \in 0 .. 32 /\ b + 1 - (j - 1) = k + 1
    OBVIOUS
  <2>2. Bit(s, k) = Bit(z, k)
    <3>1. Turns(s, b, d)[j] = Bit(s, k) /\ Turns(z, b, d)[j] = Bit(z, k)
      BY DEF Turns
    <3>. QED BY <3>1
  <2>3. s \div 2^(k + 1) = z \div 2^(k + 1)
    BY <1>2, <2>1
  <2>. HIDE DEF k
  <2>4. s \div 2^k = z \div 2^k
    BY <2>1, <2>2, <2>3, BitStep
  <2>. QED BY <2>4 DEF k
<1>3. d \in S
  <2>. HIDE DEF S
  <2>. QED BY <1>1, <1>2, WalkInduction
<1>. QED BY <1>3

(* Two sizes of one bin that make the same turns at every bit are one.     *)
LEMMA TurnsDetermine ==
  ASSUME NEW s \in Nat, NEW z \in Nat, NEW b \in 0 .. 31,
         s \div 2^(b + 1) = z \div 2^(b + 1),
         Turns(s, b, b + 1) = Turns(z, b, b + 1)
  PROVE  s = z
<1>1. s \div 2^(b + 1 - (b + 1)) = z \div 2^(b + 1 - (b + 1))
  <2>1. b + 1 \in 0 .. b + 1
    OBVIOUS
  <2>. QED BY <2>1, SameTurns
<1>2. b + 1 - (b + 1) = 0 /\ 2^0 = 1
  OBVIOUS
<1>3. s \div 1 = z \div 1
  BY <1>1, <1>2
<1>. QED BY <1>3

-----------------------------------------------------------------------------
(* The bins of the large sizes.                                            *)

(* What the assumption on the constants gives of the bins.                 *)
LEMMA BinConstants ==
  /\ TREEBIN_SHIFT \in 5 .. 32 /\ NTREEBINS \in Nat /\ NTREEBINS \div 2 \in 1 .. 32
  /\ NTREEBINS = 2 * (NTREEBINS \div 2)
  /\ TREEBIN_SHIFT + NTREEBINS \div 2 < SIZE_T_BITSIZE /\ SIZE_T_BITSIZE \in 12 .. 32
  /\ MIN_LARGE_SIZE \in Nat /\ MIN_LARGE_SIZE = 8 * NSMALLBINS
  /\ NSMALLBINS \in Nat /\ NSMALLBINS >= 4
<1>1. TREEBIN_SHIFT \in 5 .. 32 /\ SIZE_T_BITSIZE \in 12 .. 32 /\ NSMALLBINS \in Nat
  BY MallocAssumption
<1>2. PICK h \in 1 .. SIZE_T_BITSIZE : NTREEBINS = 2 * h /\ TREEBIN_SHIFT + h < SIZE_T_BITSIZE
  BY MallocAssumption
<1>3. h = NTREEBINS \div 2
  BY <1>1, <1>2
<1>4. MIN_LARGE_SIZE = 8 * NSMALLBINS
  BY <1>1, MallocAssumption DEF MIN_LARGE_SIZE
<1>5. 2^5 = 32 /\ 2^5 <= 2^TREEBIN_SHIFT
  <2>1. 5 \in 0 .. 33 /\ TREEBIN_SHIFT \in 0 .. 33 /\ 5 <= TREEBIN_SHIFT
    BY <1>1
  <2>2. 2^5 <= 2^TREEBIN_SHIFT
    BY <2>1, PowerMultiple, Zenon
  <2>. QED BY <2>2
<1>6. NSMALLBINS >= 4
  BY <1>1, <1>4, <1>5 DEF MIN_LARGE_SIZE
<1>. QED BY <1>1, <1>2, <1>3, <1>4, <1>6

(* A bin's least size, and that of the next one.                           *)
LEMMA MinSizes ==
  ASSUME NEW K \in 0 .. NTREEBINS \div 2 - 1
  PROVE  LET u == 2^(K + TREEBIN_SHIFT - 1)
         IN /\ u \in Nat /\ u > 0
            /\ 2^(K + TREEBIN_SHIFT) = 2 * u /\ 2^(K + 1 + TREEBIN_SHIFT) = 4 * u
            /\ minsize_for_tree_index(2 * K) = 2 * u
            /\ minsize_for_tree_index(2 * K + 1) = 3 * u
            /\ minsize_for_tree_index(2 * K + 2) = 4 * u
<1>. DEFINE k == K + TREEBIN_SHIFT - 1
            u == 2^k
<1>1. k \in 0 .. 32 /\ k + 1 = K + TREEBIN_SHIFT /\ k + 2 = K + 1 + TREEBIN_SHIFT /\ k + 1 \in 0 .. 32
      /\ (k + 1) + 1 = k + 2
  BY BinConstants
<1>2. u \in Nat /\ u > 0 /\ 2^(k + 1) = 2 * u
  <2>. HIDE DEF k
  <2>. QED BY <1>1, PowerTable
<1>3. 2^(k + 2) = 4 * u
  <2>1. 2^((k + 1) + 1) = 2 * 2^(k + 1)
    BY <1>1, PowerTable
  <2>. QED BY <1>1, <1>2, <2>1
<1>4. /\ (2 * K) \div 2 = K /\ (2 * K) % 2 = 0
      /\ (2 * K + 1) \div 2 = K /\ (2 * K + 1) % 2 = 1
      /\ (2 * K + 2) \div 2 = K + 1 /\ (2 * K + 2) % 2 = 0
  OBVIOUS
<1>5. K \in Nat /\ TREEBIN_SHIFT \in Nat
  BY BinConstants
<1>6. minsize_for_tree_index(2 * K) = 2^(K + TREEBIN_SHIFT) + 0 * u
  BY <1>4 DEF minsize_for_tree_index
<1>7. minsize_for_tree_index(2 * K + 1) = 2^(K + TREEBIN_SHIFT) + 1 * u
  BY <1>4 DEF minsize_for_tree_index
<1>8. minsize_for_tree_index(2 * K + 2) = 2^(K + 1 + TREEBIN_SHIFT) + 0 * 2^(K + 1 + TREEBIN_SHIFT - 1)
  BY <1>4 DEF minsize_for_tree_index
<1>9. 2^(K + 1 + TREEBIN_SHIFT - 1) = 2 * u
  <2>1. K + 1 + TREEBIN_SHIFT - 1 = k + 1
    BY <1>5
  <2>. QED BY <2>1, <1>2
<1>10. 2^(K + TREEBIN_SHIFT) = 2 * u /\ 2^(K + 1 + TREEBIN_SHIFT) = 4 * u
  BY <1>1, <1>2, <1>3
<1>. HIDE DEF u
<1>11. /\ minsize_for_tree_index(2 * K) = 2 * u
       /\ minsize_for_tree_index(2 * K + 1) = 3 * u
       /\ minsize_for_tree_index(2 * K + 2) = 4 * u
  BY <1>2, <1>6, <1>7, <1>8, <1>9, <1>10
<1>. QED BY <1>2, <1>10, <1>11 DEF u

(* The bin of a size is the one whose range it is in.                      *)
LEMMA TreeIndexRange ==
  ASSUME NEW s \in Nat, MIN_LARGE_SIZE <= s, s < WordRange
  PROVE  /\ compute_tree_index(s) \in 0 .. NTREEBINS - 1
         /\ minsize_for_tree_index(compute_tree_index(s)) <= s
         /\ compute_tree_index(s) < NTREEBINS - 1 =>
              s < minsize_for_tree_index(compute_tree_index(s) + 1)
<1>. DEFINE T == TREEBIN_SHIFT
            h == NTREEBINS \div 2
            X == s \div MIN_LARGE_SIZE
            r == s % MIN_LARGE_SIZE
            Fits(k) == 2^k <= X /\ X < 2^(k + 1)
            K == CHOOSE k \in 0 .. SIZE_T_BITSIZE : Fits(k)
<1>0. /\ T \in 5 .. 32 /\ h \in 1 .. 32 /\ NTREEBINS = 2 * h /\ T + h < SIZE_T_BITSIZE
      /\ SIZE_T_BITSIZE \in 12 .. 32
  BY BinConstants
<1>1. MIN_LARGE_SIZE \in Nat /\ MIN_LARGE_SIZE > 0 /\ MIN_LARGE_SIZE = 2^T
  BY BinConstants DEF MIN_LARGE_SIZE
<1>2. X \in Int /\ r \in 0 .. MIN_LARGE_SIZE - 1 /\ s = MIN_LARGE_SIZE * X + r
  BY <1>1, DivMod
<1>. HIDE DEF X, r
<1>3. X \in Nat /\ X >= 1
  <2>1. CASE X <= 0
    <3>1. MIN_LARGE_SIZE * X <= 0
      BY <1>1, <1>2, <2>1
    <3>. QED BY <3>1, <1>1, <1>2
  <2>. QED BY <1>2, <2>1
<1>4. X <= s
  <2>1. MIN_LARGE_SIZE * X >= X
    BY <1>1, <1>3
  <2>. QED BY <2>1, <1>1, <1>2
<1>5. \E k \in 0 .. SIZE_T_BITSIZE - 1 : Fits(k)
  <2>. DEFINE S == {k \in 0 .. SIZE_T_BITSIZE : 2^k <= X}
  <2>1. 0 \in S
    <3>1. 2^0 = 1
      OBVIOUS
    <3>. QED BY <3>1, <1>3, <1>0
  <2>2. PICK k \in S : \A j \in S : k >= j
    <3>0. S \subseteq 0 .. SIZE_T_BITSIZE
      BY Zenon
    <3>. HIDE DEF S
    <3>1. S \subseteq 0 .. SIZE_T_BITSIZE /\ S # {} /\ SIZE_T_BITSIZE \in Nat
      BY <2>1, <3>0, <1>0
    <3>. QED BY <3>1, LargestElement
  <2>3. SIZE_T_BITSIZE \notin S
    <3>1. ~(2^SIZE_T_BITSIZE <= X)
      BY <1>3, <1>4, WordFacts DEF WordRange
    <3>. QED BY <3>1
  <2>4. k \in 0 .. SIZE_T_BITSIZE - 1 /\ 2^k <= X
    <3>1. k \in 0 .. SIZE_T_BITSIZE /\ 2^k <= X /\ k # SIZE_T_BITSIZE
      BY <2>2, <2>3
    <3>. QED BY <3>1, <1>0
  <2>5. k + 1 \notin S /\ k + 1 \in 0 .. SIZE_T_BITSIZE
    <3>1. ~(k >= k + 1)
      BY <2>4
    <3>2. k + 1 \notin S
      <4>. HIDE DEF S
      <4>. QED BY <2>2, <3>1
    <3>. QED BY <3>2, <2>4, <1>0
  <2>6. 2^(k + 1) \in Nat
    <3>1. k + 1 \in 0 .. 33
      BY <2>5, <1>0
    <3>. QED BY <3>1, PowerNat
  <2>7. X < 2^(k + 1)
    BY <2>5, <2>6, <1>3
  <2>. QED BY <2>4, <2>7
<1>6. K \in 0 .. SIZE_T_BITSIZE /\ Fits(K)
  <2>1. \E k \in 0 .. SIZE_T_BITSIZE : Fits(k)
    <3>. HIDE DEF Fits
    <3>1. 0 .. SIZE_T_BITSIZE - 1 \subseteq 0 .. SIZE_T_BITSIZE
      BY <1>0
    <3>. QED BY <1>5, <3>1
  <2>. HIDE DEF Fits
  <2>. QED BY <2>1, Zenon
<1>7. compute_tree_index(s) = IF X >= 2^h THEN NTREEBINS - 1 ELSE 2 * K + Bit(s, K + T - 1)
  BY <1>3 DEF compute_tree_index, X
<1>8. 2^h \in Nat
  <2>1. h \in 0 .. 33
    BY <1>0
  <2>. QED BY <2>1, PowerNat
<1>. HIDE DEF K, h, T
<1>9. CASE X >= 2^h
  <2>. DEFINE k == h - 1
              u == 2^(k + T - 1)
  <2>0. k \in 0 .. NTREEBINS \div 2 - 1 /\ NTREEBINS - 1 = 2 * k + 1
    BY <1>0 DEF h
  <2>1. /\ u \in Nat /\ u > 0 /\ 2^(k + T) = 2 * u /\ minsize_for_tree_index(2 * k + 1) = 3 * u
    BY <2>0, MinSizes DEF T
  <2>2. 2^(k + 1 + T) = 4 * u
    BY <2>0, MinSizes DEF T
  <2>3. 2^(T + h) = 2^h * 2^T
    <3>1. T \in 0 .. 33 /\ h \in 0 .. 33 /\ T + h <= 33
      BY <1>0
    <3>. QED BY <3>1, PowerSum
  <2>4. k + 1 + T = T + h
    BY <1>0
  <2>5. 2^h * 2^T <= X * 2^T
    BY <1>9, <1>8, <1>3, <1>1
  <2>. HIDE DEF u
  <2>6. 4 * u <= s
    <3>1. s >= X * 2^T
      BY <1>1, <1>2, <1>3
    <3>. QED BY <3>1, <2>1, <2>2, <2>3, <2>4, <2>5, <1>1, <1>3
  <2>7. compute_tree_index(s) = NTREEBINS - 1
    BY <1>7, <1>9
  <2>8. 3 * u <= s
    BY <2>1, <2>6
  <2>. QED BY <2>0, <2>1, <2>7, <2>8, <1>0
<1>10. CASE X < 2^h
  <2>. DEFINE u == 2^(K + T - 1)
  <2>1. K <= h - 1
    <3>1. SUFFICES ASSUME h <= K PROVE FALSE
      BY <1>0, <1>6
    <3>2. 2^h <= 2^K
      <4>1. h \in 0 .. 33 /\ K \in 0 .. 33
        BY <1>0, <1>6
      <4>. QED BY <3>1, <4>1, PowerMultiple
    <3>3. 2^K \in Nat
      <4>1. K \in 0 .. 33
        BY <1>0, <1>6
      <4>. QED BY <4>1, PowerNat
    <3>. QED BY <3>2, <3>3, <1>3, <1>6, <1>8, <1>10
  <2>2. K \in 0 .. NTREEBINS \div 2 - 1
    BY <1>0, <1>6, <2>1 DEF h
  <2>3. /\ u \in Nat /\ u > 0 /\ 2^(K + T) = 2 * u /\ 2^(K + 1 + T) = 4 * u
        /\ minsize_for_tree_index(2 * K) = 2 * u
        /\ minsize_for_tree_index(2 * K + 1) = 3 * u
        /\ minsize_for_tree_index(2 * K + 2) = 4 * u
    BY <2>2, MinSizes DEF T
  <2>4. 2 * u <= s
    <3>1. 2^(T + K) = 2^K * 2^T /\ 2^K \in Nat /\ T + K = K + T
      <4>1. T \in 0 .. 33 /\ K \in 0 .. 33 /\ T + K <= 33 /\ T + K = K + T
        BY <1>0, <2>1, <1>6
      <4>2. 2^K \in Nat
        BY <4>1, PowerNat
      <4>. QED BY <4>1, <4>2, PowerSum, Zenon
    <3>2. 2^K * 2^T <= X * 2^T
      BY <3>1, <1>6, <1>3, <1>1
    <3>3. X * 2^T <= s
      BY <1>1, <1>2, <1>3
    <3>. HIDE DEF u
    <3>4. 2 * u <= X * 2^T
      BY <3>1, <3>2, <2>3, Zenon
    <3>5. X * 2^T \in Int
      BY <1>1, <1>3
    <3>. QED BY <3>3, <3>4, <3>5, <2>3
  <2>5. s < 4 * u
    <3>1. 2^(T + (K + 1)) = 2^(K + 1) * 2^T /\ 2^(K + 1) \in Nat /\ T + (K + 1) = K + 1 + T
      <4>1. T \in 0 .. 33 /\ K + 1 \in 0 .. 33 /\ T + (K + 1) <= 33 /\ T + (K + 1) = K + 1 + T
        BY <1>0, <2>1, <1>6
      <4>2. 2^(K + 1) \in Nat
        BY <4>1, PowerNat
      <4>. QED BY <4>1, <4>2, PowerSum, Zenon
    <3>2. (X + 1) * 2^T <= 2^(K + 1) * 2^T
      BY <3>1, <1>6, <1>3, <1>1
    <3>3. s < (X + 1) * 2^T /\ (X + 1) * 2^T \in Int
      BY <1>1, <1>2, <1>3
    <3>. HIDE DEF u
    <3>4. (X + 1) * 2^T <= 4 * u
      BY <3>1, <3>2, <2>3, Zenon
    <3>. QED BY <3>3, <3>4, <2>3
  <2>6. Bit(s, K + T - 1) = (s \div u) % 2
    <3>1. ~(K + T - 1 < 0)
      BY <1>0, <1>6
    <3>. QED BY <3>1 DEF Bit
  <2>7. compute_tree_index(s) = 2 * K + ((s \div u) % 2)
    BY <1>7, <1>8, <1>10, <1>3, <2>6
  <2>. HIDE DEF u
  <2>8. CASE s < 3 * u
    <3>1. s \div u = 2
      <4>1. s = u * 2 + (s - 2 * u) /\ s - 2 * u \in 0 .. u - 1 /\ s \in Int
        BY <2>3, <2>4, <2>8
      <4>. QED BY <4>1, <2>3, ModUnique
    <3>2. compute_tree_index(s) = 2 * K
      BY <3>1, <2>7, <2>2
    <3>3. 2 * K \in 0 .. NTREEBINS - 1 /\ 2 * K + 1 \in Nat
      BY <1>0, <1>6, <2>1
    <3>. QED BY <3>2, <3>3, <2>3, <2>4, <2>8
  <2>9. CASE 3 * u <= s
    <3>1. s \div u = 3
      <4>1. s = u * 3 + (s - 3 * u) /\ s - 3 * u \in 0 .. u - 1 /\ s \in Int
        BY <2>3, <2>5, <2>9
      <4>. QED BY <4>1, <2>3, ModUnique
    <3>2. compute_tree_index(s) = 2 * K + 1
      BY <3>1, <2>7, <2>2
    <3>3. 2 * K + 1 \in 0 .. NTREEBINS - 1 /\ 2 * K + 1 + 1 = 2 * K + 2
      BY <1>0, <1>6, <2>1
    <3>. QED BY <3>2, <3>3, <2>3, <2>5, <2>9
  <2>. QED BY <2>8, <2>9, <2>3
<1>. QED BY <1>9, <1>10, <1>8, <1>3

(* The sizes that the tree bins hold.                                      *)
LargeSizes == MIN_LARGE_SIZE .. WordRange - 1

(* A bin's number is twice its half, or one more.                          *)
LEMMA HalfIndex ==
  ASSUME NEW i \in 0 .. NTREEBINS - 1
  PROVE  /\ i \div 2 \in 0 .. NTREEBINS \div 2 - 1
         /\ i = 2 * (i \div 2) \/ i = 2 * (i \div 2) + 1
         /\ i % 2 = i - 2 * (i \div 2)
  BY BinConstants

(* Each tree bin starts above the one before it.                           *)
LEMMA MinSizesGrow ==
  ASSUME NEW i \in 0 .. NTREEBINS - 1
  PROVE  /\ minsize_for_tree_index(i) \in Nat /\ minsize_for_tree_index(i + 1) \in Nat
         /\ minsize_for_tree_index(i) < minsize_for_tree_index(i + 1)
<1>. DEFINE K == i \div 2
            u == 2^(K + TREEBIN_SHIFT - 1)
<1>1. K \in 0 .. NTREEBINS \div 2 - 1 /\ (i = 2 * K \/ i = 2 * K + 1)
  BY HalfIndex
<1>2. /\ u \in Nat /\ u > 0
      /\ minsize_for_tree_index(2 * K) = 2 * u
      /\ minsize_for_tree_index(2 * K + 1) = 3 * u
      /\ minsize_for_tree_index(2 * K + 2) = 4 * u
  BY <1>1, MinSizes
<1>. HIDE DEF u, K
<1>3. CASE i = 2 * K
  BY <1>2, <1>3
<1>4. CASE i = 2 * K + 1
  <2>1. i + 1 = 2 * K + 2
    BY <1>1, <1>4
  <2>. QED BY <1>2, <1>4, <2>1
<1>. QED BY <1>1, <1>3, <1>4

(* ... and so above every bin before it.                                   *)
LEMMA MinSizesOrdered ==
  ASSUME NEW i \in 0 .. NTREEBINS, NEW j \in 0 .. NTREEBINS, i <= j
  PROVE  minsize_for_tree_index(i) <= minsize_for_tree_index(j)
<1>. DEFINE S == {d \in 0 .. j - i : minsize_for_tree_index(i) <= minsize_for_tree_index(i + d)}
<1>0. NTREEBINS \in Nat
  BY BinConstants
<1>1. \A k \in 0 .. NTREEBINS : minsize_for_tree_index(k) \in Nat
  <2>. TAKE k \in 0 .. NTREEBINS
  <2>1. CASE k = NTREEBINS
    <3>1. k - 1 \in 0 .. NTREEBINS - 1 /\ (k - 1) + 1 = k
      BY <2>1, BinConstants
    <3>. QED BY <3>1, MinSizesGrow
  <2>2. CASE k \in 0 .. NTREEBINS - 1
    BY <2>2, MinSizesGrow
  <2>. QED BY <2>1, <2>2, <1>0
<1>2. 0 \in S
  <2>1. i + 0 = i
    BY <1>0
  <2>. QED BY <2>1, <1>1, <1>0
<1>3. ASSUME NEW d \in 1 .. j - i, d - 1 \in S PROVE d \in S
  <2>1. i + (d - 1) \in 0 .. NTREEBINS - 1 /\ (i + (d - 1)) + 1 = i + d /\ i + d \in 0 .. NTREEBINS
    BY <1>0
  <2>2. minsize_for_tree_index(i + (d - 1)) < minsize_for_tree_index(i + d)
    BY <2>1, MinSizesGrow
  <2>3. minsize_for_tree_index(i) <= minsize_for_tree_index(i + (d - 1))
    BY <1>3
  <2>. QED BY <2>1, <2>2, <2>3, <1>1, <1>0
<1>4. j - i \in Nat
  BY <1>0
<1>5. \A d \in 0 .. j - i : d \in S
  <2>. HIDE DEF S
  <2>. QED BY <1>2, <1>3, <1>4, WalkInduction
<1>6. j - i \in S
  BY <1>4, <1>5
<1>7. i + (j - i) = j
  BY <1>0
<1>. QED BY <1>6, <1>7

(* A large size is in the bin of its index and in no other.                *)
LEMMA TreeIndexExact ==
  ASSUME NEW s \in LargeSizes, NEW i \in 0 .. NTREEBINS - 1
  PROVE  compute_tree_index(s) = i <=>
           /\ minsize_for_tree_index(i) <= s
           /\ i < NTREEBINS - 1 => s < minsize_for_tree_index(i + 1)
<1>. DEFINE c == compute_tree_index(s)
<1>0. s \in Nat /\ MIN_LARGE_SIZE <= s /\ s < WordRange /\ NTREEBINS \in Nat
  BY BinConstants, WordFacts DEF LargeSizes
<1>1. /\ c \in 0 .. NTREEBINS - 1
      /\ minsize_for_tree_index(c) <= s
      /\ c < NTREEBINS - 1 => s < minsize_for_tree_index(c + 1)
  BY <1>0, TreeIndexRange
<1>. HIDE DEF c
<1>2. ASSUME /\ minsize_for_tree_index(i) <= s
             /\ i < NTREEBINS - 1 => s < minsize_for_tree_index(i + 1),
             c # i
      PROVE  FALSE
  <2>1. CASE c < i
    <3>1. c + 1 \in 0 .. NTREEBINS /\ i \in 0 .. NTREEBINS /\ c + 1 <= i /\ c < NTREEBINS - 1
      BY <1>0, <1>1, <2>1
    <3>2. minsize_for_tree_index(c + 1) <= minsize_for_tree_index(i)
      BY <3>1, MinSizesOrdered
    <3>3. minsize_for_tree_index(c + 1) \in Nat /\ minsize_for_tree_index(i) \in Nat
      BY <1>1, MinSizesGrow
    <3>. QED BY <1>0, <1>1, <1>2, <3>1, <3>2, <3>3
  <2>2. CASE i < c
    <3>1. i + 1 \in 0 .. NTREEBINS /\ c \in 0 .. NTREEBINS /\ i + 1 <= c /\ i < NTREEBINS - 1
      BY <1>0, <1>1, <2>2
    <3>2. minsize_for_tree_index(i + 1) <= minsize_for_tree_index(c)
      BY <3>1, MinSizesOrdered
    <3>3. minsize_for_tree_index(i + 1) \in Nat /\ minsize_for_tree_index(c) \in Nat
      BY <1>1, MinSizesGrow
    <3>. QED BY <1>0, <1>1, <1>2, <3>1, <3>2, <3>3
  <2>. QED BY <1>0, <1>1, <1>2, <2>1, <2>2
<1>. QED BY <1>1, <1>2 DEF c

(* Two sizes of one bin agree above the bit that a trie starts with.       *)
LEMMA BinHigh ==
  ASSUME NEW i \in 0 .. NTREEBINS - 1
  PROVE  /\ bit_for_tree_index(i) \in 0 .. 31 /\ bit_for_tree_index(i) + 1 <= SIZE_T_BITSIZE
         /\ \A s, z \in LargeSizes :
              compute_tree_index(s) = i /\ compute_tree_index(z) = i =>
                s \div 2^(bit_for_tree_index(i) + 1) = z \div 2^(bit_for_tree_index(i) + 1)
<1>. DEFINE K == i \div 2
            u == 2^(K + TREEBIN_SHIFT - 1)
            b == bit_for_tree_index(i)
<1>0. /\ TREEBIN_SHIFT \in 5 .. 32 /\ NTREEBINS \in Nat /\ NTREEBINS \div 2 \in 1 .. 32
      /\ NTREEBINS = 2 * (NTREEBINS \div 2) /\ WordRange \in Nat /\ WordRange > 0
      /\ TREEBIN_SHIFT + NTREEBINS \div 2 < SIZE_T_BITSIZE /\ SIZE_T_BITSIZE \in 12 .. 32
  BY BinConstants, WordFacts
<1>1. K \in 0 .. NTREEBINS \div 2 - 1 /\ (i = 2 * K \/ i = 2 * K + 1)
  BY HalfIndex
<1>2. LargeSizes \subseteq Nat
  BY BinConstants DEF LargeSizes
<1>3. CASE i = NTREEBINS - 1
  <2>1. b = SIZE_T_BITSIZE - 1
    BY <1>3 DEF bit_for_tree_index
  <2>2. b \in 0 .. 31 /\ b + 1 = SIZE_T_BITSIZE
    BY <2>1, <1>0
  <2>. HIDE DEF b
  <2>3. 2^(b + 1) = WordRange
    BY <2>2, Zenon DEF WordRange
  <2>4. ASSUME NEW s \in LargeSizes PROVE s \div 2^(b + 1) = 0
    <3>1. s \in Int /\ s = WordRange * 0 + s /\ s \in 0 .. WordRange - 1
      BY <1>0, BinConstants DEF LargeSizes
    <3>2. s \div WordRange = 0
      BY <3>1, <1>0, ModUnique
    <3>. QED BY <2>3, <3>2
  <2>5. b + 1 <= SIZE_T_BITSIZE
    BY <2>2, <1>0
  <2>. QED BY <2>2, <2>4, <2>5 DEF b
<1>4. CASE i # NTREEBINS - 1
  <2>1. b = K + TREEBIN_SHIFT - 2
    BY <1>4 DEF bit_for_tree_index
  <2>2. b \in 0 .. 31 /\ b + 1 <= SIZE_T_BITSIZE /\ b + 1 = K + TREEBIN_SHIFT - 1
    BY <2>1, <1>0, <1>1
  <2>. HIDE DEF b
  <2>3. 2^(b + 1) = u
    BY <2>2, Zenon
  <2>4. /\ u \in Nat /\ u > 0
        /\ minsize_for_tree_index(2 * K) = 2 * u
        /\ minsize_for_tree_index(2 * K + 1) = 3 * u
        /\ minsize_for_tree_index(2 * K + 2) = 4 * u
    BY <1>1, MinSizes
  <2>. HIDE DEF K, u
  <2>5. i < NTREEBINS - 1
    BY <1>4, <1>0
  <2>6. ASSUME NEW s \in LargeSizes, compute_tree_index(s) = i
        PROVE  s \div u = 2 + (i - 2 * K)
    <3>1. minsize_for_tree_index(i) <= s /\ s < minsize_for_tree_index(i + 1) /\ s \in Nat
      BY <2>5, <2>6, <1>2, TreeIndexExact
    <3>2. CASE i = 2 * K
      <4>1. s = u * 2 + (s - 2 * u) /\ s - 2 * u \in 0 .. u - 1 /\ s \in Int
        BY <2>4, <3>1, <3>2
      <4>2. s \div u = 2
        BY <4>1, <2>4, ModUnique
      <4>. QED BY <4>2, <3>2, <1>1
    <3>3. CASE i = 2 * K + 1
      <4>1. i + 1 = 2 * K + 2
        BY <3>3, <1>1
      <4>2. s = u * 3 + (s - 3 * u) /\ s - 3 * u \in 0 .. u - 1 /\ s \in Int
        BY <2>4, <3>1, <3>3, <4>1
      <4>3. s \div u = 3
        BY <4>2, <2>4, ModUnique
      <4>. QED BY <4>3, <3>3, <1>1
    <3>. QED BY <1>1, <3>2, <3>3
  <2>7. ASSUME NEW s \in LargeSizes, NEW z \in LargeSizes,
               compute_tree_index(s) = i, compute_tree_index(z) = i
        PROVE  s \div 2^(b + 1) = z \div 2^(b + 1)
    BY <2>3, <2>6, <2>7, Zenon
  <2>. QED BY <2>2, <2>7 DEF b
<1>. QED BY <1>3, <1>4

-----------------------------------------------------------------------------
(* Lists of chunks and the tries of the tree bins.                         *)

(* A bin's list, and the ring of a node: each of a set of chunks once.     *)
Lists(s, S) == s \in Seq(S) /\ IsInjective(s) /\ ToSet(s) = S

(* What a list of a set's elements gives of its positions.                 *)
LEMMA ListsIndex ==
  ASSUME NEW s, NEW S, Lists(s, S)
  PROVE  /\ s \in Seq(S) /\ Len(s) \in Nat /\ DOMAIN s = 1 .. Len(s)
         /\ \A i \in 1 .. Len(s) : s[i] \in S
         /\ \A x \in S : \E i \in 1 .. Len(s) : s[i] = x
         /\ \A i, j \in 1 .. Len(s) : s[i] = s[j] => i = j
         /\ s = <<>> <=> S = {}
         /\ s # <<>> <=> Len(s) # 0
         /\ \A x \in S : Contains(s, x)
<1>1. s \in Seq(S) /\ Len(s) \in Nat /\ DOMAIN s = 1 .. Len(s)
  BY LenProperties DEF Lists
<1>2. \A i \in 1 .. Len(s) : s[i] \in S
  BY <1>1, ElementOfSeq
<1>3. \A x \in S : \E i \in 1 .. Len(s) : s[i] = x
  BY <1>1 DEF Lists, ToSet
<1>4. \A i, j \in 1 .. Len(s) : s[i] = s[j] => i = j
  BY <1>1 DEF Lists, IsInjective
<1>5. s # <<>> <=> Len(s) # 0
  BY <1>1, EmptySeq
<1>6. s = <<>> <=> S = {}
  BY <1>1, <1>2, <1>3, <1>5
<1>7. \A x \in S : Contains(s, x)
  BY <1>3 DEF Contains
<1>. QED BY <1>1, <1>2, <1>3, <1>4, <1>5, <1>6, <1>7

(* A list whose positions and elements match lists the set.                *)
LEMMA ListsFrom ==
  ASSUME NEW T, NEW s \in Seq(T), NEW S,
         \A i \in 1 .. Len(s) : s[i] \in S,
         \A x \in S : \E i \in 1 .. Len(s) : s[i] = x,
         \A i, j \in 1 .. Len(s) : s[i] = s[j] => i = j
  PROVE  Lists(s, S)
<1>1. Len(s) \in Nat /\ DOMAIN s = 1 .. Len(s)
  BY LenProperties
<1>2. s \in [1 .. Len(s) -> S]
  <2>1. s \in [1 .. Len(s) -> T]
    BY LenProperties
  <2>. QED BY <2>1
<1>3. s \in Seq(S)
  BY <1>1, <1>2, SeqDef
<1>. QED BY <1>1, <1>3 DEF Lists, IsInjective, ToSet

(* The empty list.                                                         *)
LEMMA ListsEmpty ==
  ASSUME NEW s, NEW S, s = <<>>, S = {}
  PROVE  Lists(s, S)
<1>1. s \in Seq(S) /\ Len(s) = 0
  BY EmptySeq
<1>2. 1 .. Len(s) = {}
  BY <1>1
<1>3. /\ \A i \in 1 .. Len(s) : s[i] \in S
      /\ \A x \in S : \E i \in 1 .. Len(s) : s[i] = x
      /\ \A i, j \in 1 .. Len(s) : s[i] = s[j] => i = j
  BY <1>2
<1>. QED BY <1>1, <1>3, ListsFrom

(* A list of one element.                                                  *)
LEMMA ListsOne ==
  ASSUME NEW x
  PROVE  Lists(<<x>>, {x})
<1>1. <<x>> \in Seq({x}) /\ Len(<<x>>) = 1 /\ <<x>>[1] = x
  OBVIOUS
<1>. QED BY <1>1, ListsFrom

(* The only list of one element.                                           *)
LEMMA ListsSingle ==
  ASSUME NEW l, NEW x, Lists(l, {x})
  PROVE  l = <<x>>
<1>1. /\ l \in Seq({x}) /\ Len(l) \in Nat
      /\ \A k \in 1 .. Len(l) : l[k] = x
      /\ \E k \in 1 .. Len(l) : l[k] = x
      /\ \A j, k \in 1 .. Len(l) : l[j] = l[k] => j = k
  BY ListsIndex
<1>2. Len(l) = 1
  <2>1. \A j, k \in 1 .. Len(l) : j = k
    BY <1>1
  <2>2. Len(l) >= 1
    BY <1>1
  <2>3. 1 \in 1 .. Len(l) /\ Len(l) \in 1 .. Len(l)
    BY <1>1, <2>2
  <2>. QED BY <2>1, <2>3
<1>3. <<x>> \in Seq({x}) /\ Len(<<x>>) = 1 /\ <<x>>[1] = x
  OBVIOUS
<1>4. \A k \in 1 .. Len(l) : l[k] = <<x>>[k]
  BY <1>1, <1>2, <1>3
<1>. QED BY <1>1, <1>2, <1>3, <1>4, SeqEqual

(* A new element linked before the first (insert_small_chunk).             *)
LEMMA ListsCons ==
  ASSUME NEW s, NEW S, Lists(s, S), NEW x, x \notin S
  PROVE  Lists(<<x>> \o s, S \cup {x})
<1>. DEFINE T == S \cup {x}
            r == <<x>> \o s
<1>1. <<x>> \in Seq(T) /\ Len(<<x>>) = 1 /\ <<x>>[1] = x
  OBVIOUS
<1>2. s \in Seq(T)
  <2>1. s \in Seq(S) /\ S \subseteq T
    BY DEF Lists
  <2>. QED BY <2>1, SeqMonotonic
<1>3. /\ r \in Seq(T) /\ Len(r) = 1 + Len(s)
      /\ \A i \in 1 .. 1 + Len(s) : r[i] = IF i <= 1 THEN <<x>>[i] ELSE s[i - 1]
  BY <1>1, <1>2, ConcatProperties
<1>4. /\ Len(s) \in Nat /\ \A i \in 1 .. Len(s) : s[i] \in S
      /\ \A y \in S : \E i \in 1 .. Len(s) : s[i] = y
      /\ \A i, j \in 1 .. Len(s) : s[i] = s[j] => i = j
  BY ListsIndex
<1>. HIDE DEF r
<1>5. r[1] = x /\ \A i \in 1 .. Len(s) : r[i + 1] = s[i]
  BY <1>1, <1>3, <1>4
<1>6. \A i \in 1 .. Len(r) : i = 1 \/ (i - 1 \in 1 .. Len(s) /\ r[i] = s[i - 1])
  BY <1>3, <1>4
<1>7. \A i \in 1 .. Len(r) : r[i] \in T
  BY <1>4, <1>5, <1>6
<1>8. \A y \in T : \E i \in 1 .. Len(r) : r[i] = y
  <2>. TAKE y \in T
  <2>1. CASE y = x
    BY <2>1, <1>3, <1>4, <1>5
  <2>2. CASE y \in S
    <3>1. PICK i \in 1 .. Len(s) : s[i] = y
      BY <2>2, <1>4
    <3>2. i + 1 \in 1 .. Len(r) /\ r[i + 1] = y
      BY <3>1, <1>3, <1>4, <1>5
    <3>. QED BY <3>2
  <2>. QED BY <2>1, <2>2
<1>9. \A i, j \in 1 .. Len(r) : r[i] = r[j] => i = j
  <2>. TAKE i, j \in 1 .. Len(r)
  <2>. HAVE r[i] = r[j]
  <2>1. CASE i = 1 /\ j # 1
    BY <2>1, <1>4, <1>5, <1>6
  <2>2. CASE i # 1 /\ j = 1
    BY <2>2, <1>4, <1>5, <1>6
  <2>3. CASE i # 1 /\ j # 1
    <3>1. s[i - 1] = s[j - 1] /\ i - 1 \in 1 .. Len(s) /\ j - 1 \in 1 .. Len(s)
      BY <2>3, <1>6
    <3>2. i - 1 = j - 1
      BY <3>1, <1>4
    <3>. QED BY <3>2, <1>3, <1>4
  <2>. QED BY <2>1, <2>2, <2>3
<1>. QED BY <1>3, <1>7, <1>8, <1>9, ListsFrom DEF r

(* A new element linked after the last (insert_large_chunk).               *)
LEMMA ListsAppend ==
  ASSUME NEW s, NEW S, Lists(s, S), NEW x, x \notin S
  PROVE  Lists(Append(s, x), S \cup {x})
<1>. DEFINE T == S \cup {x}
            r == Append(s, x)
            n == Len(s)
<1>2. s \in Seq(T)
  <2>1. s \in Seq(S) /\ S \subseteq T
    BY DEF Lists
  <2>. QED BY <2>1, SeqMonotonic
<1>3. /\ r \in Seq(T) /\ Len(r) = n + 1
      /\ \A i \in 1 .. n : r[i] = s[i]
      /\ r[n + 1] = x
  BY <1>2, AppendProperties
<1>4. /\ n \in Nat /\ \A i \in 1 .. n : s[i] \in S
      /\ \A y \in S : \E i \in 1 .. n : s[i] = y
      /\ \A i, j \in 1 .. n : s[i] = s[j] => i = j
  BY ListsIndex
<1>. HIDE DEF r, n
<1>6. \A i \in 1 .. Len(r) : i = n + 1 \/ (i \in 1 .. n /\ r[i] = s[i] /\ r[i] \in S)
  BY <1>3, <1>4
<1>7. \A i \in 1 .. Len(r) : r[i] \in T
  BY <1>3, <1>6
<1>8. \A y \in T : \E i \in 1 .. Len(r) : r[i] = y
  <2>. TAKE y \in T
  <2>1. CASE y = x
    BY <2>1, <1>3, <1>4
  <2>2. CASE y \in S
    <3>1. PICK i \in 1 .. n : s[i] = y
      BY <2>2, <1>4
    <3>2. i \in 1 .. Len(r) /\ r[i] = y
      BY <3>1, <1>3, <1>4
    <3>. QED BY <3>2
  <2>. QED BY <2>1, <2>2
<1>9. \A i, j \in 1 .. Len(r) : r[i] = r[j] => i = j
  BY <1>3, <1>4, <1>6
<1>. QED BY <1>3, <1>7, <1>8, <1>9, ListsFrom DEF r

(* A list without its k-th element.                                        *)
LEMMA ListsDrop ==
  ASSUME NEW s, NEW S, Lists(s, S), NEW k \in 1 .. Len(s), NEW r \in Seq(S),
         Len(r) = Len(s) - 1,
         \A i \in 1 .. Len(r) : r[i] = IF i < k THEN s[i] ELSE s[i + 1]
  PROVE  Lists(r, S \ {s[k]})
<1>. DEFINE n == Len(s)
<1>4. /\ n \in Nat /\ \A i \in 1 .. n : s[i] \in S
      /\ \A y \in S : \E i \in 1 .. n : s[i] = y
      /\ \A i, j \in 1 .. n : s[i] = s[j] => i = j
  BY ListsIndex
<1>. HIDE DEF n
<1>1. k \in 1 .. n /\ Len(r) = n - 1
  BY DEF n
<1>2. \A i \in 1 .. Len(r) : \/ i < k /\ i \in 1 .. n /\ r[i] = s[i]
                             \/ i >= k /\ i + 1 \in 1 .. n /\ r[i] = s[i + 1]
  BY <1>1, <1>4
<1>7. \A i \in 1 .. Len(r) : r[i] \in S \ {s[k]}
  <2>. TAKE i \in 1 .. Len(r)
  <2>1. CASE i < k /\ i \in 1 .. n /\ r[i] = s[i]
    BY <2>1, <1>1, <1>4
  <2>2. CASE i >= k /\ i + 1 \in 1 .. n /\ r[i] = s[i + 1]
    <3>1. i + 1 # k
      BY <2>2, <1>1, <1>4
    <3>. QED BY <2>2, <3>1, <1>1, <1>4
  <2>. QED BY <2>1, <2>2, <1>2
<1>8. \A y \in S \ {s[k]} : \E i \in 1 .. Len(r) : r[i] = y
  <2>. TAKE y \in S \ {s[k]}
  <2>1. PICK i \in 1 .. n : s[i] = y
    BY <1>4
  <2>2. CASE i < k
    <3>1. i \in 1 .. Len(r) /\ r[i] = y
      BY <2>1, <2>2, <1>1, <1>4
    <3>. QED BY <3>1
  <2>3. CASE i > k
    <3>1. i - 1 \in 1 .. Len(r) /\ ~(i - 1 < k) /\ (i - 1) + 1 = i
      BY <2>3, <1>1, <1>4
    <3>2. r[i - 1] = s[(i - 1) + 1]
      BY <3>1
    <3>. QED BY <2>1, <3>1, <3>2
  <2>. QED BY <2>1, <2>2, <2>3, <1>1, <1>4
<1>9. \A i, j \in 1 .. Len(r) : r[i] = r[j] => i = j
  <2>. TAKE i, j \in 1 .. Len(r)
  <2>. HAVE r[i] = r[j]
  <2>. DEFINE I == IF i < k THEN i ELSE i + 1
              J == IF j < k THEN j ELSE j + 1
  <2>1. I \in 1 .. n /\ J \in 1 .. n /\ r[i] = s[I] /\ r[j] = s[J]
    <3>0. n \in Nat /\ k \in 1 .. n
      BY <1>1, <1>4
    <3>1. I \in 1 .. n /\ r[i] = s[I]
      BY <1>2, <3>0
    <3>2. J \in 1 .. n /\ r[j] = s[J]
      BY <1>2, <3>0
    <3>. QED BY <3>1, <3>2
  <2>2. I = J
    <3>. HIDE DEF I, J
    <3>. QED BY <2>1, <1>4
  <2>3. n \in Nat /\ i \in Int /\ j \in Int /\ k \in Int
    <3>1. n \in Nat /\ k \in 1 .. n
      BY <1>1, <1>4
    <3>2. Len(r) = n - 1 /\ i \in 1 .. Len(r) /\ j \in 1 .. Len(r)
      BY <1>1
    <3>. QED BY <3>1, <3>2
  <2>. QED BY <2>2, <2>3
<1>. QED BY <1>7, <1>8, <1>9, ListsFrom

(* A list without its first element.                                       *)
LEMMA ListsTail ==
  ASSUME NEW s, NEW S, Lists(s, S), s # <<>>
  PROVE  Head(s) \in S /\ Lists(Tail(s), S \ {Head(s)})
<1>1. s \in Seq(S) /\ Len(s) \in Nat /\ Len(s) # 0 /\ \A i \in 1 .. Len(s) : s[i] \in S
  BY ListsIndex
<1>2. 1 \in 1 .. Len(s) /\ Head(s) = s[1]
  BY <1>1
<1>3. /\ Tail(s) \in Seq(S) /\ Len(Tail(s)) = Len(s) - 1
      /\ \A i \in 1 .. Len(Tail(s)) : Tail(s)[i] = s[i + 1]
  BY <1>1, HeadTailProperties
<1>4. \A i \in 1 .. Len(Tail(s)) : Tail(s)[i] = IF i < 1 THEN s[i] ELSE s[i + 1]
  BY <1>3
<1>. QED BY <1>1, <1>2, <1>3, <1>4, ListsDrop

(* A list without a given element, as unlinking leaves it.                 *)
LEMMA ListsUnlinked ==
  ASSUME NEW s, NEW S, Lists(s, S), NEW x \in S
  PROVE  Lists(Unlinked(s, x), S \ {x})
<1>. DEFINE k == CHOOSE i \in DOMAIN s : s[i] = x
            a == SubSeq(s, 1, k - 1)
            c == SubSeq(s, k + 1, Len(s))
            n == Len(s)
<1>1. s \in Seq(S) /\ n \in Nat /\ DOMAIN s = 1 .. n /\ \E i \in 1 .. n : s[i] = x
  BY ListsIndex
<1>2. k \in 1 .. n /\ s[k] = x
  BY <1>1
<1>3. Unlinked(s, x) = a \o c
  BY DEF Unlinked, RemoveAt
<1>. HIDE DEF k
<1>4. /\ a \in Seq(S) /\ Len(a) = k - 1 /\ \A i \in 1 .. k - 1 : a[i] = s[i]
  BY <1>1, <1>2, SubSeqProperties
<1>5. /\ c \in Seq(S) /\ Len(c) = n - k /\ \A i \in 1 .. n - k : c[i] = s[k + i]
  <2>1. PICK l \in Int : l = k + 1
    BY <1>2
  <2>2. PICK z \in Nat : z = n
    BY <1>1
  <2>3. \A i \in l .. z : s[i] \in S
    BY <1>1, <1>2, <2>1, <2>2, ListsIndex
  <2>4. /\ SubSeq(s, l, z) \in Seq(S) /\ Len(SubSeq(s, l, z)) = IF l <= z THEN z - l + 1 ELSE 0
        /\ \A i \in 1 .. z - l + 1 : SubSeq(s, l, z)[i] = s[l + i - 1]
    BY <2>3, SubSeqProperties
  <2>5. c = SubSeq(s, l, z)
    BY <2>1, <2>2
  <2>6. k \in 1 .. z
    BY <1>2, <2>2
  <2>. HIDE DEF c, n
  <2>7. /\ c \in Seq(S) /\ Len(c) = z - k
        /\ \A i \in 1 .. z - k : c[i] = s[k + i]
    <3>1. z - l + 1 = z - k /\ (IF l <= z THEN z - l + 1 ELSE 0) = z - k
      BY <2>1, <2>6
    <3>2. \A i \in 1 .. z - k : l + i - 1 = k + i
      BY <2>1, <2>6
    <3>. QED BY <3>1, <3>2, <2>4, <2>5
  <2>. QED BY <2>2, <2>7
<1>. DEFINE r == a \o c
<1>. HIDE DEF a, c
<1>6. /\ r \in Seq(S) /\ Len(r) = n - 1
      /\ \A i \in 1 .. n - 1 : r[i] = IF i <= k - 1 THEN a[i] ELSE c[i - (k - 1)]
  <2>1. /\ r \in Seq(S) /\ Len(r) = Len(a) + Len(c)
        /\ \A i \in 1 .. Len(a) + Len(c) : r[i] = IF i <= Len(a) THEN a[i] ELSE c[i - Len(a)]
    BY <1>4, <1>5, ConcatProperties
  <2>2. Len(a) + Len(c) = n - 1
    BY <1>1, <1>2, <1>4, <1>5
  <2>. HIDE DEF r
  <2>. QED BY <2>1, <2>2, <1>4
<1>. HIDE DEF r
<1>7. \A i \in 1 .. Len(r) : r[i] = IF i < k THEN s[i] ELSE s[i + 1]
  <2>. TAKE i \in 1 .. Len(r)
  <2>1. CASE i < k
    BY <2>1, <1>1, <1>2, <1>4, <1>6
  <2>2. CASE i >= k
    <3>1. i - (k - 1) \in 1 .. n - k /\ k + (i - (k - 1)) = i + 1
      BY <2>2, <1>1, <1>2, <1>6
    <3>2. c[i - (k - 1)] = s[i + 1]
      BY <3>1, <1>5
    <3>. QED BY <2>2, <3>1, <3>2, <1>1, <1>2, <1>6
  <2>. QED BY <2>1, <2>2, <1>1, <1>2, <1>6
<1>. QED BY <1>2, <1>3, <1>6, <1>7, ListsDrop DEF r, n

(* Turns are bits, from the most significant down.                         *)
LEMMA TurnsSeq ==
  ASSUME NEW s \in Nat, NEW b \in 0 .. 31, NEW d \in Nat
  PROVE  /\ Turns(s, b, d) \in Seq({0, 1}) /\ Len(Turns(s, b, d)) = d
         /\ \A k \in 1 .. d : Turns(s, b, d)[k] = Bit(s, b + 1 - k) /\ Bit(s, b + 1 - k) \in {0, 1}
<1>. DEFINE t == Turns(s, b, d)
<1>1. ASSUME NEW k \in 1 .. d PROVE Bit(s, b + 1 - k) \in {0, 1}
  <2>1. PICK n \in Int : n = b + 1 - k /\ n <= 31
    OBVIOUS
  <2>2. CASE n < 0
    BY <2>1, <2>2 DEF Bit
  <2>3. CASE n >= 0
    <3>1. n \in 0 .. 32
      BY <2>1, <2>3
    <3>2. Bit(s, n) \in {0, 1}
      BY <3>1, BitStep
    <3>. QED BY <2>1, <3>2
  <2>. QED BY <2>1, <2>2, <2>3
<1>2. DOMAIN t = 1 .. d /\ \A k \in 1 .. d : t[k] = Bit(s, b + 1 - k)
  BY DEF Turns
<1>3. t \in [1 .. d -> {0, 1}]
  BY <1>1, Zenon DEF Turns
<1>. HIDE DEF t
<1>4. t \in Seq({0, 1})
  BY <1>3, SeqDef
<1>5. Len(t) \in Nat /\ 1 .. Len(t) = 1 .. d
  BY <1>2, <1>4, LenProperties
<1>6. Len(t) = d
  BY <1>5
<1>. QED BY <1>1, <1>2, <1>4, <1>6 DEF t

(* The first turns of a size are its turns to the smaller depth.           *)
LEMMA TurnsPrefix ==
  ASSUME NEW s \in Nat, NEW b \in 0 .. 31, NEW d \in Nat, NEW k \in 0 .. d
  PROVE  SubSeq(Turns(s, b, d), 1, k) = Turns(s, b, k)
<1>. DEFINE t == Turns(s, b, d)
            u == Turns(s, b, k)
            v == SubSeq(t, 1, k)
<1>0. k \in Nat
  OBVIOUS
<1>1. /\ t \in Seq({0, 1}) /\ Len(t) = d
      /\ \A j \in 1 .. d : t[j] = Bit(s, b + 1 - j) /\ Bit(s, b + 1 - j) \in {0, 1}
  BY TurnsSeq
<1>2. /\ u \in Seq({0, 1}) /\ Len(u) = k
      /\ \A j \in 1 .. k : u[j] = Bit(s, b + 1 - j)
  BY <1>0, TurnsSeq
<1>. HIDE DEF t, u
<1>3. \A j \in 1 .. k : t[j] \in {0, 1}
  BY <1>1
<1>4. /\ v \in Seq({0, 1}) /\ Len(v) = IF 1 <= k THEN k - 1 + 1 ELSE 0
      /\ \A j \in 1 .. k - 1 + 1 : v[j] = t[1 + j - 1]
  BY <1>0, <1>3, SubSeqProperties
<1>. HIDE DEF v
<1>5. Len(v) = k /\ \A j \in 1 .. k : v[j] = t[j]
  BY <1>0, <1>4
<1>6. v = u
  BY <1>1, <1>2, <1>4, <1>5, SeqEqual
<1>. QED BY <1>6 DEF v, u, t

(* The turns to a depth extend those to the depth above it.                *)
LEMMA TurnsStep ==
  ASSUME NEW s \in Nat, NEW b \in 0 .. 31, NEW d \in Nat, d > 0
  PROVE  /\ Front(Turns(s, b, d)) = Turns(s, b, d - 1)
         /\ \E c \in {0, 1} : Turns(s, b, d) = Append(Turns(s, b, d - 1), c)
<1>. DEFINE t == Turns(s, b, d)
            u == Turns(s, b, d - 1)
<1>0. d - 1 \in Nat /\ d - 1 \in 0 .. d
  OBVIOUS
<1>1. /\ t \in Seq({0, 1}) /\ Len(t) = d
      /\ \A j \in 1 .. d : t[j] = Bit(s, b + 1 - j) /\ Bit(s, b + 1 - j) \in {0, 1}
  BY TurnsSeq
<1>2. /\ u \in Seq({0, 1}) /\ Len(u) = d - 1
      /\ \A j \in 1 .. d - 1 : u[j] = Bit(s, b + 1 - j)
  BY <1>0, TurnsSeq
<1>3. SubSeq(t, 1, d - 1) = u
  BY <1>0, TurnsPrefix
<1>. HIDE DEF t, u
<1>4. Front(t) = u
  BY <1>1, <1>3 DEF Front
<1>5. PICK c \in {0, 1} : t[d] = c
  BY <1>1
<1>. DEFINE v == Append(u, c)
<1>6. /\ v \in Seq({0, 1}) /\ Len(v) = d - 1 + 1
      /\ \A j \in 1 .. d - 1 : v[j] = u[j]
      /\ v[d - 1 + 1] = c
  BY <1>2, AppendProperties
<1>. HIDE DEF v
<1>7. Len(v) = d /\ \A j \in 1 .. d : v[j] = t[j]
  <2>1. Len(v) = d /\ v[d] = c
    BY <1>6
  <2>2. \A j \in 1 .. d - 1 : v[j] = t[j]
    BY <1>1, <1>2, <1>6
  <2>. QED BY <2>1, <2>2, <1>5
<1>8. v = t
  BY <1>1, <1>6, <1>7, SeqEqual
<1>. QED BY <1>4, <1>8 DEF v, t, u

-----------------------------------------------------------------------------
(* What a trie of bin i must be, when F gives the sizes of the chunks that *)
(* are in bins.                                                            *)
Of(F, s) == {x \in DOMAIN F : F[x] = s}
(* The sizes of tree bin i.                                                *)
InBin(s, i) == s \in LargeSizes /\ compute_tree_index(s) = i

(* A node of bin i's trie: it stands where the first turns of its size     *)
(* lead, under its parent, and rings all the chunks of F that have its     *)
(* size.                                                                   *)
Node(t, i, F, q) ==
  /\ t[q] = [size |-> t[q].size, ring |-> t[q].ring]
  /\ InBin(t[q].size, i)
  /\ Lists(t[q].ring, Of(F, t[q].size)) /\ Of(F, t[q].size) # {}
  /\ Len(q) \in 0 .. bit_for_tree_index(i) + 1
  /\ q = Turns(t[q].size, bit_for_tree_index(i), Len(q))
  /\ q # Root => Front(q) \in DOMAIN t

(* The trie of bin i indexes the chunks of F whose sizes are the bin's,    *)
(* one node for each size.                                                 *)
Trie(t, i, F) ==
  /\ t = [q \in DOMAIN t |-> t[q]]
  /\ \A q \in DOMAIN t : Node(t, i, F, q)
  /\ \A q, r \in DOMAIN t : t[q].size = t[r].size => q = r
  /\ \A x \in DOMAIN F : InBin(F[x], i) => \E q \in DOMAIN t : t[q].size = F[x]

(* A way is in the trie from the root on.                                  *)
LEMMA TriePrefix ==
  ASSUME NEW i \in 0 .. NTREEBINS - 1, NEW t, NEW F, Trie(t, i, F),
         NEW q \in DOMAIN t, NEW k \in 0 .. Len(q)
  PROVE  Turns(t[q].size, bit_for_tree_index(i), k) \in DOMAIN t
<1>. DEFINE b == bit_for_tree_index(i)
            s == t[q].size
            n == Len(q)
            S == {j \in 0 .. n : Turns(s, b, n - j) \in DOMAIN t}
<1>0. b \in 0 .. 31
  BY BinHigh
<1>1. s \in Nat /\ n \in Nat /\ q = Turns(s, b, n)
  BY BinConstants, <1>0 DEF Trie, Node, InBin, LargeSizes
<1>2. 0 \in S
  <2>1. n - 0 = n
    BY <1>1
  <2>. QED BY <2>1, <1>1
<1>3. ASSUME NEW j \in 1 .. n, j - 1 \in S PROVE j \in S
  <2>. DEFINE d == n - (j - 1)
              p == Turns(s, b, d)
  <2>1. p \in DOMAIN t /\ d \in Nat /\ d > 0 /\ d - 1 = n - j
    BY <1>1, <1>3
  <2>. HIDE DEF s, b, n, d
  <2>2. Front(p) = Turns(s, b, d - 1)
    BY <2>1, <1>0, <1>1, TurnsStep
  <2>3. Len(p) = d
    BY <2>1, <1>0, <1>1, TurnsSeq
  <2>4. p # Root
    <3>1. Len(Root) = 0
      BY DEF Root
    <3>. QED BY <3>1, <2>1, <2>3
  <2>5. Front(p) \in DOMAIN t
    BY <2>1, <2>4 DEF Trie, Node
  <2>6. Turns(s, b, n - j) \in DOMAIN t
    BY <2>1, <2>2, <2>5
  <2>. QED BY <2>6
<1>4. \A j \in 0 .. n : j \in S
  <2>. HIDE DEF S, n
  <2>. QED BY <1>1, <1>2, <1>3, WalkInduction
<1>5. n - k \in 0 .. n /\ n - (n - k) = k
  BY <1>1
<1>. QED BY <1>4, <1>5

(* A set of numbers has its least one as Min.                              *)
LEMMA MinOfSet ==
  ASSUME NEW S, S \subseteq Nat, S # {}
  PROVE  Min(S) \in S /\ \A x \in S : Min(S) <= x
<1>1. \E m \in S : \A x \in S : m <= x
  BY SmallestElement
<1>. QED BY <1>1, Zenon DEF Min

(* A map after one of its values is written.                               *)
LEMMA PutFacts ==
  ASSUME NEW f, NEW p, NEW v
  PROVE  /\ DOMAIN Put(f, p, v) = DOMAIN f \cup {p} /\ Put(f, p, v)[p] = v
         /\ \A q \in DOMAIN f : q # p => Put(f, p, v)[q] = f[q]
         /\ Put(f, p, v) = [q \in DOMAIN Put(f, p, v) |-> Put(f, p, v)[q]]
  BY DEF Put

(* Where a size is put: at its node, or at a free place under one.         *)
LEMMA PlaceFacts ==
  ASSUME NEW i \in 0 .. NTREEBINS - 1, NEW t, NEW F, Trie(t, i, F), NEW s, InBin(s, i)
  PROVE  LET b == bit_for_tree_index(i)
             q == PlaceFor(t, s, b)
         IN /\ \E d \in 0 .. b + 1 : q = Turns(s, b, d) /\ Len(q) = d
            /\ q \in DOMAIN t => t[q].size = s
            /\ q \notin DOMAIN t => \A p \in DOMAIN t : t[p].size # s
            /\ q # Root => Front(q) \in DOMAIN t
<1>. DEFINE b == bit_for_tree_index(i)
            P(d) == Turns(s, b, d)
            Fits(d) == P(d) \notin DOMAIN t \/ t[P(d)].size = s
            D == {d \in 0 .. SIZE_T_BITSIZE : Fits(d)}
            m == Min(D)
<1>0. b \in 0 .. 31 /\ b + 1 <= SIZE_T_BITSIZE /\ s \in Nat /\ SIZE_T_BITSIZE \in Nat
  BY BinHigh, BinConstants DEF InBin, LargeSizes
<1>1. PlaceFor(t, s, b) = P(m)
  BY DEF PlaceFor
<1>2. ASSUME NEW d \in 0 .. SIZE_T_BITSIZE
      PROVE  P(d) \in Seq({0, 1}) /\ Len(P(d)) = d
  <2>1. d \in Nat
    BY <1>0
  <2>. HIDE DEF b
  <2>. QED BY <2>1, <1>0, TurnsSeq
<1>3. Fits(b + 1)
  <2>1. SUFFICES ASSUME P(b + 1) \in DOMAIN t PROVE t[P(b + 1)].size = s
    OBVIOUS
  <2>. DEFINE z == t[P(b + 1)].size
  <2>2. Len(P(b + 1)) = b + 1
    <3>1. b + 1 \in 0 .. SIZE_T_BITSIZE
      BY <1>0
    <3>. HIDE DEF P, b
    <3>. QED BY <3>1, <1>2
  <2>3. InBin(z, i) /\ P(b + 1) = Turns(z, b, b + 1)
    BY <2>1, <2>2 DEF Trie, Node
  <2>4. z \in Nat
    BY <2>3, BinConstants DEF InBin, LargeSizes
  <2>. HIDE DEF b
  <2>5. s \div 2^(b + 1) = z \div 2^(b + 1)
    BY <2>3, BinHigh DEF InBin, b
  <2>. HIDE DEF z
  <2>. QED BY <1>0, <2>3, <2>4, <2>5, TurnsDetermine DEF z
<1>. HIDE DEF b
<1>4. D \subseteq Nat /\ D # {} /\ b + 1 \in D
  <2>1. b + 1 \in 0 .. SIZE_T_BITSIZE
    BY <1>0
  <2>2. D \subseteq 0 .. SIZE_T_BITSIZE
    BY Zenon
  <2>3. b + 1 \in D
    BY <2>1, <1>3, Zenon
  <2>. HIDE DEF D
  <2>. QED BY <2>2, <2>3
<1>5. m \in D /\ \A x \in D : m <= x
  <2>. HIDE DEF D
  <2>. QED BY <1>4, MinOfSet
<1>6. m \in 0 .. b + 1
  <2>1. m \in Nat /\ m <= b + 1
    <3>. HIDE DEF D, m
    <3>. QED BY <1>4, <1>5
  <2>. HIDE DEF m
  <2>. QED BY <2>1, <1>0
<1>7. \A d \in 0 .. SIZE_T_BITSIZE : d < m => P(d) \in DOMAIN t /\ t[P(d)].size # s
  <2>. TAKE d \in 0 .. SIZE_T_BITSIZE
  <2>. HAVE d < m
  <2>1. d \notin D
    <3>. HIDE DEF D, m
    <3>1. m \in Nat /\ d \in Nat
      BY <1>4, <1>5, <1>0
    <3>. QED BY <1>5, <3>1
  <2>. QED BY <2>1
<1>8. Fits(m)
  BY <1>5
<1>. HIDE DEF D, m
<1>9. m \in Nat /\ m \in 0 .. SIZE_T_BITSIZE /\ Len(P(m)) = m
  <2>1. m \in Nat /\ m \in 0 .. SIZE_T_BITSIZE
    BY <1>0, <1>6
  <2>. QED BY <2>1, <1>2
<1>10. ASSUME P(m) \notin DOMAIN t, NEW p \in DOMAIN t, t[p].size = s PROVE FALSE
  <2>. DEFINE n == Len(p)
  <2>1. n \in 0 .. b + 1 /\ p = P(n)
    BY <1>10 DEF Trie, Node, b
  <2>. HIDE DEF n
  <2>2. n \in 0 .. SIZE_T_BITSIZE
    BY <2>1, <1>0
  <2>3. CASE n < m
    BY <2>1, <2>2, <2>3, <1>7, <1>10
  <2>4. CASE m <= n
    <3>1. m \in 0 .. Len(p)
      BY <2>1, <2>4, <1>0, <1>9 DEF n
    <3>2. P(m) \in DOMAIN t
      BY <3>1, <1>10, TriePrefix DEF b
    <3>. QED BY <3>2, <1>10
  <2>. QED BY <2>2, <2>3, <2>4, <1>9, <1>0
<1>11. ASSUME P(m) # Root PROVE Front(P(m)) \in DOMAIN t
  <2>1. m # 0
    <3>1. SUFFICES ASSUME m = 0 PROVE P(m) = Root
      BY <1>11
    <3>2. P(m) \in Seq({0, 1}) /\ Len(P(m)) = 0
      BY <3>1, <1>2, <1>9
    <3>. QED BY <3>2, EmptySeq DEF Root
  <2>2. m - 1 \in 0 .. SIZE_T_BITSIZE /\ m - 1 < m /\ m > 0
    BY <2>1, <1>9, <1>0
  <2>3. Front(P(m)) = P(m - 1)
    BY <2>2, <1>0, <1>9, TurnsStep
  <2>. QED BY <2>2, <2>3, <1>7
<1>12. /\ \E d \in 0 .. b + 1 : P(m) = Turns(s, b, d) /\ Len(P(m)) = d
       /\ P(m) \in DOMAIN t => t[P(m)].size = s
       /\ P(m) \notin DOMAIN t => \A p \in DOMAIN t : t[p].size # s
       /\ P(m) # Root => Front(P(m)) \in DOMAIN t
  BY <1>6, <1>8, <1>9, <1>10, <1>11
<1>. QED BY <1>1, <1>12 DEF b

(* insert_large_chunk leaves a trie of the chunks with the new one.        *)
LEMMA TrieInsert ==
  ASSUME NEW i \in 0 .. NTREEBINS - 1, NEW t, NEW F, Trie(t, i, F),
         NEW s, InBin(s, i), NEW x, x \notin DOMAIN F
  PROVE  /\ Trie(TreeInsert(t, x, s, bit_for_tree_index(i)), i, Put(F, x, s))
         /\ TreeInsert(t, x, s, bit_for_tree_index(i)) # NoTrie
<1>. DEFINE b == bit_for_tree_index(i)
            q == PlaceFor(t, s, b)
            v == [size |-> s, ring |-> IF q \in DOMAIN t THEN Append(t[q].ring, x) ELSE <<x>>]
            u == Put(t, q, v)
            G == Put(F, x, s)
<1>1. TreeInsert(t, x, s, b) = u
  BY DEF TreeInsert
<1>2. /\ \E d \in 0 .. b + 1 : q = Turns(s, b, d) /\ Len(q) = d
      /\ q \in DOMAIN t => t[q].size = s
      /\ q \notin DOMAIN t => \A p \in DOMAIN t : t[p].size # s
      /\ q # Root => Front(q) \in DOMAIN t
  BY PlaceFacts
<1>. HIDE DEF q
<1>3. /\ DOMAIN u = DOMAIN t \cup {q} /\ u[q] = v
      /\ \A p \in DOMAIN t : p # q => u[p] = t[p]
      /\ u = [p \in DOMAIN u |-> u[p]]
  <2>. HIDE DEF v
  <2>. QED BY DEF Put
<1>. HIDE DEF u
<1>4. DOMAIN G = DOMAIN F \cup {x} /\ G[x] = s /\ \A y \in DOMAIN F : G[y] = F[y]
  BY DEF Put
<1>. HIDE DEF G
<1>5. Of(G, s) = Of(F, s) \cup {x} /\ x \notin Of(F, s)
  BY <1>4 DEF Of
<1>6. \A z : z # s => Of(G, z) = Of(F, z)
  BY <1>4 DEF Of
<1>7. Lists(v.ring, Of(G, s))
  <2>1. CASE q \in DOMAIN t
    <3>1. Lists(t[q].ring, Of(F, s))
      BY <2>1, <1>2 DEF Trie, Node
    <3>. QED BY <2>1, <3>1, <1>5, ListsAppend
  <2>2. CASE q \notin DOMAIN t
    <3>1. Of(F, s) = {}
      <4>1. \A y \in DOMAIN F : F[y] # s
        BY <2>2, <1>2 DEF Trie
      <4>. QED BY <4>1 DEF Of
    <3>. QED BY <2>2, <3>1, <1>5, ListsOne
  <2>. QED BY <2>1, <2>2
<1>8. v = [size |-> v.size, ring |-> v.ring] /\ v.size = s
  OBVIOUS
<1>. HIDE DEF v
<1>9. ASSUME NEW p \in DOMAIN u PROVE Node(u, i, G, p)
  <2>1. CASE p = q
    <3>1. Front(q) \in DOMAIN u \/ q = Root
      BY <1>2, <1>3
    <3>2. q = Turns(s, b, Len(q)) /\ Len(q) \in 0 .. b + 1
      BY <1>2
    <3>. QED BY <2>1, <3>1, <3>2, <1>3, <1>5, <1>7, <1>8 DEF Node
  <2>2. CASE p # q
    <3>1. p \in DOMAIN t /\ u[p] = t[p] /\ Node(t, i, F, p)
      BY <2>2, <1>3 DEF Trie
    <3>2. t[p].size # s
      BY <2>2, <3>1, <1>2 DEF Trie
    <3>3. Of(G, t[p].size) = Of(F, t[p].size)
      BY <3>2, <1>6
    <3>4. p # Root => Front(p) \in DOMAIN u
      BY <3>1, <1>3 DEF Node
    <3>. QED BY <3>1, <3>3, <3>4 DEF Node
  <2>. QED BY <2>1, <2>2
<1>10. \A p, r \in DOMAIN u : u[p].size = u[r].size => p = r
  <2>1. \A p \in DOMAIN t : p # q => u[p].size = t[p].size /\ t[p].size # s
    BY <1>2, <1>3 DEF Trie
  <2>. QED BY <2>1, <1>3, <1>8 DEF Trie
<1>11. \A y \in DOMAIN G : InBin(G[y], i) => \E p \in DOMAIN u : u[p].size = G[y]
  <2>. TAKE y \in DOMAIN G
  <2>. HAVE InBin(G[y], i)
  <2>1. CASE G[y] = s
    BY <2>1, <1>3, <1>8
  <2>2. CASE G[y] # s
    <3>1. y \in DOMAIN F /\ G[y] = F[y]
      BY <2>2, <1>4
    <3>2. PICK p \in DOMAIN t : t[p].size = F[y]
      BY <3>1 DEF Trie
    <3>. QED BY <3>1, <3>2, <2>2, <1>2, <1>3
  <2>. QED BY <2>1, <2>2
<1>12. u # NoTrie
  <2>1. DOMAIN NoTrie = {}
    BY DEF NoTrie
  <2>. QED BY <2>1, <1>3
<1>13. Trie(u, i, G)
  BY <1>3, <1>9, <1>10, <1>11 DEF Trie
<1>. QED BY <1>1, <1>12, <1>13 DEF G, b

(* The sizes of a tree bin are large.                                      *)
LEMMA InBinNat ==
  ASSUME NEW s, NEW i, InBin(s, i)
  PROVE  s \in Nat /\ s \in LargeSizes /\ s >= MIN_LARGE_SIZE /\ s < WordRange
  BY BinConstants, WordFacts DEF InBin, LargeSizes

(* The last leaf below a node is on every way of its size and has no child.*)
LEMMA LastLeafFacts ==
  ASSUME NEW i \in 0 .. NTREEBINS - 1, NEW t, NEW F, Trie(t, i, F), NEW q \in DOMAIN t
  PROVE  /\ LastLeaf(t, q) \in DOMAIN t
         /\ \A c \in {0, 1} : Append(LastLeaf(t, q), c) \notin DOMAIN t
         /\ q = Turns(t[LastLeaf(t, q)].size, bit_for_tree_index(i), Len(q))
<1>. DEFINE b == bit_for_tree_index(i)
            D == rightmost_children(t, q)
            r == LastLeaf(t, q)
<1>0. b \in 0 .. 31
  BY BinHigh
<1>1. ASSUME NEW p \in DOMAIN t
      PROVE  /\ p \in Seq({0, 1}) /\ Len(p) \in 0 .. b + 1 /\ Len(p) \in Nat
             /\ p = Turns(t[p].size, b, Len(p)) /\ t[p].size \in Nat
  <2>1. Len(p) \in 0 .. b + 1 /\ p = Turns(t[p].size, b, Len(p)) /\ t[p].size \in Nat
    BY InBinNat DEF Trie, Node
  <2>. DEFINE s == t[p].size
              n == Len(p)
  <2>. HIDE DEF b, s, n
  <2>2. n \in Nat
    BY <2>1, <1>0 DEF n
  <2>3. Turns(s, b, n) \in Seq({0, 1})
    BY <2>1, <2>2, <1>0, TurnsSeq DEF s
  <2>. QED BY <2>1, <2>2, <2>3 DEF s, n
<1>2. \A p : p \in D <=> /\ p \in DOMAIN t /\ IsPrefix(q, p)
                         /\ \A k \in Len(q) + 1 .. Len(p) :
                              p[k] = 1 \/ Append(SubSeq(p, 1, k - 1), 1) \notin DOMAIN t
  BY DEF rightmost_children, Descent
<1>. HIDE DEF b, D
<1>3. q \in D
  <2>1. IsPrefix(q, q) /\ Len(q) + 1 .. Len(q) = {}
    BY <1>1 DEF IsPrefix
  <2>. QED BY <2>1, <1>2
<1>4. \E p \in D : \A o \in D : Len(o) <= Len(p)
  <2>. DEFINE L == {Len(p) : p \in D}
  <2>0. \A p \in D : Len(p) \in 0 .. b + 1
    BY <1>1, <1>2
  <2>1. L \subseteq 0 .. b + 1 /\ L # {} /\ b + 1 \in Nat
    <3>1. L \subseteq 0 .. b + 1
      BY <2>0
    <3>2. Len(q) \in L
      BY <1>3
    <3>. QED BY <3>1, <3>2, <1>0
  <2>2. PICK n \in L : \A l \in L : n >= l
    <3>. HIDE DEF L
    <3>. QED BY <2>1, LargestElement
  <2>3. PICK p \in D : Len(p) = n
    BY <2>2
  <2>4. \A o \in D : Len(o) \in L /\ Len(o) \in Nat /\ Len(p) \in Nat
    BY <2>3, <1>1, <1>2
  <2>5. \A o \in D : Len(o) <= Len(p)
    <3>. HIDE DEF L
    <3>. QED BY <2>2, <2>3, <2>4
  <2>. QED BY <2>3, <2>5
<1>5. r \in D /\ \A o \in D : Len(o) <= Len(r)
  BY <1>4 DEF LastLeaf, D
<1>. HIDE DEF r
<1>6. r \in DOMAIN t /\ r \in Seq({0, 1}) /\ Len(r) \in Nat /\ IsPrefix(q, r)
  BY <1>1, <1>2, <1>5
<1>7. q = Turns(t[r].size, b, Len(q))
  <2>1. Len(q) \in 0 .. Len(r)
    BY <1>1, <1>6 DEF IsPrefix
  <2>2. SubSeq(q, 1, Len(q)) = SubSeq(r, 1, Len(q))
    BY <1>6 DEF IsPrefix
  <2>3. SubSeq(q, 1, Len(q)) = q
    BY <1>1, SubSeqFull
  <2>. DEFINE s == t[r].size
              n == Len(q)
  <2>4. r = Turns(s, b, Len(r)) /\ s \in Nat
    BY <1>1, <1>6
  <2>. HIDE DEF s, n
  <2>5. SubSeq(Turns(s, b, Len(r)), 1, n) = Turns(s, b, n)
    BY <2>1, <2>4, <1>0, <1>6, TurnsPrefix DEF n
  <2>. QED BY <2>2, <2>3, <2>4, <2>5 DEF s, n
<1>8. ASSUME \E c \in {0, 1} : Append(r, c) \in DOMAIN t PROVE FALSE
  <2>1. PICK c \in {0, 1} : Append(r, c) \in DOMAIN t /\ (c = 1 \/ Append(r, 1) \notin DOMAIN t)
    BY <1>8
  <2>. DEFINE p == Append(r, c)
  <2>2. /\ p \in DOMAIN t /\ p \in Seq({0, 1}) /\ Len(p) = Len(r) + 1
        /\ \A j \in 1 .. Len(r) : p[j] = r[j]
        /\ p[Len(r) + 1] = c
    BY <2>1, <1>6, AppendProperties
  <2>. HIDE DEF p
  <2>3. ASSUME NEW k \in 0 .. Len(r) PROVE SubSeq(p, 1, k) = SubSeq(r, 1, k)
    <3>0. k \in Int /\ 1 \in Int
      OBVIOUS
    <3>1. \A j \in 1 .. k : p[j] \in {0, 1} /\ r[j] \in {0, 1} /\ p[j] = r[j]
      BY <2>2, <1>6, ElementOfSeq
    <3>2. /\ SubSeq(p, 1, k) \in Seq({0, 1}) /\ Len(SubSeq(p, 1, k)) = IF 1 <= k THEN k - 1 + 1 ELSE 0
          /\ \A j \in 1 .. k - 1 + 1 : SubSeq(p, 1, k)[j] = p[1 + j - 1]
      BY <3>0, <3>1, SubSeqProperties
    <3>3. /\ SubSeq(r, 1, k) \in Seq({0, 1}) /\ Len(SubSeq(r, 1, k)) = IF 1 <= k THEN k - 1 + 1 ELSE 0
          /\ \A j \in 1 .. k - 1 + 1 : SubSeq(r, 1, k)[j] = r[1 + j - 1]
      BY <3>0, <3>1, SubSeqProperties
    <3>. DEFINE v == SubSeq(p, 1, k)
                w == SubSeq(r, 1, k)
    <3>. HIDE DEF v, w
    <3>4. v \in Seq({0, 1}) /\ Len(v) = k /\ \A j \in 1 .. k : v[j] = p[j]
      BY <3>2 DEF v
    <3>5. w \in Seq({0, 1}) /\ Len(w) = k /\ \A j \in 1 .. k : w[j] = r[j]
      BY <3>3 DEF w
    <3>6. v = w
      BY <3>1, <3>4, <3>5, SeqEqual
    <3>. QED BY <3>6 DEF v, w
  <2>4. Len(q) \in 0 .. Len(r)
    BY <1>1, <1>6 DEF IsPrefix
  <2>5. IsPrefix(q, p)
    BY <2>2, <2>3, <2>4, <1>6 DEF IsPrefix
  <2>6. ASSUME NEW k \in Len(q) + 1 .. Len(p)
        PROVE  p[k] = 1 \/ Append(SubSeq(p, 1, k - 1), 1) \notin DOMAIN t
    <3>1. k - 1 \in 0 .. Len(r)
      BY <2>2, <2>4, <1>6
    <3>2. SubSeq(p, 1, k - 1) = SubSeq(r, 1, k - 1)
      BY <3>1, <2>3
    <3>3. CASE k \in Len(q) + 1 .. Len(r)
      <4>1. k \in 1 .. Len(r)
        BY <3>3, <2>4, <1>6
      <4>2. p[k] = r[k]
        BY <4>1, <2>2
      <4>3. r[k] = 1 \/ Append(SubSeq(r, 1, k - 1), 1) \notin DOMAIN t
        BY <3>3, <1>2, <1>5
      <4>. QED BY <4>2, <4>3, <3>2
    <3>4. CASE k = Len(r) + 1
      <4>1. p[k] = c /\ k - 1 = Len(r)
        BY <3>4, <2>2, <1>6
      <4>2. SubSeq(r, 1, Len(r)) = r
        BY <1>6, SubSeqFull
      <4>. QED BY <4>1, <4>2, <3>2, <2>1
    <3>. QED BY <3>3, <3>4, <2>2, <2>4, <1>6
  <2>7. p \in D
    BY <2>2, <2>5, <2>6, <1>2
  <2>8. Len(p) <= Len(r)
    BY <2>7, <1>5
  <2>. QED BY <2>2, <2>8, <1>6
<1>. QED BY <1>6, <1>7, <1>8 DEF r, b

(* A chunk is in the ring of the node of its size.                         *)
LEMMA TrieNode ==
  ASSUME NEW i \in 0 .. NTREEBINS - 1, NEW t, NEW F, Trie(t, i, F),
         NEW x \in DOMAIN F, InBin(F[x], i)
  PROVE  NodeOf(t, x) \in DOMAIN t /\ t[NodeOf(t, x)].size = F[x]
<1>1. PICK q \in DOMAIN t : t[q].size = F[x]
  BY DEF Trie
<1>2. x \in Of(F, F[x])
  BY DEF Of
<1>3. Contains(t[q].ring, x)
  BY <1>1, <1>2, ListsIndex DEF Trie, Node
<1>4. NodeOf(t, x) \in DOMAIN t /\ Contains(t[NodeOf(t, x)].ring, x)
  BY <1>1, <1>3 DEF NodeOf
<1>. DEFINE p == NodeOf(t, x)
<1>. HIDE DEF p
<1>5. Lists(t[p].ring, Of(F, t[p].size))
  BY <1>4 DEF Trie, Node, p
<1>6. x \in Of(F, t[p].size)
  <2>1. PICK k \in 1 .. Len(t[p].ring) : t[p].ring[k] = x
    BY <1>4 DEF Contains, p
  <2>. QED BY <2>1, <1>5, ListsIndex
<1>. QED BY <1>4, <1>6 DEF Of, p

(* F without the chunk x.                                                  *)
Without(F, x) == [y \in DOMAIN F \ {x} |-> F[y]]

(* unlink_large_chunk leaves a trie of the chunks without the one          *)
(* unlinked.                                                               *)
LEMMA TrieUnlink ==
  ASSUME NEW i \in 0 .. NTREEBINS - 1, NEW t, NEW F, Trie(t, i, F),
         NEW x \in DOMAIN F, InBin(F[x], i)
  PROVE  Trie(TreeUnlink(t, x), i, Without(F, x))
<1>. DEFINE b == bit_for_tree_index(i)
            q == NodeOf(t, x)
            G == Without(F, x)
            s == F[x]
<1>0. b \in 0 .. 31
  BY BinHigh
<1>1. q \in DOMAIN t /\ t[q].size = s
  BY TrieNode
<1>. HIDE DEF q
<1>2. Node(t, i, F, q)
  BY <1>1 DEF Trie
<1>3. Lists(t[q].ring, Of(F, s)) /\ x \in Of(F, s)
  BY <1>1, <1>2 DEF Node, Of
<1>4. DOMAIN G = DOMAIN F \ {x} /\ \A y \in DOMAIN G : G[y] = F[y]
  BY DEF Without
<1>. HIDE DEF G
<1>5. Of(G, s) = Of(F, s) \ {x} /\ \A z : z # s => Of(G, z) = Of(F, z)
  BY <1>4 DEF Of
<1>6. CASE t[q].ring # <<x>>
  <2>. DEFINE w == Unlinked(t[q].ring, x)
              u == [t EXCEPT ![q].ring = w]
  <2>1. TreeUnlink(t, x) = u
    BY <1>6 DEF TreeUnlink, q
  <2>2. Lists(w, Of(G, s))
    BY <1>3, <1>5, ListsUnlinked
  <2>3. Of(G, s) # {}
    <3>1. SUFFICES ASSUME Of(G, s) = {} PROVE FALSE
      OBVIOUS
    <3>2. Of(F, s) = {x}
      BY <3>1, <1>3, <1>5
    <3>3. t[q].ring = <<x>>
      BY <3>2, <1>3, ListsSingle
    <3>. QED BY <3>3, <1>6
  <2>. HIDE DEF w
  <2>4. t[q] = [size |-> s, ring |-> t[q].ring]
    BY <1>1, <1>2 DEF Node
  <2>5. /\ DOMAIN u = DOMAIN t /\ u = [p \in DOMAIN u |-> u[p]]
        /\ u[q] = [size |-> s, ring |-> w]
        /\ \A p \in DOMAIN t : p # q => u[p] = t[p]
    BY <1>1, <2>4
  <2>. HIDE DEF u
  <2>6. u[q].size = s /\ u[q].ring = w
    BY <2>5
  <2>7. \A p \in DOMAIN t : u[p].size = t[p].size
    BY <2>5, <2>6, <1>1
  <2>8. ASSUME NEW p \in DOMAIN u PROVE Node(u, i, G, p)
    <3>1. CASE p = q
      BY <3>1, <2>2, <2>3, <2>5, <2>6, <1>1, <1>2 DEF Node
    <3>2. CASE p # q
      <4>1. p \in DOMAIN t /\ u[p] = t[p] /\ Node(t, i, F, p) /\ t[p].size # s
        BY <3>2, <2>5, <1>1 DEF Trie
      <4>2. Of(G, t[p].size) = Of(F, t[p].size)
        BY <4>1, <1>5
      <4>. QED BY <4>1, <4>2, <2>5 DEF Node
    <3>. QED BY <3>1, <3>2
  <2>9. \A p, r \in DOMAIN u : u[p].size = u[r].size => p = r
    BY <2>5, <2>7 DEF Trie
  <2>10. \A y \in DOMAIN G : InBin(G[y], i) => \E p \in DOMAIN u : u[p].size = G[y]
    BY <2>5, <2>7, <1>4 DEF Trie
  <2>. QED BY <2>1, <2>5, <2>8, <2>9, <2>10 DEF Trie, G
<1>7. CASE t[q].ring = <<x>>
  <2>. DEFINE r == LastLeaf(t, q)
              u == [p \in DOMAIN t \ {r} |-> IF p = q THEN t[r] ELSE t[p]]
  <2>1. TreeUnlink(t, x) = u
    BY <1>7 DEF TreeUnlink, q, ReplaceByLeaf
  <2>2. /\ r \in DOMAIN t /\ \A c \in {0, 1} : Append(r, c) \notin DOMAIN t
        /\ q = Turns(t[r].size, b, Len(q))
    BY <1>1, LastLeafFacts
  <2>. HIDE DEF r
  <2>3. /\ DOMAIN u = DOMAIN t \ {r} /\ u = [p \in DOMAIN u |-> u[p]]
        /\ \A p \in DOMAIN u : u[p] = IF p = q THEN t[r] ELSE t[p]
    OBVIOUS
  <2>. HIDE DEF u
  <2>4. Of(G, s) = {}
    <3>1. Of(F, s) \subseteq {x}
      <4>1. ToSet(t[q].ring) = {x}
        BY <1>7, ListsOne DEF Lists
      <4>. QED BY <4>1, <1>3 DEF Lists
    <3>. QED BY <3>1, <1>5
  <2>5. ASSUME NEW p \in DOMAIN u PROVE Front(p) # r \/ p = Root
    <3>1. SUFFICES ASSUME p # Root, Front(p) = r PROVE FALSE
      OBVIOUS
    <3>. DEFINE z == t[p].size
                n == Len(p)
    <3>2. p \in DOMAIN t /\ p = Turns(z, b, n) /\ n \in 0 .. b + 1 /\ z \in Nat
      BY <2>3, InBinNat DEF Trie, Node
    <3>. HIDE DEF z, n, b
    <3>3. n \in Nat
      BY <3>2, <1>0
    <3>4. n # 0
      <4>1. SUFFICES ASSUME n = 0 PROVE p = Root
        BY <3>1
      <4>2. p \in Seq({0, 1}) /\ Len(p) = 0
        BY <4>1, <3>2, <3>3, <1>0, TurnsSeq
      <4>. QED BY <4>2, EmptySeq DEF Root
    <3>5. n > 0
      BY <3>3, <3>4
    <3>6. /\ Front(Turns(z, b, n)) = Turns(z, b, n - 1)
          /\ \E c \in {0, 1} : Turns(z, b, n) = Append(Turns(z, b, n - 1), c)
      BY <3>2, <3>3, <3>5, <1>0, TurnsStep
    <3>7. \E c \in {0, 1} : p = Append(r, c)
      BY <3>1, <3>2, <3>6
    <3>. QED BY <3>2, <3>7, <2>2
  <2>6. ASSUME NEW p \in DOMAIN u
        PROVE  /\ Node(u, i, G, p) /\ u[p].size # s
               /\ \E o \in DOMAIN t : u[p] = t[o] /\ (IF p = q THEN o = r ELSE o = p)
    <3>. DEFINE o == IF p = q THEN r ELSE p
    <3>1. o \in DOMAIN t /\ u[p] = t[o] /\ o # q /\ p \in DOMAIN t
      BY <2>2, <2>3
    <3>2. t[o].size # s
      BY <3>1, <1>1 DEF Trie
    <3>3. Node(t, i, F, o) /\ Node(t, i, F, p)
      BY <3>1 DEF Trie
    <3>4. Of(G, t[o].size) = Of(F, t[o].size)
      BY <3>2, <1>5
    <3>5. p = Turns(t[o].size, b, Len(p)) /\ Len(p) \in 0 .. b + 1
      BY <3>3, <2>2 DEF Node
    <3>6. p # Root => Front(p) \in DOMAIN u
      BY <3>3, <2>3, <2>5 DEF Node
    <3>7. Node(u, i, G, p)
      BY <3>1, <3>3, <3>4, <3>5, <3>6 DEF Node
    <3>. QED BY <3>1, <3>2, <3>7
  <2>7. \A p, v \in DOMAIN u : u[p].size = u[v].size => p = v
    <3>. TAKE p, v \in DOMAIN u
    <3>. HAVE u[p].size = u[v].size
    <3>1. PICK o \in DOMAIN t : u[p] = t[o] /\ (IF p = q THEN o = r ELSE o = p)
      BY <2>6
    <3>2. PICK w \in DOMAIN t : u[v] = t[w] /\ (IF v = q THEN w = r ELSE w = v)
      BY <2>6
    <3>3. o = w
      BY <3>1, <3>2 DEF Trie
    <3>. QED BY <3>1, <3>2, <3>3, <2>3
  <2>8. \A y \in DOMAIN G : InBin(G[y], i) => \E p \in DOMAIN u : u[p].size = G[y]
    <3>. TAKE y \in DOMAIN G
    <3>. HAVE InBin(G[y], i)
    <3>1. G[y] # s
      BY <2>4 DEF Of
    <3>2. PICK o \in DOMAIN t : t[o].size = G[y]
      BY <1>4 DEF Trie
    <3>3. o # q
      BY <3>1, <3>2, <1>1
    <3>4. CASE o = r
      <4>1. q \in DOMAIN u /\ u[q] = t[r]
        BY <3>3, <3>4, <2>3, <1>1
      <4>. QED BY <4>1, <3>2, <3>4
    <3>5. CASE o # r
      <4>1. o \in DOMAIN u /\ u[o] = t[o]
        BY <3>3, <3>5, <2>3
      <4>. QED BY <4>1, <3>2
    <3>. QED BY <3>4, <3>5
  <2>. QED BY <2>1, <2>3, <2>6, <2>7, <2>8 DEF Trie, G
<1>. QED BY <1>6, <1>7

-----------------------------------------------------------------------------
(* The bins as an index of the free chunks.                                *)

(* The fields of the allocator's state, those of struct malloc_state and   *)
(* the break's.                                                            *)
Fields == {"head", "foot", "smallmap", "smallbins", "treemap", "treebins", "dv", "dvsize", "top",
           "topsize", "trim_check", "seg", "least_addr", "contiguous", "footprint",
           "max_footprint", "granularity", "trim_threshold", "limit", "brk", "stray", "aborted"}
(* The fields that index the free chunks.                                  *)
BinFields == {"smallmap", "smallbins", "treemap", "treebins"}

(* n is m but for the fields of X.                                         *)
SameBut(m, n, X) == DOMAIN n = Fields /\ \A f \in Fields \ X : n[f] = m[f]

(* Sizes that chunks in bins have.                                         *)
Sized(s) == s \in Nat /\ s >= 16 /\ s < WordRange /\ s % 8 = 0
(* The small bins that are used, and the tree bins.                        *)
SmallBins == 2 .. NSMALLBINS - 1
TreeBins == 0 .. NTREEBINS - 1

(* The bins hold each chunk of F once, in the bin of its size.             *)
Bins(m, F) ==
  /\ \A x \in DOMAIN F : Sized(F[x])
  /\ DOMAIN m.smallbins = SmallBins /\ \A i \in SmallBins : Lists(m.smallbins[i], Of(F, i * 8))
  /\ m.smallmap = {i \in SmallBins : m.smallbins[i] # <<>>}
  /\ DOMAIN m.treebins = TreeBins /\ \A i \in TreeBins : Trie(m.treebins[i], i, F)
  /\ m.treemap = {i \in TreeBins : m.treebins[i] # NoTrie}

(* The bin of a small size.                                                *)
LEMMA SmallSize ==
  ASSUME NEW s, Sized(s), is_small(s)
  PROVE  small_index(s) \in SmallBins /\ small_index(s) * 8 = s
<1>1. s \in Nat /\ s >= 16 /\ s % 8 = 0 /\ s \div 8 < NSMALLBINS /\ NSMALLBINS \in Nat
  BY BinConstants DEF Sized, is_small
<1>2. s \div 8 \in 2 .. NSMALLBINS - 1 /\ (s \div 8) * 8 = s
  BY <1>1
<1>. QED BY <1>2 DEF small_index, SmallBins

(* The bin of a large size.                                                *)
LEMMA LargeSize ==
  ASSUME NEW s, Sized(s), ~is_small(s)
  PROVE  s \in LargeSizes /\ compute_tree_index(s) \in TreeBins /\ InBin(s, compute_tree_index(s))
<1>1. s \in Nat /\ s < WordRange /\ ~(s \div 8 < NSMALLBINS) /\ NSMALLBINS \in Nat
      /\ MIN_LARGE_SIZE \in Nat /\ MIN_LARGE_SIZE = 8 * NSMALLBINS /\ WordRange \in Nat
  BY BinConstants, WordFacts DEF Sized, is_small
<1>2. MIN_LARGE_SIZE <= s
  BY <1>1
<1>3. s \in LargeSizes
  BY <1>1, <1>2 DEF LargeSizes
<1>. QED BY <1>1, <1>2, <1>3, TreeIndexRange DEF TreeBins, InBin

(* A size of a tree bin is not small.                                      *)
LEMMA SmallNotLarge ==
  ASSUME NEW s, Sized(s), NEW i, InBin(s, i)
  PROVE  ~is_small(s)
<1>1. s \in Nat /\ s >= MIN_LARGE_SIZE /\ MIN_LARGE_SIZE = 8 * NSMALLBINS /\ NSMALLBINS \in Nat
  BY InBinNat, BinConstants
<1>. QED BY <1>1 DEF is_small

(* The size of a small bin's chunks.                                       *)
LEMMA SmallBinSize ==
  ASSUME NEW i \in SmallBins
  PROVE  /\ Sized(i * 8) /\ is_small(i * 8) /\ small_index(i * 8) = i
         /\ i \in Nat /\ i * 8 < MIN_LARGE_SIZE
<1>1. i \in Nat /\ i >= 2 /\ i < NSMALLBINS /\ MIN_LARGE_SIZE = 8 * NSMALLBINS /\ NSMALLBINS \in Nat
  BY BinConstants DEF SmallBins
<1>2. i * 8 \in Nat /\ i * 8 >= 16 /\ (i * 8) % 8 = 0 /\ (i * 8) \div 8 = i /\ i * 8 < MIN_LARGE_SIZE
  BY <1>1
<1>3. MIN_LARGE_SIZE < WordRange /\ WordRange \in Nat /\ MIN_LARGE_SIZE \in Nat
  <2>1. TREEBIN_SHIFT \in 0 .. 33 /\ SIZE_T_BITSIZE \in 0 .. 33 /\ TREEBIN_SHIFT + 1 \in 0 .. 33
        /\ TREEBIN_SHIFT + 1 <= SIZE_T_BITSIZE /\ TREEBIN_SHIFT \in 0 .. 32
    BY BinConstants
  <2>2. 2^(TREEBIN_SHIFT + 1) <= 2^SIZE_T_BITSIZE
    <3>1. PICK k \in 0 .. 33 : k = TREEBIN_SHIFT + 1
      BY <2>1
    <3>2. 2^k <= 2^SIZE_T_BITSIZE
      BY <2>1, <3>1, PowerMultiple
    <3>. QED BY <3>1, <3>2
  <2>3. 2^(TREEBIN_SHIFT + 1) = 2 * 2^TREEBIN_SHIFT /\ 2^TREEBIN_SHIFT \in Nat /\ 2^TREEBIN_SHIFT > 0
    BY <2>1, PowerTable
  <2>. QED BY <2>2, <2>3, WordFacts DEF MIN_LARGE_SIZE, WordRange
<1>. QED BY <1>1, <1>2, <1>3 DEF Sized, is_small, small_index

(* insert_small_chunk indexes the chunk and changes the bins alone.        *)
LEMMA BinsInsertSmall ==
  ASSUME NEW m, DOMAIN m = Fields, NEW F, Bins(m, F),
         NEW x, x \notin DOMAIN F, NEW s, Sized(s), is_small(s)
  PROVE  /\ Bins(insert_small_chunk(m, x, s), Put(F, x, s))
         /\ SameBut(m, insert_small_chunk(m, x, s), BinFields)
<1>. DEFINE I == small_index(s)
            l == IF I \in m.smallmap THEN <<x>> \o m.smallbins[I] ELSE <<x>>
            n == insert_small_chunk(m, x, s)
            G == Put(F, x, s)
<1>1. I \in SmallBins /\ I * 8 = s
  BY SmallSize
<1>. HIDE DEF I
<1>2. n = [m EXCEPT !.smallmap = m.smallmap \cup {I}, !.smallbins = [m.smallbins EXCEPT ![I] = l]]
  BY DEF insert_small_chunk, I, Fields
<1>3. DOMAIN G = DOMAIN F \cup {x} /\ G[x] = s /\ \A y \in DOMAIN F : G[y] = F[y]
  BY DEF Put
<1>. HIDE DEF G
<1>4. Of(G, s) = Of(F, s) \cup {x} /\ x \notin Of(F, s) /\ \A z : z # s => Of(G, z) = Of(F, z)
  BY <1>3 DEF Of
<1>5. Lists(l, Of(G, s))
  <2>1. Lists(m.smallbins[I], Of(F, s))
    BY <1>1 DEF Bins
  <2>2. CASE I \in m.smallmap
    BY <2>1, <2>2, <1>4, ListsCons
  <2>3. CASE I \notin m.smallmap
    <3>1. m.smallbins[I] = <<>>
      BY <2>3, <1>1 DEF Bins
    <3>2. Of(F, s) = {}
      BY <3>1, <2>1, ListsIndex
    <3>. QED BY <2>3, <3>2, <1>4, ListsOne
  <2>. QED BY <2>2, <2>3
<1>6. l # <<>>
  <2>1. Of(G, s) # {}
    BY <1>4
  <2>. HIDE DEF l
  <2>. QED BY <2>1, <1>5, ListsIndex
<1>. HIDE DEF l
<1>. HIDE DEF n
<1>7. SameBut(m, n, BinFields)
  BY <1>2 DEF SameBut, Fields, BinFields
<1>8. /\ n.smallmap = m.smallmap \cup {I} /\ n.treemap = m.treemap /\ n.treebins = m.treebins
      /\ DOMAIN n.smallbins = SmallBins /\ n.smallbins[I] = l
      /\ \A i \in SmallBins : i # I => n.smallbins[i] = m.smallbins[i]
  BY <1>1, <1>2 DEF Fields, Bins
<1>9. \A i \in SmallBins : Lists(n.smallbins[i], Of(G, i * 8))
  <2>. TAKE i \in SmallBins
  <2>1. CASE i = I
    BY <2>1, <1>1, <1>5, <1>8
  <2>2. CASE i # I
    <3>1. i * 8 # s
      BY <2>2, <1>1, SmallBinSize
    <3>. QED BY <2>2, <3>1, <1>4, <1>8 DEF Bins
  <2>. QED BY <2>1, <2>2
<1>10. n.smallmap = {i \in SmallBins : n.smallbins[i] # <<>>}
  BY <1>1, <1>6, <1>8 DEF Bins
<1>11. \A i \in TreeBins : Trie(n.treebins[i], i, G)
  <2>. TAKE i \in TreeBins
  <2>. DEFINE t == m.treebins[i]
  <2>1. Trie(t, i, F) /\ n.treebins[i] = t
    BY <1>8 DEF Bins
  <2>2. \A q \in DOMAIN t : Node(t, i, G, q)
    <3>. TAKE q \in DOMAIN t
    <3>1. Node(t, i, F, q) /\ InBin(t[q].size, i)
      BY <2>1 DEF Trie, Node
    <3>2. t[q].size # s
      BY <3>1, SmallNotLarge
    <3>. QED BY <3>1, <3>2, <1>4 DEF Node
  <2>3. \A y \in DOMAIN G : InBin(G[y], i) => \E q \in DOMAIN t : t[q].size = G[y]
    <3>. TAKE y \in DOMAIN G
    <3>. HAVE InBin(G[y], i)
    <3>1. y \in DOMAIN F /\ F[y] = G[y]
      BY <1>3, SmallNotLarge
    <3>. QED BY <3>1, <2>1 DEF Trie
  <2>. QED BY <2>1, <2>2, <2>3 DEF Trie
<1>12. Bins(n, G)
  BY <1>3, <1>8, <1>9, <1>10, <1>11 DEF Bins
<1>. QED BY <1>7, <1>12 DEF n, G

(* insert_large_chunk indexes the chunk and changes the bins alone.        *)
LEMMA BinsInsertLarge ==
  ASSUME NEW m, DOMAIN m = Fields, NEW F, Bins(m, F),
         NEW x, x \notin DOMAIN F, NEW s, Sized(s), ~is_small(s)
  PROVE  /\ Bins(insert_large_chunk(m, x, s), Put(F, x, s))
         /\ SameBut(m, insert_large_chunk(m, x, s), BinFields)
<1>. DEFINE I == compute_tree_index(s)
            t == IF I \in m.treemap THEN m.treebins[I] ELSE NoTrie
            u == TreeInsert(t, x, s, bit_for_tree_index(I))
            n == insert_large_chunk(m, x, s)
            G == Put(F, x, s)
<1>1. I \in TreeBins /\ InBin(s, I)
  BY LargeSize
<1>. HIDE DEF I
<1>2. n = [m EXCEPT !.treemap = m.treemap \cup {I}, !.treebins = [m.treebins EXCEPT ![I] = u]]
  BY DEF insert_large_chunk, I, Fields
<1>3. DOMAIN G = DOMAIN F \cup {x} /\ G[x] = s /\ \A y \in DOMAIN F : G[y] = F[y]
  BY DEF Put
<1>4. t = m.treebins[I]
  BY <1>1 DEF Bins
<1>. HIDE DEF t
<1>5. Trie(t, I, F)
  BY <1>1, <1>4 DEF Bins
<1>6. Trie(u, I, G) /\ u # NoTrie
  BY <1>1, <1>5, TrieInsert DEF TreeBins
<1>. HIDE DEF u, n, G
<1>7. SameBut(m, n, BinFields)
  BY <1>2 DEF SameBut, Fields, BinFields
<1>8. /\ n.treemap = m.treemap \cup {I} /\ n.smallmap = m.smallmap /\ n.smallbins = m.smallbins
      /\ DOMAIN n.treebins = TreeBins /\ n.treebins[I] = u
      /\ \A i \in TreeBins : i # I => n.treebins[i] = m.treebins[i]
  BY <1>1, <1>2 DEF Fields, Bins
<1>9. \A z : z # s => Of(G, z) = Of(F, z)
  BY <1>3 DEF Of
<1>10. \A i \in SmallBins : Lists(n.smallbins[i], Of(G, i * 8))
  <2>. TAKE i \in SmallBins
  <2>1. i * 8 # s
    BY SmallBinSize
  <2>. QED BY <2>1, <1>8, <1>9 DEF Bins
<1>11. n.treemap = {i \in TreeBins : n.treebins[i] # NoTrie}
  BY <1>1, <1>6, <1>8 DEF Bins
<1>12. \A i \in TreeBins : Trie(n.treebins[i], i, G)
  <2>. TAKE i \in TreeBins
  <2>. DEFINE o == m.treebins[i]
  <2>1. CASE i # I
    <3>1. Trie(o, i, F) /\ n.treebins[i] = o
      BY <2>1, <1>8 DEF Bins
    <3>2. ~InBin(s, i)
      BY <2>1, <1>1 DEF InBin
    <3>3. \A q \in DOMAIN o : Node(o, i, G, q)
      BY <3>1, <3>2, <1>9 DEF Trie, Node
    <3>4. \A y \in DOMAIN G : InBin(G[y], i) => \E q \in DOMAIN o : o[q].size = G[y]
      BY <3>1, <3>2, <1>3 DEF Trie
    <3>. QED BY <3>1, <3>3, <3>4 DEF Trie
  <2>. QED BY <2>1, <1>6, <1>8
<1>13. n.smallmap = {i \in SmallBins : n.smallbins[i] # <<>>}
  BY <1>8 DEF Bins
<1>14. \A y \in DOMAIN G : Sized(G[y])
  BY <1>3 DEF Bins
<1>15. Bins(n, G)
  BY <1>8, <1>10, <1>11, <1>12, <1>13, <1>14 DEF Bins
<1>. QED BY <1>7, <1>15 DEF n, G

(* insert_chunk indexes the chunk and changes the bins alone.              *)
LEMMA BinsInsert ==
  ASSUME NEW m, DOMAIN m = Fields, NEW F, Bins(m, F),
         NEW x, x \notin DOMAIN F, NEW s, Sized(s)
  PROVE  /\ Bins(insert_chunk(m, x, s), Put(F, x, s))
         /\ SameBut(m, insert_chunk(m, x, s), BinFields)
<1>1. CASE is_small(s)
  BY <1>1, BinsInsertSmall DEF insert_chunk
<1>2. CASE ~is_small(s)
  BY <1>2, BinsInsertLarge DEF insert_chunk
<1>. QED BY <1>1, <1>2

(* A map without one of its elements.                                      *)
LEMMA WithoutFacts ==
  ASSUME NEW F, NEW x \in DOMAIN F
  PROVE  LET G == Without(F, x)
         IN /\ DOMAIN G = DOMAIN F \ {x} /\ \A y \in DOMAIN G : G[y] = F[y]
            /\ Of(G, F[x]) = Of(F, F[x]) \ {x} /\ x \in Of(F, F[x])
            /\ \A z : z # F[x] => Of(G, z) = Of(F, z)
<1>. DEFINE G == Without(F, x)
<1>1. DOMAIN G = DOMAIN F \ {x} /\ \A y \in DOMAIN G : G[y] = F[y]
  BY DEF Without
<1>. HIDE DEF G
<1>2. /\ Of(G, F[x]) = Of(F, F[x]) \ {x} /\ x \in Of(F, F[x])
      /\ \A z : z # F[x] => Of(G, z) = Of(F, z)
  BY <1>1 DEF Of
<1>. QED BY <1>1, <1>2 DEF G

(* A small bin that loses a chunk, its mark cleared when it is left empty. *)
LEMMA BinsLessSmall ==
  ASSUME NEW m, DOMAIN m = Fields, NEW F, Bins(m, F), NEW x \in DOMAIN F, is_small(F[x]),
         NEW n, NEW l, SameBut(m, n, BinFields),
         n.smallbins = [m.smallbins EXCEPT ![small_index(F[x])] = l],
         n.smallmap = IF l = <<>> THEN m.smallmap \ {small_index(F[x])} ELSE m.smallmap,
         n.treemap = m.treemap, n.treebins = m.treebins,
         Lists(l, Of(F, F[x]) \ {x})
  PROVE  Bins(n, Without(F, x))
<1>. DEFINE s == F[x]
            I == small_index(s)
            G == Without(F, x)
<1>1. Sized(s) /\ I \in SmallBins /\ I * 8 = s
  BY SmallSize DEF Bins
<1>2. /\ DOMAIN G = DOMAIN F \ {x} /\ \A y \in DOMAIN G : G[y] = F[y]
      /\ Of(G, s) = Of(F, s) \ {x} /\ x \in Of(F, s)
      /\ \A z : z # s => Of(G, z) = Of(F, z)
  BY WithoutFacts
<1>. HIDE DEF G, I
<1>3. /\ DOMAIN n.smallbins = SmallBins /\ n.smallbins[I] = l
      /\ \A i \in SmallBins : i # I => n.smallbins[i] = m.smallbins[i]
  BY <1>1 DEF Bins, I
<1>4. \A i \in SmallBins : Lists(n.smallbins[i], Of(G, i * 8))
  <2>. TAKE i \in SmallBins
  <2>1. CASE i = I
    BY <2>1, <1>1, <1>2, <1>3
  <2>2. CASE i # I
    <3>1. i * 8 # s
      BY <2>2, SmallBinSize DEF I
    <3>. QED BY <2>2, <3>1, <1>2, <1>3 DEF Bins
  <2>. QED BY <2>1, <2>2
<1>5. n.smallmap = {i \in SmallBins : n.smallbins[i] # <<>>}
  <2>1. m.smallbins[I] # <<>>
    <3>1. Lists(m.smallbins[I], Of(F, s))
      BY <1>1 DEF Bins
    <3>. QED BY <3>1, <1>2, ListsIndex
  <2>2. n.smallmap = IF l = <<>> THEN m.smallmap \ {I} ELSE m.smallmap
    BY DEF I
  <2>. QED BY <2>1, <2>2, <1>1, <1>3 DEF Bins
<1>6. \A i \in TreeBins : Trie(n.treebins[i], i, G)
  <2>. TAKE i \in TreeBins
  <2>. DEFINE t == m.treebins[i]
  <2>1. Trie(t, i, F) /\ n.treebins[i] = t
    BY DEF Bins
  <2>2. \A q \in DOMAIN t : Node(t, i, G, q)
    <3>. TAKE q \in DOMAIN t
    <3>1. Node(t, i, F, q) /\ InBin(t[q].size, i)
      BY <2>1 DEF Trie, Node
    <3>2. t[q].size # s
      BY <3>1, <1>1, SmallNotLarge
    <3>. QED BY <3>1, <3>2, <1>2 DEF Node
  <2>3. \A y \in DOMAIN G : InBin(G[y], i) => \E q \in DOMAIN t : t[q].size = G[y]
    BY <2>1, <1>2 DEF Trie
  <2>. QED BY <2>1, <2>2, <2>3 DEF Trie
<1>7. Bins(n, G)
  BY <1>2, <1>3, <1>4, <1>5, <1>6 DEF Bins
<1>. QED BY <1>7 DEF G

(* unlink_small_chunk takes the chunk out of the index.                    *)
LEMMA BinsUnlinkSmall ==
  ASSUME NEW m, DOMAIN m = Fields, NEW F, Bins(m, F), NEW x \in DOMAIN F, is_small(F[x])
  PROVE  /\ Bins(unlink_small_chunk(m, x, F[x]), Without(F, x))
         /\ SameBut(m, unlink_small_chunk(m, x, F[x]), BinFields)
<1>. DEFINE s == F[x]
            I == small_index(s)
            n == unlink_small_chunk(m, x, s)
            l == IF m.smallbins[I] = <<x>> THEN <<>> ELSE Unlinked(m.smallbins[I], x)
<1>1. Sized(s) /\ I \in SmallBins /\ I * 8 = s
  BY SmallSize DEF Bins
<1>. HIDE DEF I
<1>2. x \in Of(F, s)
  BY DEF Of
<1>3. Lists(m.smallbins[I], Of(F, s))
  BY <1>1 DEF Bins
<1>4. Lists(l, Of(F, s) \ {x}) /\ (l = <<>> <=> m.smallbins[I] = <<x>>)
  <2>1. CASE m.smallbins[I] = <<x>>
    <3>1. Of(F, s) = {x}
      <4>1. ToSet(<<x>>) = {x}
        BY ListsOne DEF Lists
      <4>. QED BY <4>1, <1>3, <2>1 DEF Lists
    <3>. QED BY <2>1, <3>1, ListsEmpty
  <2>2. CASE m.smallbins[I] # <<x>>
    <3>1. Lists(l, Of(F, s) \ {x})
      BY <2>2, <1>2, <1>3, ListsUnlinked
    <3>2. l # <<>>
      <4>1. SUFFICES ASSUME Of(F, s) \ {x} = {} PROVE FALSE
        <5>. HIDE DEF l
        <5>. QED BY <3>1, ListsIndex
      <4>2. Of(F, s) = {x}
        BY <4>1, <1>2
      <4>. QED BY <4>2, <1>3, <2>2, ListsSingle
    <3>. QED BY <2>2, <3>1, <3>2
  <2>. QED BY <2>1, <2>2
<1>5. n = IF m.smallbins[I] = <<x>>
            THEN [m EXCEPT !.smallmap = m.smallmap \ {I}, !.smallbins = [m.smallbins EXCEPT ![I] = l]]
            ELSE [m EXCEPT !.smallbins = [m.smallbins EXCEPT ![I] = l]]
  BY DEF unlink_small_chunk, I, Fields
<1>. HIDE DEF l, n
<1>6. /\ SameBut(m, n, BinFields)
      /\ n.smallbins = [m.smallbins EXCEPT ![I] = l]
      /\ n.smallmap = (IF l = <<>> THEN m.smallmap \ {I} ELSE m.smallmap)
      /\ n.treemap = m.treemap /\ n.treebins = m.treebins
  BY <1>4, <1>5 DEF SameBut, Fields, BinFields
<1>7. Bins(n, Without(F, x))
  BY <1>4, <1>6, BinsLessSmall DEF I
<1>. QED BY <1>6, <1>7 DEF n

(* The front chunk of a small bin.                                         *)
LEMMA BinsUnlinkFirst ==
  ASSUME NEW m, DOMAIN m = Fields, NEW F, Bins(m, F), NEW i \in m.smallmap
  PROVE  LET p == Head(m.smallbins[i])
             n == unlink_first_small_chunk(m, p, i)
         IN /\ i \in SmallBins /\ p \in DOMAIN F /\ F[p] = i * 8
            /\ Bins(n, Without(F, p)) /\ SameBut(m, n, BinFields)
<1>. DEFINE p == Head(m.smallbins[i])
            b == m.smallbins[i]
            l == IF Len(b) = 1 THEN <<>> ELSE Tail(b)
            n == unlink_first_small_chunk(m, p, i)
<1>1. i \in SmallBins /\ b # <<>> /\ Lists(b, Of(F, i * 8))
  BY DEF Bins
<1>2. p \in Of(F, i * 8) /\ Lists(Tail(b), Of(F, i * 8) \ {p})
  BY <1>1, ListsTail
<1>3. is_small(i * 8) /\ small_index(i * 8) = i
  BY <1>1, SmallBinSize
<1>4. p \in DOMAIN F /\ F[p] = i * 8
  BY <1>2 DEF Of
<1>5. Lists(l, Of(F, i * 8) \ {p}) /\ (l = <<>> <=> Len(b) = 1)
  <2>1. b \in Seq(Of(F, i * 8)) /\ Len(b) \in Nat /\ Len(Tail(b)) = Len(b) - 1
    BY <1>1, ListsIndex, HeadTailProperties
  <2>2. Tail(b) = <<>> <=> Len(b) = 1
    <3>1. Tail(b) # <<>> <=> Len(Tail(b)) # 0
      BY <1>2, ListsIndex
    <3>. QED BY <2>1, <3>1
  <2>. QED BY <2>2, <1>2
<1>6. n = IF Len(b) = 1
            THEN [m EXCEPT !.smallmap = m.smallmap \ {i}, !.smallbins = [m.smallbins EXCEPT ![i] = l]]
            ELSE [m EXCEPT !.smallbins = [m.smallbins EXCEPT ![i] = l]]
  BY DEF unlink_first_small_chunk, Fields
<1>. HIDE DEF l, n, p
<1>7. /\ SameBut(m, n, BinFields)
      /\ n.smallbins = [m.smallbins EXCEPT ![i] = l]
      /\ n.smallmap = (IF l = <<>> THEN m.smallmap \ {i} ELSE m.smallmap)
      /\ n.treemap = m.treemap /\ n.treebins = m.treebins
  BY <1>5, <1>6 DEF SameBut, Fields, BinFields
<1>8. Bins(n, Without(F, p))
  BY <1>3, <1>4, <1>5, <1>7, BinsLessSmall
<1>. QED BY <1>1, <1>4, <1>7, <1>8 DEF n, p

(* unlink_large_chunk takes the chunk out of the index.                    *)
LEMMA BinsUnlinkLarge ==
  ASSUME NEW m, DOMAIN m = Fields, NEW F, Bins(m, F), NEW x \in DOMAIN F, ~is_small(F[x]),
         chunksize(m, x) = F[x]
  PROVE  /\ Bins(unlink_large_chunk(m, x), Without(F, x))
         /\ SameBut(m, unlink_large_chunk(m, x), BinFields)
<1>. DEFINE s == F[x]
            I == compute_tree_index(s)
            t == m.treebins[I]
            u == TreeUnlink(t, x)
            n == unlink_large_chunk(m, x)
            G == Without(F, x)
<1>1. I \in TreeBins /\ InBin(s, I) /\ Sized(s)
  BY LargeSize DEF Bins
<1>. HIDE DEF I
<1>2. n = [m EXCEPT !.treebins = [m.treebins EXCEPT ![I] = u],
                    !.treemap = IF u = NoTrie THEN m.treemap \ {I} ELSE m.treemap]
  BY DEF unlink_large_chunk, I, Fields
<1>3. /\ DOMAIN G = DOMAIN F \ {x} /\ \A y \in DOMAIN G : G[y] = F[y]
      /\ \A z : z # s => Of(G, z) = Of(F, z)
  BY WithoutFacts
<1>4. Trie(t, I, F)
  BY <1>1 DEF Bins
<1>5. Trie(u, I, G)
  BY <1>1, <1>4, TrieUnlink DEF TreeBins
<1>6. t # NoTrie
  <2>1. DOMAIN NoTrie = {}
    BY DEF NoTrie
  <2>2. DOMAIN t # {}
    BY <1>1, <1>4 DEF Trie
  <2>. QED BY <2>1, <2>2
<1>. HIDE DEF u, n, G
<1>7. SameBut(m, n, BinFields)
  BY <1>2 DEF SameBut, Fields, BinFields
<1>8. /\ n.treemap = (IF u = NoTrie THEN m.treemap \ {I} ELSE m.treemap)
      /\ n.smallmap = m.smallmap /\ n.smallbins = m.smallbins
      /\ DOMAIN n.treebins = TreeBins /\ n.treebins[I] = u
      /\ \A i \in TreeBins : i # I => n.treebins[i] = m.treebins[i]
  BY <1>1, <1>2 DEF Fields, Bins
<1>10. \A i \in SmallBins : Lists(n.smallbins[i], Of(G, i * 8))
  <2>. TAKE i \in SmallBins
  <2>1. i * 8 # s
    BY SmallBinSize
  <2>. QED BY <2>1, <1>3, <1>8 DEF Bins
<1>11. n.treemap = {i \in TreeBins : n.treebins[i] # NoTrie}
  BY <1>1, <1>6, <1>8 DEF Bins
<1>12. \A i \in TreeBins : Trie(n.treebins[i], i, G)
  <2>. TAKE i \in TreeBins
  <2>. DEFINE o == m.treebins[i]
  <2>1. CASE i # I
    <3>1. Trie(o, i, F) /\ n.treebins[i] = o
      BY <2>1, <1>8 DEF Bins
    <3>2. ~InBin(s, i)
      BY <2>1, <1>1 DEF InBin
    <3>3. \A q \in DOMAIN o : Node(o, i, G, q)
      BY <3>1, <3>2, <1>3 DEF Trie, Node
    <3>4. \A y \in DOMAIN G : InBin(G[y], i) => \E q \in DOMAIN o : o[q].size = G[y]
      BY <3>1, <1>3 DEF Trie
    <3>. QED BY <3>1, <3>3, <3>4 DEF Trie
  <2>. QED BY <2>1, <1>5, <1>8
<1>13. n.smallmap = {i \in SmallBins : n.smallbins[i] # <<>>}
  BY <1>8 DEF Bins
<1>14. \A y \in DOMAIN G : Sized(G[y])
  BY <1>3 DEF Bins
<1>15. Bins(n, G)
  BY <1>8, <1>10, <1>11, <1>12, <1>13, <1>14 DEF Bins
<1>. QED BY <1>7, <1>15 DEF n, G

(* unlink_chunk takes the chunk out of the index.                          *)
LEMMA BinsUnlink ==
  ASSUME NEW m, DOMAIN m = Fields, NEW F, Bins(m, F), NEW x \in DOMAIN F, chunksize(m, x) = F[x]
  PROVE  /\ Bins(unlink_chunk(m, x, F[x]), Without(F, x))
         /\ SameBut(m, unlink_chunk(m, x, F[x]), BinFields)
<1>1. CASE is_small(F[x])
  BY <1>1, BinsUnlinkSmall DEF unlink_chunk
<1>2. CASE ~is_small(F[x])
  BY <1>2, BinsUnlinkLarge DEF unlink_chunk
<1>. QED BY <1>1, <1>2

(* Bins that are the same hold the same.                                   *)
LEMMA BinsSame ==
  ASSUME NEW m, NEW F, Bins(m, F), NEW n, NEW X, SameBut(m, n, X), X \cap BinFields = {}
  PROVE  Bins(n, F)
<1>1. /\ n.smallmap = m.smallmap /\ n.smallbins = m.smallbins
      /\ n.treemap = m.treemap /\ n.treebins = m.treebins
  BY DEF SameBut, Fields, BinFields
<1>. QED BY <1>1 DEF Bins

-----------------------------------------------------------------------------
(* Searches of a trie: where the chunk closest to a request stands.        *)

(* What a search of the tries has found so far.                            *)
Fitting(found, F, nb) ==
  \/ found.v = 0 /\ found.rsize = WordRange - nb
  \/ /\ found.v \in DOMAIN F /\ ~is_small(F[found.v]) /\ Sized(F[found.v])
     /\ found.rsize \in Nat /\ F[found.v] = nb + found.rsize

(* Ways of sizes: the first turn on which two ways differ tells the sizes  *)
(* apart.                                                                  *)
LEMMA TurnsAppend ==
  ASSUME NEW s \in Nat, NEW b \in 0 .. 31, NEW d \in Nat, d > 0
  PROVE  /\ Turns(s, b, d) = Append(Turns(s, b, d - 1), Bit(s, b + 1 - d))
         /\ Bit(s, b + 1 - d) \in {0, 1}
<1>. DEFINE t == Turns(s, b, d)
            u == Turns(s, b, d - 1)
            e == Bit(s, b + 1 - d)
<1>1. t \in Seq({0, 1}) /\ Len(t) = d /\ t[d] = e /\ e \in {0, 1}
  <2>1. d \in 1 .. d
    OBVIOUS
  <2>. QED BY <2>1, TurnsSeq
<1>2. u \in Seq({0, 1}) /\ Len(u) = d - 1
  <2>1. d - 1 \in Nat
    OBVIOUS
  <2>. QED BY <2>1, TurnsSeq
<1>3. PICK c \in {0, 1} : t = Append(u, c)
  BY TurnsStep
<1>. HIDE DEF t, u, e
<1>4. Append(u, c)[Len(u) + 1] = c
  BY <1>2, AppendProperties
<1>5. c = e
  BY <1>1, <1>2, <1>3, <1>4
<1>. QED BY <1>1, <1>3, <1>5 DEF t, u, e

(* Two sizes of a bin part at a bit: the one that turns left is smaller.   *)
LEMMA TurnLess ==
  ASSUME NEW s \in Nat, NEW z \in Nat, NEW b \in 0 .. 31, NEW k \in 1 .. b + 1,
         s \div 2^(b + 1) = z \div 2^(b + 1), Turns(s, b, k - 1) = Turns(z, b, k - 1),
         Bit(s, b + 1 - k) = 0, Bit(z, b + 1 - k) = 1
  PROVE  s < z
<1>. DEFINE e == b + 1 - k
            h == s \div 2^(e + 1)
            a == 2^e
<1>1. e \in 0 .. 32 /\ k - 1 \in 0 .. b + 1 /\ b + 1 - (k - 1) = e + 1 /\ e \in 0 .. 33
  OBVIOUS
<1>2. z \div 2^(e + 1) = h
  <2>1. s \div 2^(b + 1 - (k - 1)) = z \div 2^(b + 1 - (k - 1))
    BY <1>1, SameTurns
  <2>. QED BY <1>1, <2>1
<1>3. Bit(s, e) = 0 /\ Bit(z, e) = 1
  OBVIOUS
<1>. HIDE DEF e
<1>4. a \in Nat /\ a > 0
  BY <1>1, PowerNat
<1>5. h \in Nat /\ s \div a = 2 * h
  <2>1. s \div 2^e = 2 * (s \div 2^(e + 1)) + Bit(s, e) /\ s \div 2^(e + 1) \in Nat
    BY <1>1, BitStep
  <2>. QED BY <1>3, <2>1
<1>6. z \div a = 2 * h + 1
  <2>1. z \div 2^e = 2 * (z \div 2^(e + 1)) + Bit(z, e)
    BY <1>1, BitStep
  <2>. QED BY <1>2, <1>3, <2>1
<1>. HIDE DEF h, a
<1>7. s % a \in 0 .. a - 1 /\ s = a * (2 * h) + (s % a)
  BY <1>4, <1>5, DivMod
<1>8. z % a \in 0 .. a - 1 /\ z = a * (2 * h + 1) + (z % a)
  <2>. DEFINE y == z \div a
  <2>1. y = 2 * h + 1
    BY <1>6
  <2>2. z % a \in 0 .. a - 1 /\ z = a * y + (z % a)
    BY <1>4, DivMod
  <2>. HIDE DEF y
  <2>. QED BY <2>1, <2>2
<1>9. a * (2 * h + 1) = a * (2 * h) + a /\ a * (2 * h) \in Int
  BY <1>4, <1>5
<1>. QED BY <1>4, <1>7, <1>8, <1>9

(* Of two sizes that part, the smaller turns left.                         *)
LEMMA Parting ==
  ASSUME NEW s \in Nat, NEW z \in Nat, NEW b \in 0 .. 31, NEW n \in 0 .. b + 1,
         s \div 2^(b + 1) = z \div 2^(b + 1), Turns(s, b, n) # Turns(z, b, n), s <= z
  PROVE  \E k \in 1 .. n : /\ Turns(s, b, k - 1) = Turns(z, b, k - 1)
                           /\ Bit(s, b + 1 - k) = 0 /\ Bit(z, b + 1 - k) = 1
<1>. DEFINE Bad == {k \in 0 .. n : Turns(s, b, k) # Turns(z, b, k)}
<1>1. n \in Bad /\ Bad \subseteq Nat
  OBVIOUS
<1>2. PICK k \in Bad : \A j \in Bad : k <= j
  <2>1. Bad # {}
    BY <1>1
  <2>. HIDE DEF Bad
  <2>. QED BY <1>1, <2>1, SmallestElement
<1>3. k # 0
  <2>1. Turns(s, b, 0) = Turns(z, b, 0)
    BY DEF Turns
  <2>. QED BY <1>2, <2>1
<1>4. k \in 1 .. n /\ k \in Nat /\ k > 0
  BY <1>2, <1>3
<1>5. Turns(s, b, k - 1) = Turns(z, b, k - 1)
  <2>1. k - 1 \in 0 .. n /\ ~(k <= k - 1)
    BY <1>4
  <2>2. k - 1 \notin Bad
    <3>. HIDE DEF Bad
    <3>. QED BY <1>2, <2>1
  <2>. QED BY <2>1, <2>2
<1>6. /\ Turns(s, b, k) = Append(Turns(s, b, k - 1), Bit(s, b + 1 - k)) /\ Bit(s, b + 1 - k) \in {0, 1}
      /\ Turns(z, b, k) = Append(Turns(z, b, k - 1), Bit(z, b + 1 - k)) /\ Bit(z, b + 1 - k) \in {0, 1}
  BY <1>4, TurnsAppend
<1>7. Bit(s, b + 1 - k) # Bit(z, b + 1 - k)
  BY <1>2, <1>5, <1>6
<1>8. ~(Bit(z, b + 1 - k) = 0 /\ Bit(s, b + 1 - k) = 1)
  <2>1. SUFFICES ASSUME Bit(z, b + 1 - k) = 0, Bit(s, b + 1 - k) = 1 PROVE FALSE
    OBVIOUS
  <2>2. z < s
    <3>1. k \in 1 .. b + 1
      BY <1>4
    <3>. QED BY <1>5, <2>1, <3>1, TurnLess
  <2>. QED BY <2>2
<1>. QED BY <1>4, <1>5, <1>6, <1>7, <1>8

(* What a node of a trie is, with the nodes above it.                      *)
Way(t, b, p) ==
  /\ t[p].size \in Nat /\ Len(p) \in 0 .. b + 1 /\ p \in Seq({0, 1})
  /\ p = Turns(t[p].size, b, Len(p))
  /\ \A k \in 0 .. Len(p) : Turns(t[p].size, b, k) \in DOMAIN t /\ SubSeq(p, 1, k) = Turns(t[p].size, b, k)

(* Every node of a trie stands on the way of its size.                     *)
LEMMA TrieWay ==
  ASSUME NEW i \in TreeBins, NEW t, NEW F, Trie(t, i, F), NEW b, b = bit_for_tree_index(i)
  PROVE  /\ b \in 0 .. 31 /\ \A p \in DOMAIN t : Way(t, b, p)
         /\ \A p, q \in DOMAIN t : t[p].size \div 2^(b + 1) = t[q].size \div 2^(b + 1)
         /\ \A p \in DOMAIN t : \A s : InBin(s, i) => t[p].size \div 2^(b + 1) = s \div 2^(b + 1)
<1>0. i \in 0 .. NTREEBINS - 1
  BY DEF TreeBins
<1>1. b \in 0 .. 31
  BY <1>0, BinHigh
<1>2. ASSUME NEW p \in DOMAIN t PROVE Way(t, b, p)
  <2>1. t[p].size \in Nat /\ Len(p) \in 0 .. b + 1 /\ p = Turns(t[p].size, b, Len(p))
    BY InBinNat DEF Trie, Node
  <2>2. \A k \in 0 .. Len(p) : Turns(t[p].size, b, k) \in DOMAIN t
    BY <1>0, TriePrefix
  <2>. DEFINE s == t[p].size
              n == Len(p)
  <2>3. s \in Nat /\ n \in Nat /\ p = Turns(s, b, n)
    BY <2>1, <1>1
  <2>. HIDE DEF s, n
  <2>4. p \in Seq({0, 1})
    BY <1>1, <2>3, TurnsSeq
  <2>5. \A k \in 0 .. n : SubSeq(p, 1, k) = Turns(s, b, k)
    BY <1>1, <2>3, TurnsPrefix
  <2>. QED BY <2>1, <2>2, <2>4, <2>5 DEF Way, s, n
<1>3. \A p \in DOMAIN t : InBin(t[p].size, i)
  BY DEF Trie, Node
<1>4. \A s, z : InBin(s, i) /\ InBin(z, i) => s \div 2^(b + 1) = z \div 2^(b + 1)
  BY <1>0, BinHigh DEF InBin
<1>. QED BY <1>1, <1>2, <1>3, <1>4

(* Going left wherever that is possible leads past the least size below a  *)
(* node.                                                                   *)
LEMMA LeftmostLeast ==
  ASSUME NEW i \in TreeBins, NEW t, NEW F, Trie(t, i, F), NEW b, b = bit_for_tree_index(i),
         NEW q \in DOMAIN t, NEW p \in DOMAIN t, Len(q) <= Len(p), Turns(t[p].size, b, Len(q)) = q
  PROVE  \E o \in leftmost_children(t, q) : t[o].size <= t[p].size
<1>1. /\ b \in 0 .. 31 /\ \A r \in DOMAIN t : Way(t, b, r)
      /\ \A r, o \in DOMAIN t : t[r].size \div 2^(b + 1) = t[o].size \div 2^(b + 1)
  BY TrieWay
<1>. DEFINE Sub == {r \in DOMAIN t : Len(q) <= Len(r) /\ Turns(t[r].size, b, Len(q)) = q}
            Sizes == {t[r].size : r \in Sub}
<1>2. p \in Sub
  OBVIOUS
<1>3. Sizes \subseteq Nat /\ Sizes # {}
  BY <1>1, <1>2 DEF Way
<1>4. PICK n \in Sizes : \A x \in Sizes : n <= x
  <2>. HIDE DEF Sizes
  <2>. QED BY <1>3, SmallestElement
<1>5. PICK o \in Sub : t[o].size = n
  BY <1>4
<1>. DEFINE z == t[o].size
<1>6. /\ o \in DOMAIN t /\ Len(q) <= Len(o) /\ Turns(z, b, Len(q)) = q /\ Way(t, b, o) /\ z \in Nat
      /\ Len(o) \in Nat /\ Len(o) <= b + 1 /\ Len(q) \in Nat
  <2>1. o \in DOMAIN t /\ Len(q) <= Len(o) /\ Turns(z, b, Len(q)) = q
    BY <1>5
  <2>2. Way(t, b, o) /\ Way(t, b, q)
    BY <1>1, <2>1
  <2>3. z \in Nat /\ Len(o) \in 0 .. b + 1 /\ Len(q) \in 0 .. b + 1
    BY <2>2 DEF Way
  <2>4. Len(o) \in Nat /\ Len(o) <= b + 1 /\ Len(q) \in Nat
    BY <1>1, <2>3
  <2>. HIDE DEF z
  <2>. QED BY <2>1, <2>2, <2>3, <2>4 DEF z
<1>7. \A r \in Sub : z <= t[r].size
  BY <1>4, <1>5
<1>. HIDE DEF z, Sub, Sizes
<1>8. IsPrefix(q, o)
  <2>1. SubSeq(o, 1, Len(q)) = q
    BY <1>6 DEF Way, z
  <2>2. SubSeq(q, 1, Len(q)) = q
    BY <1>1, SubSeqFull DEF Way
  <2>. QED BY <1>6, <2>1, <2>2 DEF IsPrefix
<1>9. ASSUME NEW k \in Len(q) + 1 .. Len(o), o[k] # 0, Append(SubSeq(o, 1, k - 1), 0) \in DOMAIN t
      PROVE  FALSE
  <2>. DEFINE r == Append(SubSeq(o, 1, k - 1), 0)
              s == t[r].size
              u == SubSeq(o, 1, k - 1)
  <2>1. k \in 1 .. b + 1 /\ k \in Nat /\ k > 0 /\ k - 1 \in 0 .. Len(o) /\ k - 1 \in Nat
    <3>. DEFINE lq == Len(q)
                lo == Len(o)
    <3>1. lq \in Nat /\ lo \in Nat /\ lo <= b + 1 /\ k \in lq + 1 .. lo
      BY <1>6
    <3>. HIDE DEF lq, lo
    <3>2. k \in 1 .. b + 1 /\ k \in Nat /\ k > 0 /\ k - 1 \in 0 .. lo /\ k - 1 \in Nat
      BY <1>1, <3>1
    <3>. QED BY <3>2 DEF lo
  <2>2. u = Turns(z, b, k - 1)
    BY <1>6, <2>1 DEF Way, z
  <2>3. u \in Seq({0, 1}) /\ Len(u) = k - 1
    <3>. DEFINE d == k - 1
    <3>1. d \in Nat
      BY <2>1
    <3>. HIDE DEF d
    <3>2. Turns(z, b, d) \in Seq({0, 1}) /\ Len(Turns(z, b, d)) = d
      BY <1>1, <1>6, <3>1, TurnsSeq
    <3>. QED BY <2>2, <3>2 DEF d
  <2>. HIDE DEF u
  <2>4. r = Append(u, 0)
    BY DEF u
  <2>5. r \in DOMAIN t /\ Way(t, b, r)
    BY <1>1, <1>9
  <2>. HIDE DEF r
  <2>6. Len(r) = k
    BY <2>1, <2>3, <2>4, AppendProperties
  <2>7. s \in Nat /\ r = Turns(s, b, k)
    BY <2>5, <2>6 DEF Way
  <2>8. /\ r = Append(Turns(s, b, k - 1), Bit(s, b + 1 - k)) /\ Bit(s, b + 1 - k) \in {0, 1}
        /\ Turns(s, b, k - 1) \in Seq({0, 1})
    <3>. HIDE DEF s
    <3>. QED BY <1>1, <2>1, <2>7, TurnsAppend, TurnsSeq
  <2>9. Turns(s, b, k - 1) = u /\ Bit(s, b + 1 - k) = 0
    <3>. DEFINE v == Turns(s, b, k - 1)
                c == Bit(s, b + 1 - k)
    <3>. HIDE DEF v, c
    <3>1. Append(v, c) = Append(u, 0) /\ v \in Seq({0, 1}) /\ c \in {0, 1}
      BY <2>4, <2>8 DEF v, c
    <3>2. v = u /\ c = 0
      BY <2>3, <3>1, AppendInjective
    <3>. QED BY <3>2 DEF v, c
  <2>10. Bit(z, b + 1 - k) = 1
    <3>1. Turns(z, b, Len(o))[k] = Bit(z, b + 1 - k) /\ Bit(z, b + 1 - k) \in {0, 1}
      <4>1. k \in 1 .. Len(o)
        BY <1>6
      <4>. QED BY <1>1, <1>6, <4>1, TurnsSeq
    <3>2. o = Turns(z, b, Len(o))
      BY <1>6 DEF Way, z
    <3>. QED BY <1>9, <3>1, <3>2
  <2>11. s < z
    <3>1. s \div 2^(b + 1) = z \div 2^(b + 1)
      BY <1>1, <1>6, <2>5 DEF z
    <3>. HIDE DEF s
    <3>. QED BY <1>1, <1>6, <2>1, <2>2, <2>7, <2>9, <2>10, <3>1, TurnLess
  <2>12. r \in Sub
    <3>1. Len(q) <= k - 1 /\ Len(q) \in 0 .. k - 1
      BY <1>6, <1>9
    <3>2. Turns(s, b, Len(q)) = SubSeq(Turns(s, b, k - 1), 1, Len(q))
      <4>. HIDE DEF s
      <4>. QED BY <1>1, <2>1, <2>7, <3>1, TurnsPrefix
    <3>3. Turns(z, b, Len(q)) = SubSeq(Turns(z, b, k - 1), 1, Len(q))
      BY <1>1, <1>6, <2>1, <3>1, TurnsPrefix
    <3>4. Turns(s, b, Len(q)) = q
      BY <1>6, <2>2, <2>9, <3>2, <3>3
    <3>. QED BY <1>6, <2>5, <2>6, <2>1, <3>1, <3>4 DEF Sub
  <2>13. z <= s
    BY <1>7, <2>12
  <2>. HIDE DEF s
  <2>. QED BY <1>6, <2>7, <2>11, <2>13
<1>10. o \in leftmost_children(t, q)
  BY <1>6, <1>8, <1>9 DEF leftmost_children, Descent
<1>11. t[o].size <= t[p].size
  BY <1>2, <1>7 DEF z
<1>. QED BY <1>10, <1>11

-----------------------------------------------------------------------------
(* What a search of the tries has found is at least as close as a chunk of *)
(* size s.                                                                 *)
Closest(found, nb, s) == s >= nb => nb + found.rsize <= s

(* What a search leaves over is a size.                                    *)
LEMMA FittingRest ==
  ASSUME NEW F, NEW nb \in 1 .. WordRange - 1, NEW found, Fitting(found, F, nb)
  PROVE  found.rsize \in Nat /\ found.rsize <= WordRange - nb
<1>1. WordRange \in Nat
  BY WordFacts
<1>2. CASE found.v = 0 /\ found.rsize = WordRange - nb
  BY <1>1, <1>2
<1>3. CASE found.rsize \in Nat /\ F[found.v] = nb + found.rsize /\ Sized(F[found.v])
  <2>1. nb + found.rsize < WordRange
    BY <1>3 DEF Sized
  <2>. QED BY <1>1, <1>3, <2>1
<1>. QED BY <1>2, <1>3 DEF Fitting

(* A search step over a path finds something as close as every node on it. *)
LEMMA BestCloser ==
  ASSUME NEW i \in TreeBins, NEW t, NEW F, Trie(t, i, F),
         NEW nb \in 1 .. WordRange - 1, NEW found, Fitting(found, F, nb), NEW path \in SUBSET DOMAIN t,
         NEW r, r = Best(found, t, path, nb)
  PROVE  /\ r.rsize \in Nat /\ r.rsize <= found.rsize
         /\ \A q \in path : Closest(r, nb, t[q].size)
         /\ r = found \/ \E q \in path : t[q].size = nb + r.rsize
<1>. DEFINE Rest(q) == Word(t[q].size - nb)
            R == {found.rsize} \cup {Rest(q) : q \in path}
            rsize == Min(R)
            c == CHOOSE q \in path : Rest(q) = rsize
            v == Head(t[c].ring)
<1>1. WordRange \in Nat /\ found.rsize \in Nat /\ found.rsize <= WordRange - nb
  BY WordFacts, FittingRest
<1>2. ASSUME NEW q \in path
      PROVE  /\ t[q].size \in Nat /\ t[q].size > 0 /\ t[q].size < WordRange /\ Rest(q) \in Nat
             /\ t[q].size >= nb => Rest(q) = t[q].size - nb
             /\ t[q].size < nb => Rest(q) = (t[q].size - nb) + WordRange
  <2>1. InBin(t[q].size, i)
    BY DEF Trie, Node
  <2>2. MIN_LARGE_SIZE > 0 /\ MIN_LARGE_SIZE \in Nat
    BY BinConstants
  <2>3. t[q].size \in Nat /\ t[q].size >= MIN_LARGE_SIZE /\ t[q].size < WordRange
    BY <2>1, InBinNat
  <2>. DEFINE d == t[q].size - nb
  <2>4. d \in Int /\ -WordRange <= d /\ d < WordRange /\ (d >= 0 <=> t[q].size >= nb)
    BY <1>1, <2>2, <2>3
  <2>5. Word(d) \in Nat /\ (0 <= d => Word(d) = d) /\ (d < 0 => Word(d) = d + WordRange)
    <3>. HIDE DEF d
    <3>. QED BY <1>1, <2>4, WordOf
  <2>. QED BY <2>2, <2>3, <2>4, <2>5
<1>3. rsize \in R /\ \A x \in R : rsize <= x
  <2>1. R \subseteq Nat /\ R # {}
    BY <1>1, <1>2
  <2>. HIDE DEF R
  <2>. QED BY <2>1, MinOfSet
<1>4. r = IF rsize = found.rsize THEN found ELSE [v |-> v, rsize |-> rsize]
  BY DEF Best
<1>5. r.rsize = rsize
  <2>. HIDE DEF rsize, v
  <2>. QED BY <1>4
<1>6. rsize \in Nat /\ rsize <= found.rsize
  BY <1>1, <1>2, <1>3
<1>. HIDE DEF rsize
<1>7. ASSUME NEW q \in path PROVE Closest(r, nb, t[q].size)
  <2>1. rsize <= Rest(q)
    BY <1>3
  <2>. HIDE DEF Rest
  <2>. QED BY <1>2, <1>5, <1>6, <2>1 DEF Closest
<1>8. ASSUME r # found PROVE \E q \in path : t[q].size = nb + r.rsize
  <2>1. rsize # found.rsize
    BY <1>4, <1>8
  <2>2. PICK q \in path : Rest(q) = rsize
    BY <1>3, <2>1
  <2>3. ~(t[q].size < nb)
    <3>. HIDE DEF Rest
    <3>. QED BY <1>1, <1>2, <1>6, <2>1, <2>2
  <2>4. t[q].size = nb + r.rsize
    <3>. HIDE DEF Rest
    <3>. QED BY <1>2, <1>5, <2>2, <2>3
  <2>. QED BY <2>4
<1>. QED BY <1>5, <1>6, <1>7, <1>8

(* The sizes of a bin are smaller than those of any later one.             *)
LEMMA BinsGrow ==
  ASSUME NEW i \in TreeBins, NEW j \in TreeBins, i < j, NEW s, InBin(s, i), NEW z, InBin(z, j)
  PROVE  s < z
<1>1. i \in 0 .. NTREEBINS - 1 /\ j \in 0 .. NTREEBINS - 1 /\ NTREEBINS \in Nat
  BY BinConstants DEF TreeBins
<1>2. s \in Nat /\ z \in Nat /\ s \in LargeSizes /\ z \in LargeSizes
  BY InBinNat
<1>3. compute_tree_index(s) = i /\ compute_tree_index(z) = j
  BY DEF InBin
<1>4. i < NTREEBINS - 1 /\ i + 1 \in 0 .. NTREEBINS /\ j \in 0 .. NTREEBINS /\ i + 1 <= j
  BY <1>1
<1>5. s < minsize_for_tree_index(i + 1)
  BY <1>1, <1>2, <1>3, <1>4, TreeIndexExact
<1>6. minsize_for_tree_index(j) <= z
  BY <1>1, <1>2, <1>3, TreeIndexExact
<1>7. minsize_for_tree_index(i + 1) <= minsize_for_tree_index(j)
  BY <1>4, MinSizesOrdered
<1>8. minsize_for_tree_index(i + 1) \in Nat /\ minsize_for_tree_index(j) \in Nat
  BY <1>1, MinSizesGrow
<1>. QED BY <1>2, <1>5, <1>6, <1>7, <1>8

-----------------------------------------------------------------------------
(* The subtrees passed by on the way of a size.                            *)

(* A node lies below place c.                                              *)
Below(t, b, c, p) == Len(c) <= Len(p) /\ Turns(t[p].size, b, Len(c)) = c

(* A right child passed on the way stands where the request turns left.    *)
LEMMA PassedPlace ==
  ASSUME NEW t, NEW b \in 0 .. 31, NEW nb \in Nat, NEW c \in Passed(t, nb, b),
         \A p \in DOMAIN t : Way(t, b, p)
  PROVE  /\ c \in DOMAIN t /\ Len(c) \in 1 .. b + 1
         /\ c = Append(Turns(nb, b, Len(c) - 1), 1) /\ Bit(nb, b + 1 - Len(c)) = 0
<1>1. PICK q \in Route(t, nb, b) : c = Append(q, 1) /\ Bit(nb, b - Len(q)) = 0
  BY DEF Passed
<1>2. c \in DOMAIN t /\ q \in DOMAIN t /\ q = Turns(nb, b, Len(q))
  BY <1>1 DEF Passed, Route
<1>3. q \in Seq({0, 1}) /\ Len(c) \in 0 .. b + 1 /\ Len(q) \in 0 .. b + 1
  BY <1>2 DEF Way
<1>4. Len(c) = Len(q) + 1
  BY <1>1, <1>3, AppendProperties
<1>. DEFINE n == Len(q)
            k == Len(c)
<1>5. n \in Nat /\ k \in 0 .. b + 1 /\ k = n + 1
  BY <1>3, <1>4
<1>6. q = Turns(nb, b, n) /\ Bit(nb, b - n) = 0
  BY <1>1, <1>2
<1>. HIDE DEF n, k
<1>7. k \in 1 .. b + 1 /\ k - 1 = n /\ b + 1 - k = b - n
  BY <1>5
<1>. QED BY <1>1, <1>2, <1>6, <1>7 DEF k

(* The sizes below it part from the request there.                         *)
LEMMA BelowPlace ==
  ASSUME NEW b \in 0 .. 31, NEW k \in 1 .. b + 1, NEW s \in Nat, NEW nb \in Nat,
         Turns(s, b, k) = Append(Turns(nb, b, k - 1), 1)
  PROVE  Turns(s, b, k - 1) = Turns(nb, b, k - 1) /\ Bit(s, b + 1 - k) = 1
<1>. DEFINE v == Turns(s, b, k - 1)
            u == Turns(nb, b, k - 1)
            e == Bit(s, b + 1 - k)
<1>1. k \in Nat /\ k > 0 /\ k - 1 \in Nat
  OBVIOUS
<1>2. Turns(s, b, k) = Append(v, e) /\ e \in {0, 1}
  BY <1>1, TurnsAppend
<1>3. v \in Seq({0, 1}) /\ u \in Seq({0, 1})
  BY <1>1, TurnsSeq
<1>4. Append(v, e) = Append(u, 1)
  BY <1>2
<1>. HIDE DEF v, u, e
<1>5. v = u /\ e = 1
  BY <1>2, <1>3, <1>4, AppendInjective
<1>. QED BY <1>5 DEF v, u, e

(* ... and are larger than the request.                                    *)
LEMMA PassedLarger ==
  ASSUME NEW i \in TreeBins, NEW t, NEW F, Trie(t, i, F), NEW b, b = bit_for_tree_index(i),
         NEW nb, InBin(nb, i), NEW c \in Passed(t, nb, b), NEW o \in DOMAIN t, Below(t, b, c, o)
  PROVE  nb < t[o].size
<1>1. /\ b \in 0 .. 31 /\ \A p \in DOMAIN t : Way(t, b, p)
      /\ t[o].size \div 2^(b + 1) = nb \div 2^(b + 1) /\ nb \in Nat
  BY TrieWay, InBinNat
<1>. DEFINE k == Len(c)
            s == t[o].size
<1>2. k \in 1 .. b + 1 /\ c = Append(Turns(nb, b, k - 1), 1) /\ Bit(nb, b + 1 - k) = 0
  BY <1>1, PassedPlace
<1>3. s \in Nat /\ Turns(s, b, k) = c
  BY <1>1 DEF Way, Below
<1>. HIDE DEF k
<1>4. nb \div 2^(b + 1) = s \div 2^(b + 1)
  BY <1>1
<1>. HIDE DEF s
<1>5. Turns(s, b, k - 1) = Turns(nb, b, k - 1) /\ Bit(s, b + 1 - k) = 1
  BY <1>1, <1>2, <1>3, BelowPlace
<1>6. nb < s
  BY <1>1, <1>2, <1>3, <1>4, <1>5, TurnLess
<1>. QED BY <1>6 DEF s

(* A node that fits is on the request's way or below a right child passed. *)
LEMMA PassedOrRoute ==
  ASSUME NEW i \in TreeBins, NEW t, NEW F, Trie(t, i, F), NEW b, b = bit_for_tree_index(i),
         NEW nb, InBin(nb, i), NEW p \in DOMAIN t, t[p].size >= nb, p \notin Route(t, nb, b)
  PROVE  \E c \in Passed(t, nb, b) : Below(t, b, c, p)
<1>1. /\ b \in 0 .. 31 /\ \A q \in DOMAIN t : Way(t, b, q)
      /\ t[p].size \div 2^(b + 1) = nb \div 2^(b + 1) /\ nb \in Nat
  BY TrieWay, InBinNat
<1>. DEFINE n == Len(p)
            s == t[p].size
<1>2. s \in Nat /\ n \in 0 .. b + 1 /\ p = Turns(s, b, n) /\ \A k \in 0 .. n : Turns(s, b, k) \in DOMAIN t
  BY <1>1 DEF Way
<1>3. p # Turns(nb, b, n)
  BY DEF Route
<1>4. nb <= s /\ nb \div 2^(b + 1) = s \div 2^(b + 1)
  BY <1>1, <1>2
<1>. HIDE DEF n, s
<1>5. PICK k \in 1 .. n : /\ Turns(nb, b, k - 1) = Turns(s, b, k - 1)
                          /\ Bit(nb, b + 1 - k) = 0 /\ Bit(s, b + 1 - k) = 1
  <2>1. Turns(nb, b, n) # Turns(s, b, n)
    BY <1>2, <1>3
  <2>. QED BY <1>1, <1>2, <1>4, <2>1, Parting
<1>6. k \in Nat /\ k > 0 /\ k - 1 \in Nat /\ k \in 0 .. n /\ k - 1 \in 0 .. n /\ n \in Nat
  BY <1>2, <1>5
<1>. DEFINE q == Turns(nb, b, k - 1)
            c == Turns(s, b, k)
<1>7. c = Append(q, 1)
  <2>1. Turns(s, b, k) = Append(Turns(s, b, k - 1), Bit(s, b + 1 - k))
    <3>1. b \in 0 .. 31 /\ s \in Nat /\ k \in Nat /\ k > 0
      BY <1>1, <1>2, <1>6
    <3>. QED BY ONLY <3>1, TurnsAppend
  <2>. QED BY <1>5, <2>1
<1>8. c \in DOMAIN t /\ q \in DOMAIN t
  BY <1>2, <1>5, <1>6
<1>9. Len(q) = k - 1 /\ Len(c) = k
  BY <1>1, <1>2, <1>6, TurnsSeq
<1>10. q \in Route(t, nb, b) /\ Bit(nb, b - Len(q)) = 0
  <2>1. b - Len(q) = b + 1 - k
    BY <1>1, <1>6, <1>9
  <2>2. q = Turns(nb, b, Len(q))
    BY <1>9
  <2>. HIDE DEF q
  <2>. QED BY <1>5, <1>8, <2>1, <2>2 DEF Route
<1>11. c \in Passed(t, nb, b)
  <2>. HIDE DEF q, c
  <2>. QED BY <1>7, <1>8, <1>10 DEF Passed
<1>12. Below(t, b, c, p)
  <2>1. Len(c) <= n /\ Turns(s, b, Len(c)) = c
    BY <1>6, <1>9
  <2>. HIDE DEF c
  <2>. QED BY <2>1 DEF Below, n, s
<1>. QED BY <1>11, <1>12

(* What stands below a deeper right child is smaller.                      *)
LEMMA DeeperSmaller ==
  ASSUME NEW i \in TreeBins, NEW t, NEW F, Trie(t, i, F), NEW b, b = bit_for_tree_index(i),
         NEW nb, InBin(nb, i), NEW c \in Passed(t, nb, b), NEW d \in Passed(t, nb, b), Len(c) < Len(d),
         NEW p \in DOMAIN t, Below(t, b, c, p), NEW o \in DOMAIN t, Below(t, b, d, o)
  PROVE  t[o].size < t[p].size
<1>1. /\ b \in 0 .. 31 /\ \A q \in DOMAIN t : Way(t, b, q)
      /\ t[o].size \div 2^(b + 1) = t[p].size \div 2^(b + 1) /\ nb \in Nat
  BY TrieWay, InBinNat
<1>. DEFINE k == Len(c)
            j == Len(d)
            s == t[o].size
            z == t[p].size
<1>2. /\ k \in 1 .. b + 1 /\ c = Append(Turns(nb, b, k - 1), 1) /\ Bit(nb, b + 1 - k) = 0
      /\ j \in 1 .. b + 1 /\ d = Append(Turns(nb, b, j - 1), 1) /\ k < j
  BY <1>1, PassedPlace
<1>3. s \in Nat /\ z \in Nat /\ Turns(z, b, k) = c /\ Turns(s, b, j) = d
  BY <1>1 DEF Way, Below
<1>4. s \div 2^(b + 1) = z \div 2^(b + 1)
  BY <1>1
<1>. HIDE DEF k, j, s, z
<1>5. Turns(z, b, k - 1) = Turns(nb, b, k - 1) /\ Bit(z, b + 1 - k) = 1
  BY <1>1, <1>2, <1>3, BelowPlace
<1>6. Turns(s, b, j - 1) = Turns(nb, b, j - 1)
  <2>1. b \in 0 .. 31 /\ j \in 1 .. b + 1 /\ s \in Nat /\ nb \in Nat
    BY <1>1, <1>2, <1>3
  <2>2. Turns(s, b, j) = Append(Turns(nb, b, j - 1), 1)
    BY <1>2, <1>3
  <2>. QED BY ONLY <2>1, <2>2, BelowPlace
<1>. DEFINE n == j - 1
<1>7. n \in Nat /\ k \in 0 .. n /\ k \in 1 .. n /\ k - 1 \in 0 .. n /\ k \in Nat /\ k > 0
  BY <1>2
<1>8. Turns(s, b, n) = Turns(nb, b, n)
  BY <1>6
<1>. HIDE DEF n
<1>9. Turns(s, b, k - 1) = Turns(nb, b, k - 1)
  <2>. DEFINE e == k - 1
  <2>1. e \in 0 .. n
    BY <1>7
  <2>. HIDE DEF e
  <2>2. SubSeq(Turns(s, b, n), 1, e) = Turns(s, b, e) /\ SubSeq(Turns(nb, b, n), 1, e) = Turns(nb, b, e)
    BY <1>1, <1>3, <1>7, <2>1, TurnsPrefix
  <2>3. Turns(s, b, e) = Turns(nb, b, e)
    BY <1>8, <2>2
  <2>. QED BY <2>3 DEF e
<1>10. Bit(s, b + 1 - k) = Bit(nb, b + 1 - k)
  <2>1. Turns(s, b, n)[k] = Bit(s, b + 1 - k) /\ Turns(nb, b, n)[k] = Bit(nb, b + 1 - k)
    BY <1>1, <1>3, <1>7, TurnsSeq
  <2>. QED BY <1>8, <2>1
<1>11. s < z
  <2>1. Turns(s, b, k - 1) = Turns(z, b, k - 1) /\ Bit(s, b + 1 - k) = 0
    BY <1>2, <1>5, <1>9, <1>10
  <2>. QED BY <1>1, <1>2, <1>3, <1>4, <1>5, <2>1, TurnLess
<1>. QED BY <1>11 DEF s, z

(* The last right child passed is the deepest.                             *)
LEMMA DeepestPassed ==
  ASSUME NEW t, NEW b \in 0 .. 31, NEW nb \in Nat, Passed(t, nb, b) # {},
         \A p \in DOMAIN t : Way(t, b, p)
  PROVE  LET d == Deepest(Passed(t, nb, b))
         IN d \in Passed(t, nb, b) /\ \A c \in Passed(t, nb, b) : Len(c) <= Len(d)
<1>. DEFINE P == Passed(t, nb, b)
            Lens == {Len(c) : c \in P}
<1>1. \A c \in P : Len(c) \in 1 .. b + 1
  BY PassedPlace
<1>. HIDE DEF P
<1>2. Lens \subseteq 0 .. b + 1 /\ Lens # {} /\ b + 1 \in Nat /\ Lens \subseteq Nat
  <2>1. P # {}
    BY DEF P
  <2>2. Lens \subseteq 1 .. b + 1
    BY <1>1
  <2>3. Lens # {}
    BY <2>1
  <2>. HIDE DEF Lens
  <2>. QED BY <2>2, <2>3
<1>3. PICK n \in Lens : \A x \in Lens : n >= x
  <2>. HIDE DEF Lens
  <2>. QED BY <1>2, LargestElement
<1>4. PICK c \in P : Len(c) = n
  BY <1>3
<1>5. \A o \in P : Len(o) <= Len(c)
  <2>1. \A x \in Lens : x <= n
    BY <1>2, <1>3
  <2>. QED BY <1>4, <2>1
<1>. DEFINE d == Deepest(P)
<1>6. d \in P /\ \A o \in P : Len(o) <= Len(d)
  BY <1>4, <1>5 DEF Deepest
<1>. QED BY <1>6 DEF P

(* The leftmost children of a node are below it.                           *)
LEMMA LeftmostBelow ==
  ASSUME NEW t, NEW b \in 0 .. 31, \A p \in DOMAIN t : Way(t, b, p),
         NEW q \in DOMAIN t, NEW o \in leftmost_children(t, q)
  PROVE  o \in DOMAIN t /\ Below(t, b, q, o)
<1>1. o \in DOMAIN t /\ IsPrefix(q, o)
  BY DEF leftmost_children, Descent
<1>2. Way(t, b, o) /\ Way(t, b, q)
  BY <1>1
<1>3. Len(q) <= Len(o) /\ SubSeq(q, 1, Len(q)) = SubSeq(o, 1, Len(q))
  BY <1>1 DEF IsPrefix
<1>4. SubSeq(q, 1, Len(q)) = q /\ Len(q) \in Nat
  BY <1>2, SubSeqFull DEF Way
<1>5. SubSeq(o, 1, Len(q)) = Turns(t[o].size, b, Len(q))
  <2>1. Len(q) \in 0 .. Len(o)
    BY <1>2, <1>3, <1>4 DEF Way
  <2>. QED BY <1>2, <2>1 DEF Way
<1>. QED BY <1>1, <1>3, <1>4, <1>5 DEF Below

(* Of the nodes off the way of nb, the search below the deepest subtree    *)
(* passed by meets one that is as close as any.                            *)
LEMMA OffRoute ==
  ASSUME NEW i \in TreeBins, NEW t, NEW F, Trie(t, i, F), NEW b, b = bit_for_tree_index(i),
         NEW nb, InBin(nb, i), NEW p \in DOMAIN t, t[p].size >= nb, p \notin Route(t, nb, b)
  PROVE  /\ Passed(t, nb, b) # {}
         /\ \E o \in leftmost_children(t, Deepest(Passed(t, nb, b))) :
              t[o].size >= nb /\ t[o].size <= t[p].size
<1>1. b \in 0 .. 31 /\ (\A q \in DOMAIN t : Way(t, b, q)) /\ nb \in Nat
  BY TrieWay, InBinNat
<1>2. PICK c \in Passed(t, nb, b) : Below(t, b, c, p)
  BY PassedOrRoute
<1>. DEFINE d == Deepest(Passed(t, nb, b))
<1>3. d \in Passed(t, nb, b) /\ Len(c) <= Len(d)
  BY <1>1, <1>2, DeepestPassed
<1>. HIDE DEF d
<1>4. d \in DOMAIN t /\ Len(d) \in 1 .. b + 1 /\ Len(c) \in 1 .. b + 1
  BY <1>1, <1>3, PassedPlace
<1>5. ASSUME NEW o \in leftmost_children(t, d) PROVE t[o].size >= nb /\ t[o].size \in Nat
  <2>1. o \in DOMAIN t /\ Below(t, b, d, o)
    BY <1>1, <1>4, LeftmostBelow
  <2>2. nb < t[o].size /\ t[o].size \in Nat
    BY <1>1, <1>3, <2>1, PassedLarger DEF Way
  <2>. QED BY <1>1, <2>2
<1>6. \E o \in leftmost_children(t, d) : t[o].size <= t[p].size
  <2>1. CASE Len(c) = Len(d)
    <3>1. c = d
      <4>. DEFINE k == Len(c)
      <4>1. c = Append(Turns(nb, b, k - 1), 1)
        BY <1>1, <1>2, PassedPlace
      <4>2. d = Append(Turns(nb, b, Len(d) - 1), 1)
        BY <1>1, <1>3, PassedPlace
      <4>. QED BY <2>1, <4>1, <4>2
    <3>2. Len(d) <= Len(p) /\ Turns(t[p].size, b, Len(d)) = d
      BY <1>2, <3>1 DEF Below
    <3>. QED BY <1>4, <3>2, LeftmostLeast
  <2>2. CASE Len(c) # Len(d)
    <3>1. Len(c) < Len(d)
      BY <1>1, <1>3, <1>4, <2>2
    <3>2. Len(d) <= Len(d) /\ Turns(t[d].size, b, Len(d)) = d
      BY <1>1, <1>4 DEF Way
    <3>3. t[d].size < t[p].size
      BY <1>2, <1>3, <1>4, <3>1, <3>2, DeeperSmaller DEF Below
    <3>4. PICK o \in leftmost_children(t, d) : t[o].size <= t[d].size
      BY <1>4, <3>2, LeftmostLeast
    <3>5. t[d].size \in Nat /\ t[p].size \in Nat
      BY <1>1, <1>4 DEF Way
    <3>. QED BY <1>5, <3>3, <3>4, <3>5
  <2>. QED BY <2>1, <2>2
<1>7. Passed(t, nb, b) # {}
  BY <1>2
<1>. QED BY <1>5, <1>6, <1>7 DEF d

(* ... and it meets one at all.                                            *)
LEMMA PassedFound ==
  ASSUME NEW i \in TreeBins, NEW t, NEW F, Trie(t, i, F), NEW b, b = bit_for_tree_index(i),
         NEW nb, InBin(nb, i), Passed(t, nb, b) # {}
  PROVE  \E o \in leftmost_children(t, Deepest(Passed(t, nb, b))) : o \in DOMAIN t /\ t[o].size >= nb
<1>1. b \in 0 .. 31 /\ (\A q \in DOMAIN t : Way(t, b, q)) /\ nb \in Nat
  BY TrieWay, InBinNat
<1>. DEFINE d == Deepest(Passed(t, nb, b))
<1>2. d \in Passed(t, nb, b)
  BY <1>1, DeepestPassed
<1>. HIDE DEF d
<1>3. d \in DOMAIN t
  BY <1>1, <1>2, PassedPlace
<1>4. Len(d) <= Len(d) /\ Turns(t[d].size, b, Len(d)) = d
  BY <1>1, <1>3 DEF Way
<1>5. PICK o \in leftmost_children(t, d) : t[o].size <= t[d].size
  BY <1>3, <1>4, LeftmostLeast
<1>6. o \in DOMAIN t /\ Below(t, b, d, o)
  BY <1>1, <1>3, LeftmostBelow
<1>7. nb < t[o].size /\ t[o].size \in Nat
  BY <1>1, <1>2, <1>6, PassedLarger DEF Way
<1>8. t[o].size >= nb
  BY <1>1, <1>7
<1>. QED BY <1>5, <1>6, <1>8 DEF d

-----------------------------------------------------------------------------
(* The tiling of the segment, and what the words in it say.                *)

(* sz gives the sizes of chunks that lie side by side from the heap's base *)
(* to hi.                                                                  *)
Tiling(sz, hi) ==
  /\ hi \in Nat /\ HeapBase \in DOMAIN sz
  /\ \A p \in DOMAIN sz : /\ p \in Nat /\ p >= HeapBase /\ p % 8 = 0
                          /\ sz[p] \in Nat /\ sz[p] > 0 /\ sz[p] % 8 = 0
                          /\ p + sz[p] <= hi
                          /\ p + sz[p] = hi \/ p + sz[p] \in DOMAIN sz
  /\ \A p, q \in DOMAIN sz : p < q => p + sz[p] <= q

Split(sz, p, n) ==
  [q \in DOMAIN sz \cup {p + n} |->
     IF q = p THEN n ELSE IF q = p + n THEN sz[p] - n ELSE sz[q]]
Join(sz, p) ==
  [q \in DOMAIN sz \ {p + sz[p]} |-> IF q = p THEN sz[p] + sz[p + sz[p]] ELSE sz[q]]
Resized(sz, p, n) == [q \in DOMAIN sz |-> IF q = p THEN n ELSE sz[q]]

(* Where a tiling is cut and what stays.                                   *)
LEMMA SplitFacts ==
  ASSUME NEW hi, NEW sz, Tiling(sz, hi), NEW p \in DOMAIN sz,
         NEW n \in Nat, 0 < n, n < sz[p]
  PROVE  LET z == Split(sz, p, n)
         IN /\ p + n \notin DOMAIN sz /\ DOMAIN z = DOMAIN sz \cup {p + n}
            /\ z[p] = n /\ z[p + n] = sz[p] - n
            /\ \A q \in DOMAIN sz : q # p => z[q] = sz[q]
<1>1. p + n \notin DOMAIN sz
  BY DEF Tiling
<1>2. p \in Nat
  BY DEF Tiling
<1>. QED BY <1>1, <1>2 DEF Split

(* A tiling with a chunk cut in two is a tiling.                           *)
LEMMA TilingSplit ==
  ASSUME NEW hi, NEW sz, Tiling(sz, hi), NEW p \in DOMAIN sz,
         NEW n \in Nat, 0 < n, n < sz[p], n % 8 = 0
  PROVE  Tiling(Split(sz, p, n), hi)
<1>. DEFINE z == Split(sz, p, n)
<1>1. /\ p + n \notin DOMAIN sz /\ DOMAIN z = DOMAIN sz \cup {p + n}
      /\ z[p] = n /\ z[p + n] = sz[p] - n
      /\ \A q \in DOMAIN sz : q # p => z[q] = sz[q]
  BY SplitFacts
<1>. HIDE DEF z
<1>2. /\ hi \in Nat /\ HeapBase \in DOMAIN z
  BY <1>1 DEF Tiling
<1>3. ASSUME NEW q \in DOMAIN z
      PROVE  /\ q \in Nat /\ q >= HeapBase /\ q % 8 = 0
             /\ z[q] \in Nat /\ z[q] > 0 /\ z[q] % 8 = 0
             /\ q + z[q] <= hi
             /\ q + z[q] = hi \/ q + z[q] \in DOMAIN z
  <2>1. CASE q = p
    BY <2>1, <1>1 DEF Tiling
  <2>2. CASE q = p + n
    <3>1. /\ p \in Nat /\ p >= HeapBase /\ HeapBase \in Nat /\ p % 8 = 0 /\ sz[p] \in Nat /\ sz[p] % 8 = 0
          /\ p + sz[p] <= hi /\ hi \in Nat
      BY DEF Tiling
    <3>2. /\ q \in Nat /\ q >= HeapBase /\ q % 8 = 0 /\ z[q] \in Nat /\ z[q] > 0 /\ z[q] % 8 = 0
          /\ q + z[q] = p + sz[p]
      BY <2>2, <3>1, <1>1
    <3>. QED BY <3>1, <3>2, <1>1 DEF Tiling
  <2>3. CASE q # p /\ q \in DOMAIN sz
    BY <2>3, <1>1 DEF Tiling
  <2>. QED BY <2>1, <2>2, <2>3, <1>1
<1>4. ASSUME NEW q \in DOMAIN z, NEW r \in DOMAIN z, q < r
      PROVE  q + z[q] <= r
  <2>0. p \in Nat /\ sz[p] \in Nat
    BY DEF Tiling
  <2>1. CASE q = p + n
    <3>1. r \in DOMAIN sz /\ p < r
      BY <2>0, <2>1, <1>1, <1>3, <1>4
    <3>. QED BY <2>0, <2>1, <3>1, <1>1 DEF Tiling
  <2>2. CASE r = p + n /\ q # p + n
    <3>1. q \in DOMAIN sz /\ q \in Nat /\ sz[q] \in Nat
      BY <2>2, <1>1 DEF Tiling
    <3>2. q = p \/ q < p \/ p < q
      BY <2>0, <3>1
    <3>3. p < q => p + sz[p] <= q
      BY <3>1 DEF Tiling
    <3>4. q < p => q + sz[q] <= p
      BY <3>1 DEF Tiling
    <3>. QED BY <2>0, <2>2, <3>1, <3>2, <3>3, <3>4, <1>1, <1>4
  <2>3. CASE q \in DOMAIN sz /\ r \in DOMAIN sz
    <3>1. q + sz[q] <= r /\ q \in Nat /\ sz[q] \in Nat /\ r \in Nat
      BY <2>3, <1>4 DEF Tiling
    <3>2. z[q] <= sz[q] /\ z[q] \in Nat
      BY <2>0, <2>3, <3>1, <1>1
    <3>. QED BY <3>1, <3>2
  <2>. QED BY <2>1, <2>2, <2>3, <1>1
<1>5. Tiling(z, hi)
  BY <1>2, <1>3, <1>4 DEF Tiling
<1>. QED BY <1>5 DEF z

(* What a chunk joined with the next leaves.                               *)
LEMMA JoinFacts ==
  ASSUME NEW hi, NEW sz, Tiling(sz, hi), NEW p \in DOMAIN sz, p + sz[p] \in DOMAIN sz
  PROVE  LET n == p + sz[p]
             z == Join(sz, p)
         IN /\ DOMAIN z = DOMAIN sz \ {n} /\ p \in DOMAIN z /\ p # n
            /\ z[p] = sz[p] + sz[n] /\ p + z[p] = n + sz[n]
            /\ \A q \in DOMAIN z : q # p => z[q] = sz[q]
<1>1. p \in Nat /\ sz[p] \in Nat /\ sz[p] > 0 /\ sz[p + sz[p]] \in Nat
  BY DEF Tiling
<1>2. p # p + sz[p]
  BY <1>1
<1>3. p + (sz[p] + sz[p + sz[p]]) = (p + sz[p]) + sz[p + sz[p]]
  BY <1>1
<1>. QED BY <1>2, <1>3 DEF Join

(* A tiling with two neighbours joined is a tiling.                        *)
LEMMA TilingJoin ==
  ASSUME NEW hi, NEW sz, Tiling(sz, hi), NEW p \in DOMAIN sz, p + sz[p] \in DOMAIN sz
  PROVE  Tiling(Join(sz, p), hi)
<1>. DEFINE z == Join(sz, p)
            n == p + sz[p]
<1>1. /\ DOMAIN z = DOMAIN sz \ {n} /\ p \in DOMAIN z /\ p # n
      /\ z[p] = sz[p] + sz[n] /\ p + z[p] = n + sz[n]
      /\ \A q \in DOMAIN z : q # p => z[q] = sz[q]
  BY JoinFacts
<1>0. p \in Nat /\ sz[p] \in Nat /\ sz[p] > 0 /\ n \in Nat /\ sz[n] \in Nat /\ sz[n] > 0
      /\ sz[p] % 8 = 0 /\ sz[n] % 8 = 0 /\ p < n /\ n > HeapBase /\ HeapBase \in Nat
  BY DEF Tiling
<1>. HIDE DEF z, n
<1>2. hi \in Nat /\ HeapBase \in DOMAIN z
  BY <1>0, <1>1 DEF Tiling
<1>3. ASSUME NEW q \in DOMAIN sz, NEW r \in DOMAIN sz, q + sz[q] = r, r = n PROVE q = p
  <2>1. q \in Nat /\ sz[q] \in Nat /\ sz[q] > 0
    BY DEF Tiling
  <2>2. q < p => q + sz[q] <= p
    BY DEF Tiling
  <2>3. p < q => p + sz[p] <= q
    BY DEF Tiling
  <2>. QED BY <2>1, <2>2, <2>3, <1>0, <1>3 DEF n
<1>4. ASSUME NEW q \in DOMAIN z
      PROVE  /\ q \in Nat /\ q >= HeapBase /\ q % 8 = 0
             /\ z[q] \in Nat /\ z[q] > 0 /\ z[q] % 8 = 0
             /\ q + z[q] <= hi
             /\ q + z[q] = hi \/ q + z[q] \in DOMAIN z
  <2>1. CASE q = p
    <3>1. n \in DOMAIN sz
      BY DEF n
    <3>2. n + sz[n] # n /\ n + sz[n] <= hi /\ (n + sz[n] = hi \/ n + sz[n] \in DOMAIN sz)
      BY <3>1, <1>0 DEF Tiling
    <3>3. q \in Nat /\ q >= HeapBase /\ q % 8 = 0
      BY <2>1 DEF Tiling
    <3>4. z[q] \in Nat /\ z[q] > 0 /\ z[q] % 8 = 0
      BY <2>1, <1>0, <1>1
    <3>5. q + z[q] = n + sz[n]
      BY <2>1, <1>1
    <3>. QED BY <3>2, <3>3, <3>4, <3>5, <1>1
  <2>2. CASE q # p
    <3>1. q \in DOMAIN sz /\ z[q] = sz[q] /\ q # n
      BY <2>2, <1>1
    <3>2. q + sz[q] # n
      BY <3>1, <2>2, <1>3, <1>0 DEF n
    <3>. QED BY <3>1, <3>2, <1>1 DEF Tiling
  <2>. QED BY <2>1, <2>2
<1>5. ASSUME NEW q \in DOMAIN z, NEW r \in DOMAIN z, q < r
      PROVE  q + z[q] <= r
  <2>1. CASE q = p
    <3>1. r \in DOMAIN sz /\ n \in DOMAIN sz /\ r # n /\ r \in Nat
      BY <1>1, <1>4 DEF n
    <3>2. n <= r
      BY <2>1, <3>1, <1>5 DEF Tiling, n
    <3>3. n < r
      BY <3>1, <3>2, <1>0
    <3>4. n + sz[n] <= r
      BY <3>1, <3>3 DEF Tiling
    <3>. QED BY <2>1, <3>4, <1>1
  <2>2. CASE q # p
    BY <2>2, <1>1, <1>5 DEF Tiling
  <2>. QED BY <2>1, <2>2
<1>6. Tiling(z, hi)
  BY <1>2, <1>4, <1>5 DEF Tiling
<1>. QED BY <1>6 DEF z

(* The last chunk may end elsewhere.                                       *)
LEMMA TilingResized ==
  ASSUME NEW hi, NEW sz, Tiling(sz, hi), NEW p \in DOMAIN sz, p + sz[p] = hi,
         NEW n \in Nat, n > 0, n % 8 = 0
  PROVE  Tiling(Resized(sz, p, n), p + n)
<1>. DEFINE z == Resized(sz, p, n)
<1>1. /\ DOMAIN z = DOMAIN sz /\ z[p] = n
      /\ \A q \in DOMAIN sz : q # p => z[q] = sz[q]
  BY DEF Resized
<1>0. p \in Nat /\ sz[p] \in Nat /\ sz[p] > 0
  BY DEF Tiling
<1>. HIDE DEF z
<1>2. ASSUME NEW q \in DOMAIN sz, q # p
      PROVE  q < p /\ q + sz[q] <= p /\ q + sz[q] \in DOMAIN sz
  <2>1. q \in Nat /\ sz[q] \in Nat /\ sz[q] > 0 /\ q + sz[q] <= p + sz[p]
    BY DEF Tiling
  <2>2. ~(p < q)
    BY <2>1, <1>0 DEF Tiling
  <2>3. q < p
    BY <2>1, <2>2, <1>0, <1>2
  <2>4. q + sz[q] <= p
    BY <2>3 DEF Tiling
  <2>. QED BY <2>1, <2>3, <2>4, <1>0 DEF Tiling
<1>3. Tiling(z, p + n)
  BY <1>0, <1>1, <1>2 DEF Tiling
<1>. QED BY <1>3 DEF z

(* What a resized chunk leaves.                                            *)
LEMMA ResizedFacts ==
  ASSUME NEW sz, NEW p \in DOMAIN sz, NEW n
  PROVE  LET z == Resized(sz, p, n)
         IN DOMAIN z = DOMAIN sz /\ z[p] = n /\ \A q \in DOMAIN sz : q # p => z[q] = sz[q]
  BY DEF Resized

(* A chunk's neighbours are unique.                                        *)
LEMMA TilingUnique ==
  ASSUME NEW hi, NEW sz, Tiling(sz, hi), NEW p \in DOMAIN sz, NEW q \in DOMAIN sz,
         p + sz[p] = q + sz[q]
  PROVE  p = q
<1>1. p \in Nat /\ q \in Nat /\ sz[p] \in Nat /\ sz[q] \in Nat /\ sz[p] > 0 /\ sz[q] > 0
  BY DEF Tiling
<1>2. (p < q => p + sz[p] <= q) /\ (q < p => q + sz[q] <= p)
  BY DEF Tiling
<1>. QED BY <1>1, <1>2

HeadType == [size : Nat, cinuse : BOOLEAN, pinuse : BOOLEAN]

(* The chunk before p, if one ends there, is in use.                       *)
AfterUsed(sz, us, p) == \A q \in DOMAIN sz : q + sz[q] = p => q \in us

HeadIs(m, p, s, c, i) ==
  /\ p \in DOMAIN m.head /\ HeadAt(m, p) \in HeadType
  /\ chunksize(m, p) = s /\ (cinuse(m, p) <=> c) /\ (pinuse(m, p) <=> i)

(* The words of the heap tell of the chunks sz, of which us are in use;    *)
(* the heads of the chunks o are not to be relied on.                      *)
Words(m, sz, us, o) ==
  /\ \A p \in DOMAIN sz \ o : HeadIs(m, p, sz[p], p \in us, AfterUsed(sz, us, p))
  /\ \A p \in DOMAIN sz \ us : p + sz[p] \in DOMAIN sz => FootAt(m, p + sz[p]) = sz[p]

(* No two free chunks are neighbours.                                      *)
Merged(sz, us) == \A p \in DOMAIN sz \ us : p + sz[p] \in DOMAIN sz => p + sz[p] \in us

Laid(m, sz, us, o, hi) ==
  /\ Tiling(sz, hi) /\ us \subseteq DOMAIN sz /\ o \subseteq DOMAIN sz
  /\ Words(m, sz, us, o) /\ Merged(sz, us)

(* What of the words of m is the same in n.                                *)
OtherHeads(m, n, P) ==
  DOMAIN m.head \subseteq DOMAIN n.head /\ \A q : q \notin P => HeadAt(n, q) = HeadAt(m, q)
OtherFeet(m, n, P) == \A q : q \notin P => FootAt(n, q) = FootAt(m, q)
(* The head of p has been written.                                         *)
NewHead(n, p, s, c, i) ==
  p \in DOMAIN n.head /\ HeadAt(n, p) = [size |-> s, cinuse |-> c, pinuse |-> i]

(* A head just written says what was written.                              *)
LEMMA NewHeadIs ==
  ASSUME NEW n, NEW p, NEW s \in Nat, NEW c \in BOOLEAN, NEW i \in BOOLEAN, NewHead(n, p, s, c, i)
  PROVE  HeadIs(n, p, s, c, i)
<1>1. HeadAt(n, p) = [size |-> s, cinuse |-> c, pinuse |-> i] /\ p \in DOMAIN n.head
  BY DEF NewHead
<1>2. HeadAt(n, p) \in HeadType
  BY <1>1 DEF HeadType
<1>3. chunksize(n, p) = s /\ cinuse(n, p) = c /\ pinuse(n, p) = i
  BY <1>1 DEF chunksize, cinuse, pinuse
<1>. QED BY <1>1, <1>2, <1>3 DEF HeadIs

(* A head not written stays.                                               *)
LEMMA OtherHead ==
  ASSUME NEW m, NEW n, NEW P, OtherHeads(m, n, P), NEW p, p \notin P
  PROVE  /\ HeadAt(n, p) = HeadAt(m, p) /\ chunksize(n, p) = chunksize(m, p)
         /\ cinuse(n, p) = cinuse(m, p) /\ pinuse(n, p) = pinuse(m, p)
         /\ p \in DOMAIN m.head => p \in DOMAIN n.head
  BY DEF OtherHeads, chunksize, cinuse, pinuse

(* Writing a head changes that head alone.                                 *)
LEMMA PutHeadFacts ==
  ASSUME NEW m, DOMAIN m = Fields, NEW p, NEW s, NEW c, NEW i
  PROVE  LET n == PutHead(m, p, s, c, i)
         IN /\ SameBut(m, n, {"head"}) /\ NewHead(n, p, s, c, i)
            /\ OtherHeads(m, n, {p}) /\ OtherFeet(m, n, {})
            /\ DOMAIN n.head = DOMAIN m.head \cup {p}
<1>. DEFINE h == Put(m.head, p, [size |-> s, cinuse |-> c, pinuse |-> i])
            n == PutHead(m, p, s, c, i)
<1>1. n = [m EXCEPT !.head = h]
  BY DEF PutHead, Fields
<1>2. SameBut(m, n, {"head"}) /\ n.head = h /\ n.foot = m.foot
  BY <1>1 DEF SameBut, Fields
<1>. HIDE DEF n
<1>3. /\ DOMAIN h = DOMAIN m.head \cup {p}
      /\ h[p] = [size |-> s, cinuse |-> c, pinuse |-> i]
      /\ \A q \in DOMAIN m.head : q # p => h[q] = m.head[q]
  BY DEF Put
<1>. HIDE DEF h
<1>4. NewHead(n, p, s, c, i)
  BY <1>2, <1>3 DEF NewHead, HeadAt
<1>5. OtherHeads(m, n, {p})
  BY <1>2, <1>3 DEF OtherHeads, HeadAt
<1>6. OtherFeet(m, n, {})
  BY <1>2 DEF OtherFeet, FootAt
<1>. QED BY <1>2, <1>3, <1>4, <1>5, <1>6 DEF n

(* set_foot changes that foot alone.                                       *)
LEMMA SetFootFacts ==
  ASSUME NEW m, DOMAIN m = Fields, NEW p \in Nat, NEW s \in Nat
  PROVE  LET n == set_foot(m, p, s)
         IN /\ SameBut(m, n, {"foot"}) /\ FootAt(n, p + s) = s /\ OtherFeet(m, n, {p + s})
            /\ n.head = m.head
<1>. DEFINE f == Put(m.foot, p + s, s)
            n == set_foot(m, p, s)
<1>1. n = [m EXCEPT !.foot = f]
  BY DEF set_foot, Fields
<1>2. SameBut(m, n, {"foot"}) /\ n.head = m.head /\ n.foot = f
  BY <1>1 DEF SameBut, Fields
<1>. HIDE DEF n
<1>3. /\ DOMAIN f = DOMAIN m.foot \cup {p + s} /\ f[p + s] = s
      /\ \A q \in DOMAIN m.foot : q # p + s => f[q] = m.foot[q]
  BY DEF Put
<1>. HIDE DEF f
<1>4. FootAt(n, p + s) = s
  BY <1>2, <1>3 DEF FootAt
<1>5. OtherFeet(m, n, {p + s})
  BY <1>2, <1>3 DEF OtherFeet, FootAt
<1>. QED BY <1>2, <1>4, <1>5 DEF n

(* A state with the same heads reads the same.                             *)
LEMMA SameHeads ==
  ASSUME NEW m, NEW n, n.head = m.head
  PROVE  /\ OtherHeads(m, n, {})
         /\ \A q : HeadAt(n, q) = HeadAt(m, q) /\ chunksize(n, q) = chunksize(m, q)
                   /\ cinuse(n, q) = cinuse(m, q) /\ pinuse(n, q) = pinuse(m, q)
<1>1. \A q : HeadAt(n, q) = HeadAt(m, q)
  BY DEF HeadAt
<1>. QED BY <1>1 DEF OtherHeads, chunksize, cinuse, pinuse

(* The layout depends on the heads and the feet alone.                     *)
LEMMA LaidSame ==
  ASSUME NEW m, NEW sz, NEW us, NEW o, NEW hi, Laid(m, sz, us, o, hi), NEW n,
         n.head = m.head, n.foot = m.foot
  PROVE  Laid(n, sz, us, o, hi)
<1>1. \A q : /\ HeadAt(n, q) = HeadAt(m, q) /\ chunksize(n, q) = chunksize(m, q)
             /\ cinuse(n, q) = cinuse(m, q) /\ pinuse(n, q) = pinuse(m, q)
  BY SameHeads
<1>2. \A q : FootAt(n, q) = FootAt(m, q)
  BY DEF FootAt
<1>3. Words(n, sz, us, o)
  BY <1>1, <1>2 DEF Laid, Words, HeadIs
<1>. QED BY <1>3 DEF Laid

-----------------------------------------------------------------------------
(* The ways a routine changes the chunks.                                  *)

(* A free chunk is taken whole.                                            *)
LEMMA LaidTake ==
  ASSUME NEW m, NEW sz, NEW us, NEW hi, Laid(m, sz, us, {}, hi),
         NEW v \in DOMAIN sz \ us, v + sz[v] \in DOMAIN sz, NEW n,
         NewHead(n, v, sz[v], TRUE, TRUE),
         NewHead(n, v + sz[v], chunksize(m, v + sz[v]), cinuse(m, v + sz[v]), TRUE),
         OtherHeads(m, n, {v, v + sz[v]}), OtherFeet(m, n, {})
  PROVE  Laid(n, sz, us \cup {v}, {}, hi)
<1>. DEFINE x == v + sz[v]
            u == us \cup {v}
<1>1. Tiling(sz, hi) /\ us \subseteq DOMAIN sz /\ Words(m, sz, us, {}) /\ Merged(sz, us)
  BY DEF Laid
<1>2. x \in us /\ x # v /\ sz[v] \in Nat
  BY <1>1 DEF Merged, Tiling
<1>3. AfterUsed(sz, us, v)
  BY <1>1 DEF AfterUsed, Merged
<1>4. \A q \in DOMAIN sz : q + sz[q] = x => q = v
  BY <1>1, TilingUnique
<1>. HIDE DEF x
<1>5. ASSUME NEW p \in DOMAIN sz PROVE HeadIs(n, p, sz[p], p \in u, AfterUsed(sz, u, p))
  <2>1. HeadIs(m, p, sz[p], p \in us, AfterUsed(sz, us, p))
    BY <1>1 DEF Words
  <2>2. CASE p = v
    <3>1. HeadIs(n, p, sz[p], TRUE, TRUE)
      BY <2>2, <1>2, NewHeadIs
    <3>2. AfterUsed(sz, u, p)
      BY <2>2, <1>3 DEF AfterUsed
    <3>. QED BY <2>2, <3>1, <3>2 DEF HeadIs
  <2>3. CASE p = x
    <3>1. chunksize(m, p) = sz[p] /\ sz[p] \in Nat /\ cinuse(m, p) \in BOOLEAN /\ cinuse(m, p)
      BY <2>1, <2>3, <1>1, <1>2 DEF HeadIs, HeadType, Tiling, cinuse
    <3>2. HeadIs(n, p, sz[p], cinuse(m, p), TRUE)
      BY <3>1, <2>3, NewHeadIs DEF x
    <3>3. AfterUsed(sz, u, p)
      BY <2>3, <1>4 DEF AfterUsed
    <3>. QED BY <2>3, <3>1, <3>2, <3>3, <1>2 DEF HeadIs
  <2>4. CASE p # v /\ p # x
    <3>1. HeadIs(n, p, sz[p], p \in us, AfterUsed(sz, us, p))
      BY <2>1, <2>4, OtherHead DEF HeadIs, x
    <3>2. AfterUsed(sz, us, p) <=> AfterUsed(sz, u, p)
      BY <2>4 DEF AfterUsed, x
    <3>. QED BY <2>4, <3>1, <3>2 DEF HeadIs
  <2>. QED BY <2>2, <2>3, <2>4
<1>6. Words(n, sz, u, {})
  BY <1>1, <1>5 DEF Words, OtherFeet
<1>7. Merged(sz, u)
  BY <1>1 DEF Merged
<1>. QED BY <1>1, <1>6, <1>7 DEF Laid

(* The front of a free chunk is taken, its rest stays free.                *)
LEMMA LaidTakeFront ==
  ASSUME NEW m, NEW sz, NEW us, NEW hi, Laid(m, sz, us, {}, hi),
         NEW v \in DOMAIN sz \ us, NEW nb \in Nat, 0 < nb, nb < sz[v], nb % 8 = 0, NEW n,
         NewHead(n, v, nb, TRUE, TRUE), NewHead(n, v + nb, sz[v] - nb, FALSE, TRUE),
         OtherHeads(m, n, {v, v + nb}), OtherFeet(m, n, {v + sz[v]}),
         v + sz[v] \in DOMAIN sz => FootAt(n, v + sz[v]) = sz[v] - nb
  PROVE  Laid(n, Split(sz, v, nb), us \cup {v}, {}, hi)
<1>. DEFINE r == v + nb
            z == Split(sz, v, nb)
            u == us \cup {v}
            x == v + sz[v]
            k == sz[v] - nb
<1>1. Tiling(sz, hi) /\ us \subseteq DOMAIN sz /\ Words(m, sz, us, {}) /\ Merged(sz, us)
  BY DEF Laid
<1>2. /\ r \notin DOMAIN sz /\ DOMAIN z = DOMAIN sz \cup {r} /\ z[v] = nb /\ z[r] = k
      /\ \A q \in DOMAIN sz : q # v => z[q] = sz[q]
  <2>1. v \in DOMAIN sz /\ v \in Nat /\ nb \in Nat /\ r = v + nb /\ r # v
    BY <1>1 DEF Tiling
  <2>2. r \notin DOMAIN sz
    BY <1>1, <2>1 DEF Tiling
  <2>. HIDE DEF r
  <2>3. z = [q \in DOMAIN sz \cup {r} |-> IF q = v THEN nb ELSE IF q = r THEN k ELSE sz[q]]
    BY <2>1 DEF Split
  <2>. HIDE DEF z, k
  <2>. QED BY <2>1, <2>2, <2>3
<1>3. Tiling(z, hi)
  BY <1>1, TilingSplit
<1>4. v \in Nat /\ sz[v] \in Nat /\ k \in Nat /\ r + k = x /\ r # v /\ x # r /\ x # v
  <2>1. v \in Nat /\ sz[v] \in Nat
    BY <1>1 DEF Tiling
  <2>. QED BY <2>1
<1>5. AfterUsed(sz, us, v)
  BY <1>1 DEF AfterUsed, Merged
<1>6. \A q \in DOMAIN sz : q + sz[q] = x => q = v
  BY <1>1, TilingUnique
<1>. HIDE DEF x, z, r, k
<1>7. \A q \in DOMAIN sz : q # v => q + sz[q] # r
  <2>. TAKE q \in DOMAIN sz
  <2>. HAVE q # v
  <2>1. q + sz[q] = hi \/ q + sz[q] \in DOMAIN sz
    BY <1>1 DEF Tiling
  <2>2. r < hi /\ hi \in Nat
    <3>1. v + sz[v] <= hi /\ hi \in Nat
      BY <1>1 DEF Tiling
    <3>. QED BY <3>1, <1>4 DEF r
  <2>. QED BY <2>1, <2>2, <1>2, <1>4
<1>8. ASSUME NEW p \in DOMAIN z PROVE HeadIs(n, p, z[p], p \in u, AfterUsed(z, u, p))
  <2>2. CASE p = v
    <3>1. HeadIs(n, p, nb, TRUE, TRUE)
      BY <2>2, NewHeadIs
    <3>2. AfterUsed(z, u, p)
      <4>1. SUFFICES ASSUME NEW q \in DOMAIN z, q + z[q] = v PROVE q \in u
        BY <2>2 DEF AfterUsed
      <4>2. q # r
        BY <4>1, <1>2, <1>4 DEF r
      <4>. QED BY <4>1, <4>2, <1>2, <1>5 DEF AfterUsed
    <3>. QED BY <2>2, <3>1, <3>2, <1>2 DEF HeadIs
  <2>3. CASE p = r
    <3>1. HeadIs(n, p, k, FALSE, TRUE)
      BY <2>3, <1>4, NewHeadIs DEF r, k
    <3>2. AfterUsed(z, u, p)
      <4>1. SUFFICES ASSUME NEW q \in DOMAIN z, q + z[q] = r PROVE q \in u
        BY <2>3 DEF AfterUsed
      <4>2. q # r
        BY <4>1, <1>2, <1>4 DEF r
      <4>. QED BY <4>1, <4>2, <1>2, <1>7
    <3>3. r \notin u
      BY <1>1, <1>2, <1>4
    <3>. QED BY <2>3, <3>1, <3>2, <3>3, <1>2 DEF HeadIs
  <2>4. CASE p # v /\ p # r
    <3>1. HeadIs(m, p, sz[p], p \in us, AfterUsed(sz, us, p)) /\ p \in DOMAIN sz
      BY <2>4, <1>1, <1>2 DEF Words
    <3>2. HeadIs(n, p, sz[p], p \in us, AfterUsed(sz, us, p))
      BY <2>4, <3>1, OtherHead DEF HeadIs, r
    <3>3. ASSUME AfterUsed(sz, us, p) PROVE AfterUsed(z, u, p)
      <4>1. SUFFICES ASSUME NEW q \in DOMAIN z, q + z[q] = p PROVE q \in u
        BY DEF AfterUsed
      <4>2. q # r
        <5>1. SUFFICES ASSUME q = r PROVE FALSE
          OBVIOUS
        <5>2. p = x
          BY <4>1, <5>1, <1>2, <1>4
        <5>. QED BY <5>2, <3>3 DEF AfterUsed, x
      <4>3. q # v
        BY <4>1, <2>4, <1>2 DEF r
      <4>. QED BY <4>1, <4>2, <4>3, <3>3, <1>2 DEF AfterUsed
    <3>4. ASSUME AfterUsed(z, u, p) PROVE AfterUsed(sz, us, p)
      <4>1. SUFFICES ASSUME NEW q \in DOMAIN sz, q + sz[q] = p PROVE q \in us
        BY DEF AfterUsed
      <4>2. q # v
        <5>1. SUFFICES ASSUME q = v PROVE FALSE
          OBVIOUS
        <5>2. p = x
          BY <4>1, <5>1 DEF x
        <5>3. r \in DOMAIN z /\ r + z[r] = p
          BY <5>2, <1>2, <1>4
        <5>4. r \in u
          BY <5>3, <3>4 DEF AfterUsed
        <5>. QED BY <5>4, <1>1, <1>2, <1>4
      <4>. QED BY <4>1, <4>2, <3>4, <1>2 DEF AfterUsed
    <3>. QED BY <2>4, <3>1, <3>2, <3>3, <3>4, <1>2 DEF HeadIs
  <2>. QED BY <2>2, <2>3, <2>4
<1>9. ASSUME NEW p \in DOMAIN z \ u
      PROVE  /\ p + z[p] \in DOMAIN z => FootAt(n, p + z[p]) = z[p]
             /\ p + z[p] \in DOMAIN z => p + z[p] \in u
  <2>1. CASE p = r
    <3>1. p + z[p] = x /\ z[p] = k /\ x # r
      BY <2>1, <1>2, <1>4
    <3>2. x \in DOMAIN z => x \in DOMAIN sz
      BY <3>1, <1>2
    <3>3. x \in DOMAIN sz => x \in us /\ FootAt(n, x) = k
      BY <1>1 DEF Merged, x, k
    <3>. QED BY <3>1, <3>2, <3>3
  <2>2. CASE p # r
    <3>1. p \in DOMAIN sz \ us /\ p # v /\ z[p] = sz[p]
      BY <2>2, <1>2
    <3>2. p + sz[p] # r /\ p + sz[p] # x
      BY <3>1, <1>6, <1>7
    <3>3. p + sz[p] \in DOMAIN sz => FootAt(m, p + sz[p]) = sz[p] /\ p + sz[p] \in us
      BY <3>1, <1>1 DEF Words, Merged
    <3>. QED BY <3>1, <3>2, <3>3, <1>2 DEF OtherFeet, x
  <2>. QED BY <2>1, <2>2
<1>10. Words(n, z, u, {}) /\ Merged(z, u)
  BY <1>8, <1>9 DEF Words, Merged
<1>11. Laid(n, z, u, {}, hi)
  BY <1>1, <1>2, <1>3, <1>10 DEF Laid
<1>. QED BY <1>11 DEF z

(* A chunk between chunks in use becomes free.                             *)
LEMMA LaidFree ==
  ASSUME NEW m, NEW sz, NEW us, NEW hi, NEW p \in us, Laid(m, sz, us, {p}, hi),
         AfterUsed(sz, us, p), p + sz[p] \in us, NEW n,
         NewHead(n, p, sz[p], FALSE, TRUE),
         NewHead(n, p + sz[p], chunksize(m, p + sz[p]), cinuse(m, p + sz[p]), FALSE),
         OtherHeads(m, n, {p, p + sz[p]}), OtherFeet(m, n, {p + sz[p]}),
         FootAt(n, p + sz[p]) = sz[p]
  PROVE  Laid(n, sz, us \ {p}, {}, hi)
<1>. DEFINE x == p + sz[p]
            u == us \ {p}
<1>1. Tiling(sz, hi) /\ us \subseteq DOMAIN sz /\ Words(m, sz, us, {p}) /\ Merged(sz, us)
  BY DEF Laid
<1>2. x \in DOMAIN sz /\ x # p /\ sz[p] \in Nat /\ p \in DOMAIN sz
  BY <1>1 DEF Tiling
<1>4. \A q \in DOMAIN sz : q + sz[q] = x => q = p
  BY <1>1, TilingUnique
<1>. HIDE DEF x
<1>5. ASSUME NEW q \in DOMAIN sz PROVE HeadIs(n, q, sz[q], q \in u, AfterUsed(sz, u, q))
  <2>2. CASE q = p
    <3>1. HeadIs(n, q, sz[q], FALSE, TRUE)
      BY <2>2, <1>2, NewHeadIs
    <3>2. AfterUsed(sz, u, q)
      BY <2>2, <1>2 DEF AfterUsed, x
    <3>. QED BY <2>2, <3>1, <3>2 DEF HeadIs
  <2>3. CASE q = x
    <3>0. HeadIs(m, q, sz[q], q \in us, AfterUsed(sz, us, q))
      BY <1>1, <1>2, <2>3 DEF Words
    <3>1. chunksize(m, q) = sz[q] /\ sz[q] \in Nat /\ cinuse(m, q) \in BOOLEAN /\ cinuse(m, q)
      BY <3>0, <2>3, <1>1, <1>2 DEF HeadIs, HeadType, Tiling, cinuse, x
    <3>2. HeadIs(n, q, sz[q], cinuse(m, q), FALSE)
      BY <3>1, <2>3, NewHeadIs DEF x
    <3>3. ~AfterUsed(sz, u, q)
      BY <2>3, <1>2 DEF AfterUsed, x
    <3>4. q \in u
      BY <2>3, <1>2 DEF x
    <3>. QED BY <3>1, <3>2, <3>3, <3>4 DEF HeadIs
  <2>4. CASE q # p /\ q # x
    <3>0. HeadIs(m, q, sz[q], q \in us, AfterUsed(sz, us, q))
      BY <1>1, <2>4 DEF Words
    <3>1. HeadIs(n, q, sz[q], q \in us, AfterUsed(sz, us, q))
      BY <3>0, <2>4, OtherHead DEF HeadIs, x
    <3>2. AfterUsed(sz, us, q) <=> AfterUsed(sz, u, q)
      BY <2>4 DEF AfterUsed, x
    <3>. QED BY <2>4, <3>1, <3>2 DEF HeadIs
  <2>. QED BY <2>2, <2>3, <2>4
<1>6. ASSUME NEW q \in DOMAIN sz \ u
      PROVE  /\ q + sz[q] \in DOMAIN sz => FootAt(n, q + sz[q]) = sz[q]
             /\ q + sz[q] \in DOMAIN sz => q + sz[q] \in u
  <2>1. CASE q = p
    BY <2>1, <1>2 DEF x
  <2>2. CASE q # p
    <3>1. q \in DOMAIN sz \ us /\ q + sz[q] # x
      BY <2>2, <1>4
    <3>2. q + sz[q] # p
      BY <3>1 DEF AfterUsed
    <3>. QED BY <3>1, <3>2, <1>1 DEF Words, Merged, OtherFeet, x
  <2>. QED BY <2>1, <2>2
<1>7. Words(n, sz, u, {}) /\ Merged(sz, u)
  BY <1>5, <1>6 DEF Words, Merged
<1>. QED BY <1>1, <1>7 DEF Laid

(* A chunk becomes free together with the free one after it.               *)
LEMMA LaidFreeJoin ==
  ASSUME NEW m, NEW sz, NEW us, NEW hi, NEW p \in us, Laid(m, sz, us, {p}, hi),
         AfterUsed(sz, us, p), p + sz[p] \in DOMAIN sz \ us, NEW n,
         NewHead(n, p, sz[p] + sz[p + sz[p]], FALSE, TRUE),
         OtherHeads(m, n, {p}),
         OtherFeet(m, n, {p + (sz[p] + sz[p + sz[p]])}),
         p + (sz[p] + sz[p + sz[p]]) \in DOMAIN sz =>
           FootAt(n, p + (sz[p] + sz[p + sz[p]])) = sz[p] + sz[p + sz[p]]
  PROVE  Laid(n, Join(sz, p), us \ {p}, {}, hi)
<1>. DEFINE x == p + sz[p]
            z == Join(sz, p)
            u == us \ {p}
            y == p + (sz[p] + sz[x])
<1>1. Tiling(sz, hi) /\ us \subseteq DOMAIN sz /\ Words(m, sz, us, {p}) /\ Merged(sz, us)
  BY DEF Laid
<1>2. /\ DOMAIN z = DOMAIN sz \ {x} /\ p \in DOMAIN z /\ p # x
      /\ z[p] = sz[p] + sz[x] /\ p + z[p] = y /\ y = x + sz[x]
      /\ \A q \in DOMAIN z : q # p => z[q] = sz[q]
  BY <1>1, JoinFacts
<1>3. Tiling(z, hi)
  BY <1>1, TilingJoin
<1>4. x \in DOMAIN sz /\ sz[p] \in Nat /\ p \in DOMAIN sz /\ sz[x] \in Nat /\ y # p /\ y # x
      /\ p \in Nat /\ sz[p] + sz[x] \in Nat
  BY <1>1 DEF Tiling
<1>5. /\ \A q \in DOMAIN sz : q + sz[q] = x => q = p
      /\ \A q \in DOMAIN sz : q + sz[q] = y => q = x
  BY <1>1, <1>2, <1>4, TilingUnique
<1>6. y \in DOMAIN sz => y \in us
  BY <1>1, <1>2 DEF Merged
<1>. HIDE DEF x, z, y
<1>7. ASSUME NEW q \in DOMAIN z PROVE HeadIs(n, q, z[q], q \in u, AfterUsed(z, u, q))
  <2>2. CASE q = p
    <3>1. HeadIs(n, q, z[q], FALSE, TRUE)
      BY <2>2, <1>2, <1>4, NewHeadIs DEF x
    <3>2. AfterUsed(z, u, q)
      BY <2>2, <1>2, <1>4 DEF AfterUsed
    <3>. QED BY <2>2, <3>1, <3>2 DEF HeadIs
  <2>3. CASE q # p
    <3>0. HeadIs(m, q, sz[q], q \in us, AfterUsed(sz, us, q)) /\ q \in DOMAIN sz /\ q # x
      BY <1>1, <1>2, <2>3 DEF Words
    <3>1. HeadIs(n, q, sz[q], q \in us, AfterUsed(sz, us, q))
      BY <3>0, <2>3, OtherHead DEF HeadIs
    <3>2. ASSUME AfterUsed(sz, us, q) PROVE AfterUsed(z, u, q)
      <4>1. q # y
        BY <3>2, <1>2, <1>4 DEF AfterUsed, x
      <4>. QED BY <3>2, <4>1, <1>2 DEF AfterUsed
    <3>3. ASSUME AfterUsed(z, u, q) PROVE AfterUsed(sz, us, q)
      <4>1. q # y
        BY <3>3, <1>2, <1>4 DEF AfterUsed
      <4>2. SUFFICES ASSUME NEW r \in DOMAIN sz, r + sz[r] = q PROVE r \in us
        BY DEF AfterUsed
      <4>3. r # x /\ r # p
        BY <3>0, <4>1, <4>2, <1>2 DEF x
      <4>. QED BY <3>3, <4>2, <4>3, <1>2 DEF AfterUsed
    <3>. QED BY <2>3, <3>0, <3>1, <3>2, <3>3, <1>2 DEF HeadIs
  <2>. QED BY <2>2, <2>3
<1>8. ASSUME NEW q \in DOMAIN z \ u
      PROVE  /\ q + z[q] \in DOMAIN z => FootAt(n, q + z[q]) = z[q]
             /\ q + z[q] \in DOMAIN z => q + z[q] \in u
  <2>1. CASE q = p
    BY <2>1, <1>2, <1>4, <1>6 DEF y, x
  <2>2. CASE q # p
    <3>1. q \in DOMAIN sz \ us /\ z[q] = sz[q] /\ q # x
      BY <2>2, <1>2
    <3>2. q + sz[q] # p /\ q + sz[q] # y
      BY <3>1, <1>5 DEF AfterUsed
    <3>3. q + sz[q] \in DOMAIN sz => FootAt(m, q + sz[q]) = sz[q] /\ q + sz[q] \in us
      BY <3>1, <1>1 DEF Words, Merged
    <3>. QED BY <3>1, <3>2, <3>3, <1>2 DEF OtherFeet, y, x
  <2>. QED BY <2>1, <2>2
<1>9. Words(n, z, u, {}) /\ Merged(z, u)
  BY <1>7, <1>8 DEF Words, Merged
<1>10. u \subseteq DOMAIN z
  BY <1>1, <1>2 DEF x
<1>11. Laid(n, z, u, {}, hi)
  BY <1>3, <1>9, <1>10 DEF Laid
<1>. QED BY <1>11 DEF z

(* The same steps taken apart: the chunks whose words are still to be      *)
(* written join o.                                                         *)
LEMMA LaidWrite ==
  ASSUME NEW m, NEW sz, NEW us, NEW o, NEW hi, Laid(m, sz, us, o, hi), NEW n, NEW P,
         NEW o2 \in SUBSET DOMAIN sz, OtherHeads(m, n, P),
         \A p \in DOMAIN sz \ us : p + sz[p] \in DOMAIN sz => FootAt(n, p + sz[p]) = sz[p],
         \A p \in DOMAIN sz \ o2 : p \in P \cup o => HeadIs(n, p, sz[p], p \in us, AfterUsed(sz, us, p))
  PROVE  Laid(n, sz, us, o2, hi)
<1>1. ASSUME NEW p \in DOMAIN sz \ o2 PROVE HeadIs(n, p, sz[p], p \in us, AfterUsed(sz, us, p))
  <2>1. CASE p \in P \cup o
    BY <2>1
  <2>2. CASE p \notin P \cup o
    <3>1. HeadIs(m, p, sz[p], p \in us, AfterUsed(sz, us, p))
      BY <2>2 DEF Laid, Words
    <3>. QED BY <3>1, <2>2, OtherHead DEF HeadIs
  <2>. QED BY <2>1, <2>2
<1>. QED BY <1>1 DEF Laid, Words

(* More heads may be left unsaid.                                          *)
LEMMA LaidWeaken ==
  ASSUME NEW m, NEW sz, NEW us, NEW o, NEW hi, Laid(m, sz, us, o, hi),
         NEW o2 \in SUBSET DOMAIN sz, o \subseteq o2
  PROVE  Laid(m, sz, us, o2, hi)
  BY DEF Laid, Words

(* A free chunk marked in use, its head and its neighbour's yet to be      *)
(* written.                                                                *)
LEMMA LaidTakeOpen ==
  ASSUME NEW m, NEW sz, NEW us, NEW o, NEW hi, Laid(m, sz, us, o, hi), NEW v \in DOMAIN sz \ us
  PROVE  Laid(m, sz, us \cup {v}, o \cup ({v, v + sz[v]} \cap DOMAIN sz), hi)
<1>. DEFINE x == v + sz[v]
            u == us \cup {v}
            w == o \cup ({v, x} \cap DOMAIN sz)
<1>1. Tiling(sz, hi) /\ us \subseteq DOMAIN sz /\ Words(m, sz, us, o) /\ Merged(sz, us)
      /\ o \subseteq DOMAIN sz
  BY DEF Laid
<1>. HIDE DEF x
<1>2. ASSUME NEW p \in DOMAIN sz \ w PROVE HeadIs(m, p, sz[p], p \in u, AfterUsed(sz, u, p))
  <2>1. p # v /\ p # x /\ p \notin o /\ p \in DOMAIN sz
    OBVIOUS
  <2>2. HeadIs(m, p, sz[p], p \in us, AfterUsed(sz, us, p))
    BY <1>1, <2>1 DEF Words
  <2>3. AfterUsed(sz, us, p) <=> AfterUsed(sz, u, p)
    BY <2>1 DEF AfterUsed, x
  <2>. QED BY <2>1, <2>2, <2>3 DEF HeadIs
<1>3. Words(m, sz, u, w) /\ Merged(sz, u)
  BY <1>1, <1>2 DEF Words, Merged
<1>4. u \subseteq DOMAIN sz /\ w \subseteq DOMAIN sz
  BY <1>1
<1>5. Laid(m, sz, u, w, hi)
  BY <1>1, <1>3, <1>4 DEF Laid
<1>. QED BY <1>5 DEF x

(* A chunk in use made free, its head and its neighbour's yet to be        *)
(* written.                                                                *)
LEMMA LaidFreeOpen ==
  ASSUME NEW m, NEW sz, NEW us, NEW o, NEW hi, Laid(m, sz, us, o, hi), NEW p \in us,
         AfterUsed(sz, us, p), p + sz[p] \in DOMAIN sz => p + sz[p] \in us /\ FootAt(m, p + sz[p]) = sz[p]
  PROVE  Laid(m, sz, us \ {p}, o \cup ({p, p + sz[p]} \cap DOMAIN sz), hi)
<1>. DEFINE x == p + sz[p]
            u == us \ {p}
            w == o \cup ({p, x} \cap DOMAIN sz)
<1>1. Tiling(sz, hi) /\ us \subseteq DOMAIN sz /\ Words(m, sz, us, o) /\ Merged(sz, us)
      /\ o \subseteq DOMAIN sz
  BY DEF Laid
<1>2. x # p
  BY <1>1 DEF Tiling
<1>. HIDE DEF x
<1>3. ASSUME NEW q \in DOMAIN sz \ w PROVE HeadIs(m, q, sz[q], q \in u, AfterUsed(sz, u, q))
  <2>1. p # q /\ q # x /\ q \notin o /\ q \in DOMAIN sz
    BY <1>1
  <2>2. HeadIs(m, q, sz[q], q \in us, AfterUsed(sz, us, q))
    BY <1>1, <2>1 DEF Words
  <2>3. AfterUsed(sz, us, q) <=> AfterUsed(sz, u, q)
    BY <2>1 DEF AfterUsed, x
  <2>. QED BY <2>1, <2>2, <2>3 DEF HeadIs
<1>4. ASSUME NEW q \in DOMAIN sz \ u, q + sz[q] \in DOMAIN sz
      PROVE  FootAt(m, q + sz[q]) = sz[q] /\ q + sz[q] \in u
  <2>1. CASE q = p
    BY <2>1, <1>2, <1>4 DEF x
  <2>2. CASE q # p
    <3>1. q \in DOMAIN sz \ us
      BY <2>2
    <3>2. q + sz[q] # p
      BY <3>1 DEF AfterUsed
    <3>. QED BY <3>1, <3>2, <1>4, <1>1 DEF Words, Merged
  <2>. QED BY <2>1, <2>2
<1>5. Words(m, sz, u, w) /\ Merged(sz, u)
  BY <1>3, <1>4 DEF Words, Merged
<1>6. u \subseteq DOMAIN sz /\ w \subseteq DOMAIN sz
  BY <1>1
<1>7. Laid(m, sz, u, w, hi)
  BY <1>1, <1>5, <1>6 DEF Laid
<1>. QED BY <1>7 DEF x

(* A chunk in use cut in two, both heads yet to be written.                *)
LEMMA LaidSplitOpen ==
  ASSUME NEW m, NEW sz, NEW us, NEW o, NEW hi, Laid(m, sz, us, o, hi), NEW p, p \in us,
         NEW nb \in Nat, 0 < nb, nb < sz[p], nb % 8 = 0
  PROVE  Laid(m, Split(sz, p, nb), us \cup {p + nb}, o \cup {p, p + nb}, hi)
<1>. DEFINE r == p + nb
            z == Split(sz, p, nb)
            k == sz[p] - nb
            u == us \cup {r}
            w == o \cup {p, r}
<1>1. Tiling(sz, hi) /\ us \subseteq DOMAIN sz /\ Words(m, sz, us, o) /\ Merged(sz, us)
      /\ o \subseteq DOMAIN sz
  BY DEF Laid
<1>2. p \in DOMAIN sz /\ p \in Nat /\ sz[p] \in Nat /\ r # p
  BY <1>1 DEF Tiling
<1>3. /\ r \notin DOMAIN sz /\ DOMAIN z = DOMAIN sz \cup {r} /\ z[p] = nb /\ z[r] = k
      /\ \A q \in DOMAIN sz : q # p => z[q] = sz[q]
  <2>1. r \notin DOMAIN sz
    BY <1>1, <1>2 DEF Tiling
  <2>. HIDE DEF r
  <2>2. z = [q \in DOMAIN sz \cup {r} |-> IF q = p THEN nb ELSE IF q = r THEN k ELSE sz[q]]
    BY DEF Split, r
  <2>. HIDE DEF z, k
  <2>. QED BY <1>2, <2>1, <2>2
<1>4. Tiling(z, hi)
  BY <1>1, <1>2, TilingSplit
<1>5. r + k = p + sz[p] /\ p + nb = r
  BY <1>2
<1>6. \A q \in DOMAIN sz : q # p => q + sz[q] # r
  <2>. TAKE q \in DOMAIN sz
  <2>. HAVE q # p
  <2>1. q + sz[q] = hi \/ q + sz[q] \in DOMAIN sz
    BY <1>1 DEF Tiling
  <2>2. r < hi /\ hi \in Nat
    <3>1. p + sz[p] <= hi /\ hi \in Nat
      BY <1>1, <1>2 DEF Tiling
    <3>. QED BY <3>1, <1>2
  <2>. QED BY <2>1, <2>2, <1>3, <1>2
<1>. HIDE DEF r, z, k
<1>7. ASSUME NEW q \in DOMAIN z \ w PROVE HeadIs(m, q, z[q], q \in u, AfterUsed(z, u, q))
  <2>1. p # q /\ q # r /\ q \notin o /\ q \in DOMAIN sz /\ z[q] = sz[q]
    BY <1>1, <1>3
  <2>2. HeadIs(m, q, sz[q], q \in us, AfterUsed(sz, us, q))
    BY <1>1, <2>1 DEF Words
  <2>3. ASSUME AfterUsed(sz, us, q) PROVE AfterUsed(z, u, q)
    BY <2>3, <1>3, <1>2 DEF AfterUsed
  <2>4. ASSUME AfterUsed(z, u, q) PROVE AfterUsed(sz, us, q)
    <3>1. SUFFICES ASSUME NEW s \in DOMAIN sz, s + sz[s] = q, s # p PROVE s \in us
      BY DEF AfterUsed
    <3>. QED BY <2>4, <3>1, <1>3 DEF AfterUsed
  <2>. QED BY <2>1, <2>2, <2>3, <2>4 DEF HeadIs
<1>8. ASSUME NEW q \in DOMAIN z \ u, q + z[q] \in DOMAIN z
      PROVE  FootAt(m, q + z[q]) = z[q] /\ q + z[q] \in u
  <2>1. q \in DOMAIN sz \ us /\ q # p /\ z[q] = sz[q]
    BY <1>3
  <2>2. q + sz[q] # r
    BY <1>6, <2>1
  <2>. QED BY <2>1, <2>2, <1>1, <1>3, <1>8 DEF Words, Merged
<1>9. Words(m, z, u, w) /\ Merged(z, u)
  BY <1>7, <1>8 DEF Words, Merged
<1>10. u \subseteq DOMAIN z /\ w \subseteq DOMAIN z
  BY <1>1, <1>2, <1>3
<1>11. Laid(m, z, u, w, hi)
  BY <1>4, <1>9, <1>10 DEF Laid
<1>. QED BY <1>11 DEF z, r

(* Two chunks in use joined, the head yet to be written.                   *)
LEMMA LaidJoinOpen ==
  ASSUME NEW m, NEW sz, NEW us, NEW o, NEW hi, Laid(m, sz, us, o, hi), NEW p, p \in us,
         p + sz[p] \in us
  PROVE  Laid(m, Join(sz, p), us \ {p + sz[p]}, (o \cup {p}) \ {p + sz[p]}, hi)
<1>. DEFINE x == p + sz[p]
            z == Join(sz, p)
            u == us \ {x}
            w == (o \cup {p}) \ {x}
<1>1. Tiling(sz, hi) /\ us \subseteq DOMAIN sz /\ Words(m, sz, us, o) /\ Merged(sz, us)
      /\ o \subseteq DOMAIN sz /\ p \in DOMAIN sz /\ x \in DOMAIN sz
  BY DEF Laid
<1>2. /\ DOMAIN z = DOMAIN sz \ {x} /\ p \in DOMAIN z /\ p # x
      /\ z[p] = sz[p] + sz[x] /\ p + z[p] = x + sz[x]
      /\ \A q \in DOMAIN z : q # p => z[q] = sz[q]
  BY <1>1, JoinFacts
<1>3. Tiling(z, hi)
  BY <1>1, TilingJoin
<1>4. \A q \in DOMAIN sz : q + sz[q] = x => q = p
  BY <1>1, TilingUnique
<1>. HIDE DEF x, z
<1>5. ASSUME NEW q \in DOMAIN z \ w PROVE HeadIs(m, q, z[q], q \in u, AfterUsed(z, u, q))
  <2>1. p # q /\ q # x /\ q \notin o /\ q \in DOMAIN sz /\ z[q] = sz[q]
    BY <1>1, <1>2
  <2>2. HeadIs(m, q, sz[q], q \in us, AfterUsed(sz, us, q))
    BY <1>1, <2>1 DEF Words
  <2>3. ASSUME AfterUsed(sz, us, q) PROVE AfterUsed(z, u, q)
    BY <2>3, <1>2 DEF AfterUsed
  <2>4. ASSUME AfterUsed(z, u, q) PROVE AfterUsed(sz, us, q)
    <3>1. SUFFICES ASSUME NEW s \in DOMAIN sz, s + sz[s] = q, s # p, s # x PROVE s \in us
      BY <1>1 DEF AfterUsed, x
    <3>. QED BY <2>4, <3>1, <1>2 DEF AfterUsed
  <2>. QED BY <2>1, <2>2, <2>3, <2>4 DEF HeadIs
<1>6. ASSUME NEW q \in DOMAIN z \ u, q + z[q] \in DOMAIN z
      PROVE  FootAt(m, q + z[q]) = z[q] /\ q + z[q] \in u
  <2>1. q \in DOMAIN sz \ us /\ q # p /\ q # x /\ z[q] = sz[q] /\ q + sz[q] # x
    BY <1>1, <1>2, <1>4 DEF x
  <2>. QED BY <2>1, <1>1, <1>2, <1>6 DEF Words, Merged
<1>7. Words(m, z, u, w) /\ Merged(z, u)
  BY <1>5, <1>6 DEF Words, Merged
<1>8. u \subseteq DOMAIN z /\ w \subseteq DOMAIN z
  BY <1>1, <1>2
<1>9. Laid(m, z, u, w, hi)
  BY <1>3, <1>7, <1>8 DEF Laid
<1>. QED BY <1>9 DEF z, x

-----------------------------------------------------------------------------
(* The heap: its chunks, the top, the victim and the bins together.        *)

(* Where the chunks end: the segment less the foot that closes it.         *)
Ends(m) == HeapBase + m.brk - 40
(* The fields that change when a chunk is taken or freed.                  *)
HeapFields == BinFields \cup {"head", "foot", "dv", "dvsize", "top", "topsize"}

(* What holds of the other fields, also before the first allocation.       *)
Limits == {b[1] : b \in Boots}
Frame(m) ==
  /\ DOMAIN m = Fields /\ m.limit \in Limits
  /\ m.limit \in Nat /\ HeapBase + m.limit <= HALF_MAX_SIZE_T
  /\ m.brk \in 0 .. m.limit /\ m.contiguous \in BOOLEAN
  /\ m.granularity \in {2^k : k \in 4 .. SIZE_T_BITSIZE - 1} /\ m.granularity % PageSize = 0
  /\ m.trim_threshold \in 0 .. MAX_SIZE_T /\ m.trim_check \in 0 .. MAX_SIZE_T
  /\ m.footprint = m.brk /\ m.max_footprint \in Nat /\ m.max_footprint >= m.brk
  /\ m.stray = FALSE /\ m.aborted = FALSE

Segment(m) == m.seg = [base |-> HeapBase, size |-> m.brk] /\ m.least_addr = HeapBase

Pieces(m, sz, us) ==
  /\ \A p \in DOMAIN sz : p # m.top => sz[p] >= 16
  /\ m.top \in DOMAIN sz \ us /\ m.topsize = sz[m.top] /\ m.top + m.topsize = Ends(m)

Victim(m, sz, us, o) ==
  \/ m.dv = 0 /\ m.dvsize = 0
  \/ m.dv \in DOMAIN sz \ us /\ m.dv # m.top /\ m.dvsize = sz[m.dv]
  \/ m.dv \in o /\ m.dv \in us

InBins(m, sz, us) == [p \in DOMAIN sz \ (us \cup {m.top, m.dv}) |-> sz[p]]

Heap(m, sz, us, o) ==
  /\ Frame(m) /\ Segment(m) /\ Laid(m, sz, us, o, Ends(m)) /\ Pieces(m, sz, us)
  /\ Victim(m, sz, us, o) /\ Bins(m, InBins(m, sz, us))

Kept(sz, us, z) == \A p \in us : p \in DOMAIN z /\ z[p] = sz[p]

(* One change after another.                                               *)
LEMMA SameButJoin ==
  ASSUME NEW m, NEW n, NEW k, NEW X, NEW Y, SameBut(m, n, X), SameBut(n, k, Y)
  PROVE  SameBut(m, k, X \cup Y)
  BY DEF SameBut

(* A change seen as a larger one.                                          *)
LEMMA SameButMore ==
  ASSUME NEW m, NEW n, NEW X, NEW Y, SameBut(m, n, X), X \subseteq Y
  PROVE  SameBut(m, n, Y)
  BY DEF SameBut

(* A change of the heap's fields keeps the parameters and the segment.     *)
LEMMA FrameSame ==
  ASSUME NEW m, NEW n, Frame(m), SameBut(m, n, HeapFields)
  PROVE  /\ Frame(n) /\ n.brk = m.brk /\ n.seg = m.seg /\ n.least_addr = m.least_addr
         /\ Ends(n) = Ends(m) /\ (Segment(m) => Segment(n))
<1>1. /\ DOMAIN n = Fields /\ n.limit = m.limit /\ n.brk = m.brk /\ n.contiguous = m.contiguous
      /\ n.granularity = m.granularity /\ n.trim_threshold = m.trim_threshold
      /\ n.trim_check = m.trim_check /\ n.footprint = m.footprint /\ n.max_footprint = m.max_footprint
      /\ n.stray = m.stray /\ n.aborted = m.aborted /\ n.seg = m.seg /\ n.least_addr = m.least_addr
  BY DEF SameBut, HeapFields, BinFields, Fields
<1>. QED BY <1>1 DEF Frame, Ends, Segment

(* What the parameters and the segment give.                               *)
LEMMA FrameFacts ==
  ASSUME NEW m, Frame(m)
  PROVE  /\ DOMAIN m = Fields /\ HeapBase \in Nat /\ HeapBase > 0 /\ HeapBase % 8 = 0 /\ HeapBase >= 8
         /\ m.brk \in Nat /\ HeapBase + m.brk <= HALF_MAX_SIZE_T /\ m.limit \in Nat /\ m.brk <= m.limit
         /\ HeapBase + m.limit <= HALF_MAX_SIZE_T
         /\ m.granularity \in Nat /\ m.granularity >= 16 /\ m.granularity % 8 = 0
         /\ m.granularity <= HALF_MAX_SIZE_T + 1 /\ \E q \in Nat : WordRange = q * m.granularity
<1>1. HeapBase \in Nat /\ HeapBase > 0 /\ HeapBase % 8 = 0 /\ HeapBase >= 8
  BY MallocAssumption, SizeFacts
<1>2. PICK k \in 4 .. SIZE_T_BITSIZE - 1 : m.granularity = 2^k
  BY DEF Frame
<1>3. SIZE_T_BITSIZE \in 12 .. 32
  BY MallocAssumption
<1>4. k \in 0 .. 33 /\ 4 \in 0 .. 33 /\ SIZE_T_BITSIZE \in 0 .. 33 /\ SIZE_T_BITSIZE - 1 \in 0 .. 33
      /\ 4 <= k /\ k <= SIZE_T_BITSIZE /\ k <= SIZE_T_BITSIZE - 1
  BY <1>3
<1>5. 2^4 = 16
  OBVIOUS
<1>6. 2^k \in Nat /\ 2^4 <= 2^k /\ \E q \in Nat : 2^k = q * 2^4
  BY <1>4, PowerMultiple, Zenon
<1>7. \E q \in Nat : 2^SIZE_T_BITSIZE = q * 2^k
  BY <1>4, PowerMultiple, Zenon
<1>8. 2^k <= 2^(SIZE_T_BITSIZE - 1)
  <2>1. PICK j \in 0 .. 33 : j = SIZE_T_BITSIZE - 1
    BY <1>4
  <2>2. 2^k <= 2^j
    BY <1>4, <2>1, PowerMultiple, Zenon
  <2>. QED BY <2>1, <2>2
<1>9. m.granularity \in Nat /\ m.granularity >= 16 /\ m.granularity % 8 = 0
  <2>1. PICK q \in Nat : m.granularity = q * 16
    BY <1>2, <1>5, <1>6
  <2>2. m.granularity \in Nat /\ m.granularity >= 16
    BY <1>2, <1>5, <1>6
  <2>. QED BY <2>1, <2>2
<1>10. m.granularity <= HALF_MAX_SIZE_T + 1
  BY <1>2, <1>8, WordFacts
<1>11. \E q \in Nat : WordRange = q * m.granularity
  BY <1>2, <1>7 DEF WordRange
<1>12. DOMAIN m = Fields /\ m.brk \in Nat /\ m.limit \in Nat /\ m.brk <= m.limit
       /\ HeapBase + m.limit <= HALF_MAX_SIZE_T
  BY DEF Frame
<1>13. HeapBase + m.brk <= HALF_MAX_SIZE_T
  BY <1>1, <1>12, WordFacts
<1>. QED BY <1>1, <1>9, <1>10, <1>11, <1>12, <1>13

(* What is known of a chunk of the heap.                                   *)
LEMMA HeapChunk ==
  ASSUME NEW m, NEW sz, NEW us, NEW o, Heap(m, sz, us, o), NEW p \in DOMAIN sz
  PROVE  /\ p \in Nat /\ p >= HeapBase /\ p >= 8 /\ p % 8 = 0 /\ sz[p] \in Nat /\ sz[p] > 0 /\ sz[p] % 8 = 0
         /\ p + sz[p] <= Ends(m) /\ Ends(m) \in Nat /\ Ends(m) < HALF_MAX_SIZE_T /\ Ends(m) \notin DOMAIN sz
         /\ p # m.top => Sized(sz[p]) /\ p + sz[p] \in DOMAIN sz /\ p + sz[p] # Ends(m)
         /\ p = m.top <=> p + sz[p] = Ends(m)
         /\ p + sz[p] # p
<1>1. Frame(m) /\ Tiling(sz, Ends(m)) /\ Pieces(m, sz, us)
  BY DEF Heap, Laid
<1>2. /\ p \in Nat /\ p >= HeapBase /\ p % 8 = 0 /\ sz[p] \in Nat /\ sz[p] > 0 /\ sz[p] % 8 = 0
      /\ p + sz[p] <= Ends(m) /\ Ends(m) \in Nat /\ (p + sz[p] = Ends(m) \/ p + sz[p] \in DOMAIN sz)
  BY <1>1 DEF Tiling
<1>3. HeapBase >= 8 /\ HeapBase \in Nat /\ Ends(m) < HALF_MAX_SIZE_T
  BY <1>1, FrameFacts, WordFacts DEF Ends
<1>4. Ends(m) \notin DOMAIN sz
  BY <1>1 DEF Tiling
<1>5. p = m.top <=> p + sz[p] = Ends(m)
  <2>1. m.top \in DOMAIN sz /\ m.top + sz[m.top] = Ends(m)
    BY <1>1 DEF Pieces
  <2>. QED BY <2>1, <1>1, TilingUnique
<1>6. p # m.top => Sized(sz[p])
  <2>1. sz[p] < WordRange
    BY <1>2, <1>3, WordFacts
  <2>. QED BY <2>1, <1>1, <1>2 DEF Pieces, Sized
<1>. QED BY <1>2, <1>3, <1>4, <1>5, <1>6

(* What a chunk's head says.                                               *)
LEMMA HeapHead ==
  ASSUME NEW m, NEW sz, NEW us, NEW o, Heap(m, sz, us, o), NEW p \in DOMAIN sz, p \notin o
  PROVE  /\ p \in DOMAIN m.head /\ chunksize(m, p) = sz[p]
         /\ cinuse(m, p) \in BOOLEAN /\ pinuse(m, p) \in BOOLEAN
         /\ (cinuse(m, p) <=> p \in us) /\ (pinuse(m, p) <=> AfterUsed(sz, us, p))
<1>1. HeadIs(m, p, sz[p], p \in us, AfterUsed(sz, us, p))
  BY DEF Heap, Laid, Words
<1>2. HeadAt(m, p).cinuse \in BOOLEAN /\ HeadAt(m, p).pinuse \in BOOLEAN
  BY <1>1 DEF HeadIs, HeadType
<1>. QED BY <1>1, <1>2 DEF HeadIs, cinuse, pinuse

(* The chunks in use, and the top that is never one of them.               *)
LEMMA HeapUsed ==
  ASSUME NEW m, NEW sz, NEW us, NEW o, Heap(m, sz, us, o)
  PROVE  /\ us \subseteq DOMAIN sz /\ m.top \in DOMAIN sz \ us /\ 0 \notin DOMAIN sz /\ o \subseteq DOMAIN sz
         /\ \A p \in us : p # m.top
<1>1. us \subseteq DOMAIN sz /\ m.top \in DOMAIN sz \ us /\ o \subseteq DOMAIN sz
  BY DEF Heap, Laid, Pieces
<1>2. 0 \notin DOMAIN sz
  BY HeapChunk
<1>. QED BY <1>1, <1>2

(* The parts of a heap put together again.                                 *)
LEMMA HeapMade ==
  ASSUME NEW m, NEW sz, NEW us, NEW o, Frame(m), Segment(m), Laid(m, sz, us, o, Ends(m)),
         Pieces(m, sz, us), Victim(m, sz, us, o), NEW F, Bins(m, F),
         DOMAIN F = DOMAIN sz \ (us \cup {m.top, m.dv}), \A p \in DOMAIN F : F[p] = sz[p],
         F = [p \in DOMAIN F |-> F[p]]
  PROVE  Heap(m, sz, us, o)
<1>1. F = InBins(m, sz, us)
  BY DEF InBins
<1>. QED BY <1>1 DEF Heap

-----------------------------------------------------------------------------
(* What the routines that write heads and feet do.                         *)

(* What PutPinuse does: the head of p says anew whether the chunk before   *)
(* it is in use, and nothing else changes.                                 *)
LEMMA PutPinuseFacts ==
  ASSUME NEW m, DOMAIN m = Fields, NEW p, NEW i
  PROVE  LET n == PutPinuse(m, p, i)
         IN /\ SameBut(m, n, {"head"}) /\ NewHead(n, p, chunksize(m, p), cinuse(m, p), i)
            /\ OtherHeads(m, n, {p}) /\ OtherFeet(m, n, {}) /\ n.foot = m.foot
<1>. DEFINE n == PutPinuse(m, p, i)
<1>1. SameBut(m, n, {"head"}) /\ NewHead(n, p, chunksize(m, p), cinuse(m, p), i)
      /\ OtherHeads(m, n, {p}) /\ OtherFeet(m, n, {})
  BY PutHeadFacts DEF PutPinuse
<1>2. n.foot = m.foot
  BY <1>1 DEF SameBut, Fields
<1>. QED BY <1>1, <1>2

(* Heads written one after another.                                        *)
LEMMA HeadsJoin ==
  ASSUME NEW m, NEW n, NEW k, NEW P, NEW Q, OtherHeads(m, n, P), OtherHeads(n, k, Q)
  PROVE  OtherHeads(m, k, P \cup Q)
  BY DEF OtherHeads

(* Feet written one after another.                                         *)
LEMMA FeetJoin ==
  ASSUME NEW m, NEW n, NEW k, NEW P, NEW Q, OtherFeet(m, n, P), OtherFeet(n, k, Q)
  PROVE  OtherFeet(m, k, P \cup Q)
  BY DEF OtherFeet

(* A head just written stays when others are.                              *)
LEMMA HeadStays ==
  ASSUME NEW m, NEW n, NEW P, OtherHeads(m, n, P), NEW p, p \notin P, NEW s, NEW c, NEW i,
         NewHead(m, p, s, c, i)
  PROVE  NewHead(n, p, s, c, i)
  BY DEF OtherHeads, NewHead

(* What set_inuse writes.                                                  *)
LEMMA SetInuseFacts ==
  ASSUME NEW m, DOMAIN m = Fields, NEW p, NEW s, p + s # p
  PROVE  LET n == set_inuse(m, p, s)
             x == p + s
         IN /\ SameBut(m, n, {"head"}) /\ n.foot = m.foot /\ OtherFeet(m, n, {})
            /\ NewHead(n, p, s, TRUE, pinuse(m, p)) /\ NewHead(n, x, chunksize(m, x), cinuse(m, x), TRUE)
            /\ OtherHeads(m, n, {p, x})
<1>. DEFINE x == p + s
            a == PutHead(m, p, s, TRUE, pinuse(m, p))
            n == PutPinuse(a, x, TRUE)
<1>1. SameBut(m, a, {"head"}) /\ NewHead(a, p, s, TRUE, pinuse(m, p)) /\ OtherHeads(m, a, {p})
      /\ OtherFeet(m, a, {})
  BY PutHeadFacts
<1>. HIDE DEF a
<1>2. DOMAIN a = Fields /\ a.foot = m.foot
  BY <1>1 DEF SameBut, Fields
<1>3. SameBut(a, n, {"head"}) /\ NewHead(n, x, chunksize(a, x), cinuse(a, x), TRUE)
      /\ OtherHeads(a, n, {x}) /\ OtherFeet(a, n, {}) /\ n.foot = a.foot
  BY <1>2, PutPinuseFacts
<1>. HIDE DEF n
<1>4. chunksize(a, x) = chunksize(m, x) /\ cinuse(a, x) = cinuse(m, x)
  BY <1>1, OtherHead
<1>5. OtherHeads(m, n, {p, x})
  BY <1>1, <1>3 DEF OtherHeads
<1>6. NewHead(n, p, s, TRUE, pinuse(m, p))
  BY <1>1, <1>3 DEF OtherHeads, NewHead
<1>7. SameBut(m, n, {"head"}) /\ OtherFeet(m, n, {})
  BY <1>1, <1>3 DEF SameBut, OtherFeet
<1>. QED BY <1>2, <1>3, <1>4, <1>5, <1>6, <1>7 DEF set_inuse, n, a

(* What set_inuse_and_pinuse writes.                                       *)
LEMMA SetInuseAndPinuseFacts ==
  ASSUME NEW m, DOMAIN m = Fields, NEW p, NEW s, p + s # p
  PROVE  LET n == set_inuse_and_pinuse(m, p, s)
             x == p + s
         IN /\ SameBut(m, n, {"head"}) /\ n.foot = m.foot /\ OtherFeet(m, n, {})
            /\ NewHead(n, p, s, TRUE, TRUE) /\ NewHead(n, x, chunksize(m, x), cinuse(m, x), TRUE)
            /\ OtherHeads(m, n, {p, x})
<1>. DEFINE x == p + s
            a == PutHead(m, p, s, TRUE, TRUE)
            n == PutPinuse(a, x, TRUE)
<1>1. SameBut(m, a, {"head"}) /\ NewHead(a, p, s, TRUE, TRUE) /\ OtherHeads(m, a, {p})
      /\ OtherFeet(m, a, {})
  BY PutHeadFacts
<1>. HIDE DEF a
<1>2. DOMAIN a = Fields /\ a.foot = m.foot
  BY <1>1 DEF SameBut, Fields
<1>3. SameBut(a, n, {"head"}) /\ NewHead(n, x, chunksize(a, x), cinuse(a, x), TRUE)
      /\ OtherHeads(a, n, {x}) /\ OtherFeet(a, n, {}) /\ n.foot = a.foot
  BY <1>2, PutPinuseFacts
<1>. HIDE DEF n
<1>4. chunksize(a, x) = chunksize(m, x) /\ cinuse(a, x) = cinuse(m, x)
  BY <1>1, OtherHead
<1>5. OtherHeads(m, n, {p, x})
  BY <1>1, <1>3 DEF OtherHeads
<1>6. NewHead(n, p, s, TRUE, TRUE)
  BY <1>1, <1>3 DEF OtherHeads, NewHead
<1>7. SameBut(m, n, {"head"}) /\ OtherFeet(m, n, {})
  BY <1>1, <1>3 DEF SameBut, OtherFeet
<1>. QED BY <1>2, <1>3, <1>4, <1>5, <1>6, <1>7 DEF set_inuse_and_pinuse, n, a

(* What set_size_and_pinuse_of_free_chunk writes.                          *)
LEMMA SetFreeFacts ==
  ASSUME NEW m, DOMAIN m = Fields, NEW p \in Nat, NEW s \in Nat
  PROVE  LET n == set_size_and_pinuse_of_free_chunk(m, p, s)
         IN /\ SameBut(m, n, {"head", "foot"}) /\ NewHead(n, p, s, FALSE, TRUE) /\ OtherHeads(m, n, {p})
            /\ OtherFeet(m, n, {p + s}) /\ FootAt(n, p + s) = s
<1>. DEFINE a == PutHead(m, p, s, FALSE, TRUE)
            n == set_foot(a, p, s)
<1>1. SameBut(m, a, {"head"}) /\ NewHead(a, p, s, FALSE, TRUE) /\ OtherHeads(m, a, {p})
      /\ OtherFeet(m, a, {})
  BY PutHeadFacts
<1>. HIDE DEF a
<1>2. DOMAIN a = Fields
  BY <1>1 DEF SameBut
<1>3. SameBut(a, n, {"foot"}) /\ FootAt(n, p + s) = s /\ OtherFeet(a, n, {p + s}) /\ n.head = a.head
  BY <1>2, SetFootFacts
<1>. HIDE DEF n
<1>4. NewHead(n, p, s, FALSE, TRUE) /\ OtherHeads(m, n, {p})
  BY <1>1, <1>3 DEF NewHead, OtherHeads, HeadAt
<1>5. SameBut(m, n, {"head", "foot"}) /\ OtherFeet(m, n, {p + s})
  BY <1>1, <1>3 DEF SameBut, OtherFeet
<1>. QED BY <1>3, <1>4, <1>5 DEF set_size_and_pinuse_of_free_chunk, n, a

(* What set_free_with_pinuse writes.                                       *)
LEMMA SetFreeWithPinuseFacts ==
  ASSUME NEW m, DOMAIN m = Fields, NEW p \in Nat, NEW s \in Nat, s # 0
  PROVE  LET x == p + s
             n == set_free_with_pinuse(m, p, s, x)
         IN /\ SameBut(m, n, {"head", "foot"}) /\ NewHead(n, p, s, FALSE, TRUE)
            /\ NewHead(n, x, chunksize(m, x), cinuse(m, x), FALSE)
            /\ OtherHeads(m, n, {p, x}) /\ OtherFeet(m, n, {x}) /\ FootAt(n, x) = s
<1>. DEFINE x == p + s
            a == PutPinuse(m, x, FALSE)
            n == set_size_and_pinuse_of_free_chunk(a, p, s)
<1>1. SameBut(m, a, {"head"}) /\ NewHead(a, x, chunksize(m, x), cinuse(m, x), FALSE)
      /\ OtherHeads(m, a, {x}) /\ OtherFeet(m, a, {})
  BY PutPinuseFacts
<1>. HIDE DEF a
<1>2. DOMAIN a = Fields
  BY <1>1 DEF SameBut
<1>3. SameBut(a, n, {"head", "foot"}) /\ NewHead(n, p, s, FALSE, TRUE) /\ OtherHeads(a, n, {p})
      /\ OtherFeet(a, n, {x}) /\ FootAt(n, x) = s
  BY <1>2, SetFreeFacts
<1>. HIDE DEF n
<1>4. x # p
  OBVIOUS
<1>. HIDE DEF x
<1>5. NewHead(n, x, chunksize(m, x), cinuse(m, x), FALSE)
  BY <1>1, <1>3, <1>4 DEF OtherHeads, NewHead
<1>6. OtherHeads(m, n, {p, x})
  BY <1>1, <1>3 DEF OtherHeads
<1>7. SameBut(m, n, {"head", "foot"}) /\ OtherFeet(m, n, {x})
  BY <1>1, <1>3 DEF SameBut, OtherFeet
<1>. QED BY <1>3, <1>5, <1>6, <1>7 DEF set_free_with_pinuse, n, a, x

(* A map with one more element is the map with it.                         *)
LEMMA PutIs ==
  ASSUME NEW F, NEW x, NEW s
  PROVE  LET G == Put(F, x, s)
         IN /\ DOMAIN G = DOMAIN F \cup {x} /\ G[x] = s /\ \A y \in DOMAIN F \ {x} : G[y] = F[y]
            /\ G = [y \in DOMAIN G |-> G[y]]
  BY DEF Put

(* A map less one element is the map without it.                           *)
LEMMA WithoutIs ==
  ASSUME NEW F, NEW x
  PROVE  LET G == Without(F, x)
         IN /\ DOMAIN G = DOMAIN F \ {x} /\ \A y \in DOMAIN F \ {x} : G[y] = F[y]
            /\ G = [y \in DOMAIN G |-> G[y]]
  BY DEF Without

(* The chunks that the bins should index.                                  *)
LEMMA InBinsIs ==
  ASSUME NEW m, NEW sz, NEW us
  PROVE  LET F == InBins(m, sz, us)
         IN /\ DOMAIN F = DOMAIN sz \ (us \cup {m.top, m.dv}) /\ \A p \in DOMAIN F : F[p] = sz[p]
            /\ F = [p \in DOMAIN F |-> F[p]]
  BY DEF InBins

(* The chunk after one that is not the top chunk.                          *)
LEMMA HeapNext ==
  ASSUME NEW m, NEW sz, NEW us, NEW o, Heap(m, sz, us, o), NEW p \in DOMAIN sz, p # m.top,
         p + sz[p] \notin o
  PROVE  /\ p + sz[p] \in DOMAIN sz /\ p + sz[p] # p /\ p + sz[p] \in DOMAIN m.head
         /\ chunksize(m, p + sz[p]) = sz[p + sz[p]]
         /\ (cinuse(m, p + sz[p]) <=> p + sz[p] \in us) /\ cinuse(m, p + sz[p]) \in BOOLEAN
         /\ (pinuse(m, p + sz[p]) <=> p \in us)
<1>. DEFINE x == p + sz[p]
<1>1. x \in DOMAIN sz /\ x # p
  BY HeapChunk
<1>2. \A q \in DOMAIN sz : q + sz[q] = x => q = p
  <2>1. Tiling(sz, Ends(m))
    BY DEF Heap, Laid
  <2>. QED BY <2>1, TilingUnique
<1>3. AfterUsed(sz, us, x) <=> p \in us
  BY <1>2 DEF AfterUsed
<1>. HIDE DEF x
<1>4. /\ x \in DOMAIN m.head /\ chunksize(m, x) = sz[x]
      /\ cinuse(m, x) \in BOOLEAN /\ pinuse(m, x) \in BOOLEAN
      /\ (cinuse(m, x) <=> x \in us) /\ (pinuse(m, x) <=> AfterUsed(sz, us, x))
  BY <1>1, HeapHead DEF x
<1>. QED BY <1>1, <1>3, <1>4 DEF x

-----------------------------------------------------------------------------
(* Freeing a chunk whose predecessor is in use.                            *)

(* A freed chunk none of whose neighbours is free is binned as it is.      *)
LEMMA FreeAlone ==
  ASSUME NEW m, NEW sz, NEW us, NEW p \in us, Heap(m, sz, us, {p}), AfterUsed(sz, us, p),
         p + sz[p] \in us, m.dv # p
  PROVE  LET n == insert_chunk(set_free_with_pinuse(m, p, sz[p], p + sz[p]), p, sz[p])
         IN Heap(n, sz, us \ {p}, {})
<1>. DEFINE s == sz[p]
            x == p + s
            a == set_free_with_pinuse(m, p, s, x)
            n == insert_chunk(a, p, s)
            F == InBins(m, sz, us)
            G == Put(F, p, s)
            u == us \ {p}
<1>1. /\ Frame(m) /\ Segment(m) /\ Laid(m, sz, us, {p}, Ends(m)) /\ Pieces(m, sz, us)
      /\ Victim(m, sz, us, {p}) /\ Bins(m, F) /\ DOMAIN m = Fields
  BY FrameFacts DEF Heap
<1>2. p \in DOMAIN sz /\ p # m.top /\ us \subseteq DOMAIN sz
  BY HeapUsed
<1>3. p \in Nat /\ s \in Nat /\ s # 0 /\ Sized(s) /\ x # p
  BY <1>2, HeapChunk
<1>4. /\ SameBut(m, a, {"head", "foot"}) /\ NewHead(a, p, s, FALSE, TRUE)
      /\ NewHead(a, x, chunksize(m, x), cinuse(m, x), FALSE)
      /\ OtherHeads(m, a, {p, x}) /\ OtherFeet(m, a, {x}) /\ FootAt(a, x) = s
  BY <1>1, <1>3, SetFreeWithPinuseFacts
<1>. HIDE DEF a
<1>5. Laid(a, sz, u, {}, Ends(m))
  BY <1>1, <1>4, LaidFree
<1>6. Bins(a, F)
  <2>1. {"head", "foot"} \cap BinFields = {}
    BY DEF BinFields
  <2>. QED BY <2>1, <1>1, <1>4, BinsSame
<1>7. DOMAIN F = DOMAIN sz \ (us \cup {m.top, m.dv}) /\ \A q \in DOMAIN F : F[q] = sz[q]
  BY DEF InBins
<1>. HIDE DEF F
<1>8. Bins(n, G) /\ SameBut(a, n, BinFields)
  <2>1. DOMAIN a = Fields
    BY <1>4 DEF SameBut
  <2>2. p \notin DOMAIN F
    BY <1>7
  <2>. QED BY <1>3, <1>6, <2>1, <2>2, BinsInsert
<1>. HIDE DEF n
<1>9. n.head = a.head /\ n.foot = a.foot
  BY <1>8 DEF SameBut, BinFields, Fields
<1>10. SameBut(m, n, BinFields \cup {"head", "foot"})
  BY <1>4, <1>8 DEF SameBut
<1>11. n.top = m.top /\ n.topsize = m.topsize /\ n.dv = m.dv /\ n.dvsize = m.dvsize
  BY <1>10 DEF SameBut, BinFields, Fields
<1>12. Frame(n) /\ Ends(n) = Ends(m) /\ Segment(n)
  <2>1. SameBut(m, n, HeapFields)
    BY <1>10 DEF SameBut, HeapFields
  <2>. QED BY <1>1, <2>1, FrameSame
<1>13. Laid(n, sz, u, {}, Ends(n))
  BY <1>5, <1>9, <1>12, LaidSame
<1>14. Pieces(n, sz, u)
  BY <1>1, <1>11, <1>12 DEF Pieces
<1>15. Victim(n, sz, u, {})
  BY <1>1, <1>11 DEF Victim
<1>16. DOMAIN G = DOMAIN sz \ (u \cup {n.top, n.dv}) /\ \A q \in DOMAIN G : G[q] = sz[q]
  <2>1. DOMAIN G = DOMAIN F \cup {p} /\ G[p] = s /\ \A y \in DOMAIN F \ {p} : G[y] = F[y]
    BY DEF Put
  <2>. QED BY <2>1, <1>2, <1>7, <1>11
<1>17. G = [q \in DOMAIN G |-> G[q]]
  BY DEF Put
<1>. HIDE DEF G
<1>18. Heap(n, sz, u, {})
  BY <1>8, <1>12, <1>13, <1>14, <1>15, <1>16, <1>17, HeapMade
<1>. QED BY <1>18 DEF n, a

(* The designated victim freed back onto itself, between chunks in use.    *)
LEMMA FreeVictim ==
  ASSUME NEW m, NEW sz, NEW us, NEW p \in us, Heap(m, sz, us, {p}), AfterUsed(sz, us, p),
         p + sz[p] \in us, m.dv = p
  PROVE  LET n == set_free_with_pinuse([m EXCEPT !.dvsize = sz[p]], p, sz[p], p + sz[p])
         IN Heap(n, sz, us \ {p}, {})
<1>. DEFINE s == sz[p]
            x == p + s
            a == [m EXCEPT !.dvsize = s]
            n == set_free_with_pinuse(a, p, s, x)
            F == InBins(m, sz, us)
            u == us \ {p}
<1>1. /\ Frame(m) /\ Segment(m) /\ Laid(m, sz, us, {p}, Ends(m)) /\ Pieces(m, sz, us)
      /\ Bins(m, F) /\ DOMAIN m = Fields
  BY FrameFacts DEF Heap
<1>2. p \in DOMAIN sz /\ p # m.top /\ us \subseteq DOMAIN sz
  BY HeapUsed
<1>3. p \in Nat /\ s \in Nat /\ s # 0 /\ x # p
  BY <1>2, HeapChunk
<1>4. SameBut(m, a, {"dvsize"}) /\ a.dvsize = s /\ a.head = m.head /\ a.foot = m.foot /\ DOMAIN a = Fields
  BY <1>1 DEF SameBut, Fields
<1>. HIDE DEF a
<1>5. /\ SameBut(a, n, {"head", "foot"}) /\ NewHead(n, p, s, FALSE, TRUE)
      /\ NewHead(n, x, chunksize(a, x), cinuse(a, x), FALSE)
      /\ OtherHeads(a, n, {p, x}) /\ OtherFeet(a, n, {x}) /\ FootAt(n, x) = s
  BY <1>3, <1>4, SetFreeWithPinuseFacts
<1>. HIDE DEF n
<1>6. Laid(a, sz, us, {p}, Ends(m))
  BY <1>1, <1>4, LaidSame
<1>7. Laid(n, sz, u, {}, Ends(m))
  BY <1>5, <1>6, LaidFree
<1>8. SameBut(m, n, {"dvsize", "head", "foot"}) /\ n.dvsize = s
  BY <1>4, <1>5 DEF SameBut, Fields
<1>9. n.top = m.top /\ n.topsize = m.topsize /\ n.dv = m.dv
  BY <1>8 DEF SameBut, Fields
<1>10. Bins(n, F)
  <2>1. {"dvsize", "head", "foot"} \cap BinFields = {}
    BY DEF BinFields
  <2>. QED BY <2>1, <1>1, <1>8, BinsSame
<1>12. Frame(n) /\ Ends(n) = Ends(m) /\ Segment(n)
  <2>1. SameBut(m, n, HeapFields)
    BY <1>8 DEF SameBut, HeapFields
  <2>. QED BY <1>1, <2>1, FrameSame
<1>14. Pieces(n, sz, u)
  BY <1>1, <1>9, <1>12 DEF Pieces
<1>15. Victim(n, sz, u, {})
  BY <1>2, <1>8, <1>9 DEF Victim
<1>16. /\ DOMAIN F = DOMAIN sz \ (us \cup {m.top, m.dv})
       /\ \A q \in DOMAIN F : F[q] = sz[q]
       /\ F = [q \in DOMAIN F |-> F[q]]
  BY DEF InBins
<1>17. DOMAIN F = DOMAIN sz \ (u \cup {n.top, n.dv})
  BY <1>9, <1>16
<1>. HIDE DEF F
<1>18. Heap(n, sz, u, {})
  <2>1. Laid(n, sz, u, {}, Ends(n))
    BY <1>7, <1>12
  <2>. QED BY <2>1, <1>10, <1>12, <1>14, <1>15, <1>16, <1>17, HeapMade
<1>. QED BY <1>18 DEF n, a

(* A chunk before the top chunk becomes the front of it.                   *)
LEMMA FreeIntoTop ==
  ASSUME NEW m, NEW sz, NEW us, NEW p \in us, Heap(m, sz, us, {p}), AfterUsed(sz, us, p),
         p + sz[p] = m.top
  PROVE  LET n == PutHead([m EXCEPT !.top = p, !.topsize = @ + sz[p],
                                    !.dv = IF p = m.dv THEN 0 ELSE @,
                                    !.dvsize = IF p = m.dv THEN 0 ELSE @],
                          p, m.topsize + sz[p], FALSE, TRUE)
         IN Heap(n, Join(sz, p), us \ {p}, {}) /\ Kept(sz, us \ {p}, Join(sz, p))
<1>. DEFINE s == sz[p]
            x == p + s
            t == m.topsize + s
            a == [m EXCEPT !.top = p, !.topsize = @ + s,
                           !.dv = IF p = m.dv THEN 0 ELSE @,
                           !.dvsize = IF p = m.dv THEN 0 ELSE @]
            n == PutHead(a, p, t, FALSE, TRUE)
            F == InBins(m, sz, us)
            u == us \ {p}
            z == Join(sz, p)
<1>1. /\ Frame(m) /\ Segment(m) /\ Laid(m, sz, us, {p}, Ends(m)) /\ Pieces(m, sz, us)
      /\ Victim(m, sz, us, {p}) /\ Bins(m, F) /\ DOMAIN m = Fields
  BY FrameFacts DEF Heap
<1>2. p \in DOMAIN sz /\ p # m.top /\ us \subseteq DOMAIN sz /\ 0 \notin DOMAIN sz
  BY HeapUsed
<1>3. p \in Nat /\ s \in Nat /\ s # 0 /\ x # p
  BY <1>2, HeapChunk
<1>4. x = m.top /\ x \in DOMAIN sz \ us /\ m.topsize = sz[x] /\ x + sz[x] = Ends(m) /\ sz[x] \in Nat
      /\ Ends(m) \notin DOMAIN sz
  <2>1. x = m.top /\ x \in DOMAIN sz \ us /\ m.topsize = sz[x]
    BY <1>1 DEF Pieces
  <2>. QED BY <2>1, HeapChunk
<1>5. t = s + sz[x] /\ p + t = Ends(m) /\ p + (s + sz[x]) = Ends(m)
  BY <1>3, <1>4
<1>6. /\ SameBut(m, a, {"top", "topsize", "dv", "dvsize"}) /\ a.top = p /\ a.topsize = t
      /\ a.dv = (IF p = m.dv THEN 0 ELSE m.dv) /\ a.dvsize = (IF p = m.dv THEN 0 ELSE m.dvsize)
      /\ a.head = m.head /\ a.foot = m.foot /\ DOMAIN a = Fields
  BY <1>1 DEF SameBut, Fields
<1>. HIDE DEF a, t
<1>7. SameBut(a, n, {"head"}) /\ NewHead(n, p, t, FALSE, TRUE) /\ OtherHeads(a, n, {p}) /\ OtherFeet(a, n, {})
  BY <1>6, PutHeadFacts
<1>. HIDE DEF n
<1>8. Laid(a, sz, us, {p}, Ends(m))
  BY <1>1, <1>6, LaidSame
<1>9. Laid(n, z, u, {}, Ends(m))
  <2>1. OtherFeet(a, n, {p + (sz[p] + sz[p + sz[p]])})
    BY <1>7 DEF OtherFeet
  <2>2. NewHead(n, p, sz[p] + sz[p + sz[p]], FALSE, TRUE)
    BY <1>5, <1>7
  <2>3. p + (sz[p] + sz[p + sz[p]]) \notin DOMAIN sz
    BY <1>4, <1>5
  <2>4. p + sz[p] \in DOMAIN sz \ us
    BY <1>4
  <2>. QED BY <1>7, <1>8, <2>1, <2>2, <2>3, <2>4, LaidFreeJoin
<1>10. SameBut(m, n, {"head", "top", "topsize", "dv", "dvsize"})
  BY <1>6, <1>7 DEF SameBut, Fields
<1>11. n.top = p /\ n.topsize = t /\ n.dv = (IF p = m.dv THEN 0 ELSE m.dv)
       /\ n.dvsize = (IF p = m.dv THEN 0 ELSE m.dvsize)
  BY <1>6, <1>7 DEF SameBut, Fields
<1>12. Frame(n) /\ Ends(n) = Ends(m) /\ Segment(n)
  <2>1. SameBut(m, n, HeapFields)
    BY <1>10 DEF SameBut, HeapFields
  <2>. QED BY <1>1, <2>1, FrameSame
<1>13. Bins(n, F)
  <2>1. {"head", "top", "topsize", "dv", "dvsize"} \cap BinFields = {}
    BY DEF BinFields
  <2>. QED BY <2>1, <1>1, <1>10, BinsSame
<1>14. /\ DOMAIN z = DOMAIN sz \ {x} /\ p \in DOMAIN z /\ p # x /\ z[p] = s + sz[x]
       /\ \A q \in DOMAIN z : q # p => z[q] = sz[q]
  <2>1. Tiling(sz, Ends(m)) /\ p + sz[p] \in DOMAIN sz
    BY <1>1, <1>4 DEF Laid
  <2>. QED BY <2>1, <1>2, JoinFacts
<1>. HIDE DEF z
<1>15. Pieces(n, z, u)
  <2>1. \A q \in DOMAIN z : q # n.top => z[q] >= 16
    BY <1>1, <1>4, <1>11, <1>14 DEF Pieces
  <2>2. n.top \in DOMAIN z \ u /\ n.topsize = z[n.top]
    BY <1>5, <1>11, <1>14
  <2>3. n.top + n.topsize = Ends(n)
    BY <1>5, <1>11, <1>12
  <2>. QED BY <2>1, <2>2, <2>3 DEF Pieces
<1>16. Victim(n, z, u, {})
  <2>1. CASE p = m.dv
    BY <2>1, <1>11 DEF Victim
  <2>2. CASE p # m.dv
    <3>1. n.dv = m.dv /\ n.dvsize = m.dvsize
      BY <2>2, <1>11
    <3>. QED BY <2>2, <3>1, <1>1, <1>4, <1>11, <1>14 DEF Victim
  <2>. QED BY <2>1, <2>2
<1>17. /\ DOMAIN F = DOMAIN sz \ (us \cup {m.top, m.dv})
       /\ \A q \in DOMAIN F : F[q] = sz[q]
       /\ F = [q \in DOMAIN F |-> F[q]]
  BY DEF InBins
<1>18. DOMAIN F = DOMAIN z \ (u \cup {n.top, n.dv}) /\ \A q \in DOMAIN F : F[q] = z[q]
  <2>1. CASE p = m.dv
    <3>1. n.dv = 0
      BY <2>1, <1>11
    <3>. QED BY <2>1, <3>1, <1>2, <1>4, <1>11, <1>14, <1>17
  <2>2. CASE p # m.dv
    <3>1. n.dv = m.dv
      BY <2>2, <1>11
    <3>. QED BY <2>2, <3>1, <1>2, <1>4, <1>11, <1>14, <1>17
  <2>. QED BY <2>1, <2>2
<1>. HIDE DEF F
<1>19. Laid(n, z, u, {}, Ends(n))
  BY <1>9, <1>12
<1>20. Heap(n, z, u, {})
  BY <1>12, <1>13, <1>15, <1>16, <1>17, <1>18, <1>19, HeapMade
<1>21. Kept(sz, u, z)
  BY <1>2, <1>4, <1>14 DEF Kept
<1>. QED BY <1>20, <1>21 DEF n, a, z, t

(* A chunk before the designated victim becomes the front of it.           *)
LEMMA FreeIntoVictim ==
  ASSUME NEW m, NEW sz, NEW us, NEW p \in us, Heap(m, sz, us, {p}), AfterUsed(sz, us, p),
         p + sz[p] = m.dv, m.dv # m.top
  PROVE  LET n == set_size_and_pinuse_of_free_chunk(
                    [m EXCEPT !.dv = p, !.dvsize = @ + sz[p]], p, m.dvsize + sz[p])
         IN Heap(n, Join(sz, p), us \ {p}, {}) /\ Kept(sz, us \ {p}, Join(sz, p))
<1>. DEFINE s == sz[p]
            x == p + s
            t == m.dvsize + s
            a == [m EXCEPT !.dv = p, !.dvsize = @ + s]
            n == set_size_and_pinuse_of_free_chunk(a, p, t)
            F == InBins(m, sz, us)
            u == us \ {p}
            z == Join(sz, p)
<1>1. /\ Frame(m) /\ Segment(m) /\ Laid(m, sz, us, {p}, Ends(m)) /\ Pieces(m, sz, us)
      /\ Victim(m, sz, us, {p}) /\ Bins(m, F) /\ DOMAIN m = Fields
  BY FrameFacts DEF Heap
<1>2. p \in DOMAIN sz /\ p # m.top /\ us \subseteq DOMAIN sz /\ 0 \notin DOMAIN sz
  BY HeapUsed
<1>3. p \in Nat /\ s \in Nat /\ s # 0 /\ x # p /\ x \in DOMAIN sz
  BY <1>2, HeapChunk
<1>4. x = m.dv /\ x \in DOMAIN sz \ us /\ m.dvsize = sz[x] /\ sz[x] \in Nat /\ x # m.top /\ m.top \in DOMAIN sz
  <2>1. x = m.dv /\ x # 0 /\ m.dv \notin {p}
    BY <1>2, <1>3
  <2>2. x \in DOMAIN sz \ us /\ m.dvsize = sz[x] /\ x # m.top
    BY <2>1, <1>1 DEF Victim
  <2>. QED BY <2>1, <2>2, HeapChunk, HeapUsed
<1>5. t = s + sz[x] /\ t \in Nat
  BY <1>3, <1>4
<1>6. /\ SameBut(m, a, {"dv", "dvsize"}) /\ a.dv = p /\ a.dvsize = t
      /\ a.head = m.head /\ a.foot = m.foot /\ DOMAIN a = Fields
  BY <1>1 DEF SameBut, Fields
<1>. HIDE DEF a, t
<1>7. SameBut(a, n, {"head", "foot"}) /\ NewHead(n, p, t, FALSE, TRUE) /\ OtherHeads(a, n, {p})
      /\ OtherFeet(a, n, {p + t}) /\ FootAt(n, p + t) = t
  BY <1>3, <1>5, <1>6, SetFreeFacts
<1>. HIDE DEF n
<1>8. Laid(a, sz, us, {p}, Ends(m))
  BY <1>1, <1>6, LaidSame
<1>9. Laid(n, z, u, {}, Ends(m))
  <2>1. p + sz[p] \in DOMAIN sz \ us
    BY <1>4
  <2>. QED BY <1>5, <1>7, <1>8, <2>1, LaidFreeJoin
<1>10. SameBut(m, n, {"head", "foot", "dv", "dvsize"})
  BY <1>6, <1>7 DEF SameBut, Fields
<1>11. n.top = m.top /\ n.topsize = m.topsize /\ n.dv = p /\ n.dvsize = t
  BY <1>6, <1>7 DEF SameBut, Fields
<1>12. Frame(n) /\ Ends(n) = Ends(m) /\ Segment(n)
  <2>1. SameBut(m, n, HeapFields)
    BY <1>10 DEF SameBut, HeapFields
  <2>. QED BY <1>1, <2>1, FrameSame
<1>13. Bins(n, F)
  <2>1. {"head", "foot", "dv", "dvsize"} \cap BinFields = {}
    BY DEF BinFields
  <2>. QED BY <2>1, <1>1, <1>10, BinsSame
<1>14. /\ DOMAIN z = DOMAIN sz \ {x} /\ p \in DOMAIN z /\ p # x /\ z[p] = s + sz[x]
       /\ \A q \in DOMAIN z : q # p => z[q] = sz[q]
  <2>1. Tiling(sz, Ends(m)) /\ p + sz[p] \in DOMAIN sz
    BY <1>1, <1>4 DEF Laid
  <2>2. p \in DOMAIN sz
    BY <1>2
  <2>. HIDE DEF t
  <2>. QED BY <2>1, <2>2, JoinFacts
<1>. HIDE DEF z
<1>15. Pieces(n, z, u)
  <2>1. \A q \in DOMAIN z : q # n.top => z[q] >= 16
    <3>1. sz[p] >= 16 /\ sz[p] \in Nat
      BY <1>1, <1>2, <1>3 DEF Pieces
    <3>2. z[p] >= 16
      BY <3>1, <1>4, <1>14
    <3>. QED BY <3>2, <1>1, <1>11, <1>14 DEF Pieces
  <2>2. n.top \in DOMAIN z \ u /\ n.topsize = z[n.top]
    BY <1>1, <1>2, <1>4, <1>11, <1>14 DEF Pieces
  <2>3. n.top + n.topsize = Ends(n)
    BY <1>1, <1>11, <1>12 DEF Pieces
  <2>. QED BY <2>1, <2>2, <2>3 DEF Pieces
<1>16. Victim(n, z, u, {})
  BY <1>2, <1>5, <1>11, <1>14 DEF Victim
<1>17. /\ DOMAIN F = DOMAIN sz \ (us \cup {m.top, m.dv})
       /\ \A q \in DOMAIN F : F[q] = sz[q]
       /\ F = [q \in DOMAIN F |-> F[q]]
  BY DEF InBins
<1>18. DOMAIN F = DOMAIN z \ (u \cup {n.top, n.dv}) /\ \A q \in DOMAIN F : F[q] = z[q]
  BY <1>2, <1>4, <1>11, <1>14, <1>17
<1>. HIDE DEF F
<1>19. Laid(n, z, u, {}, Ends(n))
  BY <1>9, <1>12
<1>20. Heap(n, z, u, {})
  BY <1>12, <1>13, <1>15, <1>16, <1>17, <1>18, <1>19, HeapMade
<1>21. Kept(sz, u, z)
  BY <1>2, <1>4, <1>14 DEF Kept
<1>. QED BY <1>20, <1>21 DEF n, a, z, t

(* A free chunk after it leaves its bin and becomes its end.               *)
LEMMA FreeIntoBinned ==
  ASSUME NEW m, NEW sz, NEW us, NEW p \in us, Heap(m, sz, us, {p}), AfterUsed(sz, us, p),
         NEW k, k = sz[p + sz[p]], p + sz[p] \notin us, p + sz[p] # m.dv, p + sz[p] # m.top
  PROVE  LET b == set_size_and_pinuse_of_free_chunk(unlink_chunk(m, p + sz[p], k), p, sz[p] + k)
             n == IF p = m.dv THEN [b EXCEPT !.dvsize = sz[p] + k] ELSE insert_chunk(b, p, sz[p] + k)
         IN Heap(n, Join(sz, p), us \ {p}, {}) /\ Kept(sz, us \ {p}, Join(sz, p))
<1>. DEFINE s == sz[p]
            x == p + s
            t == s + k
            a == unlink_chunk(m, x, k)
            b == set_size_and_pinuse_of_free_chunk(a, p, t)
            n == IF p = m.dv THEN [b EXCEPT !.dvsize = t] ELSE insert_chunk(b, p, t)
            F == InBins(m, sz, us)
            W == Without(F, x)
            G == IF p = m.dv THEN W ELSE Put(W, p, t)
            u == us \ {p}
            z == Join(sz, p)
<1>1. /\ Frame(m) /\ Segment(m) /\ Laid(m, sz, us, {p}, Ends(m)) /\ Pieces(m, sz, us)
      /\ Victim(m, sz, us, {p}) /\ Bins(m, F) /\ DOMAIN m = Fields
  BY FrameFacts DEF Heap
<1>2. p \in DOMAIN sz /\ p # m.top /\ us \subseteq DOMAIN sz /\ 0 \notin DOMAIN sz /\ m.top \in DOMAIN sz
  BY HeapUsed
<1>3. p \in Nat /\ s \in Nat /\ s # 0 /\ x # p /\ x \in DOMAIN sz /\ Sized(s)
  BY <1>2, HeapChunk
<1>4. x \in DOMAIN sz \ us /\ x # m.dv /\ x # m.top /\ k = sz[x] /\ chunksize(m, x) = k
  <2>1. x \notin {p}
    BY <1>3
  <2>. QED BY <2>1, <1>3, HeapHead
<1>5. k \in Nat /\ t \in Nat /\ Sized(t)
  <2>1. k \in Nat /\ k > 0 /\ k % 8 = 0 /\ x + k <= Ends(m) /\ Ends(m) \in Nat /\ Ends(m) < HALF_MAX_SIZE_T
    BY <1>3, <1>4, HeapChunk
  <2>2. s >= 16 /\ s % 8 = 0
    BY <1>3 DEF Sized
  <2>3. t < WordRange
    BY <2>1, <1>3, WordFacts
  <2>4. t \in Nat /\ t >= 16 /\ t % 8 = 0
    BY <2>1, <2>2, <1>3
  <2>. QED BY <2>1, <2>3, <2>4 DEF Sized
<1>6. /\ DOMAIN F = DOMAIN sz \ (us \cup {m.top, m.dv})
      /\ \A q \in DOMAIN F : F[q] = sz[q]
  BY DEF InBins
<1>. HIDE DEF F
<1>7. x \in DOMAIN F /\ F[x] = k
  BY <1>4, <1>6
<1>8. Bins(a, W) /\ SameBut(m, a, BinFields)
  <2>1. chunksize(m, x) = F[x]
    BY <1>4, <1>7
  <2>2. Bins(unlink_chunk(m, x, F[x]), Without(F, x)) /\ SameBut(m, unlink_chunk(m, x, F[x]), BinFields)
    BY <2>1, <1>1, <1>7, BinsUnlink
  <2>. QED BY <2>2, <1>7
<1>. HIDE DEF a, t
<1>9. a.head = m.head /\ a.foot = m.foot /\ DOMAIN a = Fields
  BY <1>8 DEF SameBut, BinFields, Fields
<1>10. SameBut(a, b, {"head", "foot"}) /\ NewHead(b, p, t, FALSE, TRUE) /\ OtherHeads(a, b, {p})
      /\ OtherFeet(a, b, {p + t}) /\ FootAt(b, p + t) = t
  BY <1>3, <1>5, <1>9, SetFreeFacts
<1>. HIDE DEF b
<1>11. Laid(a, sz, us, {p}, Ends(m))
  BY <1>1, <1>9, LaidSame
<1>12. Laid(b, z, u, {}, Ends(m))
  <2>1. p + sz[p] \in DOMAIN sz \ us /\ sz[p] + sz[p + sz[p]] = t
    BY <1>4 DEF t
  <2>. QED BY <1>10, <1>11, <2>1, LaidFreeJoin
<1>13. /\ DOMAIN W = DOMAIN F \ {x} /\ \A q \in DOMAIN W : W[q] = F[q]
  BY DEF Without
<1>14. DOMAIN b = Fields /\ SameBut(m, b, BinFields \cup {"head", "foot"})
  BY <1>8, <1>10 DEF SameBut
<1>15. Bins(b, W)
  <2>1. {"head", "foot"} \cap BinFields = {}
    BY DEF BinFields
  <2>. QED BY <2>1, <1>8, <1>10, BinsSame
<1>. HIDE DEF W
<1>16. Bins(n, G) /\ SameBut(b, n, BinFields \cup {"dvsize"}) /\ (p = m.dv => n.dvsize = t)
       /\ (p # m.dv => n.dvsize = b.dvsize)
  <2>1. CASE p = m.dv
    <3>1. n = [b EXCEPT !.dvsize = t]
      BY <2>1
    <3>2. SameBut(b, n, {"dvsize"}) /\ n.dvsize = t
      BY <3>1, <1>14 DEF SameBut, Fields
    <3>3. {"dvsize"} \cap BinFields = {}
      BY DEF BinFields
    <3>4. Bins(n, W)
      BY <3>2, <3>3, <1>15, BinsSame
    <3>. QED BY <2>1, <3>2, <3>4 DEF SameBut
  <2>2. CASE p # m.dv
    <3>1. p \notin DOMAIN W
      BY <1>6, <1>13
    <3>2. Bins(insert_chunk(b, p, t), Put(W, p, t)) /\ SameBut(b, insert_chunk(b, p, t), BinFields)
      BY <3>1, <1>5, <1>14, <1>15, BinsInsert
    <3>3. n = insert_chunk(b, p, t) /\ G = Put(W, p, t)
      BY <2>2
    <3>. QED BY <2>2, <3>2, <3>3 DEF SameBut, BinFields, Fields
  <2>. QED BY <2>1, <2>2
<1>. HIDE DEF n
<1>17. n.head = b.head /\ n.foot = b.foot
  BY <1>16 DEF SameBut, BinFields, Fields
<1>18. SameBut(m, n, BinFields \cup {"head", "foot", "dvsize"})
  BY <1>14, <1>16 DEF SameBut
<1>19. n.top = m.top /\ n.topsize = m.topsize /\ n.dv = m.dv
       /\ (p # m.dv => n.dvsize = m.dvsize)
  BY <1>14, <1>16, <1>18 DEF SameBut, BinFields, Fields
<1>20. Frame(n) /\ Ends(n) = Ends(m) /\ Segment(n)
  <2>1. SameBut(m, n, HeapFields)
    BY <1>18 DEF SameBut, HeapFields
  <2>. QED BY <1>1, <2>1, FrameSame
<1>21. Laid(n, z, u, {}, Ends(n))
  <2>1. Laid(n, z, u, {}, Ends(m))
    BY <1>12, <1>17, LaidSame
  <2>. QED BY <2>1, <1>20
<1>22. /\ DOMAIN z = DOMAIN sz \ {x} /\ p \in DOMAIN z /\ p # x /\ z[p] = t
       /\ \A q \in DOMAIN z : q # p => z[q] = sz[q]
  <2>1. Tiling(sz, Ends(m)) /\ p + sz[p] \in DOMAIN sz
    BY <1>1, <1>4 DEF Laid
  <2>. QED BY <2>1, <1>2, <1>4, JoinFacts DEF t
<1>. HIDE DEF z
<1>23. Pieces(n, z, u)
  <2>1. \A q \in DOMAIN z : q # n.top => z[q] >= 16
    <3>1. z[p] >= 16
      BY <1>5, <1>22 DEF Sized
    <3>. QED BY <3>1, <1>1, <1>19, <1>22 DEF Pieces
  <2>2. n.top \in DOMAIN z \ u /\ n.topsize = z[n.top]
    BY <1>1, <1>2, <1>4, <1>19, <1>22 DEF Pieces
  <2>3. n.top + n.topsize = Ends(n)
    BY <1>1, <1>19, <1>20 DEF Pieces
  <2>. QED BY <2>1, <2>2, <2>3 DEF Pieces
<1>24. Victim(n, z, u, {})
  <2>1. CASE p = m.dv
    BY <2>1, <1>2, <1>16, <1>19, <1>22 DEF Victim
  <2>2. CASE p # m.dv
    BY <2>2, <1>1, <1>4, <1>19, <1>22 DEF Victim
  <2>. QED BY <2>1, <2>2
<1>25. DOMAIN G = DOMAIN z \ (u \cup {n.top, n.dv}) /\ (\A q \in DOMAIN G : G[q] = z[q])
       /\ G = [q \in DOMAIN G |-> G[q]]
  <2>1. CASE p = m.dv
    <3>1. G = W
      BY <2>1
    <3>2. DOMAIN W = DOMAIN z \ (u \cup {n.top, n.dv}) /\ (\A q \in DOMAIN W : W[q] = z[q])
      BY <2>1, <1>2, <1>6, <1>13, <1>19, <1>22
    <3>3. W = [q \in DOMAIN W |-> W[q]]
      BY DEF W, Without
    <3>. QED BY <3>1, <3>2, <3>3
  <2>2. CASE p # m.dv
    <3>1. G = Put(W, p, t)
      BY <2>2
    <3>2. DOMAIN G = DOMAIN W \cup {p} /\ G[p] = t /\ (\A q \in DOMAIN W : q # p => G[q] = W[q])
      BY <3>1 DEF Put
    <3>3. G = [q \in DOMAIN G |-> G[q]]
      BY <3>1 DEF Put
    <3>. HIDE DEF G
    <3>. QED BY <2>2, <3>2, <3>3, <1>2, <1>6, <1>13, <1>19, <1>22
  <2>. QED BY <2>1, <2>2
<1>. HIDE DEF G
<1>26. Heap(n, z, u, {})
  BY <1>16, <1>20, <1>21, <1>23, <1>24, <1>25, HeapMade
<1>27. Kept(sz, u, z)
  BY <1>2, <1>4, <1>22 DEF Kept
<1>. QED BY <1>26, <1>27 DEF n, b, a, z, t

(* The last chunk, a free one, is given another size.                      *)
LEMMA LaidResized ==
  ASSUME NEW m, NEW sz, NEW us, NEW hi, Laid(m, sz, us, {}, hi), NEW v \in DOMAIN sz \ us,
         v + sz[v] = hi, NEW s \in Nat, s > 0, s % 8 = 0, NEW n,
         NewHead(n, v, s, FALSE, TRUE), OtherHeads(m, n, {v}), OtherFeet(m, n, {})
  PROVE  Laid(n, Resized(sz, v, s), us, {}, v + s)
<1>. DEFINE z == Resized(sz, v, s)
<1>1. Tiling(sz, hi) /\ us \subseteq DOMAIN sz /\ Words(m, sz, us, {}) /\ Merged(sz, us)
  BY DEF Laid
<1>2. DOMAIN z = DOMAIN sz /\ z[v] = s /\ \A q \in DOMAIN sz : q # v => z[q] = sz[q]
  BY DEF Resized
<1>3. Tiling(z, v + s)
  BY <1>1, TilingResized
<1>4. \A q \in DOMAIN sz : q + sz[q] = hi => q = v
  BY <1>1, TilingUnique
<1>5. v + s \notin DOMAIN z
  BY <1>3 DEF Tiling
<1>. HIDE DEF z
<1>6. ASSUME NEW p \in DOMAIN z PROVE AfterUsed(sz, us, p) <=> AfterUsed(z, us, p)
  <2>1. p # hi /\ p # v + s
    BY <1>1, <1>2, <1>5, <1>6 DEF Tiling
  <2>. QED BY <2>1, <1>2 DEF AfterUsed
<1>7. ASSUME NEW p \in DOMAIN z PROVE HeadIs(n, p, z[p], p \in us, AfterUsed(z, us, p))
  <2>1. CASE p = v
    <3>1. HeadIs(n, p, s, FALSE, TRUE)
      BY <2>1, NewHeadIs
    <3>2. AfterUsed(sz, us, p)
      BY <2>1, <1>1 DEF AfterUsed, Merged
    <3>. QED BY <2>1, <3>1, <3>2, <1>2, <1>6 DEF HeadIs
  <2>2. CASE p # v
    <3>1. HeadIs(m, p, sz[p], p \in us, AfterUsed(sz, us, p))
      BY <1>1, <1>2 DEF Words
    <3>2. HeadIs(n, p, sz[p], p \in us, AfterUsed(sz, us, p))
      BY <2>2, <3>1, OtherHead DEF HeadIs
    <3>. QED BY <2>2, <3>2, <1>2, <1>6 DEF HeadIs
  <2>. QED BY <2>1, <2>2
<1>8. ASSUME NEW p \in DOMAIN z \ us, p + z[p] \in DOMAIN z
      PROVE  FootAt(n, p + z[p]) = z[p] /\ p + z[p] \in us
  <2>1. p # v
    BY <1>2, <1>5, <1>8
  <2>. QED BY <2>1, <1>1, <1>2, <1>8 DEF Words, Merged, OtherFeet
<1>9. Words(n, z, us, {}) /\ Merged(z, us)
  BY <1>7, <1>8 DEF Words, Merged
<1>10. Laid(n, z, us, {}, v + s)
  BY <1>1, <1>2, <1>3, <1>9 DEF Laid
<1>. QED BY <1>10 DEF z

(* The top chunk grown or shrunk at its end.                               *)
LEMMA TopResized ==
  ASSUME NEW m, NEW sz, NEW us, Heap(m, sz, us, {}), NEW s \in Nat, s > 0, s % 8 = 0, NEW n,
         Frame(n), Segment(n), Ends(n) = m.top + s,
         SameBut(m, n, Fields \ (BinFields \cup {"foot", "dv", "dvsize", "top"})),
         NewHead(n, m.top, s, FALSE, TRUE), OtherHeads(m, n, {m.top}), n.topsize = s
  PROVE  LET z == Resized(sz, m.top, s)
         IN Heap(n, z, us, {}) /\ Kept(sz, us, z)
<1>. DEFINE v == m.top
            z == Resized(sz, v, s)
            F == InBins(m, sz, us)
<1>1. /\ Laid(m, sz, us, {}, Ends(m)) /\ Pieces(m, sz, us)
      /\ Victim(m, sz, us, {}) /\ Bins(m, F) /\ DOMAIN m = Fields
  BY FrameFacts DEF Heap
<1>2. v \in DOMAIN sz \ us /\ v + sz[v] = Ends(m) /\ us \subseteq DOMAIN sz
  BY <1>1 DEF Pieces, Laid
<1>3. n.foot = m.foot /\ n.dv = m.dv /\ n.dvsize = m.dvsize /\ n.top = v
  BY DEF SameBut, BinFields, Fields
<1>4. Laid(n, z, us, {}, v + s)
  <2>1. OtherFeet(m, n, {})
    BY <1>3 DEF OtherFeet, FootAt
  <2>. QED BY <2>1, <1>1, <1>2, LaidResized
<1>5. DOMAIN z = DOMAIN sz /\ z[v] = s /\ \A q \in DOMAIN sz : q # v => z[q] = sz[q]
  BY <1>2 DEF Resized
<1>6. Bins(n, F)
  <2>1. (Fields \ (BinFields \cup {"foot", "dv", "dvsize", "top"})) \cap BinFields = {}
    OBVIOUS
  <2>. QED BY <2>1, <1>1, BinsSame
<1>7. /\ DOMAIN F = DOMAIN sz \ (us \cup {m.top, m.dv})
      /\ \A q \in DOMAIN F : F[q] = sz[q]
      /\ F = [q \in DOMAIN F |-> F[q]]
  BY DEF InBins
<1>. HIDE DEF z, F
<1>8. Pieces(n, z, us)
  BY <1>1, <1>2, <1>3, <1>5 DEF Pieces
<1>9. Victim(n, z, us, {})
  BY <1>1, <1>2, <1>3, <1>5 DEF Victim
<1>10. DOMAIN F = DOMAIN z \ (us \cup {n.top, n.dv}) /\ \A q \in DOMAIN F : F[q] = z[q]
  BY <1>3, <1>5, <1>7
<1>11. Heap(n, z, us, {})
  BY <1>4, <1>6, <1>7, <1>8, <1>9, <1>10, HeapMade
<1>12. Kept(sz, us, z)
  BY <1>2, <1>5 DEF Kept
<1>. QED BY <1>11, <1>12 DEF z

(* What init_top writes.                                                   *)
LEMMA InitTopFacts ==
  ASSUME NEW m, DOMAIN m = Fields, NEW p \in Nat, p % 8 = 0, NEW s \in Int
  PROVE  LET n == init_top(m, p, s)
         IN /\ SameBut(m, n, {"head", "top", "topsize", "trim_check"})
            /\ NewHead(n, p, s, FALSE, TRUE) /\ OtherHeads(m, n, {p}) /\ n.foot = m.foot
            /\ n.top = p /\ n.topsize = s /\ n.trim_check = m.trim_threshold
<1>. DEFINE a == PutHead(m, p, s, FALSE, TRUE)
            n == init_top(m, p, s)
<1>1. align_offset(chunk2mem(p)) = 0
  BY SizeFacts
<1>2. p + 0 = p /\ s - 0 = s
  OBVIOUS
<1>3. n = [a EXCEPT !.top = p, !.topsize = s, !.trim_check = m.trim_threshold]
  BY <1>1, <1>2 DEF init_top
<1>4. SameBut(m, a, {"head"}) /\ NewHead(a, p, s, FALSE, TRUE) /\ OtherHeads(m, a, {p})
      /\ OtherFeet(m, a, {})
  BY PutHeadFacts
<1>. HIDE DEF a, n
<1>5. DOMAIN a = Fields
  BY <1>4 DEF SameBut
<1>6. /\ SameBut(a, n, {"top", "topsize", "trim_check"}) /\ n.head = a.head /\ n.foot = a.foot
      /\ n.top = p /\ n.topsize = s /\ n.trim_check = m.trim_threshold
  BY <1>3, <1>5 DEF SameBut, Fields
<1>7. SameBut(m, n, {"head", "top", "topsize", "trim_check"}) /\ n.foot = m.foot
  BY <1>4, <1>6 DEF SameBut, Fields
<1>8. NewHead(n, p, s, FALSE, TRUE) /\ OtherHeads(m, n, {p})
  BY <1>4, <1>6 DEF NewHead, OtherHeads, HeadAt
<1>. QED BY <1>6, <1>7, <1>8 DEF n

(* The break moves by d, or it does not move.                              *)
LEMMA SbrkFacts ==
  ASSUME NEW m, DOMAIN m = Fields, m.brk \in Nat, m.limit \in Nat, m.brk <= m.limit, NEW d \in Int
  PROVE  LET r == sbrk(m, d)
         IN \/ r.ret = CMFAIL /\ r.m = m /\ (d <= 0 /\ m.limit # 0 => m.brk < -d)
            \/ /\ r.ret = HeapBase + m.brk /\ r.ret # CMFAIL /\ m.limit # 0
               /\ SameBut(m, r.m, {"brk"}) /\ r.m.brk = m.brk + d /\ m.brk + d \in 0 .. m.limit
<1>. DEFINE r == sbrk(m, d)
            a == [m EXCEPT !.brk = m.brk + d]
<1>1. /\ DOMAIN m = Fields /\ m.brk \in Nat /\ m.limit \in Nat /\ m.brk <= m.limit
      /\ HeapBase \in Nat
  BY MallocAssumption
<1>2. CMFAIL = -1 /\ NoHeap = 0
  BY DEF CMFAIL, NoHeap
<1>3. CASE m.limit = 0 \/ (d >= 0 /\ m.limit - m.brk < d) \/ (d < 0 /\ m.brk < -d)
  <2>1. r = [m |-> m, ret |-> CMFAIL]
    BY <1>2, <1>3 DEF sbrk
  <2>2. d <= 0 /\ m.limit # 0 => m.brk < -d
    BY <1>1, <1>3
  <2>3. r.ret = CMFAIL /\ r.m = m
    BY <2>1
  <2>. QED BY <2>2, <2>3
<1>4. CASE ~(m.limit = 0 \/ (d >= 0 /\ m.limit - m.brk < d) \/ (d < 0 /\ m.brk < -d))
  <2>1. r = [m |-> a, ret |-> HeapBase + m.brk]
    BY <1>2, <1>4 DEF sbrk
  <2>2. SameBut(m, a, {"brk"}) /\ a.brk = m.brk + d
    BY <1>1 DEF SameBut, Fields
  <2>3. m.brk + d \in 0 .. m.limit /\ HeapBase + m.brk # CMFAIL
    BY <1>1, <1>2, <1>4
  <2>4. r.ret = HeapBase + m.brk /\ r.m = a
    BY <2>1
  <2>. QED BY <2>2, <2>3, <2>4, <1>4
<1>. QED BY <1>3, <1>4

(* A change of parameters leaves the heap as it is.                        *)
LEMMA HeapParams ==
  ASSUME NEW m, NEW sz, NEW us, NEW o, Heap(m, sz, us, o), NEW n, Frame(n),
         SameBut(m, n, {"trim_check", "trim_threshold", "granularity", "contiguous"})
  PROVE  Heap(n, sz, us, o)
<1>1. /\ n.seg = m.seg /\ n.least_addr = m.least_addr /\ n.brk = m.brk /\ n.top = m.top
      /\ n.topsize = m.topsize /\ n.dv = m.dv /\ n.dvsize = m.dvsize /\ n.head = m.head /\ n.foot = m.foot
  BY DEF SameBut, Fields
<1>2. Ends(n) = Ends(m)
  BY <1>1 DEF Ends
<1>3. Laid(n, sz, us, o, Ends(n))
  BY <1>1, <1>2, LaidSame DEF Heap
<1>4. Segment(n) /\ Pieces(n, sz, us) /\ Victim(n, sz, us, o)
  BY <1>1, <1>2 DEF Heap, Segment, Pieces, Victim
<1>5. Bins(n, InBins(n, sz, us))
  <2>1. {"trim_check", "trim_threshold", "granularity", "contiguous"} \cap BinFields = {}
    BY DEF BinFields
  <2>2. Bins(m, InBins(m, sz, us))
    BY DEF Heap
  <2>3. Bins(n, InBins(m, sz, us))
    BY <2>1, <2>2, BinsSame
  <2>4. InBins(m, sz, us) = InBins(n, sz, us)
    BY <1>1 DEF InBins
  <2>. QED BY <2>3, <2>4
<1>. QED BY <1>3, <1>4, <1>5 DEF Heap

(* The chunks in use are kept by the tiling they are of.                   *)
LEMMA KeptAll ==
  ASSUME NEW sz, NEW us, us \subseteq DOMAIN sz
  PROVE  Kept(sz, us, sz)
  BY DEF Kept

(* What is known of the top chunk and of the segment.                      *)
LEMMA TopFacts ==
  ASSUME NEW m, NEW sz, NEW us, NEW o, Heap(m, sz, us, o)
  PROVE  /\ is_initialized(m) /\ m.top \in Nat /\ m.top % 8 = 0 /\ m.top >= HeapBase
         /\ m.topsize \in Nat /\ m.topsize > 0 /\ m.topsize % 8 = 0 /\ m.topsize = sz[m.top]
         /\ m.top + m.topsize + 40 = HeapBase + m.brk /\ m.topsize < m.brk /\ m.limit # 0
         /\ segment_end(m) = HeapBase + m.brk /\ segment_holds(m, m.top)
         /\ HeapBase + m.brk = Ends(m) + 40
<1>1. m.top \in DOMAIN sz \ us /\ m.topsize = sz[m.top] /\ m.top + m.topsize = Ends(m) /\ Frame(m)
  BY DEF Heap, Pieces
<1>2. m.top \in Nat /\ m.top % 8 = 0 /\ m.topsize \in Nat /\ m.topsize > 0 /\ m.topsize % 8 = 0
      /\ m.top >= HeapBase /\ m.top >= 8 /\ Ends(m) \in Nat
  BY <1>1, HeapChunk
<1>3. HeapBase \in Nat /\ m.brk \in Nat /\ m.brk <= m.limit /\ m.limit \in Nat
  BY <1>1, FrameFacts
<1>4. m.seg = [base |-> HeapBase, size |-> m.brk]
  BY DEF Heap, Segment
<1>5. m.top + m.topsize + 40 = HeapBase + m.brk /\ m.topsize < m.brk /\ m.limit # 0
      /\ HeapBase + m.brk = Ends(m) + 40
  BY <1>1, <1>2, <1>3 DEF Ends
<1>6. segment_end(m) = HeapBase + m.brk
  BY <1>4 DEF segment_end
<1>7. segment_holds(m, m.top)
  BY <1>2, <1>3, <1>4, <1>5, <1>6 DEF segment_holds
<1>. QED BY <1>1, <1>2, <1>5, <1>6, <1>7 DEF is_initialized

(* What sys_trim gives back leaves some of the top, and whole chunks.      *)
LEMMA TrimAmount ==
  ASSUME NEW y \in Nat, y > 0, NEW unit \in Nat, unit > 0, unit % 8 = 0,
         NEW spare, spare = ((y + unit - 1) \div unit - 1) * unit
  PROVE  spare \in Nat /\ spare < y /\ spare % 8 = 0
<1>. DEFINE X == y + unit - 1
            D == X \div unit
            R == X % unit
<1>1. R \in 0 .. unit - 1 /\ D \in Int /\ X = unit * D + R
  BY DivMod
<1>. HIDE DEF D, R
<1>2. D >= 1
  <2>1. SUFFICES ASSUME D <= 0 PROVE FALSE
    BY <1>1
  <2>2. unit * D <= 0
    BY <1>1, <2>1
  <2>. QED BY <2>2, <1>1
<1>3. spare = (D - 1) * unit
  BY DEF D
<1>4. (D - 1) * unit = unit * D - unit
  BY <1>1
<1>5. spare = y - 1 - R
  BY <1>1, <1>3, <1>4
<1>6. spare >= 0
  <2>1. (D - 1) * unit >= 0
    BY <1>1, <1>2
  <2>. QED BY <2>1, <1>3
<1>7. spare % 8 = 0
  <2>1. PICK w \in Nat : unit = 8 * w
    <3>1. unit = 8 * (unit \div 8)
      OBVIOUS
    <3>. QED BY <3>1
  <2>. DEFINE c == (D - 1) * w
  <2>2. c \in Int /\ spare = 8 * c
    BY <1>1, <1>3, <2>1
  <2>. HIDE DEF c
  <2>. QED BY <2>2
<1>. QED BY <1>1, <1>5, <1>6, <1>7

(* The break asked where it is.                                            *)
LEMMA SbrkZero ==
  ASSUME NEW m, DOMAIN m = Fields, m.brk \in Nat, m.limit \in Nat, m.brk <= m.limit, m.limit # 0
  PROVE  sbrk(m, 0).ret = HeapBase + m.brk
<1>1. ~(0 >= 0 /\ m.limit - m.brk < 0) /\ ~(0 < 0)
  OBVIOUS
<1>. QED BY <1>1 DEF sbrk, NoHeap

(* sys_trim leaves a heap with the same chunks in use.                     *)
LEMMA TrimHeap ==
  ASSUME NEW m, NEW sz, NEW us, Heap(m, sz, us, {}), NEW pad \in Nat
  PROVE  \E z : Heap(sys_trim(m, pad).m, z, us, {}) /\ Kept(sz, us, z)
<1>. DEFINE room == pad + TOP_FOOT_SIZE
            unit == m.granularity
            spare == ((m.topsize - room + unit - 1) \div unit - 1) * unit
            extra == IF spare >= HALF_MAX_SIZE_T THEN HALF_MAX_SIZE_T + 1 - unit ELSE spare
            rel == sbrk(m, -extra)
            R == sys_trim(m, pad)
            idle == [m EXCEPT !.trim_check = MAX_SIZE_T]
<1>1. Frame(m) /\ Segment(m) /\ us \subseteq DOMAIN sz
  BY HeapUsed DEF Heap
<1>2. /\ is_initialized(m) /\ m.top \in Nat /\ m.top % 8 = 0 /\ m.top >= HeapBase
      /\ m.topsize \in Nat /\ m.topsize > 0 /\ m.topsize % 8 = 0 /\ m.topsize = sz[m.top]
      /\ m.top + m.topsize + 40 = HeapBase + m.brk /\ m.topsize < m.brk /\ m.limit # 0
      /\ segment_end(m) = HeapBase + m.brk
  BY TopFacts
<1>3. /\ DOMAIN m = Fields /\ HeapBase \in Nat /\ m.brk \in Nat /\ HeapBase + m.brk <= HALF_MAX_SIZE_T
      /\ m.limit \in Nat /\ m.brk <= m.limit
      /\ unit \in Nat /\ unit >= 16 /\ unit % 8 = 0 /\ unit <= HALF_MAX_SIZE_T + 1
  BY <1>1, FrameFacts
<1>4. room \in Nat /\ room >= 40
  BY SizeFacts
<1>5. Heap(m, sz, us, {}) /\ Kept(sz, us, sz)
  BY <1>1, KeptAll
<1>6. Heap(idle, sz, us, {})
  <2>1. SameBut(m, idle, {"trim_check"}) /\ idle.trim_check = MAX_SIZE_T
    BY <1>3 DEF SameBut, Fields
  <2>. HIDE DEF idle
  <2>2. Frame(idle)
    <3>1. /\ DOMAIN idle = Fields /\ idle.limit = m.limit /\ idle.brk = m.brk /\ idle.contiguous = m.contiguous
          /\ idle.granularity = m.granularity /\ idle.trim_threshold = m.trim_threshold
          /\ idle.footprint = m.footprint /\ idle.max_footprint = m.max_footprint
          /\ idle.stray = m.stray /\ idle.aborted = m.aborted
      BY <2>1 DEF SameBut, Fields
    <3>2. MAX_SIZE_T \in 0 .. MAX_SIZE_T
      BY WordFacts
    <3>. QED BY <2>1, <3>1, <3>2, <1>1 DEF Frame
  <2>3. SameBut(m, idle, {"trim_check", "trim_threshold", "granularity", "contiguous"})
    BY <2>1 DEF SameBut
  <2>. QED BY <2>2, <2>3, HeapParams
<1>7. CASE ~(pad < MAX_REQUEST /\ is_initialized(m))
  <2>1. R.m = m
    BY <1>7 DEF sys_trim
  <2>. QED BY <2>1, <1>5
<1>8. CASE pad < MAX_REQUEST /\ is_initialized(m) /\ ~(m.topsize > room)
  <2>1. R = Shrunk(m, rel, 0)
    BY <1>8 DEF sys_trim
  <2>2. R.m = idle
    BY <2>1 DEF Shrunk
  <2>. QED BY <2>2, <1>5, <1>6
<1>9. CASE pad < MAX_REQUEST /\ is_initialized(m) /\ m.topsize > room
  <2>1. spare \in Nat /\ spare < m.topsize - room /\ spare % 8 = 0
    <3>1. m.topsize - room \in Nat /\ m.topsize - room > 0
      BY <1>2, <1>4, <1>9
    <3>. DEFINE y == m.topsize - room
                c == ((y + unit - 1) \div unit - 1) * unit
    <3>2. y \in Nat /\ y > 0
      BY <3>1
    <3>. HIDE DEF y, unit
    <3>3. c \in Nat /\ c < y /\ c % 8 = 0
      <4>1. unit > 0 /\ unit \in Nat /\ unit % 8 = 0
        BY <1>3
      <4>2. c = ((y + unit - 1) \div unit - 1) * unit
        OBVIOUS
      <4>. HIDE DEF c
      <4>. QED BY <3>2, <4>1, <4>2, TrimAmount
    <3>. QED BY <3>3 DEF y
  <2>. HIDE DEF spare
  <2>2. extra = spare
    BY <2>1, <1>2, <1>3, <1>4, WordFacts
  <2>. HIDE DEF extra
  <2>3. sbrk(m, 0).ret = HeapBase + m.brk
    BY <1>2, <1>3, SbrkZero
  <2>4. /\ rel.ret # CMFAIL /\ SameBut(m, rel.m, {"brk"}) /\ rel.m.brk = m.brk - spare
        /\ m.brk - spare \in 0 .. m.limit
    <3>1. -extra \in Int /\ -extra <= 0 /\ -(-extra) = extra /\ ~(m.brk < extra)
          /\ m.brk + -extra = m.brk - spare
      BY <2>1, <2>2, <1>2, <1>3, <1>4
    <3>. QED BY <3>1, <1>2, <1>3, SbrkFacts
  <2>. DEFINE h == rel.m
  <2>5. DOMAIN h = Fields /\ h.limit = m.limit /\ h.brk = m.brk - spare
    BY <2>4 DEF SameBut, Fields
  <2>6. sbrk(h, 0).ret = HeapBase + m.brk - spare
    <3>1. h.brk \in Nat /\ h.brk <= h.limit /\ h.limit \in Nat
      BY <2>4, <2>5, <1>3
    <3>2. sbrk(h, 0).ret = HeapBase + h.brk
      BY <3>1, <2>5, <1>2, SbrkZero
    <3>. QED BY <3>1, <3>2, <2>5, <1>3, <2>1
  <2>7. Released(m, rel, sbrk(m, 0).ret) = spare
    <3>1. Released(m, rel, sbrk(m, 0).ret) = (HeapBase + m.brk) - (HeapBase + m.brk - spare)
      BY <2>3, <2>4, <2>6, <1>2 DEF Released
    <3>. QED BY <3>1, <2>1, <1>3
  <2>8. R = Shrunk(m, rel, spare)
    BY <1>9, <2>7 DEF sys_trim, extra, spare
  <2>. HIDE DEF rel, R
  <2>9. CASE spare = 0
    <3>1. R.m = idle
      BY <2>8, <2>9 DEF Shrunk
    <3>. QED BY <3>1, <1>5, <1>6 DEF R
  <2>10. CASE spare # 0
    <3>. DEFINE b == [h EXCEPT !.seg.size = @ - spare, !.footprint = @ - spare]
                s == m.topsize - spare
                n == init_top(b, m.top, s)
    <3>1. R.m = n
      BY <2>1, <2>8, <2>10 DEF Shrunk, h
    <3>2. m.footprint = m.brk /\ m.seg = [base |-> HeapBase, size |-> m.brk]
      BY <1>1 DEF Frame, Segment
    <3>3. /\ SameBut(m, b, {"brk", "seg", "footprint"}) /\ b.brk = m.brk - spare
          /\ b.footprint = m.brk - spare /\ b.seg = [base |-> HeapBase, size |-> m.brk - spare]
          /\ b.head = m.head /\ b.foot = m.foot /\ DOMAIN b = Fields
      <4>1. h.seg = m.seg /\ h.footprint = m.footprint /\ h.head = m.head /\ h.foot = m.foot
        BY <2>4 DEF SameBut, Fields
      <4>. HIDE DEF h
      <4>2. b.seg = [m.seg EXCEPT !.size = @ - spare] /\ b.footprint = m.footprint - spare
            /\ DOMAIN b = Fields /\ \A f \in Fields \ {"seg", "footprint"} : b[f] = h[f]
        BY <2>5, <4>1 DEF Fields
      <4>. HIDE DEF b
      <4>3. b.seg = [base |-> HeapBase, size |-> m.brk - spare]
        BY <4>2, <3>2
      <4>4. SameBut(h, b, {"seg", "footprint"})
        BY <4>2 DEF SameBut
      <4>5. b.head = m.head /\ b.foot = m.foot /\ b.brk = m.brk - spare
        BY <4>4, <4>1, <2>5 DEF SameBut, Fields
      <4>6. SameBut(m, b, {"brk", "seg", "footprint"})
        BY <4>4, <2>4 DEF SameBut, h
      <4>. QED BY <4>2, <4>3, <4>5, <4>6, <3>2
    <3>. HIDE DEF b
    <3>4. s \in Nat /\ s > 0 /\ s % 8 = 0
      <4>1. s > 0 /\ s \in Int
        BY <2>1, <1>2, <1>4
      <4>2. s % 8 = 0
        BY <2>1, <1>2
      <4>. QED BY <4>1, <4>2
    <3>. HIDE DEF s
    <3>5. /\ SameBut(b, n, {"head", "top", "topsize", "trim_check"})
          /\ NewHead(n, m.top, s, FALSE, TRUE) /\ OtherHeads(b, n, {m.top}) /\ n.foot = b.foot
          /\ n.top = m.top /\ n.topsize = s /\ n.trim_check = b.trim_threshold
      <4>1. DOMAIN b = Fields /\ m.top \in Nat /\ m.top % 8 = 0 /\ s \in Int
        BY <1>2, <3>3, <3>4
      <4>2. PICK v \in Nat : v = m.top
        BY <4>1
      <4>. DEFINE k == init_top(b, v, s)
      <4>3. /\ SameBut(b, k, {"head", "top", "topsize", "trim_check"})
            /\ NewHead(k, v, s, FALSE, TRUE) /\ OtherHeads(b, k, {v}) /\ k.foot = b.foot
            /\ k.top = v /\ k.topsize = s /\ k.trim_check = b.trim_threshold
        <5>. HIDE DEF n
        <5>1. v % 8 = 0
          BY <4>1, <4>2
        <5>. QED BY <4>1, <5>1, InitTopFacts
      <4>4. k = n
        BY <4>2
      <4>. HIDE DEF k, n
      <4>. QED BY <4>2, <4>3, <4>4
    <3>. HIDE DEF n
    <3>6. SameBut(m, n, {"brk", "seg", "footprint", "head", "topsize", "trim_check"})
      <4>1. SameBut(m, n, {"brk", "seg", "footprint", "head", "top", "topsize", "trim_check"})
        BY <3>3, <3>5 DEF SameBut
      <4>. QED BY <4>1, <3>5 DEF SameBut
    <3>7. OtherHeads(m, n, {m.top})
      BY <3>3, <3>5 DEF OtherHeads, HeadAt
    <3>8. /\ DOMAIN n = Fields /\ n.limit = m.limit /\ n.brk = m.brk - spare /\ n.contiguous = m.contiguous
          /\ n.granularity = m.granularity /\ n.trim_threshold = m.trim_threshold
          /\ n.footprint = m.brk - spare /\ n.max_footprint = m.max_footprint
          /\ n.stray = m.stray /\ n.aborted = m.aborted /\ n.trim_check = m.trim_threshold
          /\ n.least_addr = m.least_addr /\ n.seg = [base |-> HeapBase, size |-> n.brk]
      <4>1. b.trim_threshold = m.trim_threshold
        BY <3>3 DEF SameBut, Fields
      <4>2. n.brk = b.brk /\ n.footprint = b.footprint /\ n.seg = b.seg
        BY <3>5 DEF SameBut, Fields
      <4>. QED BY <4>1, <4>2, <3>3, <3>5, <3>6 DEF SameBut, Fields
    <3>9. Frame(n) /\ Segment(n)
      <4>1. n.brk \in 0 .. n.limit /\ n.max_footprint >= n.brk /\ n.max_footprint \in Nat
        <5>1. m.max_footprint \in Nat /\ m.max_footprint >= m.brk
          BY <1>1 DEF Frame
        <5>. QED BY <5>1, <3>8, <2>1, <2>4, <1>3
      <4>. QED BY <4>1, <3>8, <1>1 DEF Frame, Segment
    <3>10. Ends(n) = m.top + s
      BY <3>8, <2>1, <1>2, <1>3 DEF Ends, s
    <3>11. SameBut(m, n, Fields \ (BinFields \cup {"foot", "dv", "dvsize", "top"}))
      BY <3>6 DEF SameBut, Fields, BinFields
    <3>12. Heap(n, Resized(sz, m.top, s), us, {}) /\ Kept(sz, us, Resized(sz, m.top, s))
      BY <3>4, <3>5, <3>7, <3>9, <3>10, <3>11, TopResized
    <3>. QED BY <3>1, <3>12 DEF R
  <2>. QED BY <2>9, <2>10
<1>. QED BY <1>2, <1>7, <1>8, <1>9

-----------------------------------------------------------------------------
(* Freeing and taking a chunk.                                             *)

(* What dlfree does with the chunk after the freed one leaves a heap:      *)
(* joined with the top, with the victim, with a binned chunk, or binned    *)
(* alone.                                                                  *)
LEMMA FreeForwardHeap ==
  ASSUME NEW m, NEW sz, NEW us, NEW p \in us, Heap(m, sz, us, {p}), AfterUsed(sz, us, p),
         NEW s, s = sz[p], NEW x, x = p + s, m.dv = p => x \notin us
  PROVE  \E z : Heap(FreeForward(m, p, s, x), z, us \ {p}, {}) /\ Kept(sz, us \ {p}, z)
<1>. DEFINE nsize == chunksize(m, x)
            n == FreeForward(m, p, s, x)
            u == us \ {p}
            top == PutHead([m EXCEPT !.top = p, !.topsize = @ + s,
                                     !.dv = IF p = m.dv THEN 0 ELSE @,
                                     !.dvsize = IF p = m.dv THEN 0 ELSE @],
                           p, m.topsize + s, FALSE, TRUE)
            both == set_size_and_pinuse_of_free_chunk(unlink_chunk(m, x, nsize), p, s + nsize)
<1>1. p \in DOMAIN sz /\ p # m.top /\ us \subseteq DOMAIN sz
  BY HeapUsed
<1>2. x \in DOMAIN sz /\ x # p /\ nsize = sz[x] /\ (cinuse(m, x) <=> x \in us) /\ cinuse(m, x) \in BOOLEAN
  <2>1. p + sz[p] \notin {p}
    BY <1>1, HeapChunk
  <2>. QED BY <2>1, <1>1, HeapNext
<1>3. CASE x \in us
  <2>1. n = insert_chunk(set_free_with_pinuse(m, p, s, x), p, s)
    BY <1>2, <1>3 DEF FreeForward
  <2>2. Heap(n, sz, u, {})
    <3>1. p + sz[p] \in us /\ m.dv # p
      BY <1>3
    <3>2. n = insert_chunk(set_free_with_pinuse(m, p, sz[p], p + sz[p]), p, sz[p])
      BY <2>1
    <3>. HIDE DEF n
    <3>. QED BY <3>1, <3>2, FreeAlone
  <2>3. Kept(sz, u, sz)
    BY <1>1, KeptAll
  <2>. QED BY <2>2, <2>3
<1>4. CASE x \notin us /\ x = m.top
  <2>1. n = IF should_trim(top, top.topsize) THEN sys_trim(top, 0).m ELSE top
    BY <1>2, <1>4 DEF FreeForward
  <2>2. Heap(top, Join(sz, p), u, {}) /\ Kept(sz, u, Join(sz, p))
    <3>1. p + sz[p] = m.top
      BY <1>4
    <3>2. top = PutHead([m EXCEPT !.top = p, !.topsize = @ + sz[p],
                                  !.dv = IF p = m.dv THEN 0 ELSE @,
                                  !.dvsize = IF p = m.dv THEN 0 ELSE @],
                        p, m.topsize + sz[p], FALSE, TRUE)
      OBVIOUS
    <3>. HIDE DEF top
    <3>. QED BY <3>1, <3>2, FreeIntoTop
  <2>. HIDE DEF top, n
  <2>3. CASE should_trim(top, top.topsize)
    <3>1. n = sys_trim(top, 0).m
      BY <2>1, <2>3
    <3>2. PICK z : Heap(n, z, u, {}) /\ Kept(Join(sz, p), u, z)
      BY <2>2, <3>1, TrimHeap
    <3>3. Kept(sz, u, z)
      BY <2>2, <3>2 DEF Kept
    <3>. QED BY <3>2, <3>3 DEF n
  <2>4. CASE ~should_trim(top, top.topsize)
    BY <2>1, <2>2, <2>4 DEF n
  <2>. QED BY <2>3, <2>4
<1>5. CASE x \notin us /\ x # m.top /\ x = m.dv
  <2>1. n = set_size_and_pinuse_of_free_chunk([m EXCEPT !.dv = p, !.dvsize = @ + s], p, m.dvsize + s)
    BY <1>2, <1>5 DEF FreeForward
  <2>2. p + sz[p] = m.dv /\ m.dv # m.top
    BY <1>5
  <2>3. n = set_size_and_pinuse_of_free_chunk([m EXCEPT !.dv = p, !.dvsize = @ + sz[p]], p, m.dvsize + sz[p])
    BY <2>1
  <2>. HIDE DEF n
  <2>4. Heap(n, Join(sz, p), u, {}) /\ Kept(sz, u, Join(sz, p))
    BY <2>2, <2>3, FreeIntoVictim
  <2>. QED BY <2>4 DEF n
<1>6. CASE x \notin us /\ x # m.top /\ x # m.dv
  <2>1. n = IF p = m.dv THEN [both EXCEPT !.dvsize = s + nsize] ELSE insert_chunk(both, p, s + nsize)
    BY <1>2, <1>6 DEF FreeForward
  <2>. DEFINE k == nsize
              b == set_size_and_pinuse_of_free_chunk(unlink_chunk(m, p + sz[p], k), p, sz[p] + k)
  <2>2. k = sz[p + sz[p]] /\ p + sz[p] \notin us /\ p + sz[p] # m.dv /\ p + sz[p] # m.top
    BY <1>2, <1>6
  <2>3. n = IF p = m.dv THEN [b EXCEPT !.dvsize = sz[p] + k] ELSE insert_chunk(b, p, sz[p] + k)
    BY <2>1
  <2>. HIDE DEF n, k
  <2>4. Heap(n, Join(sz, p), u, {}) /\ Kept(sz, u, Join(sz, p))
    BY <2>2, <2>3, FreeIntoBinned
  <2>. QED BY <2>4 DEF n
<1>. QED BY <1>3, <1>4, <1>5, <1>6

(* A head of a chunk in use may be left unsaid.                            *)
LEMMA HeapWeaken ==
  ASSUME NEW m, NEW sz, NEW us, Heap(m, sz, us, {}), NEW p \in us
  PROVE  Heap(m, sz, us, {p}) /\ m.dv # p
<1>1. us \subseteq DOMAIN sz /\ 0 \notin DOMAIN sz
  BY HeapUsed
<1>2. Laid(m, sz, us, {p}, Ends(m))
  <2>1. {p} \in SUBSET DOMAIN sz
    BY <1>1
  <2>. QED BY <2>1, LaidWeaken DEF Heap
<1>3. Victim(m, sz, us, {p}) /\ m.dv # p
  BY <1>1 DEF Heap, Victim
<1>. QED BY <1>2, <1>3 DEF Heap

(* A chunk in use and the free chunk before it become one, still in use.   *)
LEMMA JoinPrev ==
  ASSUME NEW m, NEW sz, NEW us, Heap(m, sz, us, {}), NEW p \in us, NEW q \in DOMAIN sz \ us,
         q + sz[q] = p
  PROVE  LET z == Join(sz, q)
             u == (us \ {p}) \cup {q}
             n == IF q = m.dv THEN m ELSE unlink_chunk(m, q, sz[q])
         IN /\ Heap(n, z, u, {q}) /\ AfterUsed(z, u, q) /\ z[q] = sz[p] + sz[q]
            /\ q + z[q] = p + sz[p] /\ Kept(sz, us \ {p}, z) /\ q # m.top
            /\ n.head = m.head
<1>. DEFINE z == Join(sz, q)
            u == (us \ {p}) \cup {q}
            n == IF q = m.dv THEN m ELSE unlink_chunk(m, q, sz[q])
            F == InBins(m, sz, us)
            G == IF q = m.dv THEN F ELSE Without(F, q)
<1>1. /\ Frame(m) /\ Segment(m) /\ Laid(m, sz, us, {}, Ends(m)) /\ Pieces(m, sz, us)
      /\ Victim(m, sz, us, {}) /\ Bins(m, F) /\ DOMAIN m = Fields
  BY FrameFacts DEF Heap
<1>2. us \subseteq DOMAIN sz /\ 0 \notin DOMAIN sz /\ p \in DOMAIN sz /\ m.top \in DOMAIN sz \ us
  BY HeapUsed
<1>3. q \in Nat /\ sz[q] \in Nat /\ sz[q] > 0 /\ q # p /\ q # m.top /\ p \in Nat /\ sz[p] \in Nat
  <2>1. q \in Nat /\ sz[q] \in Nat /\ sz[q] > 0 /\ p \in Nat /\ sz[p] \in Nat
    BY <1>2, HeapChunk
  <2>2. q # m.top
    BY <1>2, HeapChunk
  <2>. QED BY <2>1, <2>2
<1>4. /\ DOMAIN z = DOMAIN sz \ {p} /\ q \in DOMAIN z /\ z[q] = sz[q] + sz[p] /\ q + z[q] = p + sz[p]
      /\ \A r \in DOMAIN z : r # q => z[r] = sz[r]
  <2>1. Tiling(sz, Ends(m)) /\ q + sz[q] \in DOMAIN sz /\ q \in DOMAIN sz
    BY <1>1, <1>2 DEF Laid
  <2>. QED BY <2>1, JoinFacts
<1>5. Laid(m, z, u, {q}, Ends(m))
  <2>1. Laid(m, sz, us \cup {q}, {} \cup ({q, q + sz[q]} \cap DOMAIN sz), Ends(m))
    BY <1>1, LaidTakeOpen
  <2>2. {} \cup ({q, q + sz[q]} \cap DOMAIN sz) = {q, p}
    BY <1>2
  <2>3. Laid(m, sz, us \cup {q}, {q, p}, Ends(m))
    BY <2>1, <2>2
  <2>4. q \in us \cup {q} /\ q + sz[q] \in us \cup {q}
    OBVIOUS
  <2>5. Laid(m, Join(sz, q), (us \cup {q}) \ {q + sz[q]}, ({q, p} \cup {q}) \ {q + sz[q]}, Ends(m))
    BY <2>3, <2>4, LaidJoinOpen
  <2>6. (us \cup {q}) \ {q + sz[q]} = u /\ ({q, p} \cup {q}) \ {q + sz[q]} = {q}
    BY <1>3
  <2>. QED BY <2>5, <2>6
<1>6. AfterUsed(z, u, q)
  <2>1. SUFFICES ASSUME NEW r \in DOMAIN z, r + z[r] = q PROVE r \in u
    BY DEF AfterUsed
  <2>2. CASE r = q
    BY <2>2
  <2>3. CASE r # q
    <3>1. r \in DOMAIN sz /\ r + sz[r] = q /\ r # p
      BY <2>1, <2>3, <1>4
    <3>2. r \in us
      BY <3>1, <1>1 DEF Laid, Merged
    <3>. QED BY <3>1, <3>2
  <2>. QED BY <2>2, <2>3
<1>7. /\ DOMAIN F = DOMAIN sz \ (us \cup {m.top, m.dv})
      /\ \A r \in DOMAIN F : F[r] = sz[r]
  BY DEF InBins
<1>8. F = [r \in DOMAIN F |-> F[r]]
  BY DEF InBins
<1>. HIDE DEF F, z
<1>9. Bins(n, G) /\ SameBut(m, n, BinFields)
  <2>1. CASE q = m.dv
    <3>1. n = m /\ G = F
      BY <2>1
    <3>. QED BY <3>1, <1>1 DEF SameBut
  <2>2. CASE q # m.dv
    <3>1. q \in DOMAIN F /\ F[q] = sz[q]
      BY <2>2, <1>3, <1>7
    <3>2. chunksize(m, q) = F[q]
      BY <3>1, HeapHead
    <3>3. Bins(unlink_chunk(m, q, F[q]), Without(F, q)) /\ SameBut(m, unlink_chunk(m, q, F[q]), BinFields)
      BY <1>1, <3>1, <3>2, BinsUnlink
    <3>. QED BY <2>2, <3>1, <3>3
  <2>. QED BY <2>1, <2>2
<1>. HIDE DEF n
<1>10. /\ n.head = m.head /\ n.foot = m.foot /\ n.top = m.top /\ n.topsize = m.topsize
       /\ n.dv = m.dv /\ n.dvsize = m.dvsize
  BY <1>9 DEF SameBut, BinFields, Fields
<1>11. Frame(n) /\ Ends(n) = Ends(m) /\ Segment(n)
  <2>1. SameBut(m, n, HeapFields)
    BY <1>9 DEF SameBut, HeapFields
  <2>. QED BY <1>1, <2>1, FrameSame
<1>12. Laid(n, z, u, {q}, Ends(n))
  <2>1. Laid(n, z, u, {q}, Ends(m))
    BY <1>5, <1>10, LaidSame
  <2>. QED BY <2>1, <1>11
<1>13. Pieces(n, z, u)
  <2>1. \A r \in DOMAIN z : r # n.top => z[r] >= 16
    <3>1. sz[q] >= 16
      BY <1>1, <1>3 DEF Pieces
    <3>2. z[q] >= 16
      BY <3>1, <1>3, <1>4
    <3>. QED BY <3>2, <1>1, <1>10, <1>4 DEF Pieces
  <2>2. m.top # p /\ m.top # q
    BY <1>2, <1>3
  <2>3. n.top \in DOMAIN z \ u /\ n.topsize = z[n.top]
    BY <2>2, <1>1, <1>2, <1>4, <1>10 DEF Pieces
  <2>4. n.top + n.topsize = Ends(n)
    BY <1>1, <1>10, <1>11 DEF Pieces
  <2>. QED BY <2>1, <2>3, <2>4 DEF Pieces
<1>14. Victim(n, z, u, {q})
  <2>1. CASE q = m.dv
    BY <2>1, <1>10 DEF Victim
  <2>2. CASE q # m.dv
    BY <2>2, <1>1, <1>2, <1>4, <1>10 DEF Victim
  <2>. QED BY <2>1, <2>2
<1>15. DOMAIN G = DOMAIN z \ (u \cup {n.top, n.dv}) /\ (\A r \in DOMAIN G : G[r] = z[r])
       /\ G = [r \in DOMAIN G |-> G[r]]
  <2>1. CASE q = m.dv
    <3>1. G = F
      BY <2>1
    <3>. HIDE DEF G
    <3>2. DOMAIN F = DOMAIN z \ (u \cup {n.top, n.dv})
      BY <2>1, <1>2, <1>4, <1>7, <1>10
    <3>3. \A r \in DOMAIN F : F[r] = z[r]
      BY <2>1, <1>4, <1>7, <3>2
    <3>. QED BY <3>1, <3>2, <3>3, <1>8
  <2>2. CASE q # m.dv
    <3>1. G = Without(F, q)
      BY <2>2
    <3>. HIDE DEF G
    <3>2. DOMAIN G = DOMAIN F \ {q} /\ \A r \in DOMAIN G : G[r] = F[r]
      BY <3>1 DEF Without
    <3>3. G = [r \in DOMAIN G |-> G[r]]
      BY <3>1 DEF Without
    <3>. QED BY <2>2, <3>2, <3>3, <1>2, <1>4, <1>7, <1>10
  <2>. QED BY <2>1, <2>2
<1>. HIDE DEF G
<1>16. Heap(n, z, u, {q})
  BY <1>9, <1>11, <1>12, <1>13, <1>14, <1>15, HeapMade
<1>17. Kept(sz, us \ {p}, z)
  BY <1>2, <1>4 DEF Kept
<1>18. z[q] = sz[p] + sz[q]
  BY <1>3, <1>4
<1>. QED BY <1>3, <1>4, <1>6, <1>10, <1>16, <1>17, <1>18 DEF n, z

(* dlfree leaves a heap in which exactly that chunk is no longer in use    *)
(* and no other block has moved.                                           *)
LEMMA FreeHeap ==
  ASSUME NEW m, NEW sz, NEW us, Heap(m, sz, us, {}), NEW p \in us, NEW mem, mem = chunk2mem(p)
  PROVE  \E z : Heap(dlfree(m, mem), z, us \ {p}, {}) /\ Kept(sz, us \ {p}, z)
<1>. DEFINE s == sz[p]
            x == p + s
            n == dlfree(m, mem)
            prevsize == FootAt(m, p)
            prev == p - prevsize
            a == unlink_chunk(m, prev, prevsize)
            t == s + prevsize
            d == set_free_with_pinuse([m EXCEPT !.dvsize = t], prev, t, x)
<1>1. us \subseteq DOMAIN sz /\ 0 \notin DOMAIN sz /\ p \in DOMAIN sz /\ p # m.top
  BY HeapUsed
<1>2. p \in Nat /\ p >= HeapBase /\ p >= 8 /\ s \in Nat /\ s > 0 /\ x \in DOMAIN sz /\ x # p
  BY <1>1, HeapChunk
<1>3. mem # 0 /\ mem2chunk(mem) = p
  BY <1>2, SizeFacts
<1>4. chunksize(m, p) = s /\ cinuse(m, p) /\ (pinuse(m, p) <=> AfterUsed(sz, us, p)) /\ pinuse(m, p) \in BOOLEAN
  BY <1>1, HeapHead
<1>5. (cinuse(m, x) <=> x \in us) /\ cinuse(m, x) \in BOOLEAN /\ (pinuse(m, x) <=> p \in us)
  <2>1. x \notin {}
    OBVIOUS
  <2>. QED BY <2>1, <1>1, HeapNext
<1>6. m.least_addr = HeapBase /\ HeapBase \in Nat
  <2>1. Frame(m) /\ Segment(m)
    BY DEF Heap
  <2>. QED BY <2>1, FrameFacts DEF Segment
<1>7. ok_address(m, p) /\ ok_next(p, x)
  BY <1>2, <1>6 DEF ok_address, ok_next
<1>. HIDE DEF s, x
<1>8. n = IF pinuse(m, p) THEN FreeForward(m, p, s, x)
          ELSE IF ~ok_address(m, prev) THEN Aborted(m)
          ELSE IF prev # m.dv
            THEN IF ok_next(prev, x) THEN FreeForward(a, prev, t, x) ELSE Aborted(m)
          ELSE IF cinuse(m, x) THEN d
          ELSE IF ok_next(prev, x) THEN FreeForward(m, prev, t, x) ELSE Aborted(m)
  <2>. DEFINE p1 == mem2chunk(mem)
              s1 == chunksize(m, p1)
              x1 == p1 + s1
              f1 == FootAt(m, p1)
              r1 == p1 - f1
              t1 == s1 + f1
              a1 == unlink_chunk(m, r1, f1)
              d1 == set_free_with_pinuse([m EXCEPT !.dvsize = t1], r1, t1, x1)
  <2>1. n = IF mem = 0 THEN m
            ELSE IF ~(ok_address(m, p1) /\ cinuse(m, p1)) THEN Aborted(m)
            ELSE IF pinuse(m, p1) THEN Forward(m, m, p1, s1, x1)
            ELSE IF ~ok_address(m, r1) THEN Aborted(m)
            ELSE IF r1 # m.dv THEN Forward(m, a1, r1, t1, x1)
            ELSE IF cinuse(m, x1) /\ pinuse(m, x1) THEN d1
            ELSE Forward(m, m, r1, t1, x1)
    BY DEF dlfree
  <2>2. p1 = p /\ s1 = s /\ x1 = x
    BY <1>3, <1>4 DEF x
  <2>4. f1 = prevsize /\ r1 = prev /\ t1 = t
    BY <2>2
  <2>5. a1 = a /\ d1 = d
    BY <2>2, <2>4
  <2>. HIDE DEF p1, s1, x1, f1, r1, t1, a1, d1
  <2>. HIDE DEF n, a, d, prev, t
  <2>3. pinuse(m, x)
    BY <1>5
  <2>. QED BY <1>3, <1>4, <1>5, <1>7, <2>1, <2>2, <2>3, <2>4, <2>5 DEF Forward
<1>9. CASE pinuse(m, p)
  <2>1. Heap(m, sz, us, {p}) /\ m.dv # p /\ AfterUsed(sz, us, p)
    BY <1>4, <1>9, HeapWeaken
  <2>2. s = sz[p] /\ x = p + s
    BY DEF s, x
  <2>3. n = FreeForward(m, p, s, x)
    BY <1>8, <1>9
  <2>. HIDE DEF n
  <2>4. \E z : Heap(FreeForward(m, p, s, x), z, us \ {p}, {}) /\ Kept(sz, us \ {p}, z)
    BY <2>1, <2>2, FreeForwardHeap
  <2>. QED BY <2>3, <2>4 DEF n
<1>10. CASE ~pinuse(m, p)
  <2>1. PICK q \in DOMAIN sz : q + sz[q] = p /\ q \notin us
    BY <1>4, <1>10 DEF AfterUsed
  <2>2. q \in Nat /\ q >= HeapBase /\ sz[q] \in Nat /\ sz[q] > 0
    BY HeapChunk
  <2>3. prevsize = sz[q]
    <3>1. FootAt(m, q + sz[q]) = sz[q]
      BY <2>1, <1>1 DEF Heap, Laid, Words
    <3>. QED BY <3>1, <2>1
  <2>4. prev = q
    BY <2>1, <2>2, <2>3
  <2>. DEFINE z == Join(sz, q)
              u == (us \ {p}) \cup {q}
              h == IF q = m.dv THEN m ELSE unlink_chunk(m, q, sz[q])
  <2>5. /\ Heap(h, z, u, {q}) /\ AfterUsed(z, u, q) /\ z[q] = sz[p] + sz[q]
        /\ q + z[q] = p + sz[p] /\ Kept(sz, us \ {p}, z) /\ q # m.top /\ h.head = m.head
    BY <2>1, JoinPrev
  <2>6. t = z[q] /\ x = q + t
    BY <2>3, <2>5 DEF s, x
  <2>7. ok_address(m, prev) /\ ok_next(prev, x)
    BY <2>2, <2>4, <1>2, <1>6, <2>1 DEF ok_address, ok_next, x, s
  <2>. DEFINE v == u \ {q}
  <2>8. v = us \ {p} /\ q \in u
    BY <2>1
  <2>9. x \in u <=> x \in us
    <3>1. x # q /\ x # p
      <4>1. x > p /\ p > q
        BY <2>1, <2>2, <1>2 DEF x, s
      <4>. QED BY <4>1, <2>2, <1>2 DEF x, s
    <3>. QED BY <3>1
  <2>10. n = IF q # m.dv THEN FreeForward(a, q, t, x)
             ELSE IF cinuse(m, x) THEN d ELSE FreeForward(m, q, t, x)
    BY <1>8, <1>10, <2>4, <2>7
  <2>11. a = unlink_chunk(m, q, sz[q]) /\ d = set_free_with_pinuse([m EXCEPT !.dvsize = t], q, t, x)
    BY <2>3, <2>4
  <2>. HIDE DEF z, u, h, t, prev, prevsize, n, v, a, d
  <2>12. \E w : Heap(n, w, v, {}) /\ Kept(z, v, w)
    <3>1. CASE q # m.dv
      <4>1. n = FreeForward(h, q, t, x)
        BY <2>10, <2>11, <3>1 DEF h
      <4>2. h.dv # q
        <5>1. SameBut(m, h, BinFields)
          <6>1. h = unlink_chunk(m, q, sz[q])
            BY <3>1 DEF h
          <6>2. q \in DOMAIN InBins(m, sz, us) /\ InBins(m, sz, us)[q] = sz[q]
            BY <3>1, <2>1, <2>5 DEF InBins
          <6>3. chunksize(m, q) = sz[q]
            BY HeapHead
          <6>4. Bins(m, InBins(m, sz, us)) /\ DOMAIN m = Fields
            BY FrameFacts DEF Heap
          <6>5. PICK F : F = InBins(m, sz, us)
            OBVIOUS
          <6>6. SameBut(m, unlink_chunk(m, q, F[q]), BinFields)
            BY <6>2, <6>3, <6>4, <6>5, BinsUnlink
          <6>. QED BY <6>1, <6>2, <6>5, <6>6
        <5>. QED BY <5>1, <3>1 DEF SameBut, Fields, BinFields
      <4>3. \E w : Heap(FreeForward(h, q, t, x), w, u \ {q}, {}) /\ Kept(z, u \ {q}, w)
        BY <2>5, <2>6, <2>8, <4>2, FreeForwardHeap
      <4>. QED BY <4>1, <4>3 DEF v
    <3>2. CASE q = m.dv
      <4>1. h = m
        BY <3>2 DEF h
      <4>2. CASE cinuse(m, x)
        <5>1. q + z[q] \in u
          BY <4>2, <1>5, <2>6, <2>9
        <5>2. n = set_free_with_pinuse([m EXCEPT !.dvsize = z[q]], q, z[q], q + z[q])
          BY <3>2, <4>2, <2>6, <2>10, <2>11
        <5>3. Heap(n, z, u \ {q}, {})
          BY <2>5, <2>8, <3>2, <4>1, <5>1, <5>2, FreeVictim
        <5>4. Kept(z, v, z)
          <6>1. u \subseteq DOMAIN z
            BY <2>5 DEF Heap, Laid
          <6>2. v \subseteq DOMAIN z
            BY <6>1 DEF v
          <6>. QED BY <6>2, KeptAll
        <5>. QED BY <5>3, <5>4 DEF v
      <4>3. CASE ~cinuse(m, x)
        <5>1. x \notin u
          BY <4>3, <1>5, <2>9
        <5>2. n = FreeForward(m, q, t, x)
          BY <3>2, <4>3, <2>10
        <5>3. \E w : Heap(FreeForward(m, q, t, x), w, u \ {q}, {}) /\ Kept(z, u \ {q}, w)
          BY <2>5, <2>6, <2>8, <4>1, <5>1, FreeForwardHeap
        <5>. QED BY <5>2, <5>3 DEF v
      <4>. QED BY <4>2, <4>3
    <3>. QED BY <3>1, <3>2
  <2>13. PICK w : Heap(n, w, v, {}) /\ Kept(z, v, w)
    BY <2>12
  <2>14. Kept(sz, us \ {p}, w)
    BY <2>5, <2>8, <2>13 DEF Kept
  <2>. QED BY <2>8, <2>13, <2>14 DEF n
<1>. QED BY <1>9, <1>10

-----------------------------------------------------------------------------
(* malloc: a chunk is taken.                                               *)

(* A chunk that has left its bin, marked as in use with its whole size, is *)
(* taken from the heap.                                                    *)
LEMMA TakeWhole ==
  ASSUME NEW m, NEW sz, NEW us, Heap(m, sz, us, {}), NEW v \in DOMAIN InBins(m, sz, us),
         NEW k, SameBut(m, k, BinFields), Bins(k, Without(InBins(m, sz, us), v)),
         NEW s, s = sz[v]
  PROVE  Heap(set_inuse_and_pinuse(k, v, s), sz, us \cup {v}, {})
<1>. DEFINE n == set_inuse_and_pinuse(k, v, s)
            F == InBins(m, sz, us)
            G == Without(F, v)
            u == us \cup {v}
            x == v + s
<1>1. /\ Frame(m) /\ Segment(m) /\ Laid(m, sz, us, {}, Ends(m)) /\ Pieces(m, sz, us)
      /\ Victim(m, sz, us, {}) /\ Bins(m, F) /\ DOMAIN m = Fields
  BY FrameFacts DEF Heap
<1>2. v \in DOMAIN sz \ us /\ v # m.top /\ v # m.dv
  BY DEF InBins
<1>3. v \in Nat /\ s \in Nat /\ s > 0 /\ x # v /\ x \in DOMAIN sz
  <2>1. v \in Nat /\ sz[v] \in Nat /\ sz[v] > 0 /\ v + sz[v] # v /\ v + sz[v] \in DOMAIN sz
    BY <1>2, HeapChunk
  <2>. QED BY <2>1
<1>4. DOMAIN k = Fields /\ k.head = m.head /\ k.foot = m.foot
  BY DEF SameBut, Fields, BinFields
<1>5. /\ SameBut(k, n, {"head"}) /\ n.foot = k.foot /\ OtherFeet(k, n, {})
      /\ NewHead(n, v, s, TRUE, TRUE) /\ NewHead(n, x, chunksize(k, x), cinuse(k, x), TRUE)
      /\ OtherHeads(k, n, {v, x})
  BY <1>3, <1>4, SetInuseAndPinuseFacts
<1>. HIDE DEF n
<1>6. Laid(k, sz, us, {}, Ends(m))
  BY <1>1, <1>4, LaidSame
<1>7. Laid(n, sz, u, {}, Ends(m))
  BY <1>2, <1>3, <1>5, <1>6, LaidTake
<1>8. SameBut(m, n, BinFields \cup {"head"})
  BY <1>5, SameButJoin
<1>9. Frame(n) /\ Ends(n) = Ends(m) /\ Segment(n)
  <2>1. SameBut(m, n, HeapFields)
    BY <1>8, SameButMore DEF HeapFields
  <2>. QED BY <1>1, <2>1, FrameSame
<1>10. n.top = m.top /\ n.topsize = m.topsize /\ n.dv = m.dv /\ n.dvsize = m.dvsize
  BY <1>8 DEF SameBut, Fields, BinFields
<1>11. Bins(n, G)
  <2>1. {"head"} \cap BinFields = {}
    BY DEF BinFields
  <2>. QED BY <2>1, <1>5, BinsSame
<1>12. Pieces(n, sz, u) /\ Victim(n, sz, u, {})
  BY <1>1, <1>2, <1>9, <1>10 DEF Pieces, Victim
<1>13. DOMAIN F = DOMAIN sz \ (us \cup {m.top, m.dv}) /\ \A q \in DOMAIN F : F[q] = sz[q]
  BY DEF InBins
<1>. HIDE DEF F
<1>15. DOMAIN G = DOMAIN F \ {v} /\ (\A y \in DOMAIN F \ {v} : G[y] = F[y])
      /\ G = [y \in DOMAIN G |-> G[y]]
  BY DEF Without
<1>. HIDE DEF G
<1>16. DOMAIN G = DOMAIN sz \ (u \cup {n.top, n.dv}) /\ \A q \in DOMAIN G : G[q] = sz[q]
  BY <1>10, <1>13, <1>15
<1>14. Laid(n, sz, u, {}, Ends(n))
  BY <1>7, <1>9
<1>. QED BY <1>9, <1>11, <1>12, <1>14, <1>15, <1>16, HeapMade DEF n

(* replace_dv bins the old victim.                                         *)
LEMMA ReplaceDvFacts ==
  ASSUME NEW m, DOMAIN m = Fields, NEW F, Bins(m, F), NEW P, NEW S, m.dv \notin DOMAIN F,
         m.dvsize # 0 => Sized(m.dvsize) /\ is_small(m.dvsize),
         NEW G, G = IF m.dvsize # 0 THEN Put(F, m.dv, m.dvsize) ELSE F
  PROVE  LET n == replace_dv(m, P, S)
         IN /\ SameBut(m, n, BinFields \cup {"dv", "dvsize"}) /\ n.dv = P /\ n.dvsize = S
            /\ Bins(n, G)
<1>. DEFINE k == IF m.dvsize # 0 THEN insert_small_chunk(m, m.dv, m.dvsize) ELSE m
            n == replace_dv(m, P, S)
<1>1. SameBut(m, k, BinFields) /\ Bins(k, G)
  <2>1. CASE m.dvsize # 0
    <3>1. k = insert_small_chunk(m, m.dv, m.dvsize) /\ G = Put(F, m.dv, m.dvsize)
      BY <2>1
    <3>. QED BY <2>1, <3>1, BinsInsertSmall
  <2>2. CASE m.dvsize = 0
    <3>1. k = m /\ G = F
      BY <2>2
    <3>2. SameBut(m, m, BinFields)
      BY DEF SameBut
    <3>. QED BY <3>1, <3>2
  <2>. QED BY <2>1, <2>2
<1>2. n = [k EXCEPT !.dv = P, !.dvsize = S]
  BY DEF replace_dv
<1>. HIDE DEF k, n
<1>3. DOMAIN k = Fields
  BY <1>1 DEF SameBut
<1>4. SameBut(k, n, {"dv", "dvsize"}) /\ n.dv = P /\ n.dvsize = S
  BY <1>2, <1>3 DEF SameBut, Fields
<1>5. Bins(n, G)
  <2>1. {"dv", "dvsize"} \cap BinFields = {}
    BY DEF BinFields
  <2>. QED BY <1>1, <1>4, <2>1, BinsSame
<1>6. SameBut(m, n, BinFields \cup {"dv", "dvsize"})
  BY <1>1, <1>4, SameButJoin
<1>. QED BY <1>4, <1>5, <1>6 DEF n

(* The front of a binned chunk taken for use, the rest made the victim or  *)
(* binned.                                                                 *)
LEMMA TakeFront ==
  ASSUME NEW m, NEW sz, NEW us, Heap(m, sz, us, {}), NEW v \in DOMAIN InBins(m, sz, us),
         NEW k, SameBut(m, k, BinFields), Bins(k, Without(InBins(m, sz, us), v)),
         NEW nb \in Nat, nb >= 16, nb % 8 = 0, NEW s \in Nat, s >= 16, sz[v] = nb + s,
         NEW a, a = set_size_and_pinuse_of_free_chunk(
                      set_size_and_pinuse_of_inuse_chunk(k, v, nb), v + nb, s),
         NEW n, \/ n = replace_dv(a, v + nb, s) /\ (m.dvsize # 0 => is_small(m.dvsize))
                \/ n = insert_chunk(a, v + nb, s)
  PROVE  LET z == Split(sz, v, nb)
         IN Heap(n, z, us \cup {v}, {}) /\ z[v] = nb /\ Kept(sz, us, z)
<1>. DEFINE b == set_size_and_pinuse_of_inuse_chunk(k, v, nb)
            r == v + nb
            F == InBins(m, sz, us)
            G == Without(F, v)
            u == us \cup {v}
            x == r + s
            z == Split(sz, v, nb)
            victim == n = replace_dv(a, r, s) /\ (m.dvsize # 0 => is_small(m.dvsize))
            H == IF victim THEN IF m.dvsize # 0 THEN Put(G, m.dv, m.dvsize) ELSE G
                           ELSE Put(G, r, s)
<1>1. /\ Frame(m) /\ Segment(m) /\ Laid(m, sz, us, {}, Ends(m)) /\ Pieces(m, sz, us)
      /\ Victim(m, sz, us, {}) /\ Bins(m, F) /\ DOMAIN m = Fields
  BY FrameFacts DEF Heap
<1>2. v \in DOMAIN sz \ us /\ v # m.top /\ v # m.dv
  BY DEF InBins
<1>3. v \in Nat /\ Sized(sz[v]) /\ v + sz[v] \in DOMAIN sz
  BY <1>2, HeapChunk
<1>4. r \in Nat /\ x = v + sz[v] /\ r # v /\ s = sz[v] - nb /\ s % 8 = 0 /\ Sized(s) /\ nb < sz[v]
      /\ nb > 0 /\ s # 0
  <2>1. PICK w \in Nat : w = sz[v] /\ w % 8 = 0 /\ w < WordRange
    BY <1>3 DEF Sized
  <2>2. w = nb + s
    BY <2>1
  <2>3. s % 8 = 0 /\ s < WordRange
    BY <2>1, <2>2, WordFacts
  <2>4. v \in Nat
    BY <1>3
  <2>. QED BY <2>1, <2>2, <2>3, <2>4 DEF Sized
<1>5. DOMAIN k = Fields /\ k.head = m.head /\ k.foot = m.foot /\ k.dv = m.dv /\ k.dvsize = m.dvsize
  BY DEF SameBut, Fields, BinFields
<1>6. /\ SameBut(k, b, {"head"}) /\ NewHead(b, v, nb, TRUE, TRUE)
      /\ OtherHeads(k, b, {v}) /\ OtherFeet(k, b, {}) /\ DOMAIN b = Fields
  <2>1. b = PutHead(k, v, nb, TRUE, TRUE)
    BY DEF set_size_and_pinuse_of_inuse_chunk
  <2>. HIDE DEF b
  <2>2. /\ SameBut(k, b, {"head"}) /\ NewHead(b, v, nb, TRUE, TRUE)
        /\ OtherHeads(k, b, {v}) /\ OtherFeet(k, b, {})
    BY <2>1, <1>5, PutHeadFacts
  <2>. QED BY <2>2 DEF SameBut
<1>26. a = set_size_and_pinuse_of_free_chunk(b, r, s) /\ (victim \/ n = insert_chunk(a, r, s))
  OBVIOUS
<1>. HIDE DEF b
<1>7. /\ SameBut(b, a, {"head", "foot"}) /\ NewHead(a, r, s, FALSE, TRUE) /\ OtherHeads(b, a, {r})
      /\ OtherFeet(b, a, {x}) /\ FootAt(a, x) = s /\ DOMAIN a = Fields
  <2>1. /\ SameBut(b, a, {"head", "foot"}) /\ NewHead(a, r, s, FALSE, TRUE) /\ OtherHeads(b, a, {r})
        /\ OtherFeet(b, a, {x}) /\ FootAt(a, x) = s
    <3>1. DOMAIN b = Fields /\ r \in Nat
      BY <1>4, <1>6
    <3>. DEFINE e == set_size_and_pinuse_of_free_chunk(b, r, s)
    <3>. HIDE DEF r
    <3>2. /\ SameBut(b, e, {"head", "foot"}) /\ NewHead(e, r, s, FALSE, TRUE) /\ OtherHeads(b, e, {r})
          /\ OtherFeet(b, e, {x}) /\ FootAt(e, x) = s
      BY <3>1, SetFreeFacts
    <3>. HIDE DEF e, x
    <3>3. a = e
      BY <1>26 DEF e
    <3>. QED BY <3>2, <3>3
  <2>. QED BY <2>1 DEF SameBut
<1>8. NewHead(a, v, nb, TRUE, TRUE)
  <2>1. v \notin {r}
    BY <1>4
  <2>. QED BY <1>6, <1>7, <2>1, HeadStays
<1>9. OtherHeads(k, a, {v, v + nb}) /\ OtherFeet(k, a, {v + sz[v]})
  <2>1. OtherHeads(k, a, {v} \cup {r}) /\ OtherFeet(k, a, {} \cup {x})
    BY <1>6, <1>7, HeadsJoin, FeetJoin
  <2>2. {v} \cup {r} = {v, v + nb} /\ {} \cup {x} = {v + sz[v]}
    BY <1>4
  <2>. QED BY <2>1, <2>2
<1>10. Laid(k, sz, us, {}, Ends(m))
  BY <1>1, <1>5, LaidSame
<1>11. Laid(a, z, u, {}, Ends(m))
  <2>1. NewHead(a, v + nb, sz[v] - nb, FALSE, TRUE)
    BY <1>4, <1>7
  <2>2. FootAt(a, v + sz[v]) = sz[v] - nb
    BY <1>4, <1>7
  <2>. QED BY <1>2, <1>4, <1>8, <1>9, <1>10, <2>1, <2>2, LaidTakeFront
<1>12. SameBut(k, a, {"head", "foot"})
  <2>1. SameBut(k, a, {"head"} \cup {"head", "foot"})
    BY <1>6, <1>7, SameButJoin
  <2>. QED BY <2>1, SameButMore
<1>13. Bins(a, G) /\ a.dv = m.dv /\ a.dvsize = m.dvsize
  <2>1. {"head", "foot"} \cap BinFields = {}
    BY DEF BinFields
  <2>2. DOMAIN k = Fields /\ Bins(k, G)
    BY <1>5
  <2>. HIDE DEF G
  <2>3. Bins(a, G)
    BY ONLY <1>12, <2>1, <2>2, BinsSame
  <2>4. a.dv = k.dv /\ a.dvsize = k.dvsize
    BY ONLY <1>12, <2>2 DEF SameBut, Fields
  <2>. QED BY ONLY <1>5, <2>3, <2>4
<1>14. /\ r \notin DOMAIN sz /\ DOMAIN z = DOMAIN sz \cup {r} /\ z[v] = nb /\ z[r] = s
       /\ \A q \in DOMAIN sz : q # v => z[q] = sz[q]
  <2>1. Tiling(sz, Ends(m))
    BY <1>1 DEF Laid
  <2>2. /\ v + nb \notin DOMAIN sz /\ DOMAIN z = DOMAIN sz \cup {v + nb} /\ z[v] = nb
        /\ z[v + nb] = sz[v] - nb /\ \A q \in DOMAIN sz : q # v => z[q] = sz[q]
    <3>1. v + nb \notin DOMAIN sz
      BY <1>2, <1>4, <2>1, SplitFacts
    <3>. QED BY <1>2, <1>4, <3>1 DEF Split
  <2>. QED BY <1>4, <2>2
<1>. HIDE DEF z
<1>15. DOMAIN F = DOMAIN sz \ (us \cup {m.top, m.dv}) /\ \A q \in DOMAIN F : F[q] = sz[q]
  BY DEF InBins
<1>. HIDE DEF F
<1>16. DOMAIN G = DOMAIN F \ {v} /\ (\A y \in DOMAIN F \ {v} : G[y] = F[y])
      /\ G = [y \in DOMAIN G |-> G[y]]
  BY DEF Without
<1>. HIDE DEF G
<1>17. m.dv \notin DOMAIN G /\ r \notin DOMAIN G /\ r # m.dv /\ r # m.top /\ m.top \in DOMAIN sz \ us
       /\ m.top # m.dv
       /\ (m.dvsize # 0 <=> m.dv \in DOMAIN sz \ us) /\ (m.dvsize # 0 => Sized(m.dvsize) /\ m.dvsize = sz[m.dv])
  <2>1. m.top \in DOMAIN sz \ us
    BY <1>1 DEF Pieces
  <2>2. CASE m.dvsize = 0
    <3>1. m.dv = 0 \/ sz[m.dv] = 0
      BY <2>2, <1>1 DEF Victim
    <3>2. m.dv = 0 /\ 0 \notin DOMAIN sz
      BY <1>1, <2>2, <3>1, HeapChunk, HeapUsed DEF Victim
    <3>3. r # m.dv
      BY <3>2, <1>4, <1>3
    <3>. QED BY <2>1, <2>2, <3>2, <3>3, <1>14, <1>15, <1>16
  <2>3. CASE m.dvsize # 0
    <3>1. m.dv \in DOMAIN sz \ us /\ m.dv # m.top /\ m.dvsize = sz[m.dv]
      BY <2>3, <1>1 DEF Victim
    <3>2. Sized(sz[m.dv])
      BY <3>1, HeapChunk
    <3>. QED BY <2>1, <2>3, <3>1, <3>2, <1>14, <1>15, <1>16
  <2>. QED BY <2>2, <2>3
<1>18. /\ SameBut(a, n, BinFields \cup {"dv", "dvsize"}) /\ Bins(n, H)
       /\ n.dv = (IF victim THEN r ELSE m.dv) /\ n.dvsize = (IF victim THEN s ELSE m.dvsize)
  <2>1. CASE victim
    <3>1. n = replace_dv(a, r, s) /\ H = IF a.dvsize # 0 THEN Put(G, a.dv, a.dvsize) ELSE G
      BY <2>1, <1>13
    <3>2. a.dv \notin DOMAIN G /\ (a.dvsize # 0 => Sized(a.dvsize) /\ is_small(a.dvsize))
      BY <2>1, <1>13, <1>17
    <3>. DEFINE e == replace_dv(a, r, s)
    <3>. HIDE DEF H, r, victim
    <3>3. /\ SameBut(a, e, BinFields \cup {"dv", "dvsize"}) /\ e.dv = r /\ e.dvsize = s
          /\ Bins(e, H)
      BY <3>1, <3>2, <1>7, <1>13, ReplaceDvFacts
    <3>. HIDE DEF e
    <3>4. n = e
      BY <3>1 DEF e
    <3>6. SameBut(a, n, BinFields \cup {"dv", "dvsize"}) /\ Bins(n, H) /\ n.dv = r /\ n.dvsize = s
      BY <3>3, <3>4
    <3>. QED BY <2>1, <3>6
  <2>2. CASE ~victim
    <3>1. n = insert_chunk(a, r, s) /\ H = Put(G, r, s)
      BY <2>2, <1>26
    <3>. HIDE DEF H
    <3>2. SameBut(a, n, BinFields) /\ Bins(n, H)
      BY <3>1, <1>4, <1>7, <1>13, <1>17, BinsInsert
    <3>3. SameBut(a, n, BinFields \cup {"dv", "dvsize"}) /\ n.dv = a.dv /\ n.dvsize = a.dvsize
      BY <3>2 DEF SameBut, BinFields, Fields
    <3>. QED BY <2>2, <3>2, <3>3, <1>13
  <2>. QED BY <2>1, <2>2
<1>. HIDE DEF victim
<1>19. /\ DOMAIN H = DOMAIN z \ (u \cup {n.top, n.dv}) /\ \A q \in DOMAIN H : H[q] = z[q]
       /\ H = [q \in DOMAIN H |-> H[q]]
       /\ n.top = m.top /\ n.topsize = m.topsize /\ n.head = a.head /\ n.foot = a.foot
  <2>1. n.top = m.top /\ n.topsize = m.topsize /\ n.head = a.head /\ n.foot = a.foot
    <3>1. a.top = k.top /\ a.topsize = k.topsize /\ k.top = m.top /\ k.topsize = m.topsize
      BY <1>12 DEF SameBut, Fields, BinFields
    <3>2. n.top = a.top /\ n.topsize = a.topsize /\ n.head = a.head /\ n.foot = a.foot
      BY <1>18 DEF SameBut, Fields, BinFields
    <3>. QED BY <3>1, <3>2
  <2>2. CASE victim /\ m.dvsize # 0
    <3>1. H = Put(G, m.dv, m.dvsize) /\ n.dv = r
      BY <2>2, <1>18
    <3>. HIDE DEF H
    <3>2. DOMAIN H = DOMAIN G \cup {m.dv} /\ H[m.dv] = m.dvsize /\ (\A q \in DOMAIN G : q # m.dv => H[q] = G[q])
          /\ H = [q \in DOMAIN H |-> H[q]]
      BY <3>1 DEF Put
    <3>. QED BY <2>1, <2>2, <3>1, <3>2, <1>2, <1>14, <1>15, <1>16, <1>17
  <2>3. CASE victim /\ m.dvsize = 0
    <3>1. H = G /\ n.dv = r
      BY <2>3, <1>18
    <3>. HIDE DEF H
    <3>. QED BY <2>1, <2>3, <3>1, <1>2, <1>14, <1>15, <1>16, <1>17
  <2>4. CASE ~victim
    <3>1. H = Put(G, r, s) /\ n.dv = m.dv
      BY <2>4, <1>18
    <3>. HIDE DEF H
    <3>2. DOMAIN H = DOMAIN G \cup {r} /\ H[r] = s /\ (\A q \in DOMAIN G : q # r => H[q] = G[q])
          /\ H = [q \in DOMAIN H |-> H[q]]
      BY <3>1 DEF Put
    <3>3. r # v /\ r \notin us
      BY <1>4, <1>1, <1>14 DEF Laid
    <3>. HIDE DEF r
    <3>4. DOMAIN H = DOMAIN z \ (u \cup {n.top, n.dv})
      BY <2>1, <2>4, <3>1, <3>2, <3>3, <1>2, <1>14, <1>15, <1>16, <1>17
    <3>5. \A q \in DOMAIN H : H[q] = z[q]
      BY <3>2, <3>3, <1>2, <1>14, <1>15, <1>16, <1>17
    <3>. QED BY <2>1, <3>2, <3>4, <3>5
  <2>. QED BY <2>2, <2>3, <2>4
<1>. HIDE DEF H
<1>20. Frame(n) /\ Ends(n) = Ends(m) /\ Segment(n)
  <2>1. SameBut(m, n, BinFields \cup ({"head", "foot"} \cup (BinFields \cup {"dv", "dvsize"})))
    BY <1>12, <1>18, SameButJoin
  <2>2. SameBut(m, n, HeapFields)
    BY <2>1, SameButMore DEF HeapFields
  <2>. QED BY <1>1, <2>2, FrameSame
<1>21. Laid(n, z, u, {}, Ends(n))
  BY <1>11, <1>19, <1>20, LaidSame
<1>22. Pieces(n, z, u)
  <2>1. \A q \in DOMAIN z : q # n.top => z[q] >= 16
    BY <1>1, <1>14, <1>19 DEF Pieces
  <2>2. n.top \in DOMAIN z \ u /\ n.topsize = z[n.top] /\ n.top + n.topsize = Ends(n)
    BY <1>1, <1>2, <1>14, <1>19, <1>20 DEF Pieces
  <2>. QED BY <2>1, <2>2 DEF Pieces
<1>23. Victim(n, z, u, {})
  <2>1. CASE victim
    <3>1. r \in DOMAIN z \ u /\ r # n.top /\ s = z[r]
      BY <1>1, <1>4, <1>14, <1>17, <1>19 DEF Laid
    <3>. QED BY <2>1, <3>1, <1>18 DEF Victim
  <2>2. CASE ~victim
    <3>1. n.dv = m.dv /\ n.dvsize = m.dvsize
      BY <2>2, <1>18
    <3>. QED BY <3>1, <1>1, <1>2, <1>14, <1>19 DEF Victim
  <2>. QED BY <2>1, <2>2
<1>24. Heap(n, z, u, {})
  BY <1>18, <1>19, <1>20, <1>21, <1>22, <1>23, HeapMade
<1>25. Kept(sz, us, z)
  BY <1>1, <1>2, <1>14 DEF Kept, Laid
<1>. QED BY <1>14, <1>24, <1>25 DEF z

-----------------------------------------------------------------------------
(* Cutting and growing a block in use.                                     *)

(* A block of a heap cut in two, its heads yet to be written.              *)
LEMMA HeapSplit ==
  ASSUME NEW m, NEW sz, NEW us, NEW o, Heap(m, sz, us, o), NEW p, p \in us,
         NEW nb \in Nat, nb % 8 = 0, nb >= 16, nb + 16 <= sz[p]
  PROVE  LET z == Split(sz, p, nb)
         IN /\ Heap(m, z, us \cup {p + nb}, o \cup {p, p + nb})
            /\ p + nb \notin DOMAIN sz /\ DOMAIN z = DOMAIN sz \cup {p + nb}
            /\ z[p] = nb /\ z[p + nb] = sz[p] - nb /\ \A q \in DOMAIN sz : q # p => z[q] = sz[q]
<1>. DEFINE z == Split(sz, p, nb)
            r == p + nb
            s == sz[p] - nb
            u == us \cup {r}
            o2 == o \cup {p, r}
            F == InBins(m, sz, us)
<1>1. /\ Frame(m) /\ Segment(m) /\ Laid(m, sz, us, o, Ends(m)) /\ Pieces(m, sz, us)
      /\ Victim(m, sz, us, o) /\ Bins(m, F) /\ Tiling(sz, Ends(m))
  BY DEF Heap, Laid
<1>2. p \in DOMAIN sz /\ p # m.top
  BY HeapUsed
<1>3. p \in Nat /\ sz[p] \in Nat /\ 0 < nb /\ nb < sz[p] /\ s \in Nat /\ s >= 16
  BY <1>2, HeapChunk
<1>4. /\ r \notin DOMAIN sz /\ DOMAIN z = DOMAIN sz \cup {r}
      /\ z[p] = nb /\ z[r] = s /\ \A q \in DOMAIN sz : q # p => z[q] = sz[q]
  <2>1. p + nb \notin DOMAIN sz
    BY <1>1, <1>2, <1>3, SplitFacts
  <2>. QED BY <1>2, <1>3, <2>1 DEF Split
<1>5. Laid(m, z, u, o2, Ends(m))
  BY <1>1, <1>3, LaidSplitOpen
<1>. HIDE DEF z, s
<1>6. \A q \in DOMAIN sz : sz[q] >= 16 \/ q = m.top
  BY <1>1 DEF Pieces
<1>7. m.top \in DOMAIN sz \ us /\ m.topsize = sz[m.top] /\ m.top + m.topsize = Ends(m)
  BY <1>1 DEF Pieces
<1>. HIDE DEF r
<1>8. Pieces(m, z, u)
  BY <1>2, <1>3, <1>4, <1>6, <1>7 DEF Pieces
<1>9. Victim(m, z, u, o2)
  BY <1>1, <1>2, <1>4 DEF Victim
<1>10. /\ DOMAIN F = DOMAIN sz \ (us \cup {m.top, m.dv}) /\ \A q \in DOMAIN F : F[q] = sz[q]
       /\ F = [q \in DOMAIN F |-> F[q]]
  BY DEF InBins
<1>. HIDE DEF F
<1>11. DOMAIN F = DOMAIN z \ (u \cup {m.top, m.dv}) /\ \A q \in DOMAIN F : F[q] = z[q]
  BY <1>2, <1>4, <1>10
<1>12. Heap(m, z, u, o2)
  BY <1>1, <1>5, <1>8, <1>9, <1>10, <1>11, HeapMade
<1>. QED BY <1>4, <1>12 DEF z, r, s

(* Heads written in a heap whose heads were left unsaid.                   *)
LEMMA HeapWrite ==
  ASSUME NEW m, NEW sz, NEW us, NEW o, Heap(m, sz, us, o), m.dv \notin us,
         NEW n, SameBut(m, n, {"head"}), NEW P, OtherHeads(m, n, P),
         NEW o2 \in SUBSET DOMAIN sz,
         \A p \in DOMAIN sz \ o2 : p \in P \cup o => HeadIs(n, p, sz[p], p \in us, AfterUsed(sz, us, p))
  PROVE  Heap(n, sz, us, o2)
<1>1. /\ Frame(m) /\ Segment(m) /\ Laid(m, sz, us, o, Ends(m)) /\ Pieces(m, sz, us)
      /\ Victim(m, sz, us, o) /\ Bins(m, InBins(m, sz, us))
  BY DEF Heap
<1>2. /\ n.dv = m.dv /\ n.dvsize = m.dvsize /\ n.top = m.top /\ n.topsize = m.topsize /\ n.foot = m.foot
  BY DEF SameBut, Fields
<1>3. Frame(n) /\ Segment(n) /\ Ends(n) = Ends(m)
  <2>1. SameBut(m, n, HeapFields)
    BY DEF SameBut, HeapFields
  <2>. QED BY <1>1, <2>1, FrameSame
<1>4. Laid(n, sz, us, o2, Ends(m))
  <2>1. \A p \in DOMAIN sz \ us : p + sz[p] \in DOMAIN sz => FootAt(m, p + sz[p]) = sz[p]
    BY <1>1 DEF Laid, Words
  <2>2. \A p \in DOMAIN sz \ us : p + sz[p] \in DOMAIN sz => FootAt(n, p + sz[p]) = sz[p]
    BY <1>2, <2>1 DEF FootAt
  <2>. QED BY <1>1, <2>2, LaidWrite
<1>5. Pieces(n, sz, us)
  BY <1>1, <1>2, <1>3 DEF Pieces
<1>6. Victim(n, sz, us, o2)
  BY <1>1, <1>2 DEF Victim
<1>7. Bins(n, InBins(n, sz, us))
  <2>1. {"head"} \cap BinFields = {}
    BY DEF BinFields
  <2>2. Bins(n, InBins(m, sz, us))
    BY <1>1, <2>1, BinsSame
  <2>3. InBins(n, sz, us) = InBins(m, sz, us)
    BY <1>2 DEF InBins
  <2>. QED BY <2>2, <2>3
<1>. QED BY <1>3, <1>4, <1>5, <1>6, <1>7 DEF Heap

(* The designated victim is never in use.                                  *)
LEMMA VictimFree ==
  ASSUME NEW m, NEW sz, NEW us, Heap(m, sz, us, {})
  PROVE  m.dv \notin us
<1>1. Victim(m, sz, us, {}) /\ us \subseteq DOMAIN sz /\ 0 \notin DOMAIN sz
  BY HeapUsed DEF Heap
<1>. QED BY <1>1 DEF Victim

(* A chunk in use is cut in two, both in use.                              *)
LEMMA SplitUsed ==
  ASSUME NEW m, NEW sz, NEW us, Heap(m, sz, us, {}), NEW p, p \in us,
         NEW nb \in Nat, nb % 8 = 0, nb >= 16, nb + 16 <= sz[p],
         NEW n, SameBut(m, n, {"head"}), NewHead(n, p, nb, TRUE, pinuse(m, p)),
         NewHead(n, p + nb, sz[p] - nb, TRUE, TRUE),
         NEW x, x = p + sz[p], NewHead(n, x, chunksize(m, x), cinuse(m, x), TRUE),
         OtherHeads(m, n, {p, p + nb, x})
  PROVE  LET z == Split(sz, p, nb)
         IN /\ Heap(n, z, us \cup {p + nb}, {})
            /\ p + nb \notin DOMAIN sz /\ DOMAIN z = DOMAIN sz \cup {p + nb}
            /\ z[p] = nb /\ z[p + nb] = sz[p] - nb /\ \A q \in DOMAIN sz : q # p => z[q] = sz[q]
<1>. DEFINE z == Split(sz, p, nb)
            r == p + nb
            s == sz[p] - nb
            u == us \cup {r}
<1>1. /\ Heap(m, z, u, {} \cup {p, r})
      /\ r \notin DOMAIN sz /\ DOMAIN z = DOMAIN sz \cup {r}
      /\ z[p] = nb /\ z[r] = s /\ \A q \in DOMAIN sz : q # p => z[q] = sz[q]
  <2>1. LET y == Split(sz, p, nb)
        IN /\ Heap(m, y, us \cup {p + nb}, {} \cup {p, p + nb})
           /\ p + nb \notin DOMAIN sz /\ DOMAIN y = DOMAIN sz \cup {p + nb}
           /\ y[p] = nb /\ y[p + nb] = sz[p] - nb /\ \A q \in DOMAIN sz : q # p => y[q] = sz[q]
    <3>1. Heap(m, Split(sz, p, nb), us \cup {p + nb}, {} \cup {p, p + nb})
      BY HeapSplit
    <3>2. p + nb \notin DOMAIN sz
      BY HeapSplit
    <3>3. p \in DOMAIN sz /\ p \in Nat
      BY HeapUsed, HeapChunk
    <3>. QED BY <3>1, <3>2, <3>3 DEF Split
  <2>. QED BY <2>1
<1>2. p \in DOMAIN sz /\ p # m.top /\ us \subseteq DOMAIN sz /\ m.dv \notin us
  BY HeapUsed, VictimFree
<1>3. /\ p \in Nat /\ sz[p] \in Nat /\ x \in DOMAIN sz /\ x \in Nat /\ p # x /\ r # p /\ r # x
      /\ r \in Nat /\ s \in Nat /\ s >= 16 /\ r + s = x
  <2>1. p \in Nat /\ sz[p] \in Nat /\ x \in DOMAIN sz
    BY <1>2, HeapChunk
  <2>2. x \in Nat
    BY <2>1, HeapChunk
  <2>. QED BY <2>1, <2>2
<1>4. m.dv \notin u
  <2>1. Victim(m, sz, us, {}) /\ 0 \notin DOMAIN sz
    BY HeapUsed DEF Heap
  <2>2. m.dv = 0 \/ m.dv \in DOMAIN sz
    BY <2>1 DEF Victim
  <2>. HIDE DEF r
  <2>3. r # 0
    BY <1>3 DEF r
  <2>. QED BY <1>1, <1>2, <2>2, <2>3
<1>5. /\ pinuse(m, p) \in BOOLEAN /\ (pinuse(m, p) <=> AfterUsed(sz, us, p))
      /\ chunksize(m, x) = sz[x] /\ cinuse(m, x) \in BOOLEAN /\ (cinuse(m, x) <=> x \in us)
  BY <1>2, <1>3, HeapHead
<1>6. sz[x] \in Nat
  BY <1>3, HeapChunk
<1>. HIDE DEF z
<1>7. AfterUsed(z, u, p) <=> AfterUsed(sz, us, p)
  <2>1. r + z[r] # p
    BY <1>1, <1>3, HeapChunk
  <2>2. p + z[p] # p
    BY <1>1, <1>3
  <2>3. p + sz[p] # p
    BY <1>3
  <2>4. \A q \in DOMAIN sz : q # p => (q \in u <=> q \in us)
    BY <1>1
  <2>. HIDE DEF r, u
  <2>. QED BY <1>1, <2>1, <2>2, <2>3, <2>4 DEF AfterUsed
<1>8. AfterUsed(z, u, r)
  <2>1. ASSUME NEW q \in DOMAIN z, q + z[q] = r PROVE q \in u
    <3>1. Tiling(z, Ends(m)) /\ p \in DOMAIN z /\ p + z[p] = r
      BY <1>1, <1>2 DEF Heap, Laid
    <3>2. q = p
      BY <2>1, <3>1, TilingUnique
    <3>. QED BY <3>2
  <2>. QED BY <2>1 DEF AfterUsed
<1>9. AfterUsed(z, u, x)
  <2>1. ASSUME NEW q \in DOMAIN z, q + z[q] = x PROVE q \in u
    <3>1. Tiling(z, Ends(m)) /\ r \in DOMAIN z /\ r + z[r] = x
      BY <1>1, <1>3 DEF Heap, Laid
    <3>2. q = r
      BY <2>1, <3>1, TilingUnique
    <3>. QED BY <3>2
  <2>. QED BY <2>1 DEF AfterUsed
<1>10. HeadIs(n, p, z[p], p \in u, AfterUsed(z, u, p))
  <2>1. HeadIs(n, p, nb, TRUE, pinuse(m, p))
    BY <1>5, NewHeadIs
  <2>. QED BY <2>1, <1>1, <1>5, <1>7 DEF HeadIs
<1>11. HeadIs(n, r, z[r], r \in u, AfterUsed(z, u, r))
  <2>1. HeadIs(n, r, s, TRUE, TRUE)
    BY <1>3, NewHeadIs
  <2>. QED BY <2>1, <1>1, <1>8 DEF HeadIs
<1>12. HeadIs(n, x, z[x], x \in u, AfterUsed(z, u, x))
  <2>1. HeadIs(n, x, chunksize(m, x), cinuse(m, x), TRUE)
    BY <1>5, <1>6, NewHeadIs
  <2>2. z[x] = sz[x] /\ (x \in u <=> x \in us)
    BY <1>1, <1>3
  <2>. QED BY <2>1, <2>2, <1>5, <1>9 DEF HeadIs
<1>. HIDE DEF u, r, s
<1>13. Heap(n, z, u, {})
  <2>1. OtherHeads(m, n, {p, r, x})
    BY DEF r
  <2>2. \A q \in DOMAIN z \ {} : q \in {p, r, x} \cup ({} \cup {p, r}) => HeadIs(n, q, z[q], q \in u, AfterUsed(z, u, q))
    BY <1>10, <1>11, <1>12
  <2>. QED BY <1>1, <1>4, <2>1, <2>2, HeapWrite
<1>. QED BY <1>1, <1>13 DEF z, u, r, s

(* A chunk in use is cut: the front part's head is written first, ...      *)
LEMMA CutBack ==
  ASSUME NEW m, NEW sz, NEW us, Heap(m, sz, us, {}), NEW p, p \in us,
         NEW nb \in Nat, nb % 8 = 0, nb >= 16, nb + 16 <= sz[p], NEW s, s = sz[p] - nb
  PROVE  /\ Heap(set_inuse(set_inuse(m, p, nb), p + nb, s), Split(sz, p, nb), us \cup {p + nb}, {})
         /\ p + nb \notin DOMAIN sz
<1>. DEFINE r == p + nb
            x == p + sz[p]
            a == set_inuse(m, p, nb)
            n == set_inuse(a, r, s)
<1>1. DOMAIN m = Fields
  BY FrameFacts DEF Heap
<1>2. p \in DOMAIN sz /\ p \in Nat /\ sz[p] \in Nat
  BY HeapUsed, HeapChunk
<1>3. r # p /\ r + s # r /\ r + s = x /\ r # x /\ p # x
  BY <1>2
<1>4. /\ SameBut(m, a, {"head"}) /\ NewHead(a, p, nb, TRUE, pinuse(m, p))
      /\ NewHead(a, r, chunksize(m, r), cinuse(m, r), TRUE) /\ OtherHeads(m, a, {p, r})
  BY <1>1, <1>3, SetInuseFacts
<1>. HIDE DEF a
<1>5. DOMAIN a = Fields
  BY <1>4 DEF SameBut
<1>6. n = set_inuse(a, r, s)
  OBVIOUS
<1>. HIDE DEF n, r
<1>7. /\ SameBut(a, n, {"head"})
      /\ NewHead(n, r, s, TRUE, pinuse(a, r))
      /\ NewHead(n, r + s, chunksize(a, r + s), cinuse(a, r + s), TRUE)
      /\ OtherHeads(a, n, {r, r + s})
  <2>1. LET k == set_inuse(a, r, s)
            y == r + s
        IN /\ SameBut(a, k, {"head"}) /\ k.foot = a.foot /\ OtherFeet(a, k, {})
           /\ NewHead(k, r, s, TRUE, pinuse(a, r)) /\ NewHead(k, y, chunksize(a, y), cinuse(a, y), TRUE)
           /\ OtherHeads(a, k, {r, y})
    BY <1>3, <1>5, SetInuseFacts
  <2>. QED BY <1>6, <2>1
<1>. HIDE DEF x
<1>8. SameBut(m, n, {"head"})
  BY <1>4, <1>7 DEF SameBut
<1>9. NewHead(n, p, nb, TRUE, pinuse(m, p))
  <2>1. p \notin {r, r + s}
    BY <1>3
  <2>. QED BY <2>1, <1>4, <1>7, HeadStays
<1>10. NewHead(n, r, s, TRUE, TRUE)
  <2>1. pinuse(a, r) = TRUE
    BY <1>4 DEF NewHead, pinuse
  <2>. QED BY <2>1, <1>7
<1>11. NewHead(n, x, chunksize(m, x), cinuse(m, x), TRUE)
  <2>1. x \notin {p, r}
    BY <1>3
  <2>2. chunksize(a, x) = chunksize(m, x) /\ cinuse(a, x) = cinuse(m, x)
    BY <1>4, <2>1, OtherHead
  <2>. QED BY <1>3, <1>7, <2>2
<1>12. OtherHeads(m, n, {p, r, x})
  <2>1. OtherHeads(m, n, {p, r} \cup {r, r + s})
    BY <1>4, <1>7, HeadsJoin
  <2>2. {p, r} \cup {r, r + s} = {p, r, x}
    BY <1>3
  <2>. QED BY <2>1, <2>2
<1>13. Heap(n, Split(sz, p, nb), us \cup {p + nb}, {}) /\ p + nb \notin DOMAIN sz
  <2>1. NewHead(n, p + nb, sz[p] - nb, TRUE, TRUE) /\ OtherHeads(m, n, {p, p + nb, x}) /\ x = p + sz[p]
    BY <1>10, <1>12 DEF r, x
  <2>. QED BY <1>8, <1>9, <1>11, <2>1, SplitUsed
<1>. QED BY <1>13 DEF n, a, r

(* ... or the back part's.                                                 *)
LEMMA CutFront ==
  ASSUME NEW m, NEW sz, NEW us, Heap(m, sz, us, {}), NEW p, p \in us,
         NEW nb \in Nat, nb % 8 = 0, nb >= 16, nb + 16 <= sz[p], NEW s, s = sz[p] - nb
  PROVE  /\ Heap(set_inuse(set_inuse(m, p + nb, s), p, nb), Split(sz, p, nb), us \cup {p + nb}, {})
         /\ p + nb \notin DOMAIN sz
<1>. DEFINE r == p + nb
            x == p + sz[p]
            a == set_inuse(m, r, s)
            n == set_inuse(a, p, nb)
<1>1. DOMAIN m = Fields
  BY FrameFacts DEF Heap
<1>2. p \in DOMAIN sz /\ p \in Nat /\ sz[p] \in Nat
  BY HeapUsed, HeapChunk
<1>3. r # p /\ r + s # r /\ r + s = x /\ r # x /\ p # x
  BY <1>2
<1>14. a = set_inuse(m, r, s) /\ n = set_inuse(a, p, nb)
  OBVIOUS
<1>15. p + nb = r
  OBVIOUS
<1>. HIDE DEF a, n, r
<1>4. /\ SameBut(m, a, {"head"}) /\ NewHead(a, r, s, TRUE, pinuse(m, r))
      /\ NewHead(a, x, chunksize(m, x), cinuse(m, x), TRUE) /\ OtherHeads(m, a, {r, x})
  <2>1. LET k == set_inuse(m, r, s)
            y == r + s
        IN /\ SameBut(m, k, {"head"}) /\ k.foot = m.foot /\ OtherFeet(m, k, {})
           /\ NewHead(k, r, s, TRUE, pinuse(m, r)) /\ NewHead(k, y, chunksize(m, y), cinuse(m, y), TRUE)
           /\ OtherHeads(m, k, {r, y})
    BY <1>1, <1>3, SetInuseFacts
  <2>. HIDE DEF x
  <2>. QED BY <1>3, <1>14, <2>1
<1>5. DOMAIN a = Fields
  BY <1>4 DEF SameBut
<1>7. /\ SameBut(a, n, {"head"})
      /\ NewHead(n, p, nb, TRUE, pinuse(a, p))
      /\ NewHead(n, r, chunksize(a, r), cinuse(a, r), TRUE)
      /\ OtherHeads(a, n, {p, r})
  <2>1. p + nb # p
    BY <1>3, <1>15
  <2>2. LET k == set_inuse(a, p, nb)
            y == p + nb
        IN /\ SameBut(a, k, {"head"}) /\ k.foot = a.foot /\ OtherFeet(a, k, {})
           /\ NewHead(k, p, nb, TRUE, pinuse(a, p)) /\ NewHead(k, y, chunksize(a, y), cinuse(a, y), TRUE)
           /\ OtherHeads(a, k, {p, y})
    BY <1>5, <2>1, SetInuseFacts
  <2>. QED BY <1>14, <1>15, <2>2
<1>. HIDE DEF x
<1>8. SameBut(m, n, {"head"})
  BY <1>4, <1>7 DEF SameBut
<1>9. NewHead(n, p, nb, TRUE, pinuse(m, p))
  <2>1. p \notin {r, x}
    BY <1>3
  <2>2. pinuse(a, p) = pinuse(m, p)
    BY <1>4, <2>1, OtherHead
  <2>. QED BY <2>2, <1>7
<1>10. NewHead(n, r, s, TRUE, TRUE)
  <2>1. chunksize(a, r) = s /\ cinuse(a, r) = TRUE
    BY <1>4 DEF NewHead, chunksize, cinuse
  <2>. QED BY <2>1, <1>7
<1>11. NewHead(n, x, chunksize(m, x), cinuse(m, x), TRUE)
  <2>1. x \notin {p, r}
    BY <1>3
  <2>. QED BY <2>1, <1>4, <1>7, HeadStays
<1>12. OtherHeads(m, n, {p, r, x})
  <2>1. OtherHeads(m, n, {r, x} \cup {p, r})
    BY <1>4, <1>7, HeadsJoin
  <2>2. {r, x} \cup {p, r} = {p, r, x}
    OBVIOUS
  <2>. QED BY <2>1, <2>2
<1>13. Heap(n, Split(sz, p, nb), us \cup {p + nb}, {}) /\ p + nb \notin DOMAIN sz
  <2>1. NewHead(n, p + nb, sz[p] - nb, TRUE, TRUE) /\ OtherHeads(m, n, {p, p + nb, x}) /\ x = p + sz[p]
    BY <1>10, <1>12 DEF r, x
  <2>. QED BY <1>8, <1>9, <1>11, <2>1, SplitUsed
<1>. QED BY <1>13 DEF n, a, r

(* What a move of the block in chunk p promises.                           *)
Moved(r, sz, us, p, k) ==
  \E z : /\ Kept(sz, us \ {p}, z)
         /\ \/ r.mem = 0 /\ Heap(r.m, z, us, {}) /\ Kept(sz, us, z)
            \/ \E q \in DOMAIN z \ (us \ {p}) : /\ r.mem = chunk2mem(q) /\ Heap(r.m, z, (us \ {p}) \cup {q}, {})
                                                /\ z[q] >= k

(* dlrealloc to a smaller size frees the rest of the block.                *)
LEMMA ShrunkMoved ==
  ASSUME NEW m, NEW sz, NEW us, Heap(m, sz, us, {}), NEW p, p \in us,
         NEW nb \in Nat, nb % 8 = 0, nb >= 16, nb + 16 <= sz[p], NEW s, s = sz[p] - nb, NEW k, nb >= k,
         NEW mem, mem = chunk2mem(p)
  PROVE  Moved([m |-> dlfree(set_inuse(set_inuse(m, p, nb), p + nb, s), chunk2mem(p + nb)), mem |-> mem],
               sz, us, p, k)
<1>. DEFINE r == p + nb
            y == Split(sz, p, nb)
            a == set_inuse(set_inuse(m, p, nb), r, s)
            n == dlfree(a, chunk2mem(r))
<1>1. p \in DOMAIN sz /\ p \in Nat /\ us \subseteq DOMAIN sz
  BY HeapUsed, HeapChunk
<1>2. Heap(a, y, us \cup {r}, {}) /\ r \notin DOMAIN sz
  <2>1. /\ Heap(set_inuse(set_inuse(m, p, nb), p + nb, s), Split(sz, p, nb), us \cup {p + nb}, {})
        /\ p + nb \notin DOMAIN sz
    BY CutBack
  <2>. QED BY ONLY <2>1
<1>20. nb # 0 /\ p + nb \notin DOMAIN sz
  BY <1>2
<1>3. y[p] = nb /\ \A q \in DOMAIN sz : q # p => y[q] = sz[q]
  BY <1>1, <1>20 DEF Split
<1>4. DOMAIN y = DOMAIN sz \cup {r}
  BY <1>1, <1>20 DEF Split
<1>. HIDE DEF a, y, r
<1>5. PICK z : Heap(n, z, (us \cup {r}) \ {r}, {}) /\ Kept(y, (us \cup {r}) \ {r}, z)
  BY <1>2, FreeHeap
<1>. HIDE DEF n
<1>6. (us \cup {r}) \ {r} = us
  BY <1>1, <1>2
<1>7. Kept(sz, us \ {p}, z)
  BY <1>1, <1>3, <1>5, <1>6 DEF Kept
<1>8. z[p] = nb /\ p \in DOMAIN z
  BY <1>3, <1>5, <1>6 DEF Kept
<1>9. (us \ {p}) \cup {p} = us
  OBVIOUS
<1>10. p \in DOMAIN z \ (us \ {p}) /\ Heap(n, z, (us \ {p}) \cup {p}, {}) /\ z[p] >= k
  BY <1>5, <1>6, <1>8, <1>9
<1>11. Moved([m |-> n, mem |-> mem], sz, us, p, k)
  BY <1>7, <1>10 DEF Moved
<1>. QED BY <1>11 DEF n, a, r

(* A block that ends where the top chunk starts is extended into it: the   *)
(* chunks as they lie before and after.                                    *)
GrownTo(m, sz, us, p, nb, z) ==
  /\ Laid(m, z, us, {p, p + nb}, Ends(m)) /\ p + nb \notin DOMAIN sz
  /\ DOMAIN z = (DOMAIN sz \ {m.top}) \cup {p + nb} /\ z[p] = nb
  /\ z[p + nb] = sz[p] + m.topsize - nb
  /\ \A q \in DOMAIN sz \ {p, m.top} : z[q] = sz[q]
  /\ AfterUsed(z, us, p + nb) /\ (AfterUsed(z, us, p) <=> AfterUsed(sz, us, p))
  /\ p + nb + z[p + nb] = Ends(m)
Grows(m, sz, us, p, nb) ==
  /\ Heap(m, sz, us, {}) /\ p \in us /\ p + sz[p] = m.top
  /\ nb \in Nat /\ nb % 8 = 0 /\ nb >= 16 /\ nb > sz[p] /\ nb < sz[p] + m.topsize

(* The layout of a block grown into the top.                               *)
LEMMA GrownLaid ==
  ASSUME NEW m, NEW sz, NEW us, NEW p, NEW nb, Grows(m, sz, us, p, nb)
  PROVE  \E z : GrownTo(m, sz, us, p, nb, z)
<1>. USE DEF Grows
<1>. DEFINE hi == Ends(m)
            t == m.top
            r == p + nb
            j == Join(sz, p)
            z == Split(j, p, nb)
<1>1. p \in DOMAIN sz /\ p \in Nat /\ us \subseteq DOMAIN sz /\ sz[p] \in Nat /\ sz[p] > 0 /\ t \in DOMAIN sz \ us
      /\ p # t
  BY HeapUsed, HeapChunk
<1>2. t \in Nat /\ sz[t] \in Nat /\ t + sz[t] = hi /\ hi \in Nat /\ hi \notin DOMAIN sz /\ m.topsize = sz[t]
      /\ sz[t] > 0
  BY <1>1, HeapChunk, TopFacts
<1>3. Laid(m, sz, us, {}, hi) /\ Tiling(sz, hi)
  BY DEF Heap, Laid
<1>4. Laid(m, sz, us \cup {t}, {t}, hi)
  <2>1. {} \cup ({t, t + sz[t]} \cap DOMAIN sz) = {t}
    BY <1>1, <1>2
  <2>2. Laid(m, sz, us \cup {t}, {} \cup ({t, t + sz[t]} \cap DOMAIN sz), hi)
    BY <1>1, <1>3, LaidTakeOpen
  <2>. QED BY <2>1, <2>2
<1>5. Laid(m, j, us, {p}, hi)
  <2>1. Laid(m, Join(sz, p), (us \cup {t}) \ {p + sz[p]}, ({t} \cup {p}) \ {p + sz[p]}, hi)
    <3>1. p \in us \cup {t} /\ p + sz[p] \in us \cup {t}
      OBVIOUS
    <3>. QED BY <1>4, <3>1, LaidJoinOpen
  <2>2. (us \cup {t}) \ {p + sz[p]} = us /\ ({t} \cup {p}) \ {p + sz[p]} = {p}
    BY <1>1
  <2>. QED BY <2>1, <2>2
<1>6. /\ DOMAIN j = DOMAIN sz \ {t} /\ p \in DOMAIN j /\ j[p] = sz[p] + sz[t]
      /\ \A q \in DOMAIN sz \ {p, t} : j[q] = sz[q]
  BY <1>1 DEF Join
<1>7. Tiling(j, hi)
  BY <1>5 DEF Laid
<1>. HIDE DEF j
<1>8. nb > 0 /\ nb < j[p]
  BY <1>1, <1>2, <1>6
<1>9. Laid(m, z, us \cup {r}, {p, r}, hi)
  <2>1. Laid(m, Split(j, p, nb), us \cup {p + nb}, {p} \cup {p, p + nb}, hi)
    BY <1>5, <1>8, LaidSplitOpen
  <2>2. {p} \cup {p, p + nb} = {p, p + nb}
    OBVIOUS
  <2>. QED BY <2>1, <2>2
<1>10. r \notin DOMAIN sz /\ r \in Nat /\ r > t /\ r < hi /\ r # p
  <2>1. r \in Nat /\ r > t /\ r < hi /\ r # p
    BY <1>1, <1>2
  <2>2. ASSUME r \in DOMAIN sz PROVE FALSE
    <3>1. t + sz[t] <= r
      BY <1>1, <1>3, <2>1, <2>2 DEF Tiling
    <3>. QED BY <3>1, <1>2, <2>1
  <2>. QED BY <2>1, <2>2
<1>11. /\ DOMAIN z = (DOMAIN sz \ {t}) \cup {r} /\ z[p] = nb /\ z[r] = sz[p] + m.topsize - nb
       /\ \A q \in DOMAIN sz \ {p, t} : z[q] = sz[q]
  BY <1>1, <1>2, <1>6, <1>10 DEF Split
<1>12. Tiling(z, hi) /\ z[p] \in Nat /\ z[r] \in Nat /\ p + z[p] = r /\ r + z[r] = hi
  BY <1>1, <1>2, <1>9, <1>10, <1>11 DEF Laid
<1>. HIDE DEF z
<1>13. AfterUsed(z, us \cup {r}, r) /\ AfterUsed(z, us, r)
  <2>1. ASSUME NEW q \in DOMAIN z, q + z[q] = r PROVE q = p
    BY <1>11, <1>12, <1>10, <1>1, <2>1, TilingUnique
  <2>. QED BY <2>1 DEF AfterUsed
<1>14. Laid(m, z, us, {p, r}, hi)
  <2>1. r + z[r] \notin DOMAIN z
    BY <1>2, <1>10, <1>11, <1>12
  <2>2. Laid(m, z, (us \cup {r}) \ {r}, {p, r} \cup ({r, r + z[r]} \cap DOMAIN z), hi)
    <3>1. r \in us \cup {r}
      OBVIOUS
    <3>. HIDE DEF r
    <3>. QED BY <1>9, <1>13, <2>1, <3>1, LaidFreeOpen
  <2>3. (us \cup {r}) \ {r} = us
    BY <1>1, <1>10
  <2>4. {p, r} \cup ({r, r + z[r]} \cap DOMAIN z) = {p, r}
    BY <2>1, <1>11
  <2>. QED BY <2>2, <2>3, <2>4
<1>15. AfterUsed(z, us, p) <=> AfterUsed(sz, us, p)
  <2>1. ASSUME NEW q \in DOMAIN z, q + z[q] = p PROVE q \in DOMAIN sz /\ q + sz[q] = p
    <3>1. q # p /\ q # r
      BY <2>1, <1>1, <1>12, <1>10, <1>8
    <3>. QED BY <3>1, <2>1, <1>11
  <2>2. ASSUME NEW q \in DOMAIN sz, q + sz[q] = p PROVE q \in DOMAIN z /\ q + z[q] = p
    <3>1. q # p /\ q # t
      BY <2>2, <1>1, <1>2
    <3>. QED BY <3>1, <2>2, <1>11
  <2>. QED BY <2>1, <2>2 DEF AfterUsed
<1>. QED BY <1>10, <1>11, <1>12, <1>13, <1>14, <1>15 DEF GrownTo

Regrown(n, sz, us, p, nb) ==
  \E z : Heap(n, z, us, {}) /\ p \in DOMAIN z /\ z[p] = nb /\ Kept(sz, us \ {p}, z)

(* The heads written for a block grown into the top.                       *)
LEMMA GrownAt ==
  ASSUME NEW m, NEW sz, NEW us, NEW p, NEW nb, Grows(m, sz, us, p, nb),
         NEW left, left = sz[p] + m.topsize - nb,
         NEW r, r = p + nb,
         NEW n, SameBut(m, n, {"head", "top", "topsize"}), n.top = r, n.topsize = left,
         NewHead(n, p, nb, TRUE, pinuse(m, p)), NewHead(n, r, left, FALSE, TRUE), OtherHeads(m, n, {p, r})
  PROVE  Regrown(n, sz, us, p, nb)
<1>. USE DEF Grows
<1>. DEFINE F == InBins(m, sz, us)
<1>1. /\ Frame(m) /\ Segment(m) /\ Laid(m, sz, us, {}, Ends(m)) /\ Pieces(m, sz, us)
      /\ Victim(m, sz, us, {}) /\ Bins(m, F) /\ DOMAIN m = Fields
  BY FrameFacts DEF Heap
<1>17. /\ DOMAIN F = DOMAIN sz \ (us \cup {m.top, m.dv})
       /\ \A q \in DOMAIN F : F[q] = sz[q]
       /\ F = [q \in DOMAIN F |-> F[q]]
  BY DEF InBins
<1>. HIDE DEF F
<1>2. p \in DOMAIN sz /\ p # m.top /\ us \subseteq DOMAIN sz /\ 0 \notin DOMAIN sz /\ m.top \in DOMAIN sz \ us
  BY HeapUsed
<1>3. p \in Nat /\ sz[p] \in Nat /\ sz[p] > 0 /\ m.topsize \in Nat /\ m.topsize > 0 /\ left \in Nat /\ r # p
  <2>1. p \in Nat /\ sz[p] \in Nat /\ sz[p] > 0
    BY <1>2, HeapChunk
  <2>2. m.topsize \in Nat /\ m.topsize > 0
    BY TopFacts
  <2>. QED BY <2>1, <2>2
<1>4. PICK z : GrownTo(m, sz, us, p, nb, z)
  BY ONLY GrownLaid, Grows(m, sz, us, p, nb)
<1>5. /\ Laid(m, z, us, {p, r}, Ends(m)) /\ r \notin DOMAIN sz
      /\ DOMAIN z = (DOMAIN sz \ {m.top}) \cup {r} /\ z[p] = nb /\ z[r] = left
      /\ \A q \in DOMAIN sz \ {p, m.top} : z[q] = sz[q]
      /\ AfterUsed(z, us, r) /\ (AfterUsed(z, us, p) <=> AfterUsed(sz, us, p)) /\ r + z[r] = Ends(m)
  BY <1>4 DEF GrownTo
<1>10. n.dv = m.dv /\ n.dvsize = m.dvsize /\ n.foot = m.foot
  BY DEF SameBut, Fields
<1>11. Frame(n) /\ Ends(n) = Ends(m) /\ Segment(n)
  <2>1. SameBut(m, n, HeapFields)
    BY DEF SameBut, HeapFields
  <2>. QED BY <1>1, <2>1, FrameSame
<1>13. Laid(n, z, us, {}, Ends(m))
  <2>1. \A q \in DOMAIN z \ us : q + z[q] \in DOMAIN z => FootAt(m, q + z[q]) = z[q]
    BY <1>5 DEF Laid, Words
  <2>2. \A q \in DOMAIN z \ us : q + z[q] \in DOMAIN z => FootAt(n, q + z[q]) = z[q]
    BY <1>10, <2>1 DEF FootAt
  <2>3. pinuse(m, p) \in BOOLEAN /\ (pinuse(m, p) <=> AfterUsed(sz, us, p))
    BY <1>2, HeapHead
  <2>4. HeadIs(n, p, z[p], p \in us, AfterUsed(z, us, p))
    <3>1. HeadIs(n, p, nb, TRUE, pinuse(m, p))
      BY <2>3, NewHeadIs
    <3>. QED BY <3>1, <1>5, <2>3 DEF HeadIs
  <2>5. HeadIs(n, r, z[r], r \in us, AfterUsed(z, us, r))
    <3>1. HeadIs(n, r, left, FALSE, TRUE)
      BY <1>3, NewHeadIs
    <3>2. r \notin us
      BY <1>2, <1>5
    <3>. QED BY <3>1, <3>2, <1>5 DEF HeadIs
  <2>6. \A q \in DOMAIN z \ {} : q \in {p, r} \cup {p, r} => HeadIs(n, q, z[q], q \in us, AfterUsed(z, us, q))
    BY <2>4, <2>5
  <2>7. {} \in SUBSET DOMAIN z
    OBVIOUS
  <2>. QED BY <1>5, <2>2, <2>6, <2>7, LaidWrite
<1>14. Pieces(n, z, us)
  <2>1. \A q \in DOMAIN z : q # n.top => z[q] >= 16
    BY <1>1, <1>5, <1>10 DEF Pieces
  <2>2. n.top \in DOMAIN z \ us /\ n.topsize = z[n.top]
    BY <1>2, <1>5, <1>10
  <2>3. n.top + n.topsize = Ends(n)
    BY <1>5, <1>10, <1>11
  <2>. QED BY <2>1, <2>2, <2>3 DEF Pieces
<1>15. Victim(n, z, us, {})
  <2>1. CASE m.dv = 0 /\ m.dvsize = 0
    BY <2>1, <1>10 DEF Victim
  <2>2. CASE m.dv \in DOMAIN sz \ us /\ m.dv # m.top /\ m.dvsize = sz[m.dv]
    BY <2>2, <1>5, <1>10 DEF Victim
  <2>. QED BY <1>1, <2>1, <2>2 DEF Victim
<1>16. Bins(n, F)
  <2>1. {"head", "top", "topsize"} \cap BinFields = {}
    BY DEF BinFields
  <2>. QED BY <2>1, <1>1, BinsSame
<1>18. DOMAIN F = DOMAIN z \ (us \cup {n.top, n.dv}) /\ \A q \in DOMAIN F : F[q] = z[q]
  <2>1. DOMAIN F = DOMAIN z \ (us \cup {r, m.dv})
    BY <1>2, <1>5, <1>17
  <2>2. \A q \in DOMAIN F : q \in DOMAIN sz \ {p, m.top}
    BY <1>17
  <2>. QED BY <2>1, <2>2, <1>5, <1>10, <1>17
<1>19. Laid(n, z, us, {}, Ends(n))
  BY <1>11, <1>13
<1>20. Heap(n, z, us, {})
  BY <1>11, <1>14, <1>15, <1>16, <1>17, <1>18, <1>19, HeapMade
<1>23. p \in DOMAIN z /\ z[p] = nb
  BY <1>2, <1>5
<1>24. Kept(sz, us \ {p}, z)
  BY <1>2, <1>5 DEF Kept
<1>. QED BY <1>20, <1>23, <1>24 DEF Regrown

(* dlrealloc of the block before the top grows it in place.                *)
LEMMA GrownHeap ==
  ASSUME NEW m, NEW sz, NEW us, NEW p, NEW nb, Grows(m, sz, us, p, nb),
         NEW left, left = sz[p] + m.topsize - nb
  PROVE  LET n == PutHead([set_inuse(m, p, nb) EXCEPT !.top = p + nb, !.topsize = left],
                          p + nb, left, FALSE, TRUE)
         IN Regrown(n, sz, us, p, nb)
<1>. DEFINE r == p + nb
            a == set_inuse(m, p, nb)
            b == [a EXCEPT !.top = r, !.topsize = left]
            n == PutHead(b, r, left, FALSE, TRUE)
<1>1. DOMAIN m = Fields
  BY FrameFacts DEF Heap, Grows
<1>3. p \in Nat /\ r # p
  <2>1. p \in Nat
    BY HeapUsed, HeapChunk DEF Grows
  <2>. QED BY <2>1 DEF Grows
<1>21. r = p + nb
  OBVIOUS
<1>6. /\ SameBut(m, a, {"head"}) /\ NewHead(a, p, nb, TRUE, pinuse(m, p))
      /\ OtherHeads(m, a, {p, r}) /\ DOMAIN a = Fields
  <2>1. SameBut(m, a, {"head"}) /\ NewHead(a, p, nb, TRUE, pinuse(m, p)) /\ OtherHeads(m, a, {p, p + nb})
    BY <1>1, <1>3, SetInuseFacts
  <2>. QED BY <2>1 DEF SameBut
<1>. HIDE DEF a
<1>7. SameBut(a, b, {"top", "topsize"}) /\ b.head = a.head /\ DOMAIN b = Fields /\ b.top = r /\ b.topsize = left
  BY <1>6 DEF SameBut, Fields
<1>. HIDE DEF b
<1>8. SameBut(b, n, {"head"}) /\ NewHead(n, r, left, FALSE, TRUE) /\ OtherHeads(b, n, {r})
  BY <1>7, PutHeadFacts
<1>. HIDE DEF n, r
<1>9. SameBut(m, n, {"head", "top", "topsize"})
  BY <1>6, <1>7, <1>8 DEF SameBut, Fields
<1>10. n.top = r /\ n.topsize = left
  BY <1>7, <1>8 DEF SameBut, Fields
<1>12. OtherHeads(m, n, {p, r}) /\ NewHead(n, p, nb, TRUE, pinuse(m, p))
  <2>1. OtherHeads(a, b, {})
    BY <1>7, SameHeads
  <2>2. OtherHeads(m, b, {p, r} \cup {})
    BY <1>6, <2>1, HeadsJoin
  <2>3. OtherHeads(m, n, ({p, r} \cup {}) \cup {r})
    BY <1>8, <2>2, HeadsJoin
  <2>4. ({p, r} \cup {}) \cup {r} = {p, r}
    OBVIOUS
  <2>5. NewHead(b, p, nb, TRUE, pinuse(m, p))
    <3>1. p \notin {}
      OBVIOUS
    <3>. QED BY <1>6, <2>1, <3>1, HeadStays
  <2>6. NewHead(n, p, nb, TRUE, pinuse(m, p))
    <3>1. p \notin {r}
      BY <1>3
    <3>. QED BY <3>1, <1>8, <2>5, HeadStays
  <2>. QED BY <2>3, <2>4, <2>6
<1>13. Regrown(n, sz, us, p, nb)
  BY <1>8, <1>9, <1>10, <1>12, <1>21, GrownAt
<1>. QED BY <1>13 DEF n, b, a, r

(* The offsets of the pieces of a chunk are their sizes added up.          *)
Adds(at, pieces) ==
  /\ at \in [0 .. Len(pieces) -> Nat] /\ at[0] = 0
  /\ \A i \in 1 .. Len(pieces) : at[i] = at[i - 1] + pieces[i]

(* The offsets of the pieces of a chunk add up.                            *)
LEMMA OffsetsAdd ==
  ASSUME NEW pieces \in Seq(Nat)
  PROVE  Adds(Offsets(pieces), pieces)
<1>. DEFINE n == Len(pieces)
            G == [i \in 1 .. n |-> [x \in Nat |-> x + pieces[i]]]
            at == Offsets(pieces)
            S == {i \in 0 .. n : at[i] \in Nat}
<1>1. n \in Nat /\ \A i \in 1 .. n : pieces[i] \in Nat
  OBVIOUS
<1>2. G \in [1 .. n -> [Nat -> Nat]]
  BY <1>1
<1>3. \E f : IsWalk(f, n, Nat, 0, G)
  <2>. HIDE DEF G, n
  <2>. QED BY <1>1, <1>2, WalkExists
<1>4. PICK f : IsWalk(f, n, Nat, 0, G)
  BY <1>3
<1>5. f = [i \in 0 .. n |-> IF i = 0 THEN 0 ELSE f[i - 1] + pieces[i]]
  <2>1. f \in [0 .. n -> Nat] /\ f[0] = 0 /\ \A i \in 1 .. n : f[i] = G[i][f[i - 1]]
    BY <1>4 DEF IsWalk
  <2>2. \A i \in 1 .. n : f[i] = f[i - 1] + pieces[i]
    <3>1. \A i \in 1 .. n : i - 1 \in 0 .. n
      BY <1>1
    <3>. QED BY <2>1, <3>1
  <2>3. \A i \in 0 .. n : f[i] = IF i = 0 THEN 0 ELSE f[i - 1] + pieces[i]
    <3>. HIDE DEF n
    <3>. QED BY <1>1, <2>1, <2>2
  <2>. QED BY <2>1, <2>3
<1>6. at = [i \in 0 .. n |-> IF i = 0 THEN 0 ELSE at[i - 1] + pieces[i]]
  <2>1. \E g : g = [i \in 0 .. Len(pieces) |-> IF i = 0 THEN 0 ELSE g[i - 1] + pieces[i]]
    BY <1>5, Zenon
  <2>. QED BY <2>1, Zenon DEF Offsets
<1>. HIDE DEF at
<1>7. DOMAIN at = 0 .. n /\ at[0] = 0 /\ \A i \in 1 .. n : at[i] = at[i - 1] + pieces[i]
  <2>. HIDE DEF n
  <2>1. DOMAIN at = 0 .. n
    BY <1>6
  <2>2. \A i \in 0 .. n : at[i] = IF i = 0 THEN 0 ELSE at[i - 1] + pieces[i]
    BY <1>6
  <2>. QED BY <1>1, <2>1, <2>2
<1>8. 0 \in S
  BY <1>1, <1>7
<1>9. \A i \in 1 .. n : i - 1 \in S => i \in S
  BY <1>1, <1>7
<1>10. \A i \in 0 .. n : at[i] \in Nat
  <2>1. \A i \in 0 .. n : i \in S
    <3>. HIDE DEF S
    <3>. QED BY <1>1, <1>8, <1>9, WalkInduction
  <2>. QED BY <2>1
<1>11. at \in [0 .. n -> Nat]
  BY <1>6, <1>7, <1>10
<1>. QED BY <1>7, <1>11 DEF Adds, at

(* Sizes of chunks, none above c.                                          *)
Blocks(pieces, c) ==
  /\ pieces \in Seq(Nat) /\ c \in Nat
  /\ \A i \in 1 .. Len(pieces) : pieces[i] % 8 = 0 /\ pieces[i] >= 16 /\ pieces[i] <= c

(* Each piece starts beyond the one before it.                             *)
LEMMA OffsetsGrow ==
  ASSUME NEW pieces, NEW c, Blocks(pieces, c), NEW at, Adds(at, pieces), NEW i \in 0 .. Len(pieces)
  PROVE  /\ at[i] \in Nat /\ at[i] % 8 = 0 /\ at[i] <= i * c
         /\ \A j \in 0 .. Len(pieces) : i < j => at[i] + 16 <= at[j]
<1>. DEFINE n == Len(pieces)
            S == {k \in 0 .. n : at[k] % 8 = 0 /\ at[k] <= k * c}
            T == {j \in 0 .. n : i < j => at[i] + 16 <= at[j]}
<1>1. /\ n \in Nat /\ c \in Nat /\ \A k \in 0 .. n : at[k] \in Nat
      /\ at[0] = 0 /\ \A k \in 1 .. n : /\ at[k] = at[k - 1] + pieces[k] /\ pieces[k] \in Nat
                                        /\ pieces[k] % 8 = 0 /\ pieces[k] >= 16 /\ pieces[k] <= c
  <2>1. pieces \in Seq(Nat) /\ n \in Nat
    BY DEF Blocks
  <2>2. \A k \in 1 .. n : pieces[k] \in Nat
    BY <2>1
  <2>3. \A k \in 0 .. n : at[k] \in Nat
    BY DEF Adds
  <2>. QED BY <2>1, <2>2, <2>3 DEF Adds, Blocks
<1>. HIDE DEF n
<1>2. 0 \in S
  BY <1>1
<1>3. \A k \in 1 .. n : k - 1 \in S => k \in S
  <2>. SUFFICES ASSUME NEW k \in 1 .. n, k - 1 \in S PROVE k \in S
    OBVIOUS
  <2>1. (k - 1) * c = k * c - c /\ k * c \in Nat
    BY <1>1
  <2>2. at[k - 1] % 8 = 0 /\ at[k - 1] <= (k - 1) * c /\ at[k - 1] \in Nat
    BY <1>1
  <2>3. at[k] = at[k - 1] + pieces[k] /\ pieces[k] % 8 = 0 /\ pieces[k] <= c /\ pieces[k] \in Nat
    BY <1>1
  <2>4. at[k] <= k * c
    BY <1>1, <2>1, <2>2, <2>3
  <2>5. at[k] % 8 = 0
    BY <2>2, <2>3
  <2>. QED BY <2>4, <2>5, <1>1
<1>4. \A k \in 0 .. n : k \in S
  <2>. HIDE DEF S
  <2>. QED BY <1>1, <1>2, <1>3, WalkInduction
<1>5. 0 \in T
  BY <1>1
<1>6. \A j \in 1 .. n : j - 1 \in T => j \in T
  <2>. SUFFICES ASSUME NEW j \in 1 .. n, j - 1 \in T PROVE j \in T
    OBVIOUS
  <2>1. i < j - 1 => at[i] + 16 <= at[j - 1]
    OBVIOUS
  <2>2. at[j] = at[j - 1] + pieces[j] /\ pieces[j] >= 16 /\ pieces[j] \in Nat /\ at[j - 1] \in Nat /\ i \in Nat
    BY <1>1
  <2>3. i < j => at[i] + 16 <= at[j]
    <3>1. CASE i = j - 1
      BY <2>2, <3>1
    <3>2. CASE i < j - 1
      <4>1. at[i] \in Nat
        BY <1>1 DEF n
      <4>. QED BY <2>1, <2>2, <3>2, <4>1
    <3>. QED BY <2>2, <3>1, <3>2
  <2>. QED BY <2>3
<1>7. \A j \in 0 .. n : j \in T
  <2>. HIDE DEF T
  <2>. QED BY <1>1, <1>5, <1>6, WalkInduction
<1>8. i \in 0 .. n
  BY DEF n
<1>9. at[i] \in Nat /\ i \in S
  BY <1>1, <1>4, <1>8
<1>10. \A j \in 0 .. n : i < j => at[i] + 16 <= at[j]
  BY <1>7
<1>. QED BY <1>9, <1>10 DEF n

(* A chunk p in use is cut into pieces at the offsets at; y is the heap    *)
(* after the cuts up to the i-th, the heads of the pieces not yet written. *)
Starts(p, at, i) == {p + at[j] : j \in 0 .. i}
Cuttable(m, z, u, p, pieces, c, at) ==
  /\ Heap(m, z, u, {}) /\ p \in u /\ Blocks(pieces, c) /\ Adds(at, pieces) /\ Len(pieces) > 0
  /\ at[Len(pieces)] <= z[p]
CutAt(m, z, u, p, at, i, y) ==
  /\ Heap(m, y, u \cup Starts(p, at, i), Starts(p, at, i))
  /\ DOMAIN y = DOMAIN z \cup Starts(p, at, i)
  /\ \A q \in DOMAIN z : q # p => q \notin Starts(p, at, i) /\ y[q] = z[q]
  /\ \A j \in 1 .. i : y[p + at[j - 1]] = at[j] - at[j - 1]
  /\ y[p + at[i]] = z[p] - at[i]

(* Nothing cut yet.                                                        *)
LEMMA CutFirst ==
  ASSUME NEW m, NEW z, NEW u, NEW p, NEW pieces, NEW c, NEW at, Cuttable(m, z, u, p, pieces, c, at)
  PROVE  CutAt(m, z, u, p, at, 0, z)
<1>1. Heap(m, z, u, {}) /\ p \in u /\ at[0] = 0
  BY DEF Cuttable, Adds
<1>2. p \in DOMAIN z /\ p \in Nat /\ z[p] \in Nat
  <2>1. p \in DOMAIN z
    BY <1>1, HeapUsed
  <2>. QED BY <1>1, <2>1, HeapChunk
<1>3. Starts(p, at, 0) = {p}
  BY <1>1, <1>2 DEF Starts
<1>4. u \cup {p} = u /\ DOMAIN z \cup {p} = DOMAIN z
  BY <1>1, <1>2
<1>5. Heap(m, z, u, {p})
  BY <1>1, HeapWeaken
<1>6. p + at[0] = p /\ z[p] - at[0] = z[p]
  BY <1>1, <1>2
<1>. QED BY <1>3, <1>4, <1>5, <1>6 DEF CutAt

(* One more piece cut off the rest.                                        *)
LEMMA CutNext ==
  ASSUME NEW m, NEW z, NEW u, NEW p, NEW pieces, NEW c, NEW at, Cuttable(m, z, u, p, pieces, c, at),
         NEW i \in Nat, i + 1 < Len(pieces), NEW y, CutAt(m, z, u, p, at, i, y)
  PROVE  \E w : CutAt(m, z, u, p, at, i + 1, w)
<1>. DEFINE n == Len(pieces)
            S == Starts(p, at, i)
            q == p + at[i]
            nb == pieces[i + 1]
            w == Split(y, q, nb)
            x == q + nb
<1>1. /\ Heap(m, z, u, {}) /\ p \in u /\ Blocks(pieces, c) /\ Adds(at, pieces) /\ at[n] <= z[p]
      /\ n \in Nat /\ i \in 0 .. n /\ i + 1 \in 1 .. n /\ i + 1 \in 0 .. n /\ n \in 0 .. n
  BY DEF Cuttable, Blocks
<1>2. p \in DOMAIN z /\ p \in Nat /\ z[p] \in Nat
  <2>1. p \in DOMAIN z
    BY <1>1, HeapUsed
  <2>. QED BY <1>1, <2>1, HeapChunk
<1>3. at[i] \in Nat /\ at[i + 1] \in Nat /\ at[n] \in Nat /\ at[i + 1] + 16 <= at[n] /\ at[i] + 16 <= at[i + 1]
  BY <1>1, OffsetsGrow
<1>4. /\ at[i + 1] = at[i] + nb /\ nb \in Nat /\ nb % 8 = 0 /\ nb >= 16 /\ nb + 16 <= z[p] - at[i]
  <2>1. at[i + 1] = at[i] + nb
    <3>1. (i + 1) - 1 = i
      OBVIOUS
    <3>2. at[i + 1] = at[(i + 1) - 1] + pieces[i + 1]
      BY <1>1 DEF Adds
    <3>. QED BY <3>1, <3>2
  <2>2. pieces \in Seq(Nat)
    BY <1>1 DEF Blocks
  <2>3. nb \in Nat /\ nb % 8 = 0 /\ nb >= 16
    BY <1>1, <2>2 DEF Blocks
  <2>. HIDE DEF nb
  <2>. QED BY <1>1, <1>2, <1>3, <2>1, <2>3
<1>5. /\ Heap(m, y, u \cup S, S) /\ DOMAIN y = DOMAIN z \cup S
      /\ \A v \in DOMAIN z : v # p => v \notin S /\ y[v] = z[v]
      /\ \A j \in 1 .. i : y[p + at[j - 1]] = at[j] - at[j - 1]
      /\ y[q] = z[p] - at[i]
  BY DEF CutAt
<1>6. q \in S /\ x = p + at[i + 1]
  <2>1. i \in 0 .. i
    OBVIOUS
  <2>2. q \in S
    BY <2>1 DEF Starts
  <2>3. x = p + at[i + 1]
    <3>. HIDE DEF nb
    <3>. QED BY <1>2, <1>3, <1>4
  <2>. QED BY <2>2, <2>3
<1>7. Starts(p, at, i + 1) = S \cup {x}
  <2>1. 0 .. i + 1 = (0 .. i) \cup {i + 1}
    OBVIOUS
  <2>2. Starts(p, at, i + 1) = {p + at[j] : j \in (0 .. i) \cup {i + 1}}
    BY <2>1 DEF Starts
  <2>3. @ = {p + at[j] : j \in 0 .. i} \cup {p + at[i + 1]}
    OBVIOUS
  <2>. QED BY <1>6, <2>2, <2>3 DEF Starts
<1>8. \A j \in 1 .. i : p + at[j - 1] \in S /\ p + at[j - 1] # q
  <2>. SUFFICES ASSUME NEW j \in 1 .. i PROVE p + at[j - 1] \in S /\ p + at[j - 1] # q
    OBVIOUS
  <2>1. j - 1 \in 0 .. i /\ j - 1 \in 0 .. n /\ j - 1 < i
    BY <1>1
  <2>2. at[j - 1] \in Nat /\ at[j - 1] + 16 <= at[i]
    BY <1>1, <2>1, OffsetsGrow
  <2>. DEFINE k == j - 1
  <2>. HIDE DEF k
  <2>3. k \in 0 .. i /\ at[k] \in Nat /\ at[k] + 16 <= at[i]
    BY <2>1, <2>2 DEF k
  <2>4. p + at[k] \in S
    BY ONLY <2>3 DEF Starts
  <2>5. p + at[k] # q
    BY ONLY <1>2, <1>3, <2>3
  <2>. QED BY ONLY <2>4, <2>5 DEF k
<1>. HIDE DEF q, nb, S, x
<1>9. /\ Heap(m, w, (u \cup S) \cup {x}, S \cup {q, x})
      /\ x \notin DOMAIN y /\ DOMAIN w = DOMAIN y \cup {x}
      /\ w[q] = nb /\ w[x] = y[q] - nb /\ \A v \in DOMAIN y : v # q => w[v] = y[v]
  <2>1. q \in u \cup S /\ nb + 16 <= y[q]
    BY <1>4, <1>5, <1>6
  <2>. DEFINE g == u \cup S
  <2>2. Heap(m, y, g, S) /\ q \in g /\ x = q + nb /\ w = Split(y, q, nb)
    BY <1>5, <2>1 DEF x
  <2>3. nb \in Nat /\ nb % 8 = 0 /\ nb >= 16 /\ nb + 16 <= y[q]
    BY <1>4, <2>1
  <2>. HIDE DEF g, w
  <2>4. /\ Heap(m, w, g \cup {x}, S \cup {q, x})
        /\ x \notin DOMAIN y /\ DOMAIN w = DOMAIN y \cup {x}
        /\ w[q] = nb /\ w[x] = y[q] - nb /\ \A v \in DOMAIN y : v # q => w[v] = y[v]
    <3>1. Heap(m, Split(y, q, nb), g \cup {q + nb}, S \cup {q, q + nb})
      BY <2>2, <2>3, HeapSplit
    <3>2. q + nb \notin DOMAIN y
      BY <2>2, <2>3, HeapSplit
    <3>3. q \in DOMAIN y /\ q \in Nat
      BY <2>2, HeapUsed, HeapChunk
    <3>4. DOMAIN w = DOMAIN y \cup {x} /\ w[q] = nb /\ w[x] = y[q] - nb /\ \A v \in DOMAIN y : v # q => w[v] = y[v]
      BY <2>2, <3>2, <3>3 DEF Split
    <3>. QED BY <2>2, <3>1, <3>2, <3>4
  <2>. QED BY <2>4 DEF g
<1>. HIDE DEF w
<1>10. (u \cup S) \cup {x} = u \cup (S \cup {x}) /\ S \cup {q, x} = S \cup {x}
  BY <1>6
<1>11. Heap(m, w, u \cup (S \cup {x}), S \cup {x}) /\ DOMAIN w = DOMAIN z \cup (S \cup {x})
  BY <1>5, <1>9, <1>10
<1>12. \A v \in DOMAIN z : v # p => v \notin S \cup {x} /\ w[v] = z[v]
  BY <1>5, <1>6, <1>9
<1>13. \A j \in 1 .. i : w[p + at[j - 1]] = at[j] - at[j - 1]
  BY <1>5, <1>8, <1>9
<1>14. w[p + at[(i + 1) - 1]] = at[i + 1] - at[(i + 1) - 1]
  <2>1. (i + 1) - 1 = i
    OBVIOUS
  <2>2. w[q] = at[i + 1] - at[i]
    BY <1>3, <1>4, <1>9
  <2>. QED BY <2>1, <2>2 DEF q
<1>15. \A j \in 1 .. i + 1 : w[p + at[j - 1]] = at[j] - at[j - 1]
  <2>1. \A j \in 1 .. i + 1 : j \in 1 .. i \/ j = i + 1
    OBVIOUS
  <2>. QED BY <1>13, <1>14, <2>1
<1>16. w[p + at[i + 1]] = z[p] - at[i + 1]
  BY <1>2, <1>3, <1>4, <1>5, <1>6, <1>9
<1>17. CutAt(m, z, u, p, at, i + 1, w)
  BY <1>7, <1>11, <1>12, <1>15, <1>16 DEF CutAt
<1>. QED BY <1>17

(* All the pieces cut, one after another.                                  *)
LEMMA CutAll ==
  ASSUME NEW m, NEW z, NEW u, NEW p, NEW pieces, NEW c, NEW at, Cuttable(m, z, u, p, pieces, c, at)
  PROVE  \E y : CutAt(m, z, u, p, at, Len(pieces) - 1, y)
<1>. DEFINE k == Len(pieces) - 1
            G == {i \in 0 .. k : \E y : CutAt(m, z, u, p, at, i, y)}
<1>1. k \in Nat
  BY DEF Cuttable, Blocks
<1>2. 0 \in G
  BY <1>1, CutFirst
<1>3. \A i \in 1 .. k : i - 1 \in G => i \in G
  <2>. SUFFICES ASSUME NEW i \in 1 .. k, i - 1 \in G PROVE i \in G
    OBVIOUS
  <2>. DEFINE j == i - 1
  <2>1. j \in Nat /\ j + 1 < Len(pieces) /\ j + 1 = i
    BY <1>1 DEF Cuttable, Blocks
  <2>2. PICK y : CutAt(m, z, u, p, at, j, y)
    OBVIOUS
  <2>. HIDE DEF j
  <2>3. \E w : CutAt(m, z, u, p, at, j + 1, w)
    BY <2>1, <2>2, CutNext
  <2>. QED BY <2>1, <2>3
<1>4. \A i \in 0 .. k : i \in G
  <2>. HIDE DEF G, k
  <2>. QED BY <1>1, <1>2, <1>3, WalkInduction
<1>. QED BY <1>1, <1>4

(* Every piece comes after a chunk in use.                                 *)
LEMMA CutAfterUsed ==
  ASSUME NEW m, NEW z, NEW u, NEW p, NEW pieces, NEW c, NEW at, Cuttable(m, z, u, p, pieces, c, at),
         AfterUsed(z, u, p), NEW k, k = Len(pieces) - 1, NEW y, CutAt(m, z, u, p, at, k, y),
         NEW q \in Starts(p, at, k)
  PROVE  AfterUsed(y, u \cup Starts(p, at, k), q)
<1>. DEFINE S == Starts(p, at, k)
            n == Len(pieces)
<1>1. /\ Heap(m, z, u, {}) /\ p \in u /\ Blocks(pieces, c) /\ Adds(at, pieces)
      /\ n \in Nat /\ k \in Nat /\ k <= n
  BY DEF Cuttable, Blocks
<1>2. p \in DOMAIN z /\ p \in Nat
  <2>1. p \in DOMAIN z
    BY <1>1, HeapUsed
  <2>. QED BY <1>1, <2>1, HeapChunk
<1>3. /\ Heap(m, y, u \cup S, S) /\ DOMAIN y = DOMAIN z \cup S
      /\ \A v \in DOMAIN z : v # p => v \notin S /\ y[v] = z[v]
      /\ \A j \in 1 .. k : y[p + at[j - 1]] = at[j] - at[j - 1]
  BY DEF CutAt
<1>4. PICK j \in 0 .. k : q = p + at[j]
  BY DEF Starts
<1>5. CASE j = 0
  <2>1. q = p
    BY <1>1, <1>2, <1>4, <1>5 DEF Adds
  <2>2. \A v \in DOMAIN y : v + y[v] = p => v \in u \cup S
    <3>. SUFFICES ASSUME NEW v \in DOMAIN y, v + y[v] = p PROVE v \in u \cup S
      OBVIOUS
    <3>1. v \in S \/ (v \in DOMAIN z /\ v = p) \/ (v \in DOMAIN z /\ v # p)
      BY <1>3
    <3>2. ASSUME v \in DOMAIN z, v # p PROVE v \in u
      <4>1. y[v] = z[v]
        BY <1>3, <3>2
      <4>2. v + z[v] = p
        BY <4>1
      <4>. QED BY <3>2, <4>2 DEF AfterUsed
    <3>. QED BY <1>1, <3>1, <3>2
  <2>. QED BY <2>1, <2>2 DEF AfterUsed
<1>6. CASE j # 0
  <2>. DEFINE o == p + at[j - 1]
  <2>1. j \in 1 .. k /\ j - 1 \in 0 .. k /\ j - 1 \in 0 .. n /\ j \in 0 .. n
    BY <1>1, <1>6
  <2>2. at[j - 1] \in Nat /\ at[j] \in Nat
    BY <1>1, <2>1 DEF Adds
  <2>3. o \in S /\ o + y[o] = q
    <3>1. o \in S
      BY <2>1 DEF Starts
    <3>2. y[o] = at[j] - at[j - 1]
      BY <1>3, <2>1
    <3>3. q = p + at[j]
      BY <1>4
    <3>. QED BY <1>2, <2>2, <3>1, <3>2, <3>3
  <2>4. Tiling(y, Ends(m))
    BY <1>3 DEF Heap, Laid
  <2>. HIDE DEF o, S
  <2>5. o \in DOMAIN y
    BY <1>3, <2>3
  <2>6. \A v \in DOMAIN y : v + y[v] = q => v = o
    BY <2>3, <2>4, <2>5, TilingUnique
  <2>7. \A v \in DOMAIN y : v + y[v] = q => v \in u \cup S
    BY <2>3, <2>6
  <2>. QED BY <2>7 DEF AfterUsed, S
<1>. QED BY <1>5, <1>6

(* The heap once the heads of the pieces are written.                      *)
LEMMA CutWritten ==
  ASSUME NEW m, NEW z, NEW u, NEW p, NEW pieces, NEW c, NEW at, Cuttable(m, z, u, p, pieces, c, at),
         AfterUsed(z, u, p), NEW k, k = Len(pieces) - 1, NEW y, CutAt(m, z, u, p, at, k, y),
         NEW w, SameBut(m, w, {"head"}), OtherHeads(m, w, Starts(p, at, k)),
         \A q \in Starts(p, at, k) : NewHead(w, q, y[q], TRUE, TRUE)
  PROVE  Heap(w, y, u \cup Starts(p, at, k), {})
<1>. DEFINE S == Starts(p, at, k)
            g == u \cup S
<1>1. /\ Heap(m, z, u, {}) /\ p \in u
  BY DEF Cuttable
<1>2. /\ Heap(m, y, g, S) /\ DOMAIN y = DOMAIN z \cup S
      /\ \A v \in DOMAIN z : v # p => v \notin S
  BY DEF CutAt
<1>3. \A q \in S : HeadIs(w, q, y[q], q \in g, AfterUsed(y, g, q))
  <2>. SUFFICES ASSUME NEW q \in S PROVE HeadIs(w, q, y[q], q \in g, AfterUsed(y, g, q))
    OBVIOUS
  <2>1. AfterUsed(y, g, q) /\ q \in g
    BY CutAfterUsed
  <2>2. y[q] \in Nat
    <3>1. q \in DOMAIN y
      BY <1>2
    <3>. HIDE DEF g, S
    <3>. QED BY <1>2, <3>1, HeapChunk
  <2>3. NewHead(w, q, y[q], TRUE, TRUE)
    OBVIOUS
  <2>4. HeadIs(w, q, y[q], TRUE, TRUE)
    BY <2>2, <2>3, NewHeadIs
  <2>. HIDE DEF g, S
  <2>. QED BY <2>1, <2>4 DEF HeadIs
<1>4. m.dv \notin g
  <2>1. m.dv \notin u
    BY <1>1, VictimFree
  <2>2. m.dv \notin S
    <3>1. m.dv = 0 \/ m.dv \in DOMAIN z
      BY <1>1 DEF Heap, Victim
    <3>2. p \in u /\ m.dv # p
      BY <1>1, <2>1
    <3>3. 0 \notin DOMAIN y
      <4>. HIDE DEF g, S
      <4>. QED BY <1>2, HeapUsed
    <3>. HIDE DEF S
    <3>. QED BY <1>2, <3>1, <3>2, <3>3
  <2>. QED BY <2>1, <2>2
<1>5. {} \in SUBSET DOMAIN y /\ OtherHeads(m, w, S)
  OBVIOUS
<1>6. \A q \in DOMAIN y \ {} : q \in S \cup S => HeadIs(w, q, y[q], q \in g, AfterUsed(y, g, q))
  BY <1>3
<1>. HIDE DEF g, S
<1>7. Heap(w, y, g, {})
  BY <1>2, <1>4, <1>5, <1>6, HeapWrite
<1>. QED BY <1>7 DEF g, S

(* The heads of the pieces, as CutUp writes them.                          *)
Pieced(m, p, pieces, at) ==
  LET n == Len(pieces)
      size == [i \in 1 .. n |-> IF i = n THEN chunksize(m, p) - at[n - 1] ELSE pieces[i]]
      starts == {p + at[i - 1] : i \in 1 .. n}
      Piece(q) == [size |-> size[CHOOSE i \in 1 .. n : q = p + at[i - 1]], cinuse |-> TRUE, pinuse |-> TRUE]
  IN [m EXCEPT !.head = [q \in DOMAIN @ \cup starts |-> IF q \in starts THEN Piece(q) ELSE @[q]]]

(* The heads that ialloc writes for the pieces.                            *)
LEMMA PiecedFacts ==
  ASSUME NEW m, NEW z, NEW u, NEW p, NEW pieces, NEW c, NEW at, Cuttable(m, z, u, p, pieces, c, at),
         NEW k, k = Len(pieces) - 1, NEW y, CutAt(m, z, u, p, at, k, y)
  PROVE  LET w == Pieced(m, p, pieces, at)
         IN /\ SameBut(m, w, {"head"}) /\ OtherHeads(m, w, Starts(p, at, k))
            /\ \A q \in Starts(p, at, k) : NewHead(w, q, y[q], TRUE, TRUE)
<1>. DEFINE n == Len(pieces)
            size == [i \in 1 .. n |-> IF i = n THEN chunksize(m, p) - at[n - 1] ELSE pieces[i]]
            starts == {p + at[i - 1] : i \in 1 .. n}
            Nth(q) == CHOOSE i \in 1 .. n : q = p + at[i - 1]
            Piece(q) == [size |-> size[Nth(q)], cinuse |-> TRUE, pinuse |-> TRUE]
            h == [q \in DOMAIN m.head \cup starts |-> IF q \in starts THEN Piece(q) ELSE m.head[q]]
            w == [m EXCEPT !.head = h]
            S == Starts(p, at, k)
<1>1. /\ Heap(m, z, u, {}) /\ p \in u /\ Blocks(pieces, c) /\ Adds(at, pieces)
      /\ n \in Nat /\ n > 0 /\ k \in Nat /\ k = n - 1 /\ DOMAIN m = Fields /\ pieces \in Seq(Nat)
  BY FrameFacts DEF Cuttable, Blocks, Heap
<1>2. p \in DOMAIN z /\ p \in Nat /\ chunksize(m, p) = z[p]
  <2>1. p \in DOMAIN z
    BY <1>1, HeapUsed
  <2>. QED BY <1>1, <2>1, HeapChunk, HeapHead
<1>3. starts = S
  <2>1. \A i \in 1 .. n : i - 1 \in 0 .. k
    BY <1>1
  <2>2. \A j \in 0 .. k : j + 1 \in 1 .. n /\ (j + 1) - 1 = j
    BY <1>1
  <2>. QED BY <2>1, <2>2 DEF Starts
<1>4. \A i \in 1 .. n : i - 1 \in 0 .. n /\ at[i - 1] \in Nat
  <2>1. \A i \in 1 .. n : i - 1 \in 0 .. n
    BY <1>1
  <2>. QED BY <1>1, <2>1 DEF Adds
<1>5. \A i, j \in 1 .. n : at[i - 1] = at[j - 1] => i = j
  <2>. SUFFICES ASSUME NEW i \in 1 .. n, NEW j \in 1 .. n, i < j PROVE at[i - 1] # at[j - 1]
    BY <1>1
  <2>1. i - 1 \in 0 .. n /\ j - 1 \in 0 .. n /\ i - 1 < j - 1
    BY <1>1
  <2>2. at[i - 1] + 16 <= at[j - 1]
    BY <1>1, <2>1, OffsetsGrow
  <2>. QED BY <1>4, <2>2
<1>6. \A i \in 1 .. n : Nth(p + at[i - 1]) = i
  <2>. SUFFICES ASSUME NEW i \in 1 .. n PROVE Nth(p + at[i - 1]) = i
    OBVIOUS
  <2>1. \A j \in 1 .. n : p + at[i - 1] = p + at[j - 1] => j = i
    BY <1>2, <1>4, <1>5
  <2>. QED BY <2>1
<1>7. \A i \in 1 .. n : size[i] = y[p + at[i - 1]]
  <2>. SUFFICES ASSUME NEW i \in 1 .. n PROVE size[i] = y[p + at[i - 1]]
    OBVIOUS
  <2>1. CASE i = n
    <3>1. y[p + at[k]] = z[p] - at[k]
      BY DEF CutAt
    <3>2. i - 1 = k /\ n - 1 = k
      BY <1>1, <2>1
    <3>. QED BY <1>2, <2>1, <3>1, <3>2
  <2>2. CASE i # n
    <3>1. i \in 1 .. k
      BY <1>1, <2>2
    <3>2. y[p + at[i - 1]] = at[i] - at[i - 1]
      BY <3>1 DEF CutAt
    <3>3. at[i] = at[i - 1] + pieces[i] /\ pieces[i] \in Nat
      BY <1>1 DEF Adds
    <3>4. size[i] = pieces[i]
      BY <2>2
    <3>. HIDE DEF size
    <3>. QED BY <1>4, <3>2, <3>3, <3>4
  <2>. QED BY <2>1, <2>2
<1>8. Pieced(m, p, pieces, at) = w
  BY DEF Pieced
<1>. HIDE DEF size, Nth
<1>9. \A q \in S : Piece(q) = [size |-> y[q], cinuse |-> TRUE, pinuse |-> TRUE]
  <2>. SUFFICES ASSUME NEW q \in starts PROVE Piece(q) = [size |-> y[q], cinuse |-> TRUE, pinuse |-> TRUE]
    BY <1>3
  <2>1. PICK i \in 1 .. n : q = p + at[i - 1]
    OBVIOUS
  <2>2. Nth(q) = i /\ size[i] = y[q]
    BY <1>6, <1>7, <2>1
  <2>. QED BY <2>2
<1>. HIDE DEF Piece, starts
<1>10. /\ DOMAIN h = DOMAIN m.head \cup S /\ \A q \in S : h[q] = Piece(q)
       /\ \A q \in DOMAIN m.head : q \notin S => h[q] = m.head[q]
  BY <1>3
<1>11. SameBut(m, w, {"head"}) /\ w.head = h
  <2>. HIDE DEF h
  <2>. QED BY <1>1 DEF SameBut, Fields
<1>. HIDE DEF w, h, S
<1>12. OtherHeads(m, w, S)
  BY <1>10, <1>11 DEF OtherHeads, HeadAt
<1>13. \A q \in S : NewHead(w, q, y[q], TRUE, TRUE)
  BY <1>9, <1>10, <1>11 DEF NewHead, HeadAt
<1>. QED BY <1>8, <1>11, <1>12, <1>13 DEF S

-----------------------------------------------------------------------------
(* The sum of the sizes of chunks.                                         *)

(* Induction over the subsets of a finite set, one element less each time. *)
Inherited(S, G) ==
  {} \in G /\ \A T \in SUBSET S : T # {} /\ (\A x \in T : T \ {x} \in G) => T \in G

(* A family that holds the empty set, and every subset all of whose        *)
(* subsets with one element less it holds, holds every subset.             *)
LEMMA SubsetInduction ==
  ASSUME NEW S, IsFiniteSet(S), NEW G, Inherited(S, G)
  PROVE  \A T \in SUBSET S : T \in G
<1>. DEFINE Bad == {T \in SUBSET S : T \notin G}
            Sizes == {Cardinality(T) : T \in Bad}
<1>1. SUFFICES ASSUME Bad # {} PROVE FALSE
  OBVIOUS
<1>2. \A T \in SUBSET S : IsFiniteSet(T) /\ Cardinality(T) \in Nat
  BY FS_Subset, FS_CardinalityType
<1>3. Sizes \subseteq Nat /\ Sizes # {}
  BY <1>1, <1>2
<1>4. PICK k \in Sizes : \A n \in Sizes : k <= n
  <2>. HIDE DEF Sizes
  <2>. QED BY <1>3, SmallestElement
<1>5. PICK T \in Bad : Cardinality(T) = k
  BY <1>4
<1>6. T # {} /\ T \in SUBSET S /\ T \notin G
  BY <1>5 DEF Inherited
<1>7. ASSUME NEW x \in T PROVE T \ {x} \in G
  <2>1. Cardinality(T \ {x}) = Cardinality(T) - 1
    BY <1>2, <1>6, FS_RemoveElement
  <2>2. Cardinality(T) \in Nat /\ ~(k <= Cardinality(T \ {x}))
    BY <1>2, <1>5, <1>6, <2>1
  <2>3. T \ {x} \in SUBSET S
    BY <1>6
  <2>. QED BY <1>4, <2>2, <2>3
<1>. QED BY <1>6, <1>7 DEF Inherited

(* The sum of the sizes of finitely many chunks.                           *)
AnySizes(T) == CHOOSE x \in T : TRUE
(* The fold over a set, as a function on its subsets.                      *)
Sums(f, m, S) ==
  f = [T \in SUBSET S |-> IF T = {} THEN 0 ELSE chunksize(m, AnySizes(T)) + f[T \ {AnySizes(T)}]]

(* The next element is an element.                                         *)
LEMMA AnyIn ==
  ASSUME NEW T, T # {}
  PROVE  AnySizes(T) \in T
BY DEF AnySizes

(* One step of the fold.                                                   *)
LEMMA SumsAt ==
  ASSUME NEW f, NEW m, NEW S, Sums(f, m, S)
  PROVE  f[{}] = 0 /\ \A T \in SUBSET S : T # {} => f[T] = chunksize(m, AnySizes(T)) + f[T \ {AnySizes(T)}]
BY DEF Sums

(* The fold over a subset does not depend on the set.                      *)
LEMMA SumsSame ==
  ASSUME NEW f, NEW g, NEW m, NEW S, IsFiniteSet(S), NEW R, Sums(f, m, S), Sums(g, m, R), R \subseteq S
  PROVE  \A T \in SUBSET R : f[T] = g[T]
<1>. DEFINE G == {T \in SUBSET R : f[T] = g[T]}
<1>1. \A T \in SUBSET R : T # {} /\ (\A x \in T : T \ {x} \in G) => T \in G
  <2>. SUFFICES ASSUME NEW T \in SUBSET R, T # {}, \A x \in T : T \ {x} \in G PROVE f[T] = g[T]
    OBVIOUS
  <2>1. f[T] = chunksize(m, AnySizes(T)) + f[T \ {AnySizes(T)}]
    BY SumsAt
  <2>2. g[T] = chunksize(m, AnySizes(T)) + g[T \ {AnySizes(T)}]
    BY SumsAt
  <2>. QED BY <2>1, <2>2, AnyIn
<1>2. {} \in G
  BY SumsAt
<1>3. Inherited(R, G) /\ IsFiniteSet(R)
  BY <1>1, <1>2, FS_Subset DEF Inherited
<1>. HIDE DEF G
<1>4. \A T \in SUBSET R : T \in G
  BY <1>3, SubsetInduction
<1>. QED BY <1>4 DEF G

(* The fold exists over every finite set.                                  *)
LEMMA SumsExist ==
  ASSUME NEW m, NEW S, IsFiniteSet(S)
  PROVE  \E f : Sums(f, m, S)
<1>. DEFINE G == {T \in SUBSET S : \A U \in SUBSET T : \E f : Sums(f, m, U)}
<1>1. \E f : Sums(f, m, {})
  <2>. DEFINE f == [T \in {{}} |-> 0]
  <2>1. SUBSET {} = {{}}
    OBVIOUS
  <2>2. Sums(f, m, {})
    BY <2>1 DEF Sums
  <2>. HIDE DEF f
  <2>. QED BY <2>2
<1>2. {} \in G
  BY <1>1
<1>3. ASSUME NEW T \in SUBSET S, T # {}, \A x \in T : T \ {x} \in G PROVE T \in G
  <2>. DEFINE g(U) == CHOOSE f : Sums(f, m, U)
              h == [U \in SUBSET T |-> IF U = T THEN chunksize(m, AnySizes(T)) + g(T \ {AnySizes(T)})[T \ {AnySizes(T)}]
                                       ELSE g(U)[U]]
  <2>1. \A U \in SUBSET T : U # T => \E f : Sums(f, m, U)
    <3>. SUFFICES ASSUME NEW U \in SUBSET T, U # T PROVE \E f : Sums(f, m, U)
      OBVIOUS
    <3>1. PICK x \in T : x \notin U
      OBVIOUS
    <3>2. T \ {x} \in G /\ U \in SUBSET (T \ {x})
      BY <1>3, <3>1
    <3>. QED BY <3>2
  <2>2. \A U \in SUBSET T : U # T => Sums(g(U), m, U)
    BY <2>1
  <2>3. ASSUME NEW U \in SUBSET T
        PROVE  h[U] = IF U = {} THEN 0 ELSE chunksize(m, AnySizes(U)) + h[U \ {AnySizes(U)}]
    <3>1. CASE U = T
      <4>1. T \ {AnySizes(T)} \in SUBSET T /\ T \ {AnySizes(T)} # T
        BY <1>3, AnyIn
      <4>. QED BY <1>3, <3>1, <4>1
    <3>2. CASE U # T /\ U = {}
      <4>1. Sums(g(U), m, U) /\ h[U] = g(U)[U]
        BY <2>2, <3>2
      <4>. HIDE DEF g, h
      <4>2. g(U)[{}] = 0
        BY <4>1, SumsAt
      <4>. QED BY <3>2, <4>1, <4>2
    <3>3. CASE U # T /\ U # {}
      <4>. DEFINE V == U \ {AnySizes(U)}
      <4>1. V \in SUBSET U /\ V \in SUBSET T /\ V # T
        BY <3>3, AnyIn
      <4>2. Sums(g(U), m, U) /\ Sums(g(V), m, V) /\ h[U] = g(U)[U] /\ h[V] = g(V)[V]
        BY <2>2, <3>3, <4>1
      <4>. HIDE DEF g, h
      <4>3. g(U)[U] = chunksize(m, AnySizes(U)) + g(U)[V]
        BY <3>3, <4>2, SumsAt
      <4>4. IsFiniteSet(U)
        BY FS_Subset
      <4>. HIDE DEF V
      <4>5. g(U)[V] = g(V)[V]
        BY <4>1, <4>2, <4>4, SumsSame
      <4>6. h[U] = chunksize(m, AnySizes(U)) + h[V]
        BY <4>2, <4>3, <4>5
      <4>. QED BY <3>3, <4>6 DEF V
    <3>. QED BY <3>1, <3>2, <3>3
  <2>4. h = [U \in SUBSET T |-> h[U]]
    OBVIOUS
  <2>. HIDE DEF h
  <2>5. Sums(h, m, T)
    BY <2>3, <2>4 DEF Sums
  <2>6. \A U \in SUBSET T : \E f : Sums(f, m, U)
    BY <2>1, <2>5
  <2>. QED BY <2>6
<1>4. Inherited(S, G)
  BY <1>2, <1>3 DEF Inherited
<1>. HIDE DEF G
<1>5. S \in G
  BY <1>4, SubsetInduction
<1>. QED BY <1>5 DEF G

(* The sum of the sizes of chunks is that fold.                            *)
LEMMA SizeOfIs ==
  ASSUME NEW m, NEW S, IsFiniteSet(S)
  PROVE  \E f : Sums(f, m, S) /\ SizeOf(m, S) = f[S]
<1>. DEFINE g == CHOOSE f : Sums(f, m, S)
<1>1. Sums(g, m, S)
  BY SumsExist
<1>2. SizeOf(m, S) = g[S]
  BY DEF SizeOf, MapThenSumSet, MapThenFoldSet, Sums, AnySizes
<1>. HIDE DEF g
<1>. QED BY <1>1, <1>2

(* The sum does not depend on the order.                                   *)
LEMMA SizeOfTake ==
  ASSUME NEW m, NEW S, IsFiniteSet(S), \A x \in S : chunksize(m, x) \in Nat
  PROVE  /\ SizeOf(m, {}) = 0 /\ SizeOf(m, S) \in Nat
         /\ \A x \in S : SizeOf(m, S) = chunksize(m, x) + SizeOf(m, S \ {x})
<1>1. PICK f : Sums(f, m, S) /\ SizeOf(m, S) = f[S]
  BY SizeOfIs
<1>2. \A T \in SUBSET S : SizeOf(m, T) = f[T]
  <2>. SUFFICES ASSUME NEW T \in SUBSET S PROVE SizeOf(m, T) = f[T]
    OBVIOUS
  <2>1. IsFiniteSet(T)
    BY FS_Subset
  <2>2. PICK g : Sums(g, m, T) /\ SizeOf(m, T) = g[T]
    BY <2>1, SizeOfIs
  <2>3. f[T] = g[T]
    BY <1>1, <2>2, SumsSame
  <2>. QED BY <2>2, <2>3
<1>. DEFINE G == {T \in SUBSET S : /\ f[T] \in Nat
                                   /\ \A x \in T : f[T \ {x}] \in Nat /\ f[T] = chunksize(m, x) + f[T \ {x}]}
<1>3. {} \in G
  <2>1. f[{}] = 0
    BY <1>1, SumsAt
  <2>. QED BY <2>1
<1>4. ASSUME NEW T \in SUBSET S, T # {}, \A x \in T : T \ {x} \in G
      PROVE  f[T] \in Nat /\ \A x \in T : f[T \ {x}] \in Nat /\ f[T] = chunksize(m, x) + f[T \ {x}]
  <2>1. PICK c \in T : f[T] = chunksize(m, c) + f[T \ {c}]
    <3>1. AnySizes(T) \in T /\ f[T] = chunksize(m, AnySizes(T)) + f[T \ {AnySizes(T)}]
      BY <1>1, <1>4, SumsAt, AnyIn
    <3>. QED BY <3>1
  <2>2. f[T \ {c}] \in Nat /\ chunksize(m, c) \in Nat
    BY <1>4
  <2>3. ASSUME NEW x \in T, x # c PROVE f[T] = chunksize(m, x) + f[T \ {x}]
    <3>1. f[T \ {c}] = chunksize(m, x) + f[(T \ {c}) \ {x}] /\ f[T \ {x}] = chunksize(m, c) + f[(T \ {x}) \ {c}]
      BY <1>4, <2>3
    <3>2. (T \ {c}) \ {x} = (T \ {x}) \ {c}
      OBVIOUS
    <3>3. (T \ {c}) \ {x} \in SUBSET S /\ chunksize(m, x) \in Nat /\ f[T \ {x}] \in Nat /\ f[T \ {c}] \in Nat
      BY <1>4
    <3>. DEFINE u == f[(T \ {c}) \ {x}]
                v == f[T \ {c}]
                w == f[T \ {x}]
                y == f[T]
    <3>4. v = chunksize(m, x) + u /\ w = chunksize(m, c) + u /\ y = chunksize(m, c) + v
      BY <2>1, <3>1, <3>2
    <3>5. u \in Nat
      <4>. DEFINE V == T \ {c}
      <4>1. V \in G /\ x \in V
        BY <1>4, <2>3
      <4>2. f[V \ {x}] \in Nat
        BY <4>1
      <4>. QED BY <4>2
    <3>. HIDE DEF u, v, w, y
    <3>6. y = chunksize(m, x) + w
      BY <2>2, <3>3, <3>4, <3>5
    <3>. QED BY <3>6 DEF y, w
  <2>4. \A x \in T : f[T \ {x}] \in Nat
    BY <1>4
  <2>5. f[T] \in Nat
    BY <2>1, <2>2
  <2>6. \A x \in T : f[T] = chunksize(m, x) + f[T \ {x}]
    BY <2>1, <2>3
  <2>. QED BY <2>4, <2>5, <2>6
<1>5. Inherited(S, G)
  BY <1>3, <1>4 DEF Inherited
<1>. HIDE DEF G
<1>6. S \in G /\ {} \in G
  BY <1>5, SubsetInduction
<1>7. f[{}] = 0
  BY <1>1, SumsAt
<1>8. f[S] \in Nat /\ \A x \in S : f[S] = chunksize(m, x) + f[S \ {x}]
  BY <1>6 DEF G
<1>. QED BY <1>2, <1>7, <1>8

(* Two sets without a common element.                                      *)
Disjoint(A, B) == \A x \in A : x \notin B

(* The sizes of two disjoint sets of chunks add up.                        *)
LEMMA SizeOfUnion ==
  ASSUME NEW m, NEW S, IsFiniteSet(S), \A x \in S : chunksize(m, x) \in Nat,
         NEW B \in SUBSET S, NEW A \in SUBSET S, Disjoint(A, B), NEW C, C = A \cup B
  PROVE  SizeOf(m, C) = SizeOf(m, A) + SizeOf(m, B)
<1>. DEFINE G == {T \in SUBSET A : SizeOf(m, T \cup B) = SizeOf(m, T) + SizeOf(m, B)}
<1>1. IsFiniteSet(A) /\ \A T \in SUBSET S : IsFiniteSet(T) /\ (\A x \in T : chunksize(m, x) \in Nat)
  BY FS_Subset
<1>2. \A T \in SUBSET S : /\ SizeOf(m, T) \in Nat /\ SizeOf(m, {}) = 0
                          /\ \A x \in T : SizeOf(m, T) = chunksize(m, x) + SizeOf(m, T \ {x})
  BY <1>1, SizeOfTake
<1>3. {} \in G
  <2>1. SizeOf(m, B) \in Nat /\ SizeOf(m, {}) = 0 /\ {} \cup B = B
    BY <1>2
  <2>2. SizeOf(m, B) = 0 + SizeOf(m, B)
    BY <2>1
  <2>. QED BY <2>1, <2>2
<1>4. ASSUME NEW T \in SUBSET A, T # {}, \A x \in T : T \ {x} \in G PROVE T \in G
  <2>1. PICK x \in T : TRUE
    BY <1>4
  <2>. DEFINE U == T \ {x}
              X == T \cup B
  <2>2. SizeOf(m, U \cup B) = SizeOf(m, U) + SizeOf(m, B)
    BY <1>4, <2>1
  <2>3. X \ {x} = U \cup B /\ x \in X /\ X \in SUBSET S /\ T \in SUBSET S /\ U \in SUBSET S
    BY <2>1 DEF Disjoint
  <2>. HIDE DEF X
  <2>4. SizeOf(m, X) = chunksize(m, x) + SizeOf(m, X \ {x})
    BY <1>2, <2>3
  <2>5. SizeOf(m, T) = chunksize(m, x) + SizeOf(m, U)
    BY <1>2, <2>1, <2>3
  <2>6. SizeOf(m, U) \in Nat /\ SizeOf(m, B) \in Nat /\ chunksize(m, x) \in Nat
    BY <1>2, <2>1, <2>3
  <2>. HIDE DEF U
  <2>7. SizeOf(m, X) = SizeOf(m, T) + SizeOf(m, B)
    <3>. DEFINE u == SizeOf(m, U)
                v == SizeOf(m, B)
                c == chunksize(m, x)
    <3>1. SizeOf(m, X) = c + (u + v) /\ SizeOf(m, T) = c + u /\ u \in Nat /\ v \in Nat /\ c \in Nat
      BY <2>2, <2>3, <2>4, <2>5, <2>6
    <3>. HIDE DEF u, v, c
    <3>2. SizeOf(m, X) = SizeOf(m, T) + v
      BY <3>1
    <3>. QED BY <3>2 DEF v
  <2>. QED BY <2>7 DEF X
<1>5. Inherited(A, G)
  BY <1>3, <1>4 DEF Inherited
<1>. HIDE DEF G
<1>6. A \in G
  BY <1>1, <1>5, SubsetInduction
<1>7. SizeOf(m, A \cup B) = SizeOf(m, A) + SizeOf(m, B)
  BY <1>6 DEF G
<1>. QED BY <1>7

(* The chunks of a tiling are finitely many.                               *)
LEMMA TilingFinite ==
  ASSUME NEW sz, NEW hi, Tiling(sz, hi)
  PROVE  IsFiniteSet(DOMAIN sz) /\ DOMAIN sz \subseteq Nat
<1>0. hi \in Nat
  BY DEF Tiling
<1>1. hi \in Nat /\ \A p \in DOMAIN sz : p \in 0 .. hi
  <2>1. \A p \in DOMAIN sz : p \in Nat /\ sz[p] \in Nat /\ p + sz[p] <= hi
    BY DEF Tiling
  <2>2. \A p \in DOMAIN sz : p \in 0 .. hi
    BY <1>0, <2>1
  <2>. QED BY <1>0, <2>2
<1>2. IsFiniteSet(0 .. hi)
  BY <1>1, FS_Interval
<1>3. \A x \in DOMAIN sz : x \in Nat
  BY <1>1
<1>4. IsFiniteSet(DOMAIN sz)
  <2>. DEFINE D == DOMAIN sz
  <2>1. D \subseteq 0 .. hi
    BY <1>1
  <2>. HIDE DEF D
  <2>2. IsFiniteSet(D)
    BY <1>2, <2>1, FS_Subset
  <2>. QED BY <2>2 DEF D
<1>. QED BY <1>3, <1>4

(* Each chunk but the first follows another.                               *)
LEMMA TilingBefore ==
  ASSUME NEW sz, NEW hi, Tiling(sz, hi), NEW p \in DOMAIN sz, p # HeapBase
  PROVE  \E x \in DOMAIN sz : x + sz[x] = p /\ x < p /\ \A y \in DOMAIN sz : y < p => y < x \/ y = x
<1>1. p \in Nat /\ HeapBase \in Nat /\ HeapBase \in DOMAIN sz /\ HeapBase < p
  BY MallocAssumption DEF Tiling
<1>. DEFINE B == {x \in DOMAIN sz : x < p}
<1>2. B \subseteq 0 .. p /\ HeapBase \in B
  BY <1>1 DEF Tiling
<1>. HIDE DEF B
<1>3. PICK x \in B : \A y \in B : x >= y
  <2>1. B # {}
    BY <1>2
  <2>. QED BY <1>1, <1>2, <2>1, LargestElement
<1>4. /\ x \in DOMAIN sz /\ x < p /\ x \in Nat /\ sz[x] \in Nat /\ sz[x] > 0 /\ hi \in Nat
      /\ x + sz[x] <= hi /\ x + sz[x] <= p
      /\ x + sz[x] = hi \/ x + sz[x] \in DOMAIN sz
      /\ sz[p] \in Nat /\ sz[p] > 0 /\ p + sz[p] <= hi
  BY <1>3 DEF Tiling, B
<1>5. x + sz[x] = p
  <2>1. ASSUME x + sz[x] < p PROVE FALSE
    <3>1. x + sz[x] \in B /\ x + sz[x] > x
      BY <1>1, <1>4, <2>1 DEF B
    <3>. QED BY <1>3, <1>4, <3>1
  <2>. QED BY <1>1, <1>4, <2>1
<1>6. ASSUME NEW y \in DOMAIN sz, y < p PROVE y < x \/ y = x
  <2>1. y \in B /\ y \in Nat
    BY <1>6 DEF B, Tiling
  <2>2. x >= y
    BY <1>3, <2>1
  <2>. QED BY <1>4, <2>1, <2>2
<1>. QED BY <1>4, <1>5, <1>6

(* The chunks below one fill the heap from its base to that one.           *)
LEMMA SizeOfBelow ==
  ASSUME NEW m, NEW sz, NEW hi, Tiling(sz, hi), \A p \in DOMAIN sz : chunksize(m, p) = sz[p],
         NEW p \in DOMAIN sz
  PROVE  SizeOf(m, {q \in DOMAIN sz : q < p}) = p - HeapBase
<1>. DEFINE Lower(x) == {q \in DOMAIN sz : q < x}
            Bad == {x \in DOMAIN sz : SizeOf(m, Lower(x)) # x - HeapBase}
<1>1. SUFFICES ASSUME Bad # {} PROVE FALSE
  OBVIOUS
<1>2. IsFiniteSet(DOMAIN sz) /\ DOMAIN sz \subseteq Nat /\ Bad \subseteq Nat
  BY TilingFinite
<1>3. PICK b \in Bad : \A x \in Bad : b <= x
  <2>. HIDE DEF Bad
  <2>. QED BY <1>1, <1>2, SmallestElement
<1>4. \A x \in DOMAIN sz : chunksize(m, x) \in Nat
  BY DEF Tiling
<1>5. \A x \in DOMAIN sz : /\ IsFiniteSet(Lower(x)) /\ \A y \in Lower(x) : chunksize(m, y) \in Nat
  <2>. SUFFICES ASSUME NEW x \in DOMAIN sz PROVE IsFiniteSet(Lower(x)) /\ \A y \in Lower(x) : chunksize(m, y) \in Nat
    OBVIOUS
  <2>1. Lower(x) \subseteq DOMAIN sz
    OBVIOUS
  <2>. HIDE DEF Lower
  <2>. QED BY <1>2, <1>4, <2>1, FS_Subset
<1>6. CASE b = HeapBase
  <2>1. Lower(b) = {}
    BY <1>6 DEF Tiling
  <2>2. SizeOf(m, {}) = 0
    BY <1>3, <1>5, SizeOfTake
  <2>3. HeapBase - HeapBase = 0
    BY MallocAssumption
  <2>. QED BY <1>3, <1>6, <2>1, <2>2, <2>3
<1>7. CASE b # HeapBase
  <2>1. b \in DOMAIN sz /\ b \in Nat
    BY <1>2, <1>3
  <2>2. PICK x \in DOMAIN sz : x + sz[x] = b /\ x < b /\ \A y \in DOMAIN sz : y < b => y < x \/ y = x
    BY <1>7, <2>1, TilingBefore
  <2>3. x \notin Bad /\ x \in Nat /\ sz[x] \in Nat
    <3>1. x \in Nat /\ sz[x] \in Nat
      BY DEF Tiling
    <3>2. ~(b <= x)
      BY <2>1, <2>2, <3>1
    <3>. HIDE DEF Bad
    <3>. QED BY <1>3, <3>1, <3>2
  <2>4. SizeOf(m, Lower(x)) = x - HeapBase
    BY <2>3
  <2>5. Lower(b) \ {x} = Lower(x) /\ x \in Lower(b)
    <3>1. \A y \in DOMAIN sz : y \in Nat
      BY <1>2
    <3>2. \A y \in DOMAIN sz : y < b /\ y # x <=> y < x
      <4>1. ASSUME NEW y \in DOMAIN sz, y < x PROVE y < b /\ y # x
        BY <2>1, <2>2, <2>3, <3>1, <4>1
      <4>. QED BY <2>2, <4>1
    <3>. QED BY <2>2, <3>2
  <2>. HIDE DEF Lower
  <2>6. SizeOf(m, Lower(b)) = chunksize(m, x) + SizeOf(m, Lower(b) \ {x})
    BY <1>5, <2>1, <2>5, SizeOfTake
  <2>7. SizeOf(m, Lower(b)) = sz[x] + (x - HeapBase)
    BY <2>4, <2>5, <2>6
  <2>8. HeapBase \in Nat
    BY MallocAssumption
  <2>9. SizeOf(m, Lower(b)) = b - HeapBase
    BY <2>1, <2>2, <2>3, <2>7, <2>8
  <2>. QED BY <1>3, <2>9 DEF Lower
<1>. QED BY <1>6, <1>7

=============================================================================
