--------------------------- MODULE MallocProofs ---------------------------
(* The calls of the malloc family keep the allocator's shape, whatever the *)
(* sequence of calls, and what follows from it: the seven properties of    *)
(* Malloc for every value of the constants.                                *)
EXTENDS MallocHeapProofs

-----------------------------------------------------------------------------
(* A chunk handed out, or nothing: the ways dlmalloc serves a request.     *)

(* The heap before the first allocation that succeeded.                    *)
Nothing == [p \in {} |-> 0]
Blank(m) ==
  /\ Frame(m) /\ m.brk = 0 /\ m.top = 0 /\ m.topsize = 0 /\ m.dv = 0 /\ m.dvsize = 0
  /\ DOMAIN m.head = {} /\ DOMAIN m.foot = {} /\ m.seg = [base |-> 0, size |-> 0]
  /\ Bins(m, Nothing)

Ready(m, sz, us) == Heap(m, sz, us, {}) \/ (Blank(m) /\ sz = Nothing /\ us = {})

(* What a way of malloc promises: nothing, or a chunk of its own that has  *)
(* the room; the chunks in use before stay where they were.                *)
Got(r, sz, us, nb) ==
  \E z : /\ Kept(sz, us, z)
         /\ \/ r.mem = 0 /\ Ready(r.m, z, us) /\ (z = Nothing => sz = Nothing)
            \/ \E p \in DOMAIN z \ us : /\ r.mem = chunk2mem(p) /\ Heap(r.m, z, us \cup {p}, {})
                                        /\ z[p] >= nb /\ AfterUsed(z, us \cup {p}, p)

(* A free block follows a block in use.                                    *)
LEMMA FreeAfterUsed ==
  ASSUME NEW hi, NEW sz, Tiling(sz, hi), NEW us, Merged(sz, us), us \subseteq DOMAIN sz,
         NEW p \in DOMAIN sz, p \notin us,
         NEW z, NEW h, Tiling(z, h), Kept(sz, us, z)
  PROVE  AfterUsed(z, us \cup {p}, p)
<1>. SUFFICES ASSUME NEW q \in DOMAIN z, q + z[q] = p PROVE q \in us
  BY DEF AfterUsed
<1>1. p \in Nat /\ q \in Nat /\ z[q] \in Nat /\ z[q] > 0 /\ q >= HeapBase /\ HeapBase \in Nat /\ HeapBase \in DOMAIN sz
  BY MallocAssumption DEF Tiling
<1>. DEFINE B == {x \in DOMAIN sz : x < p}
<1>2. B \subseteq 0 .. p /\ HeapBase \in B /\ B \subseteq Nat
  BY <1>1 DEF Tiling
<1>. HIDE DEF B
<1>3. PICK x \in B : \A y \in B : x >= y
  <2>1. B # {}
    BY <1>2
  <2>. QED BY <1>1, <1>2, <2>1, LargestElement
<1>4. x \in DOMAIN sz /\ x < p /\ x \in Nat /\ \A y \in DOMAIN sz : y < p => y <= x
  <2>1. \A y \in B : y <= x /\ x \in Nat
    BY <1>2, <1>3
  <2>. QED BY <1>3, <2>1 DEF B
<1>5. x + sz[x] <= p /\ x \in Nat /\ sz[x] \in Nat /\ sz[x] > 0 /\ p + sz[p] <= hi /\ sz[p] \in Nat /\ sz[p] > 0 /\ hi \in Nat
  BY <1>4 DEF Tiling
<1>6. x + sz[x] \in DOMAIN sz
  <2>1. x + sz[x] # hi
    BY <1>1, <1>5
  <2>. QED BY <1>4, <2>1 DEF Tiling
<1>7. x + sz[x] = p
  BY <1>1, <1>4, <1>5, <1>6
<1>8. x \in us
  BY <1>4, <1>6, <1>7 DEF Merged
<1>9. x \in DOMAIN z /\ x + z[x] = p
  BY <1>7, <1>8 DEF Kept
<1>. QED BY <1>8, <1>9, TilingUnique

(* A heap has a chunk.                                                     *)
LEMMA HeapSome ==
  ASSUME NEW m, NEW sz, NEW us, NEW o, Heap(m, sz, us, o)
  PROVE  sz # Nothing
<1>1. m.top \in DOMAIN sz
  BY HeapUsed
<1>2. DOMAIN Nothing = {}
  BY DEF Nothing
<1>. QED BY <1>1, <1>2

(* A chunk of the tiling itself handed out.                                *)
LEMMA GotMade ==
  ASSUME NEW n, NEW z, NEW us, NEW p, Heap(n, z, us \cup {p}, {}), p \notin us, NEW sz, Kept(sz, us, z),
         NEW nb, z[p] >= nb, NEW m, Heap(m, sz, us, {}), p \in DOMAIN sz
  PROVE  Got([m |-> n, mem |-> chunk2mem(p)], sz, us, nb)
<1>1. p \in DOMAIN z
  BY HeapUsed
<1>2. AfterUsed(z, us \cup {p}, p)
  <2>1. Tiling(sz, Ends(m)) /\ Merged(sz, us) /\ us \subseteq DOMAIN sz /\ Tiling(z, Ends(n))
    BY DEF Heap, Laid
  <2>. QED BY <2>1, FreeAfterUsed
<1>. QED BY <1>1, <1>2 DEF Got

(* A failure leaves what there was.                                        *)
LEMMA GotFailed ==
  ASSUME NEW n, NEW z, NEW us, Heap(n, z, us, {}), NEW sz, Kept(sz, us, z), NEW nb
  PROVE  Got(Failed(n), sz, us, nb)
<1>. DEFINE r == Failed(n)
<1>1. r.m = n /\ r.mem = 0
  BY DEF Failed
<1>. HIDE DEF r
<1>2. Ready(r.m, z, us)
  BY <1>1 DEF Ready
<1>3. Got(r, sz, us, nb)
  BY <1>1, <1>2, HeapSome DEF Got
<1>. QED BY <1>3 DEF r

(* An allocation after a step that kept the blocks.                        *)
LEMMA GotLater ==
  ASSUME NEW r, NEW z, NEW us, NEW nb, Got(r, z, us, nb), NEW sz, Kept(sz, us, z), z # Nothing
  PROVE  Got(r, sz, us, nb)
<1>1. PICK y : /\ Kept(z, us, y)
               /\ \/ r.mem = 0 /\ Ready(r.m, y, us) /\ (y = Nothing => z = Nothing)
                  \/ \E p \in DOMAIN y \ us : /\ r.mem = chunk2mem(p) /\ Heap(r.m, y, us \cup {p}, {})
                                              /\ y[p] >= nb /\ AfterUsed(y, us \cup {p}, p)
  BY DEF Got
<1>2. Kept(sz, us, y)
  BY <1>1 DEF Kept
<1>. QED BY <1>1, <1>2 DEF Got

(* The first chunk of a small bin handed out whole.                        *)
LEMMA TakeSmallWholeGot ==
  ASSUME NEW m, NEW sz, NEW us, Heap(m, sz, us, {}), NEW i \in m.smallmap,
         NEW nb \in Nat, nb <= i * 8
  PROVE  Got(TakeSmallWhole(m, i), sz, us, nb)
<1>. DEFINE F == InBins(m, sz, us)
            p == Head(m.smallbins[i])
            k == unlink_first_small_chunk(m, p, i)
            s == i * 8
<1>1. DOMAIN m = Fields /\ Bins(m, F) /\ us \subseteq DOMAIN sz
  BY FrameFacts, HeapUsed DEF Heap
<1>. HIDE DEF F
<1>2. /\ i \in SmallBins /\ p \in DOMAIN F /\ F[p] = s
      /\ Bins(k, Without(F, p)) /\ SameBut(m, k, BinFields)
  BY <1>1, BinsUnlinkFirst
<1>3. p \in DOMAIN sz \ us /\ s = sz[p]
  BY <1>2 DEF F, InBins
<1>. HIDE DEF p, k, s
<1>4. Heap(set_inuse_and_pinuse(k, p, s), sz, us \cup {p}, {})
  BY <1>2, <1>3, TakeWhole DEF F
<1>5. TakeSmallWhole(m, i) = [m |-> set_inuse_and_pinuse(k, p, s), mem |-> chunk2mem(p)]
  BY DEF TakeSmallWhole, small_index2size, p, k, s
<1>6. Kept(sz, us, sz) /\ sz[p] >= nb
  <2>1. nb <= s /\ s \in Nat
    BY <1>2 DEF s, SmallBins
  <2>. QED BY <1>1, <1>3, <2>1, KeptAll
<1>. QED BY <1>3, <1>4, <1>5, <1>6, GotMade

(* The front of a small bin's chunk handed out.                            *)
LEMMA TakeSmallSplitGot ==
  ASSUME NEW m, NEW sz, NEW us, Heap(m, sz, us, {}), NEW i \in m.smallmap,
         NEW nb \in Nat, nb % 8 = 0, nb >= 16, nb + 16 <= i * 8,
         m.dvsize # 0 => is_small(m.dvsize)
  PROVE  Got(TakeSmallSplit(m, i, nb), sz, us, nb)
<1>. DEFINE F == InBins(m, sz, us)
            p == Head(m.smallbins[i])
            k == unlink_first_small_chunk(m, p, i)
            s == i * 8 - nb
            a == set_size_and_pinuse_of_free_chunk(
                   set_size_and_pinuse_of_inuse_chunk(k, p, nb), p + nb, s)
            n == replace_dv(a, p + nb, s)
            z == Split(sz, p, nb)
<1>1. DOMAIN m = Fields /\ Bins(m, F)
  BY FrameFacts DEF Heap
<1>. HIDE DEF F
<1>2. /\ i \in SmallBins /\ p \in DOMAIN F /\ F[p] = i * 8
      /\ Bins(k, Without(F, p)) /\ SameBut(m, k, BinFields)
  BY <1>1, BinsUnlinkFirst
<1>3. p \in DOMAIN sz \ us /\ i * 8 = sz[p]
  BY <1>2 DEF F, InBins
<1>4. i * 8 \in Nat /\ s \in Nat /\ s >= 16 /\ sz[p] = nb + s
  BY <1>2, <1>3 DEF SmallBins
<1>. HIDE DEF p, k, s
<1>5. Heap(n, z, us \cup {p}, {}) /\ z[p] = nb /\ Kept(sz, us, z)
  <2>1. p \in DOMAIN InBins(m, sz, us) /\ Bins(k, Without(InBins(m, sz, us), p))
    BY <1>2 DEF F
  <2>2. n = replace_dv(a, p + nb, s) /\ (m.dvsize # 0 => is_small(m.dvsize))
    OBVIOUS
  <2>3. a = set_size_and_pinuse_of_free_chunk(
              set_size_and_pinuse_of_inuse_chunk(k, p, nb), p + nb, s)
    OBVIOUS
  <2>4. z = Split(sz, p, nb)
    OBVIOUS
  <2>5. Heap(m, sz, us, {}) /\ nb \in Nat /\ nb >= 16 /\ nb % 8 = 0
    OBVIOUS
  <2>6. SameBut(m, k, BinFields) /\ s \in Nat /\ s >= 16 /\ sz[p] = nb + s
    BY <1>2, <1>4
  <2>. HIDE DEF n, a, z
  <2>7. LET y == Split(sz, p, nb)
        IN Heap(n, y, us \cup {p}, {}) /\ y[p] = nb /\ Kept(sz, us, y)
    BY <2>1, <2>2, <2>3, <2>5, <2>6, TakeFront
  <2>. QED BY ONLY <2>4, <2>7
<1>6. TakeSmallSplit(m, i, nb) = [m |-> n, mem |-> chunk2mem(p)]
  BY DEF TakeSmallSplit, small_index2size, p, k, s
<1>. HIDE DEF n, z
<1>7. z[p] >= nb
  BY <1>5
<1>. QED BY <1>3, <1>5, <1>6, <1>7, GotMade

(* The front of the top handed out.                                        *)
LEMMA SplitTopGot ==
  ASSUME NEW m, NEW sz, NEW us, Heap(m, sz, us, {}), NEW nb \in Nat, nb % 8 = 0, nb >= 16,
         nb < m.topsize
  PROVE  Got(SplitTop(m, nb), sz, us, nb)
<1>. DEFINE p == m.top
            t == m.topsize
            r == p + nb
            s == t - nb
            b == [m EXCEPT !.top = r, !.topsize = @ - nb]
            a == PutHead(b, r, s, FALSE, TRUE)
            n == PutHead(a, p, nb, TRUE, TRUE)
            F == InBins(m, sz, us)
            u == us \cup {p}
            z == Split(sz, p, nb)
<1>1. /\ Frame(m) /\ Segment(m) /\ Laid(m, sz, us, {}, Ends(m)) /\ Pieces(m, sz, us)
      /\ Victim(m, sz, us, {}) /\ Bins(m, F) /\ DOMAIN m = Fields /\ Tiling(sz, Ends(m))
  BY FrameFacts DEF Heap, Laid
<1>2. p \in DOMAIN sz \ us /\ t = sz[p] /\ p + t = Ends(m)
  BY <1>1 DEF Pieces
<1>3. p \in Nat /\ t \in Nat /\ t % 8 = 0 /\ Ends(m) \notin DOMAIN sz /\ p >= 8
  BY <1>2, HeapChunk
<1>4. r \in Nat /\ s \in Nat /\ r # p /\ s = sz[p] - nb /\ r + s = Ends(m) /\ nb > 0 /\ nb < sz[p]
  BY <1>2, <1>3
<1>5. /\ SameBut(m, b, {"top", "topsize"}) /\ b.top = r /\ b.topsize = s
      /\ b.head = m.head /\ b.foot = m.foot /\ DOMAIN b = Fields
  BY <1>1 DEF SameBut, Fields
<1>. HIDE DEF b
<1>6. SameBut(b, a, {"head"}) /\ NewHead(a, r, s, FALSE, TRUE) /\ OtherHeads(b, a, {r}) /\ OtherFeet(b, a, {})
  BY <1>5, PutHeadFacts
<1>7. DOMAIN a = Fields
  BY <1>6 DEF SameBut
<1>. HIDE DEF a
<1>8. SameBut(a, n, {"head"}) /\ NewHead(n, p, nb, TRUE, TRUE) /\ OtherHeads(a, n, {p}) /\ OtherFeet(a, n, {})
  BY <1>7, PutHeadFacts
<1>9. SplitTop(m, nb) = [m |-> n, mem |-> chunk2mem(p)]
  BY DEF SplitTop, set_size_and_pinuse_of_inuse_chunk, n, a, b
<1>. HIDE DEF n
<1>10. Laid(b, sz, us, {}, Ends(m))
  BY <1>1, <1>5, LaidSame
<1>11. Laid(n, z, u, {}, Ends(m))
  <2>1. NewHead(n, p + nb, sz[p] - nb, FALSE, TRUE)
    <3>1. r \notin {p}
      BY <1>4
    <3>2. NewHead(n, r, s, FALSE, TRUE)
      BY <1>6, <1>8, <3>1, HeadStays
    <3>. QED BY <3>2, <1>4
  <2>2. OtherHeads(b, n, {p, p + nb}) /\ OtherFeet(b, n, {p + sz[p]})
    <3>1. OtherHeads(b, n, {r} \cup {p}) /\ OtherFeet(b, n, {} \cup {})
      BY <1>6, <1>8, HeadsJoin, FeetJoin
    <3>2. {r} \cup {p} = {p, p + nb}
      OBVIOUS
    <3>. QED BY <3>1, <3>2 DEF OtherFeet
  <2>3. p + sz[p] \notin DOMAIN sz
    BY <1>2, <1>3
  <2>. HIDE DEF p
  <2>. QED BY <1>2, <1>4, <1>8, <1>10, <2>1, <2>2, <2>3, LaidTakeFront
<1>12. /\ r \notin DOMAIN sz /\ DOMAIN z = DOMAIN sz \cup {r} /\ z[p] = nb /\ z[r] = s
       /\ \A q \in DOMAIN sz : q # p => z[q] = sz[q]
  <2>1. p + nb \notin DOMAIN sz
    BY <1>1, <1>2, <1>4, SplitFacts
  <2>. QED BY <1>2, <1>4, <2>1 DEF Split
<1>. HIDE DEF z
<1>13. /\ SameBut(m, n, {"head", "top", "topsize"}) /\ n.top = r /\ n.topsize = s
       /\ n.dv = m.dv /\ n.dvsize = m.dvsize
  BY <1>5, <1>6, <1>8 DEF SameBut, Fields
<1>14. Frame(n) /\ Ends(n) = Ends(m) /\ Segment(n)
  <2>1. SameBut(m, n, HeapFields)
    BY <1>13 DEF SameBut, HeapFields
  <2>. QED BY <1>1, <2>1, FrameSame
<1>15. Bins(n, F)
  <2>1. {"head", "top", "topsize"} \cap BinFields = {}
    BY DEF BinFields
  <2>. QED BY <2>1, <1>1, <1>13, BinsSame
<1>16. /\ DOMAIN F = DOMAIN sz \ (us \cup {m.top, m.dv}) /\ \A q \in DOMAIN F : F[q] = sz[q]
       /\ F = [q \in DOMAIN F |-> F[q]]
  BY DEF InBins
<1>. HIDE DEF F
<1>17. p \notin us /\ r \notin us /\ r # m.dv
  <2>1. r # m.dv
    BY <1>1, <1>3, <1>4, <1>12 DEF Victim
  <2>. QED BY <1>2, <1>12, <2>1, HeapUsed
<1>18. Pieces(n, z, u)
  <2>1. \A q \in DOMAIN z : q # n.top => z[q] >= 16
    <3>1. \A q \in DOMAIN sz : q # p => sz[q] >= 16
      BY <1>1 DEF Pieces
    <3>. HIDE DEF p, r, s
    <3>. QED BY <3>1, <1>12, <1>13
  <2>2. n.top \in DOMAIN z \ u /\ n.topsize = z[n.top] /\ n.top + n.topsize = Ends(n)
    BY <1>4, <1>12, <1>13, <1>14, <1>17
  <2>. QED BY <2>1, <2>2 DEF Pieces
<1>19. Victim(n, z, u, {})
  <2>. HIDE DEF r
  <2>. QED BY <1>1, <1>12, <1>13, <1>17 DEF Victim
<1>20. DOMAIN F = DOMAIN z \ (u \cup {n.top, n.dv}) /\ \A q \in DOMAIN F : F[q] = z[q]
  <2>. HIDE DEF r, s
  <2>. QED BY <1>12, <1>13, <1>16, <1>17
<1>21. Laid(n, z, u, {}, Ends(n))
  BY <1>11, <1>14
<1>22. Heap(n, z, u, {})
  BY <1>14, <1>15, <1>16, <1>18, <1>19, <1>20, <1>21, HeapMade
<1>23. Kept(sz, us, z) /\ z[p] >= nb
  <2>1. us \subseteq DOMAIN sz
    BY HeapUsed
  <2>. QED BY <2>1, <1>2, <1>12 DEF Kept
<1>24. p \in DOMAIN sz
  BY <1>2
<1>. QED BY <1>9, <1>17, <1>22, <1>23, <1>24, GotMade

(* The whole victim taken for use.                                         *)
LEMMA TakeDvWhole ==
  ASSUME NEW m, NEW sz, NEW us, Heap(m, sz, us, {}), m.dvsize # 0
  PROVE  LET n == set_inuse_and_pinuse([m EXCEPT !.dv = 0, !.dvsize = 0], m.dv, m.dvsize)
         IN Heap(n, sz, us \cup {m.dv}, {})
<1>. DEFINE v == m.dv
            s == m.dvsize
            k == [m EXCEPT !.dv = 0, !.dvsize = 0]
            n == set_inuse_and_pinuse(k, v, s)
            F == InBins(m, sz, us)
            u == us \cup {v}
            x == v + s
<1>1. /\ Frame(m) /\ Segment(m) /\ Laid(m, sz, us, {}, Ends(m)) /\ Pieces(m, sz, us)
      /\ Victim(m, sz, us, {}) /\ Bins(m, F) /\ DOMAIN m = Fields
  BY FrameFacts DEF Heap
<1>2. v \in DOMAIN sz \ us /\ v # m.top /\ s = sz[v] /\ 0 \notin DOMAIN sz
  BY <1>1, HeapUsed DEF Victim
<1>3. v \in Nat /\ s \in Nat /\ s > 0 /\ x # v /\ x \in DOMAIN sz
  <2>1. v \in Nat /\ sz[v] \in Nat /\ sz[v] > 0 /\ v + sz[v] # v /\ v + sz[v] \in DOMAIN sz
    BY <1>2, HeapChunk
  <2>. QED BY <1>2, <2>1
<1>4. /\ SameBut(m, k, {"dv", "dvsize"}) /\ k.head = m.head /\ k.foot = m.foot
      /\ DOMAIN k = Fields /\ k.dv = 0 /\ k.dvsize = 0
  BY <1>1 DEF SameBut, Fields
<1>. HIDE DEF k
<1>5. /\ SameBut(k, n, {"head"}) /\ n.foot = k.foot /\ OtherFeet(k, n, {})
      /\ NewHead(n, v, s, TRUE, TRUE) /\ NewHead(n, x, chunksize(k, x), cinuse(k, x), TRUE)
      /\ OtherHeads(k, n, {v, x})
  BY <1>3, <1>4, SetInuseAndPinuseFacts
<1>. HIDE DEF n
<1>6. Laid(k, sz, us, {}, Ends(m))
  BY <1>1, <1>4, LaidSame
<1>7. Laid(n, sz, u, {}, Ends(m))
  <2>. HIDE DEF v, s
  <2>. QED BY <1>2, <1>3, <1>5, <1>6, LaidTake
<1>8. SameBut(m, n, {"dv", "dvsize", "head"})
  BY <1>4, <1>5 DEF SameBut
<1>9. Frame(n) /\ Ends(n) = Ends(m) /\ Segment(n)
  <2>1. SameBut(m, n, HeapFields)
    BY <1>8, SameButMore DEF HeapFields
  <2>. QED BY <1>1, <2>1, FrameSame
<1>10. n.top = m.top /\ n.topsize = m.topsize /\ n.dv = 0 /\ n.dvsize = 0
  BY <1>4, <1>5 DEF SameBut, Fields
<1>11. Bins(n, F)
  <2>1. {"dv", "dvsize", "head"} \cap BinFields = {}
    BY DEF BinFields
  <2>. QED BY <2>1, <1>1, <1>8, BinsSame
<1>12. Pieces(n, sz, u) /\ Victim(n, sz, u, {})
  BY <1>1, <1>2, <1>9, <1>10 DEF Pieces, Victim
<1>13. /\ DOMAIN F = DOMAIN sz \ (us \cup {m.top, m.dv}) /\ \A q \in DOMAIN F : F[q] = sz[q]
       /\ F = [q \in DOMAIN F |-> F[q]]
  BY DEF InBins
<1>. HIDE DEF F
<1>14. DOMAIN F = DOMAIN sz \ (u \cup {n.top, n.dv})
  BY <1>2, <1>10, <1>13
<1>15. Laid(n, sz, u, {}, Ends(n))
  BY <1>7, <1>9
<1>. QED BY <1>9, <1>11, <1>12, <1>13, <1>14, <1>15, HeapMade DEF n, k

(* The front of the victim taken for use.                                  *)
LEMMA TakeDvFront ==
  ASSUME NEW m, NEW sz, NEW us, Heap(m, sz, us, {}), m.dvsize # 0,
         NEW nb \in Nat, nb % 8 = 0, nb >= 16, NEW s \in Nat, s >= 16, m.dvsize = nb + s
  PROVE  LET a == set_size_and_pinuse_of_free_chunk(
                    [m EXCEPT !.dv = m.dv + nb, !.dvsize = s], m.dv + nb, s)
             n == set_size_and_pinuse_of_inuse_chunk(a, m.dv, nb)
             z == Split(sz, m.dv, nb)
         IN Heap(n, z, us \cup {m.dv}, {}) /\ z[m.dv] = nb /\ Kept(sz, us, z)
<1>. DEFINE v == m.dv
            r == v + nb
            k == [m EXCEPT !.dv = r, !.dvsize = s]
            a == set_size_and_pinuse_of_free_chunk(k, r, s)
            n == set_size_and_pinuse_of_inuse_chunk(a, v, nb)
            F == InBins(m, sz, us)
            u == us \cup {v}
            x == r + s
            z == Split(sz, v, nb)
<1>1. /\ Frame(m) /\ Segment(m) /\ Laid(m, sz, us, {}, Ends(m)) /\ Pieces(m, sz, us)
      /\ Victim(m, sz, us, {}) /\ Bins(m, F) /\ DOMAIN m = Fields /\ Tiling(sz, Ends(m))
  BY FrameFacts DEF Heap, Laid
<1>2. v \in DOMAIN sz \ us /\ v # m.top /\ sz[v] = nb + s /\ 0 \notin DOMAIN sz
  BY <1>1, HeapUsed DEF Victim
<1>3. v \in Nat /\ Sized(sz[v]) /\ v + sz[v] \in DOMAIN sz
  BY <1>2, HeapChunk
<1>4. r \in Nat /\ x = v + sz[v] /\ r # v /\ s = sz[v] - nb /\ nb < sz[v]
      /\ nb > 0 /\ s # 0 /\ r > 0
  BY <1>2, <1>3
<1>5. /\ SameBut(m, k, {"dv", "dvsize"}) /\ k.head = m.head /\ k.foot = m.foot
      /\ DOMAIN k = Fields /\ k.dv = r /\ k.dvsize = s
  BY <1>1 DEF SameBut, Fields
<1>. HIDE DEF k
<1>6. /\ SameBut(k, a, {"head", "foot"}) /\ NewHead(a, r, s, FALSE, TRUE) /\ OtherHeads(k, a, {r})
      /\ OtherFeet(k, a, {x}) /\ FootAt(a, x) = s /\ DOMAIN a = Fields
  <2>1. /\ SameBut(k, a, {"head", "foot"}) /\ NewHead(a, r, s, FALSE, TRUE) /\ OtherHeads(k, a, {r})
        /\ OtherFeet(k, a, {x}) /\ FootAt(a, x) = s
    BY <1>4, <1>5, SetFreeFacts
  <2>. QED BY <2>1 DEF SameBut
<1>. HIDE DEF a
<1>7. /\ SameBut(a, n, {"head"}) /\ NewHead(n, v, nb, TRUE, TRUE)
      /\ OtherHeads(a, n, {v}) /\ OtherFeet(a, n, {})
  <2>1. n = PutHead(a, v, nb, TRUE, TRUE)
    BY DEF set_size_and_pinuse_of_inuse_chunk
  <2>. HIDE DEF n, v
  <2>. QED BY <2>1, <1>6, PutHeadFacts
<1>. HIDE DEF n
<1>8. NewHead(n, r, s, FALSE, TRUE)
  <2>1. r \notin {v}
    BY <1>4
  <2>. QED BY <1>6, <1>7, <2>1, HeadStays
<1>9. OtherHeads(k, n, {v, v + nb}) /\ OtherFeet(k, n, {v + sz[v]})
  <2>1. OtherHeads(k, n, {r} \cup {v}) /\ OtherFeet(k, n, {x} \cup {})
    BY <1>6, <1>7, HeadsJoin, FeetJoin
  <2>2. {r} \cup {v} = {v, v + nb} /\ {x} \cup {} = {v + sz[v]}
    BY <1>4
  <2>. QED BY <2>1, <2>2
<1>10. Laid(k, sz, us, {}, Ends(m))
  BY <1>1, <1>5, LaidSame
<1>11. Laid(n, z, u, {}, Ends(m))
  <2>1. NewHead(n, v + nb, sz[v] - nb, FALSE, TRUE)
    BY <1>4, <1>8
  <2>2. FootAt(n, v + sz[v]) = sz[v] - nb
    BY <1>4, <1>6, <1>7 DEF OtherFeet
  <2>. HIDE DEF v
  <2>. QED BY <1>2, <1>4, <1>7, <1>9, <1>10, <2>1, <2>2, LaidTakeFront
<1>12. /\ r \notin DOMAIN sz /\ DOMAIN z = DOMAIN sz \cup {r} /\ z[v] = nb /\ z[r] = s
       /\ \A q \in DOMAIN sz : q # v => z[q] = sz[q]
  <2>1. v + nb \notin DOMAIN sz
    BY <1>1, <1>2, <1>4, SplitFacts
  <2>. QED BY <1>2, <1>4, <2>1 DEF Split
<1>. HIDE DEF z
<1>13. /\ SameBut(m, n, {"head", "foot", "dv", "dvsize"}) /\ n.top = m.top /\ n.topsize = m.topsize
       /\ n.dv = r /\ n.dvsize = s
  BY <1>5, <1>6, <1>7 DEF SameBut, Fields
<1>14. Frame(n) /\ Ends(n) = Ends(m) /\ Segment(n)
  <2>1. SameBut(m, n, HeapFields)
    BY <1>13 DEF SameBut, HeapFields
  <2>. QED BY <1>1, <2>1, FrameSame
<1>15. Bins(n, F)
  <2>1. {"head", "foot", "dv", "dvsize"} \cap BinFields = {}
    BY DEF BinFields
  <2>. QED BY <2>1, <1>1, <1>13, BinsSame
<1>16. /\ DOMAIN F = DOMAIN sz \ (us \cup {m.top, m.dv}) /\ \A q \in DOMAIN F : F[q] = sz[q]
       /\ F = [q \in DOMAIN F |-> F[q]]
  BY DEF InBins
<1>. HIDE DEF F
<1>17. v \notin us /\ r \notin us /\ r # m.top /\ m.top \in DOMAIN sz
  <2>1. m.top \in DOMAIN sz /\ us \subseteq DOMAIN sz
    BY HeapUsed
  <2>. QED BY <1>2, <1>12, <2>1
<1>18. Pieces(n, z, u)
  <2>. HIDE DEF r
  <2>1. \A q \in DOMAIN z : q # n.top => z[q] >= 16
    BY <1>1, <1>12, <1>13 DEF Pieces
  <2>2. n.top \in DOMAIN z \ u /\ n.topsize = z[n.top] /\ n.top + n.topsize = Ends(n)
    BY <1>1, <1>2, <1>12, <1>13, <1>14, <1>17 DEF Pieces
  <2>. QED BY <2>1, <2>2 DEF Pieces
<1>19. Victim(n, z, u, {})
  <2>1. n.dv \in DOMAIN z \ u /\ n.dv # n.top /\ n.dvsize = z[n.dv]
    BY <1>4, <1>12, <1>13, <1>17
  <2>. QED BY <2>1 DEF Victim
<1>20. DOMAIN F = DOMAIN z \ (u \cup {n.top, n.dv}) /\ \A q \in DOMAIN F : F[q] = z[q]
  <2>1. v = m.dv
    OBVIOUS
  <2>. HIDE DEF r, v
  <2>. QED BY <2>1, <1>12, <1>13, <1>16, <1>17
<1>21. Laid(n, z, u, {}, Ends(n))
  BY <1>11, <1>14
<1>22. Heap(n, z, u, {})
  BY <1>14, <1>15, <1>16, <1>18, <1>19, <1>20, <1>21, HeapMade
<1>23. Kept(sz, us, z)
  <2>1. us \subseteq DOMAIN sz
    BY HeapUsed
  <2>. QED BY <2>1, <1>2, <1>12 DEF Kept
<1>. QED BY <1>12, <1>22, <1>23 DEF n, a, k, z

(* The designated victim serves a request that it fits.                    *)
LEMMA TakeDvGot ==
  ASSUME NEW m, NEW sz, NEW us, Heap(m, sz, us, {}), NEW nb \in Nat, nb % 8 = 0, nb >= 16,
         nb <= m.dvsize
  PROVE  Got(TakeDv(m, nb), sz, us, nb)
<1>. DEFINE p == m.dv
            s == m.dvsize - nb
            a == set_size_and_pinuse_of_free_chunk(
                   [m EXCEPT !.dv = p + nb, !.dvsize = s], p + nb, s)
            b == set_size_and_pinuse_of_inuse_chunk(a, p, nb)
            c == set_inuse_and_pinuse([m EXCEPT !.dv = 0, !.dvsize = 0], p, m.dvsize)
            z == Split(sz, p, nb)
<1>1. m.dvsize # 0
  OBVIOUS
<1>2. p \in DOMAIN sz \ us /\ m.dvsize = sz[p] /\ Kept(sz, us, sz)
  BY <1>1, HeapUsed, KeptAll DEF Heap, Victim
<1>3. m.dvsize \in Nat
  BY <1>2, HeapChunk
<1>4. TakeDv(m, nb) = [m |-> IF s >= 16 THEN b ELSE c, mem |-> chunk2mem(p)]
  BY SizeFacts DEF TakeDv
<1>5. CASE s >= 16
  <2>1. s \in Nat /\ m.dvsize = nb + s
    BY <1>3
  <2>2. Heap(b, z, us \cup {p}, {}) /\ z[p] = nb /\ Kept(sz, us, z)
    <3>. HIDE DEF s
    <3>. QED BY <1>1, <1>5, <2>1, TakeDvFront
  <2>3. TakeDv(m, nb) = [m |-> b, mem |-> chunk2mem(p)]
    BY <1>4, <1>5
  <2>4. z[p] >= nb
    BY <2>2
  <2>. HIDE DEF b, z
  <2>. QED BY <1>2, <2>2, <2>3, <2>4, GotMade
<1>6. CASE ~(s >= 16)
  <2>1. Heap(c, sz, us \cup {p}, {})
    BY <1>1, TakeDvWhole
  <2>2. TakeDv(m, nb) = [m |-> c, mem |-> chunk2mem(p)]
    BY <1>4, <1>6
  <2>3. sz[p] >= nb
    BY <1>2
  <2>. HIDE DEF c
  <2>. QED BY <1>2, <2>1, <2>2, <2>3, GotMade
<1>. QED BY <1>5, <1>6

(* A search step over the nodes of a path keeps what it has found sound.   *)
LEMMA BestFitting ==
  ASSUME NEW i \in TreeBins, NEW t, NEW F, Trie(t, i, F), \A x \in DOMAIN F : Sized(F[x]),
         NEW nb \in 1 .. WordRange - 1, NEW found, Fitting(found, F, nb), NEW path \in SUBSET DOMAIN t
  PROVE  Fitting(Best(found, t, path, nb), F, nb)
<1>. DEFINE Rest(q) == Word(t[q].size - nb)
            R == {found.rsize} \cup {Rest(q) : q \in path}
            rsize == Min(R)
            c == CHOOSE q \in path : Rest(q) = rsize
            v == Head(t[c].ring)
<1>1. WordRange \in Nat
  BY WordFacts
<1>2. found.rsize \in Nat /\ found.rsize <= WordRange - nb
  <2>1. CASE found.v = 0 /\ found.rsize = WordRange - nb
    BY <1>1, <2>1
  <2>2. CASE found.rsize \in Nat /\ F[found.v] = nb + found.rsize /\ Sized(F[found.v])
    <3>1. nb + found.rsize < WordRange
      BY <2>2 DEF Sized
    <3>. QED BY <1>1, <2>2, <3>1
  <2>. QED BY <2>1, <2>2 DEF Fitting
<1>3. \A q \in path : t[q].size \in Nat /\ t[q].size > 0 /\ t[q].size < WordRange /\ Rest(q) \in Nat
  <2>1. SUFFICES ASSUME NEW q \in path
                 PROVE  t[q].size \in Nat /\ t[q].size > 0 /\ t[q].size < WordRange /\ Rest(q) \in Nat
    BY <2>1
  <2>2. q \in DOMAIN t
    OBVIOUS
  <2>3. InBin(t[q].size, i)
    BY <2>2 DEF Trie, Node
  <2>4. MIN_LARGE_SIZE > 0 /\ MIN_LARGE_SIZE \in Nat
    BY BinConstants
  <2>5. t[q].size \in Nat /\ t[q].size >= MIN_LARGE_SIZE /\ t[q].size < WordRange
    BY <2>3, InBinNat
  <2>6. t[q].size - nb \in Int
    BY <2>5
  <2>7. Word(t[q].size - nb) \in 0 .. WordRange - 1
    BY <2>6, WordOf
  <2>. QED BY <1>1, <2>4, <2>5, <2>7
<1>4. rsize \in R /\ \A x \in R : rsize <= x
  <2>1. R \subseteq Nat /\ R # {}
    BY <1>2, <1>3
  <2>. HIDE DEF R
  <2>. QED BY <2>1, MinOfSet
<1>5. Best(found, t, path, nb) = IF rsize = found.rsize THEN found ELSE [v |-> v, rsize |-> rsize]
  BY DEF Best
<1>. HIDE DEF rsize
<1>6. CASE rsize = found.rsize
  BY <1>5, <1>6
<1>7. CASE rsize # found.rsize
  <2>1. \E q \in path : Rest(q) = rsize
    BY <1>4, <1>7
  <2>2. c \in path /\ Rest(c) = rsize
    BY <2>1
  <2>. HIDE DEF c
  <2>3. t[c].size \in Nat /\ t[c].size > 0 /\ t[c].size < WordRange
    BY <1>3, <2>2
  <2>4. rsize < found.rsize /\ rsize \in Nat
    BY <1>2, <1>3, <1>4, <1>7, <2>2
  <2>5. rsize = t[c].size - nb
    <3>1. t[c].size - nb \in Int /\ -WordRange <= t[c].size - nb
      BY <1>1, <2>3
    <3>2. PICK d \in Int : d = t[c].size - nb
      BY <3>1
    <3>3. Word(d) = rsize
      BY <2>2, <3>2
    <3>4. d < 0 => rsize = d + WordRange
      BY <1>1, <3>1, <3>2, <3>3, WordOf
    <3>5. d >= 0
      BY <1>1, <1>2, <2>3, <2>4, <3>2, <3>4
    <3>6. d < WordRange
      BY <1>1, <2>3, <3>2
    <3>7. rsize = d
      BY <3>3, <3>5, <3>6, WordOf
    <3>. QED BY <3>2, <3>7
  <2>6. InBin(t[c].size, i) /\ Lists(t[c].ring, Of(F, t[c].size)) /\ Of(F, t[c].size) # {}
    BY <2>2 DEF Trie, Node
  <2>7. t[c].ring # <<>>
    BY <2>6, ListsIndex
  <2>8. v \in Of(F, t[c].size)
    BY <2>6, <2>7, ListsTail
  <2>9. v \in DOMAIN F /\ F[v] = t[c].size
    BY <2>8 DEF Of
  <2>10. Sized(F[v])
    BY <2>9
  <2>11. ~is_small(F[v])
    BY <2>6, <2>9, <2>10, SmallNotLarge
  <2>. HIDE DEF v
  <2>12. DEFINE b == [v |-> v, rsize |-> rsize]
  <2>13. b.v = v /\ b.rsize = rsize /\ Best(found, t, path, nb) = b
    BY <1>5, <1>7
  <2>. HIDE DEF b
  <2>14. F[v] = nb + rsize
    BY <2>3, <2>5, <2>9
  <2>. QED BY <2>4, <2>9, <2>10, <2>11, <2>13, <2>14 DEF Fitting
<1>. QED BY <1>6, <1>7

(* The chunk a search chose serves the request, whole or split.            *)
LEMMA TakeTreeChunkGot ==
  ASSUME NEW m, NEW sz, NEW us, Heap(m, sz, us, {}), NEW best, NEW nb \in Nat, nb % 8 = 0, nb >= 16,
         Fitting(best, InBins(m, sz, us), nb), best.v # 0, NEW victim \in BOOLEAN,
         victim /\ m.dvsize # 0 => is_small(m.dvsize)
  PROVE  Got(TakeTreeChunk(m, best, nb, victim), sz, us, nb)
<1>. DEFINE F == InBins(m, sz, us)
            v == best.v
            s == best.rsize
            k == unlink_large_chunk(m, v)
            w == set_inuse_and_pinuse(k, v, s + nb)
            a == set_size_and_pinuse_of_free_chunk(
                   set_size_and_pinuse_of_inuse_chunk(k, v, nb), v + nb, s)
            f == KeepRest(a, v + nb, s, victim)
            z == Split(sz, v, nb)
<1>1. DOMAIN m = Fields /\ Bins(m, F) /\ Frame(m) /\ m.least_addr = HeapBase
  BY FrameFacts DEF Heap, Segment
<1>2. v \in DOMAIN F /\ ~is_small(F[v]) /\ s \in Nat /\ F[v] = nb + s
  BY DEF Fitting
<1>3. v \in DOMAIN sz \ us /\ F[v] = sz[v]
  BY <1>2 DEF InBins
<1>4. v \in Nat /\ v >= HeapBase /\ chunksize(m, v) = sz[v] /\ HeapBase \in Nat
  BY <1>1, <1>3, HeapChunk, HeapHead, FrameFacts
<1>. HIDE DEF F
<1>5. Bins(k, Without(F, v)) /\ SameBut(m, k, BinFields)
  BY <1>1, <1>2, <1>3, <1>4, BinsUnlinkLarge
<1>6. ok_address(m, v) /\ ok_next(v, v + nb)
  BY <1>1, <1>4 DEF ok_address, ok_next
<1>7. TakeTreeChunk(m, best, nb, victim) = [m |-> IF s < 16 THEN w ELSE f, mem |-> chunk2mem(v)]
  BY <1>6, SizeFacts DEF TakeTreeChunk, SplitFor
<1>. HIDE DEF v, s, k
<1>8. v \in DOMAIN InBins(m, sz, us) /\ Bins(k, Without(InBins(m, sz, us), v)) /\ us \subseteq DOMAIN sz
  BY <1>2, <1>5, HeapUsed DEF F
<1>9. CASE s < 16
  <2>1. s + nb = sz[v]
    BY <1>2, <1>3
  <2>2. Heap(w, sz, us \cup {v}, {})
    BY <1>5, <1>8, <2>1, TakeWhole
  <2>3. TakeTreeChunk(m, best, nb, victim) = [m |-> w, mem |-> chunk2mem(v)]
    BY <1>7, <1>9
  <2>4. sz[v] >= nb /\ Kept(sz, us, sz)
    BY <1>2, <1>3, <1>8, KeptAll
  <2>. HIDE DEF w
  <2>. QED BY <1>3, <2>2, <2>3, <2>4, GotMade
<1>10. CASE ~(s < 16)
  <2>1. s >= 16 /\ s \in Nat /\ sz[v] = nb + s
    BY <1>2, <1>3, <1>10
  <2>2. \/ f = replace_dv(a, v + nb, s) /\ (m.dvsize # 0 => is_small(m.dvsize))
        \/ f = insert_chunk(a, v + nb, s)
    BY DEF KeepRest
  <2>. HIDE DEF f
  <2>3. Heap(f, z, us \cup {v}, {}) /\ z[v] = nb /\ Kept(sz, us, z)
    <3>. HIDE DEF a
    <3>1. a = set_size_and_pinuse_of_free_chunk(
                set_size_and_pinuse_of_inuse_chunk(k, v, nb), v + nb, s)
      BY DEF a
    <3>. QED BY <1>5, <1>8, <2>1, <2>2, <3>1, TakeFront
  <2>4. TakeTreeChunk(m, best, nb, victim) = [m |-> f, mem |-> chunk2mem(v)]
    BY <1>7, <1>10
  <2>. HIDE DEF z
  <2>5. z[v] >= nb
    BY <2>3
  <2>. QED BY <1>3, <2>3, <2>4, <2>5, GotMade
<1>. QED BY <1>9, <1>10

(* A trie that is not empty has a root.                                    *)
LEMMA TrieRoot ==
  ASSUME NEW i \in TreeBins, NEW t, NEW F, Trie(t, i, F), t # NoTrie
  PROVE  Root \in DOMAIN t
<1>1. t = [q \in DOMAIN t |-> t[q]]
  BY DEF Trie
<1>2. DOMAIN t # {}
  <2>1. SUFFICES ASSUME DOMAIN t = {} PROVE FALSE
    OBVIOUS
  <2>2. t = [q \in {} |-> t[q]]
    BY <1>1, <2>1
  <2>3. <<>> = [q \in {} |-> t[q]]
    OBVIOUS
  <2>. QED BY <2>2, <2>3 DEF NoTrie
<1>3. PICK q \in DOMAIN t : TRUE
  BY <1>2
<1>4. 0 \in 0 .. Len(q)
  BY DEF Trie, Node
<1>5. i \in 0 .. NTREEBINS - 1
  BY DEF TreeBins
<1>6. Turns(t[q].size, bit_for_tree_index(i), 0) \in DOMAIN t
  BY <1>3, <1>4, <1>5, TriePrefix
<1>7. Turns(t[q].size, bit_for_tree_index(i), 0) = Root
  BY DEF Turns, Root
<1>. QED BY <1>6, <1>7

(* tmalloc_small hands out a chunk that holds the request.                 *)
LEMMA tmalloc_smallGot ==
  ASSUME NEW m, NEW sz, NEW us, Heap(m, sz, us, {}), NEW nb \in Nat, nb % 8 = 0, nb >= 16,
         is_small(nb), nb > m.dvsize, m.treemap # {}
  PROVE  Got(tmalloc_small(m, nb), sz, us, nb)
<1>. DEFINE F == InBins(m, sz, us)
            i == Min(m.treemap)
            t == m.treebins[i]
            v == Head(t[Root].ring)
            s == Word(t[Root].size - nb)
            root == [v |-> v, rsize |-> s]
            path == leftmost_children(t, Root)
            best == Best(root, t, path, nb)
<1>1. Bins(m, F) /\ 0 \notin DOMAIN sz /\ DOMAIN F \subseteq DOMAIN sz
  BY HeapUsed DEF Heap, InBins
<1>. HIDE DEF F
<1>2. i \in m.treemap
  <2>1. m.treemap \in SUBSET Nat
    BY <1>1, BinConstants DEF Bins, TreeBins
  <2>. QED BY <2>1, MinOfSet
<1>. HIDE DEF i
<1>3. i \in TreeBins /\ Trie(t, i, F) /\ t # NoTrie /\ \A x \in DOMAIN F : Sized(F[x])
  BY <1>1, <1>2 DEF Bins
<1>4. tmalloc_small(m, nb) = TakeTreeChunk(m, best, nb, TRUE)
  BY DEF tmalloc_small, i
<1>. HIDE DEF t
<1>5. Root \in DOMAIN t
  BY <1>3, TrieRoot
<1>6. InBin(t[Root].size, i) /\ Lists(t[Root].ring, Of(F, t[Root].size)) /\ Of(F, t[Root].size) # {}
  BY <1>3, <1>5 DEF Trie, Node
<1>7. v \in Of(F, t[Root].size)
  <2>1. t[Root].ring # <<>>
    BY <1>6, ListsIndex
  <2>. QED BY <1>6, <2>1, ListsTail
<1>8. v \in DOMAIN F /\ F[v] = t[Root].size
  BY <1>7 DEF Of
<1>. HIDE DEF v
<1>9. Sized(F[v]) /\ ~is_small(F[v])
  BY <1>3, <1>6, <1>8, SmallNotLarge
<1>10. t[Root].size \in Nat /\ t[Root].size >= MIN_LARGE_SIZE /\ t[Root].size < WordRange
  BY <1>6, InBinNat
<1>11. nb < MIN_LARGE_SIZE /\ MIN_LARGE_SIZE \in Nat
  BY BinConstants DEF is_small
<1>12. s = t[Root].size - nb /\ s \in Nat
  <2>1. t[Root].size - nb \in Int /\ 0 <= t[Root].size - nb /\ t[Root].size - nb < WordRange
    BY <1>10, <1>11, WordFacts
  <2>. QED BY <2>1, WordOf
<1>. HIDE DEF s
<1>13. root.v = v /\ root.rsize = s
  OBVIOUS
<1>. HIDE DEF root
<1>14. Fitting(root, F, nb)
  BY <1>8, <1>9, <1>10, <1>12, <1>13 DEF Fitting
<1>15. path \in SUBSET DOMAIN t
  BY DEF leftmost_children, Descent
<1>. HIDE DEF path
<1>16. nb \in 1 .. WordRange - 1
  BY <1>10, <1>11, WordFacts
<1>17. Fitting(best, F, nb)
  BY <1>3, <1>14, <1>15, <1>16, BestFitting
<1>18. best.v # 0
  <2>1. best = root \/ \E q \in path : best.v = Head(t[q].ring)
    <3>. DEFINE R == {root.rsize} \cup {Word(t[q].size - nb) : q \in path}
                c == CHOOSE q \in path : Word(t[q].size - nb) = Min(R)
    <3>1. best = IF Min(R) = root.rsize THEN root ELSE [v |-> Head(t[c].ring), rsize |-> Min(R)]
      BY DEF Best
    <3>2. R \subseteq Nat /\ R # {}
      <4>1. \A q \in path : Word(t[q].size - nb) \in Nat
        <5>1. SUFFICES ASSUME NEW q \in path PROVE Word(t[q].size - nb) \in Nat
          OBVIOUS
        <5>2. InBin(t[q].size, i)
          BY <1>3, <1>15 DEF Trie, Node
        <5>3. t[q].size - nb \in Int
          BY <5>2, InBinNat
        <5>. QED BY <5>3, WordOf, WordFacts
      <4>. QED BY <4>1, <1>12, <1>13
    <3>3. Min(R) \in R
      <4>. HIDE DEF R
      <4>. QED BY <3>2, MinOfSet
    <3>4. CASE Min(R) # root.rsize
      <4>1. \E q \in path : Word(t[q].size - nb) = Min(R)
        BY <3>3, <3>4
      <4>2. c \in path
        BY <4>1
      <4>. HIDE DEF c, R
      <4>. QED BY <3>1, <3>4, <4>2
    <3>. HIDE DEF c, R
    <3>. QED BY <3>1, <3>4
  <2>2. CASE best = root
    BY <2>2, <1>1, <1>8, <1>13
  <2>3. CASE best # root
    <3>1. PICK q \in path : best.v = Head(t[q].ring)
      BY <2>1, <2>3
    <3>2. Lists(t[q].ring, Of(F, t[q].size)) /\ Of(F, t[q].size) # {}
      BY <1>3, <1>15 DEF Trie, Node
    <3>3. t[q].ring # <<>>
      BY <3>2, ListsIndex
    <3>4. Head(t[q].ring) \in Of(F, t[q].size)
      BY <3>2, <3>3, ListsTail
    <3>. QED BY <1>1, <3>1, <3>4 DEF Of
  <2>. QED BY <2>2, <2>3
<1>. HIDE DEF best
<1>19. m.dvsize # 0 => is_small(m.dvsize)
  <2>1. m.dvsize \in Nat
    BY HeapChunk DEF Heap, Victim
  <2>2. m.dvsize < 8 * NSMALLBINS /\ NSMALLBINS \in Nat
    BY <2>1, <1>11, BinConstants
  <2>. QED BY <2>1, <2>2 DEF is_small
<1>20. PICK w \in BOOLEAN : w = TRUE
  OBVIOUS
<1>21. w /\ m.dvsize # 0 => is_small(m.dvsize)
  BY <1>19
<1>22. Fitting(best, InBins(m, sz, us), nb)
  BY <1>17 DEF F
<1>23. Got(TakeTreeChunk(m, best, nb, w), sz, us, nb)
  BY <1>18, <1>21, <1>22, TakeTreeChunkGot
<1>. QED BY <1>4, <1>20, <1>23

(* tmalloc_large hands out a chunk that holds the request, or fails.       *)
LEMMA tmalloc_largeGot ==
  ASSUME NEW m, NEW sz, NEW us, Heap(m, sz, us, {}), NEW nb \in LargeSizes, nb % 8 = 0, nb >= 16
  PROVE  Got(tmalloc_large(m, nb), sz, us, nb)
<1>. DEFINE F == InBins(m, sz, us)
            idx == compute_tree_index(nb)
            t == m.treebins[idx]
            bit == bit_for_tree_index(idx)
            own == Best([v |-> 0, rsize |-> Word(-nb)], t, Route(t, nb, bit), nb)
            passed == Passed(t, nb, bit)
            later == {i \in m.treemap : i > idx}
            u == m.treebins[Min(later)]
            best == IF passed # {} THEN Best(own, t, leftmost_children(t, Deepest(passed)), nb)
                    ELSE IF own.v = 0 /\ later # {} THEN Best(own, u, leftmost_children(u, Root), nb)
                    ELSE own
<1>1. Bins(m, F) /\ us \subseteq DOMAIN sz
  BY HeapUsed DEF Heap
<1>2. tmalloc_large(m, nb) = IF best.v # 0 /\ best.rsize < Word(m.dvsize - nb)
                             THEN TakeTreeChunk(m, best, nb, FALSE) ELSE Failed(m)
  BY DEF tmalloc_large
<1>. HIDE DEF F
<1>3. nb \in Nat /\ nb < WordRange /\ nb \in 1 .. WordRange - 1
  <2>1. MIN_LARGE_SIZE \in Nat /\ WordRange \in Nat
    BY BinConstants, WordFacts
  <2>. QED BY <2>1 DEF LargeSizes
<1>4. idx \in TreeBins
  BY <1>3, TreeIndexRange DEF LargeSizes, TreeBins
<1>5. Trie(t, idx, F) /\ \A x \in DOMAIN F : Sized(F[x])
  BY <1>1, <1>4 DEF Bins
<1>. HIDE DEF t, idx
<1>6. Fitting([v |-> 0, rsize |-> Word(-nb)], F, nb)
  <2>1. -nb \in Int /\ -WordRange <= -nb /\ -nb < 0 /\ -nb + WordRange = WordRange - nb
    BY <1>3, WordFacts
  <2>2. Word(-nb) = WordRange - nb
    BY <2>1, WordOf
  <2>. QED BY <2>2 DEF Fitting
<1>7. Fitting(own, F, nb)
  <2>1. Route(t, nb, bit) \in SUBSET DOMAIN t
    BY DEF Route
  <2>. QED BY <1>3, <1>4, <1>5, <1>6, <2>1, BestFitting
<1>. HIDE DEF own
<1>8. Fitting(Best(own, t, leftmost_children(t, Deepest(passed)), nb), F, nb)
  <2>1. leftmost_children(t, Deepest(passed)) \in SUBSET DOMAIN t
    BY DEF leftmost_children, Descent
  <2>. QED BY <1>3, <1>4, <1>5, <1>7, <2>1, BestFitting
<1>9. later # {} => Fitting(Best(own, u, leftmost_children(u, Root), nb), F, nb)
  <2>1. SUFFICES ASSUME later # {} PROVE Fitting(Best(own, u, leftmost_children(u, Root), nb), F, nb)
    OBVIOUS
  <2>2. later \in SUBSET Nat
    BY <1>1, BinConstants DEF Bins, TreeBins
  <2>. DEFINE j == Min(later)
  <2>3. j \in later
    <3>. HIDE DEF later
    <3>. QED BY <2>1, <2>2, MinOfSet
  <2>. HIDE DEF j
  <2>4. j \in TreeBins
    BY <1>1, <2>3 DEF Bins
  <2>5. Trie(u, j, F)
    BY <1>1, <2>4 DEF Bins, j
  <2>. HIDE DEF u
  <2>6. leftmost_children(u, Root) \in SUBSET DOMAIN u
    BY DEF leftmost_children, Descent
  <2>. QED BY <1>3, <1>5, <1>7, <2>4, <2>5, <2>6, BestFitting
<1>10. Fitting(best, F, nb)
  BY <1>7, <1>8, <1>9
<1>. HIDE DEF best
<1>11. CASE best.v # 0 /\ best.rsize < Word(m.dvsize - nb)
  <2>1. PICK w \in BOOLEAN : w = FALSE
    OBVIOUS
  <2>2. w /\ m.dvsize # 0 => is_small(m.dvsize)
    BY <2>1
  <2>3. Fitting(best, InBins(m, sz, us), nb)
    BY <1>10 DEF F
  <2>4. Got(TakeTreeChunk(m, best, nb, w), sz, us, nb)
    BY <1>3, <1>11, <2>2, <2>3, TakeTreeChunkGot
  <2>. QED BY <1>2, <1>11, <2>1, <2>4
<1>12. CASE ~(best.v # 0 /\ best.rsize < Word(m.dvsize - nb))
  BY <1>1, <1>2, <1>12, GotFailed, KeptAll
<1>. QED BY <1>11, <1>12

-----------------------------------------------------------------------------
(* Memory from the break.                                                  *)

(* The sizes that dlmalloc asks the system for: a padded request, or the   *)
(* size that no memory holds.                                              *)
Asked(nb) ==
  /\ nb \in Nat /\ nb >= 16
  /\ (nb % 8 = 0 /\ nb + 53 <= WordRange) \/ nb = MAX_SIZE_T

(* What a padded request leaves below the range of a word.                 *)
LEMMA AskedFacts ==
  ASSUME NEW nb, Asked(nb)
  PROVE  /\ nb \in Nat /\ nb >= 16 /\ nb < WordRange
         /\ Word(nb + 41) \in Nat /\ Word(nb + 41) >= 40 /\ Word(nb + 41) < WordRange
         /\ Word(nb + 40) < Word(nb + 41) /\ Word(nb + 40) \in Nat
<1>1. WordRange \in Nat /\ WordRange >= 4096 /\ MAX_SIZE_T = WordRange - 1 /\ nb \in Nat /\ nb >= 16
  BY WordFacts DEF Asked
<1>2. CASE nb % 8 = 0 /\ nb + 53 <= WordRange
  <2>1. Word(nb + 41) = nb + 41 /\ Word(nb + 40) = nb + 40
    BY <1>1, <1>2, WordOf
  <2>. QED BY <1>1, <1>2, <2>1
<1>3. CASE nb = MAX_SIZE_T
  <2>1. PICK x \in Nat : x = nb + 41
    BY <1>1
  <2>2. PICK y \in Nat : y = nb + 40
    BY <1>1
  <2>3. WordRange <= x /\ x < 2 * WordRange /\ WordRange <= y /\ y < 2 * WordRange
    BY <1>1, <1>3, <2>1, <2>2
  <2>4. Word(x) = x - WordRange /\ Word(y) = y - WordRange
    BY <2>3, WordOf
  <2>. QED BY <1>1, <1>3, <2>1, <2>2, <2>4
<1>. QED BY <1>2, <1>3 DEF Asked

(* A multiple of a multiple of the alignment is aligned.                   *)
LEMMA MultipleOfMultiple ==
  ASSUME NEW a \in Nat, NEW g \in Nat, g > 0, g % 8 = 0, a % g = 0
  PROVE  a % 8 = 0
<1>1. PICK q \in Int : a = g * q
  <2>1. a = g * (a \div g) + (a % g) /\ a \div g \in Int
    BY DivMod
  <2>2. PICK q \in Int : q = a \div g
    BY <2>1
  <2>3. PICK e \in Int : e = g * q
    OBVIOUS
  <2>4. a = e
    BY <2>1, <2>2, <2>3
  <2>. QED BY <2>3, <2>4
<1>2. PICK c \in Int : g = 8 * c
  <2>1. g = 8 * (g \div 8)
    OBVIOUS
  <2>. QED BY <2>1
<1>3. a = 8 * (c * q)
  BY <1>1, <1>2
<1>4. PICK e \in Int : e = c * q
  OBVIOUS
<1>5. a = 8 * e
  BY <1>3, <1>4
<1>. QED BY <1>5

(* A size rounded up to the granularity, which may wrap to zero.           *)
LEMMA GranularityAlign ==
  ASSUME NEW m, Frame(m), NEW x \in 0 .. WordRange - 1
  PROVE  LET a == granularity_align(m, x)
         IN /\ a \in Nat /\ a % 8 = 0 /\ (a = 0 \/ a > x)
            /\ x + m.granularity < WordRange => a > x
<1>. DEFINE g == m.granularity
            y == Word(x + g)
            a == AlignDown(y, g)
<1>1. g \in Nat /\ g >= 16 /\ g % 8 = 0 /\ g <= HALF_MAX_SIZE_T + 1
  BY FrameFacts
<1>2. WordRange \in Nat /\ 2 * HALF_MAX_SIZE_T = WordRange - 2 /\ HALF_MAX_SIZE_T \in Nat
  BY WordFacts
<1>3. x + g \in Nat /\ x + g < 2 * WordRange
  BY <1>1, <1>2
<1>. HIDE DEF g
<1>4. y \in 0 .. WordRange - 1 /\ y \in Nat
  <2>1. x + g \in Int
    BY <1>3
  <2>. QED BY <1>2, <2>1, WordOf
<1>5. y = x + g \/ (y = x + g - WordRange /\ y < g)
  <2>1. CASE x + g < WordRange
    BY <1>3, <2>1, WordOf
  <2>2. CASE ~(x + g < WordRange)
    <3>1. y = (x + g) - WordRange
      BY <1>2, <1>3, <2>2, WordOf
    <3>. QED BY <1>1, <1>2, <3>1
  <2>. QED BY <2>1, <2>2
<1>6. x + g < WordRange => y = x + g
  BY <1>3, WordOf
<1>. HIDE DEF y
<1>7. a \in Nat /\ a <= y /\ a > y - g /\ a % g = 0
  BY <1>1, <1>4, AlignDownFacts
<1>. HIDE DEF a
<1>8. a % 8 = 0
  BY <1>1, <1>7, MultipleOfMultiple
<1>9. a = 0 \/ a > x
  <2>1. CASE y = x + g
    BY <1>1, <1>7, <2>1
  <2>2. CASE y = x + g - WordRange /\ y < g
    <3>1. a < g
      BY <1>1, <1>4, <1>7, <2>2
    <3>2. a = g * (a \div g) + (a % g) /\ a \div g \in Int
      BY <1>1, <1>7, DivMod
    <3>3. PICK q \in Int : q = a \div g
      BY <3>2
    <3>4. a = g * q
      BY <1>1, <1>7, <3>2, <3>3
    <3>5. q = 0
      <4>1. q >= 1 => g * q >= g
        BY <1>1
      <4>2. q <= -1 => g * q < 0
        BY <1>1
      <4>. QED BY <4>1, <4>2, <3>1, <3>4, <1>1, <1>7
    <3>. QED BY <3>4, <3>5, <1>1
  <2>. QED BY <1>5, <2>1, <2>2
<1>10. x + g < WordRange => a > x
  BY <1>1, <1>6, <1>7
<1>11. granularity_align(m, x) = a
  BY DEF granularity_align, a, y, g
<1>. QED BY <1>7, <1>8, <1>9, <1>10, <1>11 DEF g

(* What a way to get memory leaves: nothing new, or the break moved up by  *)
(* the memory it reports.                                                  *)
Extended(m, r) ==
  /\ SameBut(m, r.m, {"brk", "contiguous"}) /\ r.m.contiguous \in BOOLEAN
  /\ \/ r.tbase = CMFAIL /\ r.m.brk = m.brk
     \/ /\ r.tbase = HeapBase + m.brk /\ r.tsize \in Nat /\ r.tsize % 8 = 0
        /\ r.m.brk = m.brk + r.tsize /\ r.m.brk <= m.limit
        /\ ~is_initialized(m) => r.tsize > 40

(* No memory from the break is no change.                                  *)
LEMMA NotExtended ==
  ASSUME NEW m, Frame(m)
  PROVE  Extended(m, [m |-> m, tbase |-> CMFAIL, tsize |-> 0])
  BY DEF Extended, Frame, SameBut

(* The second way of sys_alloc, the break moved by an aligned amount.      *)
LEMMA MoreAnywhereExtended ==
  ASSUME NEW m, Frame(m), NEW nb, Asked(nb)
  PROVE  Extended(m, MoreAnywhere(m, nb))
<1>. DEFINE asize == granularity_align(m, Word(nb + 41))
            got == sbrk(m, asize)
            end == sbrk(got.m, 0).ret
            n == MoreAnywhere(m, nb)
            need == Word(nb + 40)
<1>1. n = IF /\ asize < HALF_MAX_SIZE_T
             /\ got.ret # CMFAIL /\ end # CMFAIL /\ got.ret < end
             /\ end - got.ret > need
       THEN [m |-> got.m, tbase |-> got.ret, tsize |-> end - got.ret]
       ELSE [m |-> IF asize < HALF_MAX_SIZE_T THEN got.m ELSE m, tbase |-> CMFAIL, tsize |-> 0]
  <2>1. nb + TOP_FOOT_SIZE = nb + 40 /\ nb + TOP_FOOT_SIZE + 1 = nb + 41
    BY SizeFacts DEF Asked
  <2>. QED BY <2>1 DEF MoreAnywhere
<1>2. DOMAIN m = Fields /\ m.brk \in Nat /\ m.limit \in Nat /\ m.brk <= m.limit /\ HeapBase \in Nat
      /\ m.contiguous \in BOOLEAN
  BY FrameFacts DEF Frame
<1>3. /\ need \in Nat /\ Word(nb + 41) \in 0 .. WordRange - 1 /\ need < Word(nb + 41)
      /\ Word(nb + 41) >= 40
  BY AskedFacts, WordFacts
<1>. HIDE DEF need
<1>4. asize \in Nat /\ asize % 8 = 0 /\ (asize = 0 \/ (asize > need /\ asize > 40))
  <2>1. asize \in Nat /\ asize % 8 = 0 /\ (asize = 0 \/ asize > Word(nb + 41))
    BY <1>3, GranularityAlign
  <2>. QED BY <1>3, <2>1
<1>. HIDE DEF asize, n
<1>5. \/ got.ret = CMFAIL /\ got.m = m
      \/ /\ got.ret = HeapBase + m.brk /\ got.ret # CMFAIL /\ m.limit # 0
         /\ SameBut(m, got.m, {"brk"}) /\ got.m.brk = m.brk + asize /\ m.brk + asize \in 0 .. m.limit
  <2>1. asize \in Int
    BY <1>4
  <2>. QED BY <1>2, <2>1, SbrkFacts
<1>. HIDE DEF got
<1>6. CASE got.ret = CMFAIL /\ got.m = m
  <2>1. n.m = m /\ n.tbase = CMFAIL
    BY <1>1, <1>6
  <2>. QED BY <1>2, <2>1 DEF Extended, SameBut, n
<1>7. CASE /\ got.ret = HeapBase + m.brk /\ got.ret # CMFAIL /\ m.limit # 0
           /\ SameBut(m, got.m, {"brk"}) /\ got.m.brk = m.brk + asize /\ m.brk + asize \in 0 .. m.limit
  <2>1. DOMAIN got.m = Fields /\ got.m.limit = m.limit /\ got.m.contiguous = m.contiguous
    BY <1>7 DEF SameBut, Fields
  <2>2. SameBut(m, got.m, {"brk", "contiguous"})
    BY <1>7 DEF SameBut
  <2>3. end = HeapBase + (m.brk + asize)
    <3>1. got.m.brk \in Nat /\ got.m.limit \in Nat /\ got.m.brk <= got.m.limit /\ got.m.limit # 0
      BY <1>2, <1>4, <1>7, <2>1
    <3>2. end = HeapBase + got.m.brk
      BY <2>1, <3>1, SbrkZero
    <3>. QED BY <1>7, <3>2
  <2>. HIDE DEF end
  <2>4. end - got.ret = asize /\ end # CMFAIL
    BY <1>2, <1>4, <1>7, <2>3 DEF CMFAIL
  <2>5. CASE asize < HALF_MAX_SIZE_T /\ asize # 0
    <3>1. got.ret < end /\ end - got.ret > need
      BY <1>2, <1>4, <1>7, <2>3, <2>4, <2>5
    <3>2. n = [m |-> got.m, tbase |-> got.ret, tsize |-> end - got.ret]
      BY <1>1, <1>7, <2>4, <2>5, <3>1
    <3>3. n.m = got.m /\ n.tbase = got.ret /\ n.tsize = asize
      BY <3>2, <2>4
    <3>4. asize > 40
      BY <1>4, <2>5
    <3>. QED BY <1>2, <1>4, <1>7, <2>1, <2>2, <3>3, <3>4 DEF Extended, n
  <2>6. CASE ~(asize < HALF_MAX_SIZE_T)
    <3>1. n.m = m /\ n.tbase = CMFAIL
      BY <1>1, <2>6
    <3>. QED BY <1>2, <3>1 DEF Extended, SameBut, n
  <2>7. CASE asize < HALF_MAX_SIZE_T /\ asize = 0
    <3>1. ~(got.ret < end)
      BY <1>2, <1>7, <2>3, <2>7
    <3>2. n.m = got.m /\ n.tbase = CMFAIL
      BY <1>1, <2>7, <3>1
    <3>3. got.m.brk = m.brk
      BY <1>2, <1>7, <2>7
    <3>. QED BY <1>2, <2>1, <2>2, <3>2, <3>3 DEF Extended, n
  <2>. QED BY <2>5, <2>6, <2>7
<1>. QED BY <1>5, <1>6, <1>7

(* The slack up to the next page is aligned.                               *)
LEMMA SlackFacts ==
  ASSUME NEW b \in Nat, b <= HALF_MAX_SIZE_T, b % 8 = 0
  PROVE  page_align(b) - b \in Nat /\ (page_align(b) - b) % 8 = 0
<1>1. PICK k \in 4 .. SIZE_T_BITSIZE - 2 : PageSize = 2^k
  BY MallocAssumption
<1>2. SIZE_T_BITSIZE \in 12 .. 32
  BY MallocAssumption
<1>3. k \in 0 .. 33 /\ 3 \in 0 .. 33 /\ 3 <= k /\ SIZE_T_BITSIZE - 1 \in 0 .. 33 /\ k <= SIZE_T_BITSIZE - 1
  BY <1>2
<1>4. 2^3 = 8
  OBVIOUS
<1>5. PageSize \in Nat /\ PageSize > 0 /\ \E q \in Nat : PageSize = q * 8
  <2>1. 2^k \in Nat /\ 2^k > 0 /\ \E q \in Nat : 2^k = q * 2^3
    BY <1>3, PowerMultiple, Zenon
  <2>. QED BY <1>1, <1>4, <2>1
<1>6. PageSize <= HALF_MAX_SIZE_T + 1
  <2>1. PICK j \in 0 .. 33 : j = SIZE_T_BITSIZE - 1
    BY <1>3
  <2>2. 2^k <= 2^j
    BY <1>3, <2>1, PowerMultiple, Zenon
  <2>. QED BY <1>1, <2>1, <2>2, WordFacts
<1>. DEFINE a == AlignDown(b + PageSize, PageSize)
<1>7. b \in Nat /\ b + PageSize \in Nat /\ b + PageSize < WordRange
  BY <1>5, <1>6, WordFacts
<1>8. Word(b + PageSize) = b + PageSize
  BY <1>7, WordOf
<1>9. a \in Nat /\ a > b /\ a % PageSize = 0
  <2>1. a \in Nat /\ a > (b + PageSize) - PageSize /\ a % PageSize = 0
    BY <1>5, <1>7, AlignDownFacts
  <2>. QED BY <1>5, <1>7, <2>1
<1>10. page_align(b) = a
  BY <1>8 DEF page_align
<1>. HIDE DEF a
<1>11. a % 8 = 0
  <2>1. PageSize % 8 = 0
    BY <1>5
  <2>. QED BY <1>5, <1>9, <2>1, MultipleOfMultiple
<1>. QED BY <1>9, <1>10, <1>11

(* The first way of sys_alloc, the break moved by what the top needs.      *)
LEMMA MoreContiguousExtended ==
  ASSUME NEW m, Frame(m), NEW nb, Asked(nb),
         \/ is_initialized(m) /\ segment_holds(m, m.top) /\ segment_end(m) = HeapBase + m.brk /\ m.topsize \in Nat
         \/ ~is_initialized(m) /\ m.brk = 0 /\ granularity_align(m, Word(nb + 41)) # 0
  PROVE  Extended(m, MoreContiguous(m, nb))
<1>. DEFINE here == sbrk(m, 0)
            first == ~(is_initialized(m) /\ segment_holds(m, m.top))
            want == IF first THEN Word(nb + 41) ELSE Word(nb - m.topsize + TOP_FOOT_SIZE + 1)
            slack == IF first /\ here.ret % PageSize # 0 THEN page_align(here.ret) - here.ret ELSE 0
            asize == granularity_align(m, want) + slack
            start == IF first THEN here.ret ELSE segment_end(m)
            got == sbrk(m, asize)
            n == MoreContiguous(m, nb)
<1>1. n = IF asize < HALF_MAX_SIZE_T /\ start # CMFAIL /\ got.ret # CMFAIL
       THEN [m |-> got.m, tbase |-> got.ret, tsize |-> asize]
       ELSE [m |-> [m EXCEPT !.contiguous = FALSE], tbase |-> CMFAIL, tsize |-> 0]
  <2>1. nb + TOP_FOOT_SIZE + 1 = nb + 41
    BY SizeFacts DEF Asked
  <2>. QED BY <2>1 DEF MoreContiguous
<1>2. DOMAIN m = Fields /\ m.brk \in Nat /\ m.limit \in Nat /\ m.brk <= m.limit /\ HeapBase \in Nat
      /\ m.contiguous \in BOOLEAN /\ HeapBase % 8 = 0 /\ HeapBase + m.limit <= HALF_MAX_SIZE_T
  BY FrameFacts DEF Frame
<1>3. nb \in Nat /\ Word(nb + 41) \in 0 .. WordRange - 1 /\ Word(nb + 41) >= 40
  BY AskedFacts, WordFacts
<1>4. want \in 0 .. WordRange - 1
  <2>1. CASE first
    BY <1>3, <2>1
  <2>2. CASE ~first
    <3>1. m.topsize \in Nat
      BY <2>2
    <3>2. nb - m.topsize + TOP_FOOT_SIZE + 1 \in Int
      BY <1>3, <3>1, SizeFacts
    <3>. QED BY <2>2, <3>2, WordOf
  <2>. QED BY <2>1, <2>2
<1>5. CASE start = CMFAIL \/ n.tbase = CMFAIL
  <2>1. n.m = [m EXCEPT !.contiguous = FALSE] /\ n.tbase = CMFAIL
    <3>. HIDE DEF asize, start, got
    <3>. QED BY <1>1, <1>5
  <2>2. SameBut(m, n.m, {"brk", "contiguous"}) /\ n.m.brk = m.brk /\ n.m.contiguous = FALSE
    <3>. HIDE DEF n
    <3>. QED BY <1>2, <2>1 DEF SameBut, Fields
  <2>. HIDE DEF n
  <2>. QED BY <2>1, <2>2 DEF Extended, n
<1>6. CASE start # CMFAIL /\ n.tbase # CMFAIL
  <2>1. here.ret = CMFAIL \/ here.ret = HeapBase + m.brk
    <3>1. 0 \in Int
      OBVIOUS
    <3>. QED BY <1>2, <3>1, SbrkFacts
  <2>2. first => here.ret = HeapBase
    BY <1>2, <1>6, <2>1
  <2>3. slack \in Nat /\ slack % 8 = 0
    <3>1. CASE first /\ here.ret % PageSize # 0
      <4>1. slack = page_align(HeapBase) - HeapBase
        BY <2>2, <3>1
      <4>2. HeapBase <= HALF_MAX_SIZE_T
        BY <1>2, WordFacts
      <4>. QED BY <1>2, <4>1, <4>2, SlackFacts
    <3>2. CASE ~(first /\ here.ret % PageSize # 0)
      BY <3>2
    <3>. QED BY <3>1, <3>2
  <2>. HIDE DEF slack, here
  <2>4. /\ granularity_align(m, want) \in Nat /\ granularity_align(m, want) % 8 = 0
        /\ granularity_align(m, want) = 0 \/ granularity_align(m, want) > want
    BY <1>4, GranularityAlign
  <2>5. first => granularity_align(m, want) > 40
    <3>1. SUFFICES ASSUME first PROVE granularity_align(m, want) > 40
      OBVIOUS
    <3>2. want = Word(nb + 41) /\ granularity_align(m, want) # 0
      BY <3>1
    <3>. QED BY <1>3, <1>4, <2>4, <3>2
  <2>. HIDE DEF want, first
  <2>6. asize \in Nat /\ asize % 8 = 0 /\ (first => asize > 40)
    <3>1. PICK c \in Nat : c = granularity_align(m, want)
      BY <2>4
    <3>. QED BY <2>3, <2>4, <2>5, <3>1
  <2>. HIDE DEF asize
  <2>7. \/ got.ret = CMFAIL /\ got.m = m
        \/ /\ got.ret = HeapBase + m.brk /\ got.ret # CMFAIL /\ m.limit # 0
           /\ SameBut(m, got.m, {"brk"}) /\ got.m.brk = m.brk + asize /\ m.brk + asize \in 0 .. m.limit
    <3>1. asize \in Int
      BY <2>6
    <3>. QED BY <1>2, <3>1, SbrkFacts
  <2>. HIDE DEF got, start
  <2>8. n.m = got.m /\ n.tbase = got.ret /\ n.tsize = asize /\ got.ret # CMFAIL
    BY <1>1, <1>6
  <2>9. SameBut(m, got.m, {"brk", "contiguous"}) /\ got.m.contiguous = m.contiguous
    BY <2>7, <2>8 DEF SameBut, Fields
  <2>10. ~is_initialized(m) => asize > 40
    BY <2>6 DEF first
  <2>. HIDE DEF n
  <2>. QED BY <1>2, <2>6, <2>7, <2>8, <2>9, <2>10 DEF Extended, n
<1>. QED BY <1>5, <1>6

(* A failure leaves the allocator as ready as it was.                      *)
LEMMA GotReady ==
  ASSUME NEW n, NEW z, NEW us, Ready(n, z, us), NEW nb
  PROVE  Got(Failed(n), z, us, nb)
<1>. DEFINE r == Failed(n)
<1>1. r.m = n /\ r.mem = 0
  BY DEF Failed
<1>. HIDE DEF r
<1>2. Kept(z, us, z)
  BY KeptAll, HeapUsed DEF Ready, Kept
<1>3. Got(r, z, us, nb)
  BY <1>1, <1>2 DEF Got
<1>. QED BY <1>3 DEF r

(* A ready allocator is a heap exactly when it is initialised.             *)
LEMMA ReadyFacts ==
  ASSUME NEW m, NEW sz, NEW us, Ready(m, sz, us)
  PROVE  /\ Frame(m) /\ (is_initialized(m) <=> Heap(m, sz, us, {})) /\ m.topsize \in Nat
         /\ (is_initialized(m) => segment_holds(m, m.top) /\ segment_end(m) = HeapBase + m.brk)
         /\ (~is_initialized(m) => Blank(m))
<1>1. CASE Heap(m, sz, us, {})
  <2>1. Frame(m)
    BY <1>1 DEF Heap
  <2>2. is_initialized(m) /\ m.topsize \in Nat /\ segment_holds(m, m.top) /\ segment_end(m) = HeapBase + m.brk
    BY <1>1, TopFacts
  <2>. QED BY <1>1, <2>1, <2>2
<1>2. CASE Blank(m)
  <2>1. Frame(m) /\ m.top = 0 /\ m.topsize = 0
    BY <1>2 DEF Blank
  <2>2. ~is_initialized(m)
    BY <2>1 DEF is_initialized
  <2>3. ~Heap(m, sz, us, {})
    BY <2>2, TopFacts
  <2>. QED BY <1>2, <2>1, <2>2, <2>3
<1>. QED BY <1>1, <1>2 DEF Ready

(* A change of parameters leaves it ready.                                 *)
LEMMA ReadyParams ==
  ASSUME NEW m, NEW sz, NEW us, Ready(m, sz, us), NEW n, Frame(n),
         SameBut(m, n, {"trim_check", "trim_threshold", "granularity", "contiguous"})
  PROVE  Ready(n, sz, us)
<1>1. CASE Heap(m, sz, us, {})
  BY <1>1, HeapParams DEF Ready
<1>2. CASE Blank(m) /\ sz = Nothing /\ us = {}
  <2>1. {"trim_check", "trim_threshold", "granularity", "contiguous"} \cap BinFields = {}
    BY DEF BinFields
  <2>2. Bins(n, Nothing)
    BY <1>2, <2>1, BinsSame DEF Blank
  <2>3. /\ n.brk = m.brk /\ n.top = m.top /\ n.topsize = m.topsize /\ n.dv = m.dv /\ n.dvsize = m.dvsize
        /\ n.head = m.head /\ n.foot = m.foot /\ n.seg = m.seg
    BY DEF SameBut, Fields
  <2>4. Blank(n)
    BY <1>2, <2>2, <2>3 DEF Blank
  <2>. QED BY <1>2, <2>4 DEF Ready
<1>. QED BY <1>1, <1>2 DEF Ready

(* A failed attempt at the break leaves it ready.                          *)
LEMMA ReadyNotExtended ==
  ASSUME NEW m, NEW sz, NEW us, Ready(m, sz, us), NEW r, Extended(m, r), r.tbase = CMFAIL
  PROVE  Ready(r.m, sz, us)
<1>1. Frame(m) /\ SameBut(m, r.m, {"brk", "contiguous"}) /\ r.m.contiguous \in BOOLEAN
  BY ReadyFacts DEF Extended
<1>2. r.m.brk = m.brk
  <2>1. m.brk \in Nat /\ HeapBase \in Nat
    BY <1>1, FrameFacts
  <2>2. HeapBase + m.brk # CMFAIL
    BY <2>1 DEF CMFAIL
  <2>. QED BY <2>2 DEF Extended
<1>3. SameBut(m, r.m, {"contiguous"})
  BY <1>1, <1>2 DEF SameBut
<1>4. Frame(r.m)
  BY <1>1, <1>2 DEF Frame, SameBut, Fields
<1>5. SameBut(m, r.m, {"trim_check", "trim_threshold", "granularity", "contiguous"})
  BY <1>3, SameButMore
<1>. QED BY <1>4, <1>5, ReadyParams

(* The parameters and the footprint after the break has moved.             *)
LEMMA MoreFrame ==
  ASSUME NEW m, Frame(m), NEW k, SameBut(m, k, {"brk", "contiguous"}), k.contiguous \in BOOLEAN,
         NEW t \in Nat, k.brk = m.brk + t, k.brk <= m.limit, NEW n,
         SameBut(k, n, {"footprint", "max_footprint", "seg", "least_addr", "trim_check"} \cup HeapFields),
         n.footprint = k.footprint + t,
         n.max_footprint = IF k.footprint + t > k.max_footprint THEN k.footprint + t ELSE k.max_footprint,
         n.trim_check = k.trim_threshold
  PROVE  Frame(n) /\ n.brk = m.brk + t
<1>1. /\ k.limit = m.limit /\ k.granularity = m.granularity /\ k.trim_threshold = m.trim_threshold
      /\ k.footprint = m.footprint /\ k.max_footprint = m.max_footprint
      /\ k.stray = m.stray /\ k.aborted = m.aborted
  BY DEF SameBut, Fields
<1>2. /\ DOMAIN n = Fields /\ n.limit = k.limit /\ n.brk = k.brk /\ n.contiguous = k.contiguous
      /\ n.granularity = k.granularity /\ n.trim_threshold = k.trim_threshold
      /\ n.stray = k.stray /\ n.aborted = k.aborted
  BY DEF SameBut, Fields, HeapFields, BinFields
<1>3. m.brk \in Nat /\ m.limit \in Nat /\ m.footprint = m.brk /\ m.max_footprint \in Nat /\ m.max_footprint >= m.brk
  BY FrameFacts DEF Frame
<1>4. n.brk \in 0 .. n.limit /\ n.footprint = n.brk /\ n.max_footprint \in Nat /\ n.max_footprint >= n.brk
  BY <1>1, <1>2, <1>3
<1>. QED BY <1>1, <1>2, <1>4 DEF Frame

(* The memory the break gave is added to the top of a heap.                *)
LEMMA AddToHeap ==
  ASSUME NEW m, NEW sz, NEW us, Heap(m, sz, us, {}), NEW k, SameBut(m, k, {"brk", "contiguous"}),
         k.contiguous \in BOOLEAN, NEW t \in Nat, t % 8 = 0, k.brk = m.brk + t, k.brk <= m.limit
  PROVE  LET z == Resized(sz, m.top, m.topsize + t)
         IN Heap(AddMemory(k, HeapBase + m.brk, t), z, us, {}) /\ Kept(sz, us, z)
<1>. DEFINE reached == k.footprint + t
            f == [k EXCEPT !.footprint = reached,
                           !.max_footprint = IF reached > @ THEN reached ELSE @]
            g == [f EXCEPT !.seg.size = @ + t]
            s == m.topsize + t
            n == init_top(g, k.top, k.topsize + t)
<1>1. Frame(m) /\ DOMAIN m = Fields /\ m.seg = [base |-> HeapBase, size |-> m.brk] /\ m.least_addr = HeapBase
  BY FrameFacts DEF Heap, Segment
<1>2. /\ is_initialized(m) /\ m.top \in Nat /\ m.top % 8 = 0 /\ m.topsize \in Nat /\ m.topsize > 0
      /\ m.topsize % 8 = 0 /\ m.top + m.topsize + 40 = HeapBase + m.brk
      /\ segment_end(m) = HeapBase + m.brk /\ segment_holds(m, m.top)
  BY TopFacts
<1>3. /\ k.top = m.top /\ k.topsize = m.topsize /\ k.seg = m.seg /\ k.head = m.head /\ k.foot = m.foot
      /\ k.least_addr = m.least_addr /\ DOMAIN k = Fields
  BY DEF SameBut, Fields
<1>4. is_initialized(k) /\ segment_end(k) = HeapBase + m.brk /\ segment_holds(k, k.top)
  BY <1>2, <1>3 DEF is_initialized, segment_end, segment_holds
<1>5. AddMemory(k, HeapBase + m.brk, t) = n
  BY <1>4 DEF AddMemory
<1>6. m.brk \in Nat /\ HeapBase \in Nat
  BY <1>1, FrameFacts
<1>7. /\ SameBut(k, f, {"footprint", "max_footprint"}) /\ f.footprint = reached
      /\ f.max_footprint = (IF reached > k.max_footprint THEN reached ELSE k.max_footprint)
      /\ f.seg = [base |-> HeapBase, size |-> m.brk] /\ DOMAIN f = Fields
  BY <1>1, <1>3 DEF SameBut, Fields
<1>. HIDE DEF f
<1>8. SameBut(f, g, {"seg"}) /\ g.seg = [base |-> HeapBase, size |-> m.brk + t] /\ DOMAIN g = Fields
  BY <1>7 DEF SameBut, Fields
<1>. HIDE DEF g
<1>9. s \in Nat /\ s > 0 /\ s % 8 = 0 /\ s \in Int /\ k.topsize + t = s
  <2>1. s \in Nat /\ s > 0 /\ k.topsize + t = s
    BY <1>2, <1>3
  <2>2. s % 8 = 0
    BY <1>2
  <2>. QED BY <2>1, <2>2
<1>. HIDE DEF s
<1>17. n = init_top(g, m.top, s)
  BY <1>3, <1>9
<1>. HIDE DEF n
<1>10. /\ SameBut(g, n, {"head", "top", "topsize", "trim_check"})
       /\ NewHead(n, m.top, s, FALSE, TRUE) /\ OtherHeads(g, n, {m.top}) /\ n.foot = g.foot
       /\ n.top = m.top /\ n.topsize = s /\ n.trim_check = g.trim_threshold
  <2>1. DOMAIN g = Fields /\ m.top \in Nat /\ m.top % 8 = 0 /\ s \in Int
    BY <1>2, <1>8, <1>9
  <2>2. LET x == init_top(g, m.top, s)
        IN /\ SameBut(g, x, {"head", "top", "topsize", "trim_check"})
           /\ NewHead(x, m.top, s, FALSE, TRUE) /\ OtherHeads(g, x, {m.top}) /\ x.foot = g.foot
           /\ x.top = m.top /\ x.topsize = s /\ x.trim_check = g.trim_threshold
    BY <2>1, InitTopFacts
  <2>. QED BY <2>2, <1>17
<1>11. /\ SameBut(k, n, {"footprint", "max_footprint", "seg", "head", "top", "topsize", "trim_check"})
       /\ n.footprint = f.footprint /\ n.max_footprint = f.max_footprint /\ n.seg = g.seg
       /\ n.trim_check = k.trim_threshold /\ g.head = m.head /\ n.least_addr = m.least_addr
  BY <1>3, <1>7, <1>8, <1>10 DEF SameBut, Fields
<1>12. Frame(n) /\ n.brk = m.brk + t
  <2>1. SameBut(k, n, {"footprint", "max_footprint", "seg", "least_addr", "trim_check"} \cup HeapFields)
    BY <1>11, SameButMore DEF HeapFields
  <2>. QED BY <1>1, <1>7, <1>11, <2>1, MoreFrame
<1>18. Ends(n) = HeapBase + (m.brk + t) - 40
  BY <1>12 DEF Ends
<1>19. s = m.topsize + t
  BY DEF s
<1>13. Segment(n) /\ Ends(n) = m.top + s
  <2>1. Segment(n)
    BY <1>1, <1>8, <1>11, <1>12 DEF Segment
  <2>2. Ends(n) = m.top + s
    BY <1>2, <1>6, <1>18, <1>19
  <2>. QED BY <2>1, <2>2
<1>14. SameBut(m, n, Fields \ (BinFields \cup {"foot", "dv", "dvsize", "top"}))
  <2>1. n.top = m.top /\ n.foot = m.foot /\ n.dv = m.dv /\ n.dvsize = m.dvsize
    BY <1>3, <1>7, <1>8, <1>10 DEF SameBut, Fields
  <2>2. \A x \in BinFields : n[x] = m[x]
    BY <1>11 DEF SameBut, Fields, BinFields
  <2>3. DOMAIN n = Fields
    BY <1>12 DEF Frame
  <2>. QED BY <2>1, <2>2, <2>3 DEF SameBut
<1>15. OtherHeads(m, n, {m.top})
  BY <1>10, <1>11 DEF OtherHeads, HeadAt
<1>16. LET z == Resized(sz, m.top, s) IN Heap(n, z, us, {}) /\ Kept(sz, us, z)
  BY <1>9, <1>10, <1>12, <1>13, <1>14, <1>15, TopResized
<1>. QED BY <1>5, <1>16 DEF s

(* The first memory the break gives becomes one top chunk.                 *)
LEMMA AddFirst ==
  ASSUME NEW m, Blank(m), NEW k, SameBut(m, k, {"brk", "contiguous"}), k.contiguous \in BOOLEAN,
         NEW t \in Nat, t > 40, t % 8 = 0, k.brk = t, t <= m.limit
  PROVE  Heap(AddMemory(k, HeapBase, t), [p \in {HeapBase} |-> t - 40], {}, {})
<1>. DEFINE reached == k.footprint + t
            f == [k EXCEPT !.footprint = reached,
                           !.max_footprint = IF reached > @ THEN reached ELSE @]
            g == [f EXCEPT !.seg = [base |-> HeapBase, size |-> t], !.least_addr = HeapBase]
            s == t - 40
            w == Word(t - 40)
            z == [p \in {HeapBase} |-> s]
            n == init_top(g, HeapBase, w)
<1>1. Frame(m) /\ m.brk = 0 /\ m.top = 0 /\ m.dv = 0 /\ m.dvsize = 0 /\ Bins(m, Nothing)
  BY DEF Blank
<1>2. /\ HeapBase \in Nat /\ HeapBase > 0 /\ HeapBase % 8 = 0 /\ m.limit \in Nat
      /\ HeapBase + m.limit <= HALF_MAX_SIZE_T /\ DOMAIN m = Fields
  BY <1>1, FrameFacts
<1>3. k.top = 0 /\ k.dv = 0 /\ k.dvsize = 0 /\ DOMAIN k = Fields
  BY <1>1 DEF SameBut, Fields
<1>4. w = s /\ s \in Nat /\ s > 0 /\ s % 8 = 0 /\ s \in Int
  <2>1. t - 40 \in Int /\ 0 <= t - 40 /\ t - 40 < WordRange
    BY <1>2, WordFacts
  <2>2. Word(t - 40) = t - 40
    BY <2>1, WordOf
  <2>. QED BY <2>1, <2>2
<1>5. AddMemory(k, HeapBase, t) = n
  <2>1. TOP_FOOT_SIZE = 40
    BY SizeFacts
  <2>2. ~is_initialized(k)
    BY <1>3 DEF is_initialized
  <2>. QED BY <2>1, <2>2 DEF AddMemory
<1>6. /\ SameBut(k, f, {"footprint", "max_footprint"}) /\ f.footprint = reached
      /\ f.max_footprint = (IF reached > k.max_footprint THEN reached ELSE k.max_footprint)
      /\ DOMAIN f = Fields
  BY <1>3 DEF SameBut, Fields
<1>. HIDE DEF f
<1>7. /\ SameBut(f, g, {"seg", "least_addr"}) /\ g.seg = [base |-> HeapBase, size |-> t]
      /\ g.least_addr = HeapBase /\ DOMAIN g = Fields
  BY <1>6 DEF SameBut, Fields
<1>. HIDE DEF g
<1>8. n = init_top(g, HeapBase, s)
  BY <1>4
<1>. HIDE DEF n, w, s
<1>9. /\ SameBut(g, n, {"head", "top", "topsize", "trim_check"})
      /\ NewHead(n, HeapBase, s, FALSE, TRUE)
      /\ n.top = HeapBase /\ n.topsize = s /\ n.trim_check = g.trim_threshold
  <2>1. LET x == init_top(g, HeapBase, s)
        IN /\ SameBut(g, x, {"head", "top", "topsize", "trim_check"})
           /\ NewHead(x, HeapBase, s, FALSE, TRUE) /\ OtherHeads(g, x, {HeapBase}) /\ x.foot = g.foot
           /\ x.top = HeapBase /\ x.topsize = s /\ x.trim_check = g.trim_threshold
    <3>1. DOMAIN g = Fields /\ HeapBase \in Nat /\ HeapBase % 8 = 0 /\ s \in Int
      BY <1>2, <1>4, <1>7
    <3>. QED BY ONLY <3>1, InitTopFacts
  <2>. QED BY <2>1, <1>8
<1>10. /\ SameBut(k, n, {"footprint", "max_footprint", "seg", "least_addr", "head", "top", "topsize", "trim_check"})
       /\ n.footprint = f.footprint /\ n.max_footprint = f.max_footprint /\ n.seg = g.seg
       /\ n.trim_check = k.trim_threshold /\ n.least_addr = HeapBase /\ n.dv = 0 /\ n.dvsize = 0
  <2>1. SameBut(k, n, ({"footprint", "max_footprint"} \cup {"seg", "least_addr"})
                        \cup {"head", "top", "topsize", "trim_check"})
    BY <1>6, <1>7, <1>9, SameButJoin
  <2>2. SameBut(k, n, {"footprint", "max_footprint", "seg", "least_addr", "head", "top", "topsize", "trim_check"})
    BY <2>1, SameButMore
  <2>3. n.footprint = f.footprint /\ n.max_footprint = f.max_footprint /\ n.seg = g.seg /\ n.least_addr = HeapBase
    BY <1>7, <1>9 DEF SameBut, Fields
  <2>4. n.dv = k.dv /\ n.dvsize = k.dvsize
    BY <2>2 DEF SameBut, Fields
  <2>5. g.trim_threshold = k.trim_threshold
    BY <1>6, <1>7 DEF SameBut, Fields
  <2>. QED BY <1>3, <1>9, <2>2, <2>3, <2>4, <2>5
<1>11. Frame(n) /\ n.brk = t
  <2>1. SameBut(k, n, {"footprint", "max_footprint", "seg", "least_addr", "trim_check"} \cup HeapFields)
    BY <1>10, SameButMore DEF HeapFields
  <2>2. k.brk = m.brk + t /\ k.brk <= m.limit /\ m.brk + t = t
    BY <1>1
  <2>3. n.footprint = k.footprint + t
    BY <1>6, <1>10
  <2>4. n.max_footprint = IF k.footprint + t > k.max_footprint THEN k.footprint + t ELSE k.max_footprint
    BY <1>6, <1>10
  <2>5. Frame(n) /\ n.brk = m.brk + t
    BY <1>1, <1>10, <2>1, <2>2, <2>3, <2>4, MoreFrame
  <2>. QED BY <2>2, <2>5
<1>12. Segment(n)
  BY <1>7, <1>10, <1>11 DEF Segment
<1>13. Ends(n) = HeapBase + s
  <2>1. s = t - 40
    BY DEF s
  <2>. QED BY <1>2, <1>11, <2>1 DEF Ends
<1>14. /\ DOMAIN z = {HeapBase} /\ z[HeapBase] = s
  OBVIOUS
<1>. HIDE DEF z
<1>15. Laid(n, z, {}, {}, Ends(n))
  <2>1. Tiling(z, HeapBase + s)
    BY <1>2, <1>4, <1>14 DEF Tiling
  <2>2. AfterUsed(z, {}, HeapBase)
    BY <1>2, <1>4, <1>14 DEF AfterUsed
  <2>3. HeadIs(n, HeapBase, s, FALSE, TRUE)
    BY <1>4, <1>9, NewHeadIs
  <2>4. HeapBase + z[HeapBase] \notin DOMAIN z
    BY <1>2, <1>4, <1>14
  <2>5. \A p \in DOMAIN z \ {} : HeadIs(n, p, z[p], p \in {}, AfterUsed(z, {}, p))
    <3>1. HeadIs(n, HeapBase, z[HeapBase], HeapBase \in {}, AfterUsed(z, {}, HeapBase))
      BY <2>2, <2>3, <1>14 DEF HeadIs
    <3>. QED BY <3>1, <1>14
  <2>6. Words(n, z, {}, {})
    BY <2>4, <2>5, <1>14 DEF Words
  <2>7. Merged(z, {})
    BY <2>4, <1>14 DEF Merged
  <2>. QED BY <2>1, <2>6, <2>7, <1>13 DEF Laid
<1>16. Pieces(n, z, {})
  BY <1>9, <1>13, <1>14 DEF Pieces
<1>17. Victim(n, z, {}, {})
  BY <1>10 DEF Victim
<1>18. Bins(n, Nothing)
  <2>1. Bins(k, Nothing)
    <3>1. {"brk", "contiguous"} \cap BinFields = {}
      BY DEF BinFields
    <3>. QED BY <3>1, <1>1, BinsSame
  <2>2. {"footprint", "max_footprint", "seg", "least_addr", "head", "top", "topsize", "trim_check"} \cap BinFields = {}
    BY DEF BinFields
  <2>. QED BY <2>1, <2>2, <1>10, BinsSame
<1>19. Heap(n, z, {}, {})
  <2>1. DOMAIN Nothing = {} /\ Nothing = [p \in DOMAIN Nothing |-> Nothing[p]]
    BY DEF Nothing
  <2>2. DOMAIN Nothing = DOMAIN z \ ({} \cup {n.top, n.dv})
    BY <2>1, <1>9, <1>14
  <2>. QED BY <1>11, <1>12, <1>15, <1>16, <1>17, <1>18, <2>1, <2>2, HeapMade
<1>. QED BY <1>5, <1>19 DEF z, s

(* A heap is ready.                                                        *)
LEMMA ReadyInitialized ==
  ASSUME NEW m, NEW sz, NEW us, Heap(m, sz, us, {})
  PROVE  Ready(m, sz, us)
BY DEF Ready

(* The request served from a top that was just extended.                   *)
LEMMA FromTopGot ==
  ASSUME NEW m, NEW sz, NEW us, Heap(m, sz, us, {}), NEW nb, Asked(nb)
  PROVE  Got(FromTop(m, nb), sz, us, nb)
<1>1. Kept(sz, us, sz)
  BY HeapUsed, KeptAll
<1>2. CASE nb < m.topsize
  <2>1. nb \in Nat /\ nb >= 16
    BY AskedFacts
  <2>2. nb # MAX_SIZE_T
    <3>1. m.topsize \in Nat /\ m.topsize < m.brk /\ Frame(m)
      BY TopFacts DEF Heap
    <3>2. m.brk <= m.limit /\ m.brk \in Nat /\ m.limit \in Nat /\ HeapBase + m.limit <= HALF_MAX_SIZE_T /\ HeapBase \in Nat
      BY <3>1, FrameFacts
    <3>. QED BY <1>2, <3>1, <3>2, WordFacts
  <2>3. nb % 8 = 0
    BY <2>2 DEF Asked
  <2>. QED BY <1>2, <2>1, <2>3, SplitTopGot DEF FromTop
<1>3. CASE ~(nb < m.topsize)
  BY <1>1, <1>3, GotFailed DEF FromTop
<1>. QED BY <1>2, <1>3

(* The request served once the break has been moved, or failed.            *)
LEMMA WithMemoryGot ==
  ASSUME NEW m, NEW sz, NEW us, Ready(m, sz, us), NEW r, Extended(m, r), NEW nb, Asked(nb)
  PROVE  Got(WithMemory(r, nb), sz, us, nb)
<1>1. CASE r.tbase = CMFAIL
  BY <1>1, ReadyNotExtended, GotReady DEF WithMemory
<1>2. CASE r.tbase # CMFAIL
  <2>1. /\ SameBut(m, r.m, {"brk", "contiguous"}) /\ r.m.contiguous \in BOOLEAN
        /\ r.tbase = HeapBase + m.brk /\ r.tsize \in Nat /\ r.tsize % 8 = 0
        /\ r.m.brk = m.brk + r.tsize /\ r.m.brk <= m.limit
        /\ (~is_initialized(m) => r.tsize > 40)
    BY <1>2 DEF Extended
  <2>2. WithMemory(r, nb) = FromTop(AddMemory(r.m, r.tbase, r.tsize), nb)
    BY <1>2 DEF WithMemory
  <2>3. CASE Heap(m, sz, us, {})
    <3>. DEFINE n == AddMemory(r.m, r.tbase, r.tsize)
                z == Resized(sz, m.top, m.topsize + r.tsize)
    <3>1. Heap(n, z, us, {}) /\ Kept(sz, us, z)
      BY <2>1, <2>3, AddToHeap
    <3>. HIDE DEF n, z
    <3>2. Got(FromTop(n, nb), z, us, nb)
      BY <3>1, FromTopGot
    <3>3. Got(FromTop(n, nb), sz, us, nb)
      BY <3>1, <3>2, HeapSome, GotLater
    <3>. QED BY <3>3, <2>2 DEF n
  <2>4. CASE Blank(m) /\ sz = Nothing /\ us = {}
    <3>. DEFINE n == AddMemory(r.m, r.tbase, r.tsize)
                t == r.tsize
                z == [p \in {HeapBase} |-> t - 40]
    <3>1. m.brk = 0 /\ m.top = 0 /\ HeapBase \in Nat
      BY <2>4, FrameFacts DEF Blank
    <3>2. r.tbase = HeapBase /\ t > 40 /\ r.m.brk = t /\ t <= m.limit
      BY <2>1, <3>1 DEF is_initialized
    <3>3. n = AddMemory(r.m, HeapBase, t)
      BY <3>2
    <3>4. t \in Nat /\ t % 8 = 0
      BY <2>1
    <3>. HIDE DEF n, t
    <3>5. Heap(AddMemory(r.m, HeapBase, t), z, {}, {})
      BY <2>1, <2>4, <3>2, <3>4, AddFirst
    <3>. HIDE DEF z
    <3>6. Got(FromTop(n, nb), z, us, nb)
      BY <2>4, <3>3, <3>5, FromTopGot
    <3>7. Kept(sz, us, z)
      BY <2>4 DEF Kept
    <3>8. Got(FromTop(n, nb), sz, us, nb)
      BY <3>5, <3>6, <3>7, HeapSome, GotLater
    <3>. QED BY <3>8, <2>2 DEF n
  <2>. QED BY <2>3, <2>4 DEF Ready
<1>. QED BY <1>1, <1>2

(* What the first call must satisfy.                                       *)
FirstFits(m, nb) == Blank(m) /\ m.contiguous => granularity_align(m, Word(nb + 41)) # 0

(* The second attempt at the break after a first that failed.              *)
LEMMA ExtendedTwice ==
  ASSUME NEW m, NEW n, SameBut(m, n, {"contiguous"}), NEW r, Extended(n, r)
  PROVE  Extended(m, r)
<1>1. n.brk = m.brk /\ n.limit = m.limit /\ n.top = m.top
  BY DEF SameBut, Fields
<1>2. SameBut(m, r.m, {"contiguous"} \cup {"brk", "contiguous"})
  BY SameButJoin DEF Extended
<1>3. {"contiguous"} \cup {"brk", "contiguous"} = {"brk", "contiguous"}
  OBVIOUS
<1>4. is_initialized(m) <=> is_initialized(n)
  BY <1>1 DEF is_initialized
<1>. QED BY <1>1, <1>2, <1>3, <1>4 DEF Extended

(* The first attempt of sys_alloc moves the break or changes nothing.      *)
LEMMA FirstWayExtended ==
  ASSUME NEW m, NEW sz, NEW us, Ready(m, sz, us), NEW nb, Asked(nb), FirstFits(m, nb)
  PROVE  Extended(m, FirstWay(m, nb))
<1>1. Frame(m) /\ m.topsize \in Nat
      /\ (is_initialized(m) => segment_holds(m, m.top) /\ segment_end(m) = HeapBase + m.brk)
      /\ (~is_initialized(m) => Blank(m))
  BY ReadyFacts
<1>2. CASE m.contiguous
  <2>1. CASE is_initialized(m)
    <3>1. Extended(m, MoreContiguous(m, nb))
      BY <1>1, <2>1, MoreContiguousExtended
    <3>. QED BY <3>1, <1>2 DEF FirstWay
  <2>2. CASE ~is_initialized(m)
    <3>1. Blank(m) /\ m.brk = 0
      BY <1>1, <2>2 DEF Blank
    <3>2. granularity_align(m, Word(nb + 41)) # 0
      BY <1>2, <3>1 DEF FirstFits
    <3>3. Extended(m, MoreContiguous(m, nb))
      BY <1>1, <2>2, <3>1, <3>2, MoreContiguousExtended
    <3>. QED BY <3>3, <1>2 DEF FirstWay
  <2>. QED BY <2>1, <2>2
<1>3. CASE ~m.contiguous
  BY <1>3, <1>1, NotExtended DEF FirstWay
<1>. QED BY <1>2, <1>3

(* A failed attempt changes at most the contiguous flag.                   *)
LEMMA FirstWayFailed ==
  ASSUME NEW m, Frame(m), NEW a, Extended(m, a), a.tbase = CMFAIL
  PROVE  SameBut(m, a.m, {"contiguous"}) /\ Frame(a.m)
<1>1. SameBut(m, a.m, {"contiguous"}) /\ a.m.contiguous \in BOOLEAN
  <2>1. HeapBase + m.brk # CMFAIL
    BY FrameFacts DEF CMFAIL
  <2>. QED BY <2>1 DEF Extended, SameBut
<1>. QED BY <1>1 DEF Frame, SameBut, Fields

(* The two attempts of sys_alloc together.                                 *)
LEMMA MemoryExtended ==
  ASSUME NEW m, NEW sz, NEW us, Ready(m, sz, us), NEW nb, Asked(nb), FirstFits(m, nb)
  PROVE  Extended(m, OrAnywhere(FirstWay(m, nb), nb))
<1>. DEFINE a == FirstWay(m, nb)
<1>1. Extended(m, a) /\ Frame(m)
  BY FirstWayExtended, ReadyFacts
<1>. HIDE DEF a
<1>2. CASE a.tbase = CMFAIL
  <2>1. SameBut(m, a.m, {"contiguous"}) /\ Frame(a.m)
    BY <1>1, <1>2, FirstWayFailed
  <2>2. Extended(a.m, MoreAnywhere(a.m, nb))
    BY <2>1, MoreAnywhereExtended
  <2>3. Extended(m, OrAnywhere(a, nb))
    BY <1>2, <2>1, <2>2, ExtendedTwice DEF OrAnywhere
  <2>. QED BY <2>3 DEF a
<1>3. CASE a.tbase # CMFAIL
  <2>1. Extended(m, OrAnywhere(a, nb))
    BY <1>1, <1>3 DEF OrAnywhere
  <2>. QED BY <2>1 DEF a
<1>. QED BY <1>2, <1>3

(* sys_alloc hands out a chunk that holds the request, or fails with the   *)
(* heap intact.                                                            *)
LEMMA sys_allocGot ==
  ASSUME NEW m, NEW sz, NEW us, Ready(m, sz, us), NEW nb, Asked(nb), FirstFits(m, nb)
  PROVE  Got(sys_alloc(m, nb), sz, us, nb)
<1>. DEFINE b == OrAnywhere(FirstWay(m, nb), nb)
<1>1. Extended(m, b)
  BY MemoryExtended
<1>. HIDE DEF b
<1>2. Got(WithMemory(b, nb), sz, us, nb)
  BY <1>1, WithMemoryGot
<1>. QED BY <1>2 DEF sys_alloc, b

(* A request that the top or the victim covers is not the overflow's mark. *)
LEMMA NotMax ==
  ASSUME NEW m, NEW sz, NEW us, Heap(m, sz, us, {}), NEW nb, Asked(nb),
         nb < m.topsize \/ nb <= m.dvsize
  PROVE  nb \in Nat /\ nb >= 16 /\ nb % 8 = 0
<1>1. nb \in Nat /\ nb >= 16
  BY AskedFacts
<1>2. Frame(m) /\ m.topsize \in Nat /\ m.topsize < m.brk
  BY TopFacts DEF Heap
<1>3. /\ m.brk <= m.limit /\ m.brk \in Nat /\ m.limit \in Nat /\ HeapBase \in Nat
      /\ HeapBase + m.limit <= HALF_MAX_SIZE_T
  BY <1>2, FrameFacts
<1>4. m.dvsize \in Nat /\ m.dvsize < HALF_MAX_SIZE_T
  <2>1. CASE m.dv = 0 /\ m.dvsize = 0
    BY <2>1, WordFacts
  <2>2. CASE m.dv \in DOMAIN sz /\ m.dvsize = sz[m.dv]
    BY <2>2, HeapChunk, WordFacts
  <2>3. Victim(m, sz, us, {})
    BY DEF Heap
  <2>. QED BY <2>1, <2>2, <2>3 DEF Victim
<1>5. nb # MAX_SIZE_T
  BY <1>1, <1>2, <1>3, <1>4, WordFacts
<1>. QED BY <1>1, <1>5 DEF Asked

(* What dlmalloc does when no bin serves: victim, top, then sys_alloc.     *)
LEMMA FromRestGot ==
  ASSUME NEW m, NEW sz, NEW us, Ready(m, sz, us), NEW nb, Asked(nb), FirstFits(m, nb)
  PROVE  Got(FromRest(m, nb), sz, us, nb)
<1>1. Got(sys_alloc(m, nb), sz, us, nb)
  BY sys_allocGot
<1>2. CASE Heap(m, sz, us, {})
  <2>1. CASE nb <= m.dvsize
    <3>1. Got(TakeDv(m, nb), sz, us, nb)
      BY <1>2, <2>1, NotMax, TakeDvGot
    <3>. QED BY <2>1, <3>1 DEF FromRest
  <2>2. CASE ~(nb <= m.dvsize) /\ nb < m.topsize
    <3>1. Got(SplitTop(m, nb), sz, us, nb)
      BY <1>2, <2>2, NotMax, SplitTopGot
    <3>. QED BY <2>2, <3>1 DEF FromRest
  <2>3. CASE ~(nb <= m.dvsize) /\ ~(nb < m.topsize)
    BY <1>1, <2>3 DEF FromRest
  <2>. QED BY <2>1, <2>2, <2>3
<1>3. CASE Blank(m)
  <2>1. m.dvsize = 0 /\ m.topsize = 0 /\ nb \in Nat /\ nb >= 16
    BY <1>3, AskedFacts DEF Blank
  <2>2. FromRest(m, nb) = sys_alloc(m, nb)
    BY <2>1 DEF FromRest
  <2>. QED BY <1>1, <2>2
<1>. QED BY <1>2, <1>3 DEF Ready

-----------------------------------------------------------------------------
(* dlmalloc and dlcalloc.                                                  *)

(* An allocator without memory has empty bins.                             *)
LEMMA BlankBins ==
  ASSUME NEW m, Blank(m)
  PROVE  m.smallmap = {} /\ m.treemap = {}
<1>1. Bins(m, Nothing) /\ \A s : Of(Nothing, s) = {}
  BY DEF Blank, Of, Nothing
<1>2. \A i \in SmallBins : m.smallbins[i] = <<>>
  BY <1>1, ListsIndex DEF Bins
<1>3. \A i \in TreeBins : m.treebins[i] = NoTrie
  <2>1. SUFFICES ASSUME NEW i \in TreeBins PROVE m.treebins[i] = NoTrie
    OBVIOUS
  <2>2. Trie(m.treebins[i], i, Nothing)
    BY <1>1 DEF Bins
  <2>3. DOMAIN m.treebins[i] = {}
    BY <1>1, <2>2 DEF Trie, Node
  <2>4. m.treebins[i] = [q \in {} |-> m.treebins[i][q]]
    BY <2>2, <2>3 DEF Trie
  <2>. QED BY <2>4 DEF NoTrie
<1>. QED BY <1>1, <1>2, <1>3 DEF Bins

(* The smallest large size.                                                *)
LEMMA MinLarge ==
  MIN_LARGE_SIZE >= 32 /\ 2 * MIN_LARGE_SIZE <= WordRange /\ MIN_LARGE_SIZE % 8 = 0 /\ MIN_LARGE_SIZE \in Nat
<1>1. /\ TREEBIN_SHIFT \in 5 .. 32 /\ SIZE_T_BITSIZE \in 12 .. 32 /\ TREEBIN_SHIFT + 1 <= SIZE_T_BITSIZE
      /\ MIN_LARGE_SIZE = 8 * NSMALLBINS /\ NSMALLBINS \in Nat /\ NSMALLBINS >= 4
  BY BinConstants
<1>2. 2^(TREEBIN_SHIFT + 1) <= 2^SIZE_T_BITSIZE
  <2>1. TREEBIN_SHIFT + 1 \in 0 .. 33 /\ SIZE_T_BITSIZE \in 0 .. 33
    BY <1>1
  <2>. DEFINE a == TREEBIN_SHIFT + 1
  <2>. HIDE DEF a
  <2>2. a \in 0 .. 33 /\ SIZE_T_BITSIZE \in 0 .. 33 /\ a <= SIZE_T_BITSIZE
    BY <1>1, <2>1 DEF a
  <2>3. 2^a <= 2^SIZE_T_BITSIZE
    BY <2>2, PowerMultiple, Zenon
  <2>. QED BY <2>3 DEF a
<1>3. 2^(TREEBIN_SHIFT + 1) = 2 * 2^TREEBIN_SHIFT
  <2>1. TREEBIN_SHIFT \in 0 .. 32
    BY <1>1
  <2>. QED BY <2>1, PowerTable, Zenon
<1>. DEFINE x == 2^TREEBIN_SHIFT
            y == 2^SIZE_T_BITSIZE
<1>4. 2 * x <= y
  BY <1>2, <1>3
<1>5. x = MIN_LARGE_SIZE /\ y = WordRange
  BY DEF MIN_LARGE_SIZE, WordRange
<1>. HIDE DEF x, y
<1>. QED BY <1>1, <1>4, <1>5

(* What dlmalloc makes of the bytes of a request.                          *)
LEMMA PaddedFacts ==
  ASSUME NEW bytes \in 0 .. MAX_SIZE_T
  PROVE  /\ Asked(Padded(bytes)) /\ Padded(bytes) >= 16 /\ Padded(bytes) \in Nat
         /\ (bytes < MAX_REQUEST => Padded(bytes) >= bytes + 4 /\ Padded(bytes) <= bytes + 16
                                    /\ Padded(bytes) % 8 = 0)
         /\ (bytes >= MAX_REQUEST => Padded(bytes) = MAX_SIZE_T)
<1>1. /\ bytes \in Nat /\ MAX_REQUEST = WordRange - 64 /\ WordRange \in Nat /\ WordRange >= 4096
      /\ MAX_SIZE_T = WordRange - 1
  BY SizeFacts, WordFacts
<1>2. CASE bytes < MAX_REQUEST
  <2>1. Padded(bytes) = request2size(bytes)
    BY <1>1, <1>2 DEF Padded
  <2>2. /\ pad_request(bytes) <= bytes + 11
        /\ request2size(bytes) \in Nat /\ request2size(bytes) % 8 = 0 /\ request2size(bytes) >= 16
        /\ request2size(bytes) >= bytes + 4 /\ request2size(bytes) <= bytes + 16
    BY <1>1, <1>2, PadFacts
  <2>3. request2size(bytes) + 53 <= WordRange
    BY <1>1, <1>2, <2>2, SizeFacts DEF request2size
  <2>. QED BY <1>2, <2>1, <2>2, <2>3, <1>1 DEF Asked
<1>3. CASE bytes >= MAX_REQUEST
  <2>1. Padded(bytes) = MAX_SIZE_T
    BY <1>3 DEF Padded
  <2>. QED BY <1>1, <1>3, <2>1 DEF Asked
<1>. QED BY <1>1, <1>2, <1>3

(* A victim too small for a small request is small.                        *)
LEMMA VictimSmall ==
  ASSUME NEW m, NEW sz, NEW us, Heap(m, sz, us, {}), NEW nb \in Nat, is_small(nb), nb > m.dvsize
  PROVE  is_small(m.dvsize)
<1>1. m.dvsize \in Nat
  <2>1. Victim(m, sz, us, {})
    BY DEF Heap
  <2>2. CASE m.dv \in DOMAIN sz \ us /\ m.dvsize = sz[m.dv]
    BY <2>2, HeapChunk
  <2>. QED BY <2>1, <2>2 DEF Victim
<1>2. NSMALLBINS \in Nat
  BY BinConstants
<1>. QED BY <1>1, <1>2 DEF is_small

(* dlmalloc of a small request.                                            *)
LEMMA MallocSmallGot ==
  ASSUME NEW m, NEW sz, NEW us, Ready(m, sz, us), NEW nb, Asked(nb), FirstFits(m, nb),
         nb % 8 = 0, nb < MIN_LARGE_SIZE
  PROVE  Got(MallocSmall(m, nb), sz, us, nb)
<1>. DEFINE idx == small_index(nb)
            above == {i \in m.smallmap : i > idx + 1}
            i0 == Min(above)
<1>1. nb \in Nat /\ nb >= 16 /\ idx \in Nat /\ idx * 8 = nb
  BY AskedFacts DEF small_index
<1>2. is_small(nb)
  BY <1>1, BinConstants DEF is_small, small_index
<1>3. Got(FromRest(m, nb), sz, us, nb)
  BY FromRestGot
<1>. HIDE DEF idx
<1>4. CASE Heap(m, sz, us, {})
  <2>1. Bins(m, InBins(m, sz, us)) /\ m.smallmap \subseteq Nat
    BY <1>4 DEF Heap, Bins, SmallBins
  <2>2. CASE idx \in m.smallmap
    <3>1. Got(TakeSmallWhole(m, idx), sz, us, nb)
      BY <1>1, <1>4, <2>2, TakeSmallWholeGot
    <3>. QED BY <2>2, <3>1 DEF MallocSmall, idx
  <2>3. CASE idx \notin m.smallmap /\ idx + 1 \in m.smallmap
    <3>1. nb <= (idx + 1) * 8
      BY <1>1
    <3>2. Got(TakeSmallWhole(m, idx + 1), sz, us, nb)
      BY <1>1, <1>4, <2>3, <3>1, TakeSmallWholeGot
    <3>. QED BY <2>3, <3>2 DEF MallocSmall, idx
  <2>4. CASE idx \notin m.smallmap /\ idx + 1 \notin m.smallmap /\ nb > m.dvsize /\ above # {}
    <3>1. above \in SUBSET Nat
      BY <2>1
    <3>2. i0 \in above
      BY <2>4, <3>1, MinOfSet
    <3>3. i0 \in m.smallmap /\ i0 \in Nat /\ i0 >= idx + 2
      BY <1>1, <2>1, <3>2
    <3>. HIDE DEF i0
    <3>4. nb + 16 <= i0 * 8
      BY <1>1, <3>3
    <3>5. m.dvsize # 0 => is_small(m.dvsize)
      BY <1>1, <1>2, <1>4, <2>4, VictimSmall
    <3>6. Got(TakeSmallSplit(m, i0, nb), sz, us, nb)
      BY <1>1, <1>4, <3>3, <3>4, <3>5, TakeSmallSplitGot
    <3>. QED BY <2>4, <3>6 DEF MallocSmall, idx, i0
  <2>5. CASE /\ idx \notin m.smallmap /\ idx + 1 \notin m.smallmap /\ ~(nb > m.dvsize /\ above # {})
             /\ nb > m.dvsize /\ m.treemap # {}
    <3>1. Got(tmalloc_small(m, nb), sz, us, nb)
      BY <1>1, <1>2, <1>4, <2>5, tmalloc_smallGot
    <3>. QED BY <2>5, <3>1 DEF MallocSmall, idx
  <2>6. CASE /\ idx \notin m.smallmap /\ idx + 1 \notin m.smallmap /\ ~(nb > m.dvsize /\ above # {})
             /\ ~(nb > m.dvsize /\ m.treemap # {})
    BY <1>3, <2>6 DEF MallocSmall, idx
  <2>. QED BY <2>2, <2>3, <2>4, <2>5, <2>6
<1>5. CASE Blank(m)
  <2>1. m.smallmap = {} /\ m.treemap = {}
    BY <1>5, BlankBins
  <2>2. MallocSmall(m, nb) = FromRest(m, nb)
    BY <2>1 DEF MallocSmall
  <2>. QED BY <1>3, <2>2
<1>. QED BY <1>4, <1>5 DEF Ready

(* dlmalloc of a large request.                                            *)
LEMMA MallocLargeGot ==
  ASSUME NEW m, NEW sz, NEW us, Ready(m, sz, us), NEW nb, Asked(nb), FirstFits(m, nb),
         nb % 8 = 0, nb >= MIN_LARGE_SIZE
  PROVE  Got(MallocLarge(m, nb), sz, us, nb)
<1>. DEFINE t == tmalloc_large(m, nb)
<1>1. nb \in Nat /\ nb >= 16 /\ nb \in LargeSizes
  BY AskedFacts, MinLarge, WordFacts DEF LargeSizes
<1>2. Got(FromRest(m, nb), sz, us, nb)
  BY FromRestGot
<1>3. CASE m.treemap # {} /\ t.mem # 0
  <2>1. Heap(m, sz, us, {})
    BY <1>3, BlankBins DEF Ready
  <2>2. Got(t, sz, us, nb)
    BY <1>1, <2>1, tmalloc_largeGot
  <2>. QED BY <1>3, <2>2 DEF MallocLarge, OrFromRest
<1>4. CASE m.treemap # {} /\ t.mem = 0
  BY <1>2, <1>4 DEF MallocLarge, OrFromRest
<1>5. CASE m.treemap = {}
  BY <1>2, <1>5 DEF MallocLarge, OrFromRest, Failed
<1>. QED BY <1>3, <1>4, <1>5

(* dlmalloc hands out a chunk that holds the request, or fails with the    *)
(* heap intact.                                                            *)
LEMMA dlmallocGot ==
  ASSUME NEW m, NEW sz, NEW us, Ready(m, sz, us), NEW bytes \in 0 .. MAX_SIZE_T, FirstFits(m, Padded(bytes))
  PROVE  Got(dlmalloc(m, bytes), sz, us, Padded(bytes))
<1>. DEFINE nb == Padded(bytes)
<1>1. /\ bytes \in Nat /\ MAX_REQUEST = WordRange - 64 /\ WordRange \in Nat /\ WordRange >= 4096
      /\ MIN_CHUNK_SIZE = 16 /\ MIN_REQUEST = 11
      /\ MAX_SIZE_T = WordRange - 1
  BY SizeFacts, WordFacts
<1>2. MAX_SMALL_REQUEST = MIN_LARGE_SIZE - 12
  BY SizeFacts, MinLarge DEF MAX_SMALL_REQUEST
<1>3. MIN_LARGE_SIZE >= 32 /\ 2 * MIN_LARGE_SIZE <= WordRange /\ MIN_LARGE_SIZE % 8 = 0 /\ MIN_LARGE_SIZE \in Nat
  BY MinLarge
<1>4. Asked(nb)
  BY PaddedFacts
<1>5. CASE bytes <= MAX_SMALL_REQUEST
  <2>1. bytes < MAX_REQUEST
    BY <1>1, <1>2, <1>3, <1>5
  <2>2. nb = request2size(bytes)
    BY <1>1, <2>1 DEF Padded
  <2>3. nb = IF bytes < MIN_REQUEST THEN MIN_CHUNK_SIZE ELSE pad_request(bytes)
    BY <2>2 DEF request2size
  <2>4. pad_request(bytes) <= bytes + 11 /\ pad_request(bytes) \in Nat /\ request2size(bytes) % 8 = 0
    BY <1>1, <2>1, PadFacts
  <2>5. nb < MIN_LARGE_SIZE /\ nb % 8 = 0
    BY <1>1, <1>2, <1>3, <1>5, <2>2, <2>3, <2>4
  <2>6. Got(MallocSmall(m, nb), sz, us, nb)
    BY <1>4, <2>5, MallocSmallGot
  <2>7. dlmalloc(m, bytes) = MallocSmall(m, nb)
    BY <1>5, <2>3 DEF dlmalloc
  <2>. QED BY <2>6, <2>7
<1>6. CASE ~(bytes <= MAX_SMALL_REQUEST) /\ bytes >= MAX_REQUEST
  <2>1. nb = MAX_SIZE_T
    BY <1>6 DEF Padded
  <2>2. Got(FromRest(m, nb), sz, us, nb)
    BY <1>4, FromRestGot
  <2>. QED BY <1>6, <2>1, <2>2 DEF dlmalloc
<1>7. CASE ~(bytes <= MAX_SMALL_REQUEST) /\ ~(bytes >= MAX_REQUEST)
  <2>1. nb = request2size(bytes)
    BY <1>7 DEF Padded
  <2>2. bytes < MAX_REQUEST /\ bytes >= MIN_REQUEST /\ bytes >= MIN_LARGE_SIZE - 11
    BY <1>1, <1>2, <1>3, <1>7
  <2>3. nb = pad_request(bytes) /\ nb \in Nat /\ nb % 8 = 0 /\ nb >= bytes + 4
    BY <2>1, <2>2, PadFacts
  <2>4. nb >= MIN_LARGE_SIZE
    <3>. HIDE DEF nb
    <3>. QED BY <1>1, <1>3, <2>2, <2>3
  <2>5. Got(MallocLarge(m, nb), sz, us, nb)
    BY <1>4, <2>3, <2>4, MallocLargeGot
  <2>6. dlmalloc(m, bytes) = MallocLarge(m, nb)
    BY <1>7, <2>3 DEF dlmalloc
  <2>. QED BY <2>5, <2>6
<1>. QED BY <1>5, <1>6, <1>7

FitsNow(m, bytes) == Blank(m) /\ m.contiguous => FitsFirst(bytes)

(* A first request below the limit does not wrap the size of the segment.  *)
LEMMA FitsFirstFacts ==
  ASSUME NEW m, Frame(m), NEW bytes \in 0 .. MAX_SIZE_T, FitsFirst(bytes)
  PROVE  granularity_align(m, Word(Padded(bytes) + 41)) # 0
<1>. DEFINE nb == Padded(bytes)
            x == Word(nb + 41)
<1>1. /\ bytes \in Nat /\ MAX_REQUEST = WordRange - 64 /\ WordRange \in Nat /\ WordRange >= 4096
      /\ MAX_SIZE_T = WordRange - 1 /\ HALF_MAX_SIZE_T \in Nat /\ 2 * HALF_MAX_SIZE_T = WordRange - 2
  BY SizeFacts, WordFacts
<1>2. m.granularity \in Nat /\ m.granularity <= HALF_MAX_SIZE_T + 1
  BY FrameFacts
<1>3. /\ nb \in Nat /\ (bytes < MAX_REQUEST => nb <= bytes + 16)
      /\ (bytes >= MAX_REQUEST => nb = MAX_SIZE_T)
  BY PaddedFacts
<1>. HIDE DEF nb
<1>4. x \in 0 .. WordRange - 1 /\ x + m.granularity < WordRange
  <2>1. CASE bytes >= MAX_REQUEST
    <3>1. nb + 41 \in Int /\ WordRange <= nb + 41 /\ nb + 41 < 2 * WordRange
      BY <1>1, <1>3, <2>1
    <3>. DEFINE y == nb + 41
    <3>5. y \in Int /\ WordRange <= y /\ y < 2 * WordRange
      BY <3>1
    <3>. HIDE DEF y
    <3>6. Word(y) = y - WordRange
      BY <3>5, WordOf
    <3>2. x = (nb + 41) - WordRange
      <4>1. Word(nb + 41) = (nb + 41) - WordRange
        BY <3>6 DEF y
      <4>. QED BY <4>1
    <3>3. x = 40
      BY <1>1, <1>3, <2>1, <3>2
    <3>. QED BY <1>1, <1>2, <3>3
  <2>2. CASE bytes < MAX_REQUEST
    <3>1. nb + 41 \in Int /\ 0 <= nb + 41 /\ nb + 41 < WordRange /\ nb + 41 < HALF_MAX_SIZE_T
      BY <1>1, <1>3, <2>2 DEF FitsFirst
    <3>2. x = nb + 41
      BY <3>1, WordOf
    <3>. QED BY <1>1, <1>2, <1>3, <3>1, <3>2
  <2>. QED BY <1>1, <2>1, <2>2
<1>. HIDE DEF x
<1>5. LET a == granularity_align(m, x)
      IN /\ a \in Nat /\ a % 8 = 0 /\ (a = 0 \/ a > x)
         /\ x + m.granularity < WordRange => a > x
  BY <1>4, GranularityAlign
<1>6. granularity_align(m, x) # 0
  BY <1>4, <1>5
<1>. QED BY <1>6 DEF x, nb

(* The parameters of a ready allocator.                                    *)
LEMMA ReadyFrame ==
  ASSUME NEW m, NEW sz, NEW us, Ready(m, sz, us)
  PROVE  Frame(m)
BY ReadyFacts

(* A chunk is smaller than half the range of a word.                       *)
LEMMA HeapSmaller ==
  ASSUME NEW m, NEW sz, NEW us, NEW o, Heap(m, sz, us, o), NEW p \in DOMAIN sz
  PROVE  sz[p] \in Nat /\ sz[p] < HALF_MAX_SIZE_T /\ sz[p] < MAX_SIZE_T /\ p + sz[p] < HALF_MAX_SIZE_T
<1>1. /\ p \in Nat /\ p >= 8 /\ sz[p] \in Nat /\ p + sz[p] <= Ends(m) /\ Ends(m) \in Nat /\ Ends(m) < HALF_MAX_SIZE_T
  BY HeapChunk
<1>2. HALF_MAX_SIZE_T \in Nat /\ MAX_SIZE_T \in Nat /\ HALF_MAX_SIZE_T < MAX_SIZE_T
  BY WordFacts
<1>. QED BY <1>1, <1>2

(* A chunk that holds more holds less.                                     *)
LEMMA GotWeaken ==
  ASSUME NEW r, NEW sz, NEW us, NEW nb, Got(r, sz, us, nb), NEW k,
         \A s \in Nat : s >= nb /\ s < HALF_MAX_SIZE_T => s >= k
  PROVE  Got(r, sz, us, k)
<1>1. PICK y : /\ Kept(sz, us, y)
               /\ \/ r.mem = 0 /\ Ready(r.m, y, us) /\ (y = Nothing => sz = Nothing)
                  \/ \E p \in DOMAIN y \ us : /\ r.mem = chunk2mem(p) /\ Heap(r.m, y, us \cup {p}, {})
                                              /\ y[p] >= nb /\ AfterUsed(y, us \cup {p}, p)
  BY DEF Got
<1>2. CASE r.mem = 0 /\ Ready(r.m, y, us) /\ (y = Nothing => sz = Nothing)
  BY <1>1, <1>2 DEF Got
<1>3. ASSUME NEW p \in DOMAIN y \ us, r.mem = chunk2mem(p), Heap(r.m, y, us \cup {p}, {}), y[p] >= nb,
             AfterUsed(y, us \cup {p}, p)
      PROVE Got(r, sz, us, k)
  <2>1. y[p] >= k
    BY <1>3, HeapSmaller
  <2>. QED BY <1>1, <1>3, <2>1 DEF Got
<1>. QED BY <1>1, <1>2, <1>3

(* A block of dlmalloc holds its bytes and the overhead.                   *)
LEMMA dlmallocBytes ==
  ASSUME NEW m, NEW sz, NEW us, Ready(m, sz, us), NEW bytes \in 0 .. MAX_SIZE_T, FitsNow(m, bytes)
  PROVE  /\ Got(dlmalloc(m, bytes), sz, us, Padded(bytes))
         /\ Got(dlmalloc(m, bytes), sz, us, bytes + 4)
<1>1. FirstFits(m, Padded(bytes))
  BY ReadyFrame, FitsFirstFacts DEF FirstFits, FitsNow
<1>2. Got(dlmalloc(m, bytes), sz, us, Padded(bytes))
  BY <1>1, dlmallocGot
<1>3. \A s \in Nat : s >= Padded(bytes) /\ s < HALF_MAX_SIZE_T => s >= bytes + 4
  <2>1. /\ Padded(bytes) \in Nat
        /\ (bytes < MAX_REQUEST => Padded(bytes) >= bytes + 4)
        /\ (bytes >= MAX_REQUEST => Padded(bytes) = MAX_SIZE_T)
    BY PaddedFacts
  <2>2. MAX_SIZE_T \in Nat /\ HALF_MAX_SIZE_T \in Nat /\ HALF_MAX_SIZE_T < MAX_SIZE_T /\ MAX_REQUEST \in Int
    BY WordFacts, SizeFacts
  <2>. QED BY <2>1, <2>2
<1>4. Got(dlmalloc(m, bytes), sz, us, bytes + 4)
  <2>. DEFINE r == dlmalloc(m, bytes)
              nb == Padded(bytes)
              k == bytes + 4
  <2>1. Got(r, sz, us, nb) /\ \A s \in Nat : s >= nb /\ s < HALF_MAX_SIZE_T => s >= k
    BY <1>2, <1>3
  <2>. HIDE DEF r, nb, k
  <2>2. Got(r, sz, us, k)
    BY <2>1, GotWeaken
  <2>. QED BY <2>2 DEF r, k
<1>. QED BY <1>2, <1>4

(* Products of larger factors are larger.                                  *)
LEMMA ProductMonotone ==
  ASSUME NEW a \in Nat, NEW b \in Nat, NEW c \in Nat, NEW d \in Nat, a <= c, b <= d
  PROVE  a * b \in Nat /\ a * b <= c * d
<1>1. a * b \in Nat /\ c * b \in Nat /\ c * d \in Nat
  OBVIOUS
<1>2. c * b = a * b + (c - a) * b /\ (c - a) * b \in Nat
  OBVIOUS
<1>3. c * d = c * b + c * (d - b) /\ c * (d - b) \in Nat
  OBVIOUS
<1>. DEFINE x == a * b
            y == c * b
            z == c * d
            u == (c - a) * b
            w == c * (d - b)
<1>4. x \in Nat /\ y \in Nat /\ z \in Nat /\ y = x + u /\ u \in Nat /\ z = y + w /\ w \in Nat
  BY <1>1, <1>2, <1>3
<1>5. x \in Nat /\ x <= z
  <2>. HIDE DEF x, y, z, u, w
  <2>. QED BY <1>4
<1>. QED BY <1>5

(* The square of half a word fits the word's range.                        *)
LEMMA HalfSquare ==
  LET half == 2^(SIZE_T_BITSIZE \div 2)
  IN half \in Nat /\ half > 0 /\ half * half <= WordRange
<1>. DEFINE h == SIZE_T_BITSIZE \div 2
            d == h + h
<1>1. h \in 0 .. 33 /\ h + h <= 33 /\ d \in 0 .. 33 /\ SIZE_T_BITSIZE \in 0 .. 33 /\ d <= SIZE_T_BITSIZE
  BY BinConstants
<1>. HIDE DEF h
<1>2. 2^(h + h) = 2^h * 2^h
  BY <1>1, PowerSum, Zenon
<1>3. 2^h \in Nat /\ 2^h > 0
  BY <1>1, PowerNat, Zenon
<1>4. 2^d <= 2^SIZE_T_BITSIZE
  <2>. HIDE DEF d
  <2>. QED BY <1>1, PowerMultiple, Zenon
<1>. DEFINE x == 2^h
            y == 2^d
<1>7. y <= WordRange
  BY <1>4 DEF WordRange
<1>8. x \in Nat /\ x > 0 /\ x * x = y
  BY <1>2, <1>3, Zenon
<1>5. x \in Nat /\ x > 0 /\ x * x = y /\ y <= WordRange
  BY <1>7, <1>8
<1>. HIDE DEF y
<1>6. x \in Nat /\ x > 0 /\ x * x <= WordRange
  <2>. HIDE DEF x
  <2>. QED BY <1>5
<1>. QED BY <1>6 DEF h

(* The size that calloc asks for is the true product, or one that cannot   *)
(* be had.                                                                 *)
LEMMA CallocSize ==
  ASSUME NEW n \in 0 .. MAX_SIZE_T, NEW size \in 0 .. MAX_SIZE_T
  PROVE  LET req == Word(n * size)
             half == 2^(SIZE_T_BITSIZE \div 2)
             r == IF n # 0 /\ (n >= half \/ size >= half) /\ req \div n # size THEN MAX_SIZE_T ELSE req
         IN /\ r \in 0 .. MAX_SIZE_T /\ n * size \in Nat /\ (r = MAX_SIZE_T \/ r = n * size)
            /\ (n * size < MAX_SIZE_T => r = n * size)
<1>. DEFINE half == 2^(SIZE_T_BITSIZE \div 2)
            prod == n * size
            req == Word(prod)
            quo == req \div n
            r == IF n # 0 /\ (n >= half \/ size >= half) /\ quo # size THEN MAX_SIZE_T ELSE req
<1>1. WordRange \in Nat /\ MAX_SIZE_T = WordRange - 1 /\ WordRange >= 4096
  BY WordFacts
<1>2. n \in Nat /\ size \in Nat /\ prod \in Nat
  BY <1>1
<1>3. req \in 0 .. WordRange - 1 /\ (prod < WordRange => req = prod) /\ req <= prod
  <2>1. prod \in Int
    BY <1>2
  <2>. HIDE DEF prod
  <2>2. Word(prod) \in 0 .. WordRange - 1 /\ (0 <= prod /\ prod < WordRange => Word(prod) = prod)
    BY <2>1, WordOf
  <2>. QED BY <1>1, <1>2, <2>2
<1>4. half \in Nat /\ half * half <= WordRange /\ half > 0
  BY HalfSquare
<1>. HIDE DEF half
<1>5. CASE n = 0
  <2>1. prod = 0
    BY <1>2, <1>5
  <2>2. req = 0
    BY <1>1, <1>3, <2>1
  <2>3. r = 0
    BY <1>5, <2>2
  <2>. QED BY <1>1, <2>1, <2>3 DEF half
<1>6. CASE n # 0 /\ n < half /\ size < half
  <2>1. n <= half - 1 /\ half - 1 \in Nat /\ size <= half
    BY <1>2, <1>4, <1>6
  <2>2. prod <= (half - 1) * half
    BY <1>2, <1>4, <2>1, ProductMonotone
  <2>3. (half - 1) * half = half * half - half
    BY <1>4
  <2>4. half * half \in Nat
    BY <1>4
  <2>. HIDE DEF prod
  <2>5. prod < WordRange
    <3>. DEFINE hh == half * half
    <3>1. hh \in Nat /\ hh <= WordRange /\ prod <= hh - half
      BY <1>4, <2>2, <2>3, <2>4
    <3>. HIDE DEF hh
    <3>. QED BY <1>1, <1>2, <1>4, <3>1
  <2>6. r = prod /\ r \in 0 .. MAX_SIZE_T
    <3>1. ~(n >= half \/ size >= half)
      BY <1>2, <1>4, <1>6
    <3>2. r = req
      BY <3>1
    <3>. HIDE DEF req, r
    <3>. QED BY <1>1, <1>3, <2>5, <3>2
  <2>. QED BY <1>2, <2>6 DEF half, prod
<1>7. CASE n # 0 /\ ~(n < half /\ size < half)
  <2>1. n >= half \/ size >= half
    BY <1>2, <1>4, <1>7
  <2>2. CASE quo = size
    <3>1. req \in Int /\ n \in Nat /\ n > 0
      BY <1>2, <1>3, <1>7
    <3>. HIDE DEF req
    <3>2. req = n * (req \div n) + (req % n) /\ req % n \in 0 .. n - 1
      BY <3>1, DivMod
    <3>3. req = prod + (req % n)
      BY <2>2, <3>2
    <3>4. req = prod
      <4>. DEFINE rest == req % n
      <4>. HIDE DEF prod, rest
      <4>1. req = prod + rest /\ rest \in Nat
        BY <3>2, <3>3 DEF rest
      <4>. QED BY <1>2, <1>3, <3>1, <4>1
    <3>5. r = req
      BY <2>2
    <3>. HIDE DEF r
    <3>6. r = prod /\ r \in 0 .. MAX_SIZE_T
      BY <1>1, <1>3, <3>4, <3>5
    <3>. QED BY <1>2, <3>6 DEF r, half, req
  <2>3. CASE quo # size
    <3>1. r = MAX_SIZE_T
      BY <1>7, <2>1, <2>3
    <3>2. ~(prod < MAX_SIZE_T)
      <4>1. SUFFICES ASSUME prod < MAX_SIZE_T PROVE FALSE
        OBVIOUS
      <4>2. req = prod
        <5>. HIDE DEF prod, req
        <5>. QED BY <1>1, <1>2, <1>3, <4>1
      <4>3. n \in Nat /\ n > 0 /\ size \in Int /\ 0 \in 0 .. n - 1 /\ prod \in Int /\ prod = n * size + 0
        BY <1>2, <1>7
      <4>4. prod \div n = size
        <5>. HIDE DEF prod
        <5>. QED BY <4>3, ModUnique
      <4>. QED BY <2>3, <4>2, <4>4
    <3>. HIDE DEF r, prod
    <3>3. r \in 0 .. MAX_SIZE_T /\ prod \in Nat
      BY <1>1, <1>2, <3>1
    <3>. QED BY <3>1, <3>2, <3>3 DEF r, half, req, prod
  <2>. QED BY <2>2, <2>3
<1>. QED BY <1>5, <1>6, <1>7, <1>2, <1>4

(* A block of dlcalloc holds the elements asked for, never a product that  *)
(* wrapped.                                                                *)
LEMMA dlcallocBytes ==
  ASSUME NEW m, NEW sz, NEW us, Ready(m, sz, us), NEW n \in 0 .. MAX_SIZE_T, NEW size \in 0 .. MAX_SIZE_T,
         FitsNow(m, n * size)
  PROVE  Got(dlcalloc(m, n, size), sz, us, n * size + 4) /\ n * size \in Nat
<1>. DEFINE half == 2^(SIZE_T_BITSIZE \div 2)
            prod == n * size
            req == Word(prod)
            r == IF n # 0 /\ (n >= half \/ size >= half) /\ req \div n # size THEN MAX_SIZE_T ELSE req
<1>1. /\ r \in 0 .. MAX_SIZE_T /\ prod \in Nat /\ (r = MAX_SIZE_T \/ r = prod)
      /\ (prod < MAX_SIZE_T => r = prod)
  BY CallocSize
<1>2. dlcalloc(m, n, size) = dlmalloc(m, r)
  BY DEF dlcalloc
<1>. HIDE DEF r
<1>3. WordRange \in Nat /\ MAX_SIZE_T = WordRange - 1 /\ WordRange >= 4096 /\ MAX_REQUEST = WordRange - 64
      /\ HALF_MAX_SIZE_T \in Nat /\ 2 * HALF_MAX_SIZE_T = WordRange - 2
  BY WordFacts, SizeFacts
<1>4. FitsNow(m, r)
  <2>1. FitsNow(m, prod)
    OBVIOUS
  <2>. HIDE DEF prod
  <2>2. FitsFirst(prod) => FitsFirst(r)
    BY <1>1, <1>3 DEF FitsFirst
  <2>. QED BY <2>1, <2>2 DEF FitsNow
<1>5. Got(dlmalloc(m, r), sz, us, Padded(r))
  BY <1>1, <1>4, dlmallocBytes
<1>6. \A s \in Nat : s >= Padded(r) /\ s < HALF_MAX_SIZE_T => s >= prod + 4
  <2>1. /\ Padded(r) \in Nat
        /\ (r < MAX_REQUEST => Padded(r) >= r + 4)
        /\ (r >= MAX_REQUEST => Padded(r) = MAX_SIZE_T)
    BY <1>1, PaddedFacts
  <2>. HIDE DEF prod
  <2>. QED BY <1>1, <1>3, <2>1
<1>7. Got(dlmalloc(m, r), sz, us, prod + 4)
  <2>. DEFINE d == dlmalloc(m, r)
              nb == Padded(r)
              k == prod + 4
  <2>1. Got(d, sz, us, nb) /\ \A s \in Nat : s >= nb /\ s < HALF_MAX_SIZE_T => s >= k
    BY <1>5, <1>6
  <2>. HIDE DEF d, nb, k
  <2>2. Got(d, sz, us, k)
    BY <2>1, GotWeaken
  <2>. QED BY <2>2 DEF d, k
<1>. QED BY <1>1, <1>2, <1>7

(* The walk of the segment is a function: the least that follows it.       *)
LEMMA ChunksFromEquation ==
  ASSUME NEW m, m.seg.size \in Nat
  PROVE  LET from == ChunksFrom(m)
         IN from = [p \in Int |->
              IF p \notin DOMAIN m.head \/ ~segment_holds(m, p) THEN {}
              ELSE {p} \cup IF p = m.top \/ chunksize(m, p) \notin 1 .. m.seg.size THEN {}
                            ELSE from[next_chunk(m, p)]]
<1>. DEFINE Ok(p) == p \in DOMAIN m.head /\ segment_holds(m, p)
            Stop(p) == p = m.top \/ chunksize(m, p) \notin 1 .. m.seg.size
            Nx(p) == next_chunk(m, p)
            Closed(S) == \A a \in S : Ok(a) /\ ~Stop(a) /\ Ok(Nx(a)) => Nx(a) \in S
            Reach(p) == {q \in Int : \A S \in SUBSET Int : p \in S /\ Closed(S) => q \in S}
            f == [p \in Int |-> IF ~Ok(p) THEN {} ELSE Reach(p)]
<1>1. ASSUME NEW p \in Int, ~Stop(p) PROVE Nx(p) \in Int
  <2>1. chunksize(m, p) \in Int
    BY <1>1
  <2>. QED BY <2>1 DEF next_chunk
<1>. HIDE DEF Ok, Stop, Nx
<1>2. ASSUME NEW p \in Int, Ok(p)
      PROVE  Reach(p) = {p} \cup IF Stop(p) THEN {} ELSE f[Nx(p)]
  <2>1. p \in Reach(p)
    OBVIOUS
  <2>2. ASSUME Stop(p) \/ ~Ok(Nx(p)) PROVE Reach(p) = {p}
    <3>1. Closed({p})
      BY <2>2
    <3>2. {p} \in SUBSET Int /\ p \in {p}
      OBVIOUS
    <3>3. \A q \in Reach(p) : q \in {p}
      <4>. HIDE DEF Closed
      <4>. QED BY <3>1, <3>2
    <3>. QED BY <2>1, <3>3
  <2>3. CASE Stop(p)
    BY <2>2, <2>3
  <2>4. CASE ~Stop(p) /\ ~Ok(Nx(p))
    <3>1. f[Nx(p)] = {}
      BY <1>1, <2>4
    <3>. HIDE DEF f
    <3>. QED BY <2>2, <2>4, <3>1
  <2>5. CASE ~Stop(p) /\ Ok(Nx(p))
    <3>. DEFINE x == Nx(p)
                T == {p} \cup Reach(x)
    <3>1. x \in Int /\ Ok(x)
      BY <1>1, <2>5
    <3>2. f[x] = Reach(x)
      BY <3>1
    <3>3. \A S \in SUBSET Int : p \in S /\ Closed(S) => x \in S
      BY <1>2, <2>5
    <3>4. Reach(x) \subseteq Reach(p)
      <4>. HIDE DEF Closed, x
      <4>. QED BY <3>3
    <3>5. T \in SUBSET Int /\ p \in T
      OBVIOUS
    <3>6. Closed(T)
      <4>1. SUFFICES ASSUME NEW a \in T, Ok(a), ~Stop(a), Ok(Nx(a)) PROVE Nx(a) \in T
        OBVIOUS
      <4>2. a \in Int /\ Nx(a) \in Int
        BY <1>1, <3>5, <4>1
      <4>3. CASE a = p
        <5>1. x \in Reach(x)
          BY <3>1
        <5>. QED BY <4>3, <5>1
      <4>4. CASE a \in Reach(x)
        <5>1. \A S \in SUBSET Int : x \in S /\ Closed(S) => Nx(a) \in S
          BY <4>1, <4>4
        <5>. QED BY <4>2, <5>1
      <4>. QED BY <4>1, <4>3, <4>4
    <3>7. Reach(p) \subseteq T
      <4>. HIDE DEF Closed, T
      <4>. QED BY <3>5, <3>6
    <3>. HIDE DEF Reach, f, Closed
    <3>. QED BY <2>1, <2>5, <3>2, <3>4, <3>7
  <2>. QED BY <2>3, <2>4, <2>5
<1>3. f = [p \in Int |-> IF ~Ok(p) THEN {} ELSE {p} \cup IF Stop(p) THEN {} ELSE f[Nx(p)]]
  <2>1. f = [p \in Int |-> IF ~Ok(p) THEN {} ELSE Reach(p)]
    OBVIOUS
  <2>. HIDE DEF f, Reach
  <2>. QED BY <1>2, <2>1
<1>4. \E g : g = [p \in Int |->
              IF p \notin DOMAIN m.head \/ ~segment_holds(m, p) THEN {}
              ELSE {p} \cup IF p = m.top \/ chunksize(m, p) \notin 1 .. m.seg.size THEN {}
                            ELSE g[next_chunk(m, p)]]
  <2>. HIDE DEF f
  <2>. QED BY <1>3, Zenon DEF Ok, Stop, Nx
<1>. QED BY <1>4 DEF ChunksFrom

(* The chunks found by following sizes from the segment's base are those   *)
(* of the tiling.                                                          *)
LEMMA HeapChunks ==
  ASSUME NEW m, NEW sz, NEW us, Heap(m, sz, us, {})
  PROVE  Chunks(m) = DOMAIN sz
<1>. DEFINE from == ChunksFrom(m)
            After(p) == {q \in DOMAIN sz : q >= p}
            Bad == {p \in DOMAIN sz : from[p] # After(p)}
<1>1. Frame(m) /\ m.seg = [base |-> HeapBase, size |-> m.brk] /\ Tiling(sz, Ends(m))
  BY DEF Heap, Segment, Laid
<1>2. m.brk \in Nat /\ HeapBase \in Nat /\ HeapBase % 8 = 0
  BY <1>1, FrameFacts
<1>3. from = [p \in Int |->
              IF p \notin DOMAIN m.head \/ ~segment_holds(m, p) THEN {}
              ELSE {p} \cup IF p = m.top \/ chunksize(m, p) \notin 1 .. m.seg.size THEN {}
                            ELSE from[next_chunk(m, p)]]
  BY <1>1, <1>2, ChunksFromEquation
<1>. HIDE DEF from
<1>4. ASSUME NEW p \in DOMAIN sz
      PROVE  from[p] = {p} \cup IF p = m.top THEN {} ELSE from[p + sz[p]]
  <2>1. p \in Nat /\ p >= HeapBase /\ sz[p] \in Nat /\ sz[p] > 0 /\ p + sz[p] <= Ends(m)
    BY HeapChunk
  <2>2. p \in DOMAIN m.head /\ chunksize(m, p) = sz[p]
    BY HeapHead
  <2>3. Ends(m) = HeapBase + m.brk - 40
    BY DEF Ends
  <2>4. segment_holds(m, p) /\ sz[p] \in 1 .. m.seg.size
    BY <1>1, <1>2, <2>1, <2>3 DEF segment_holds, segment_end
  <2>5. p \in Int
    BY <2>1
  <2>. QED BY <1>3, <2>2, <2>4, <2>5 DEF next_chunk
<1>5. Bad = {}
  <2>1. SUFFICES ASSUME Bad # {} PROVE FALSE
    OBVIOUS
  <2>2. Ends(m) \in Nat
    BY <1>1 DEF Tiling
  <2>3. Bad \subseteq 0 .. Ends(m)
    BY <1>1, <2>2 DEF Tiling
  <2>4. PICK p \in Bad : \A x \in Bad : p >= x
    <3>. HIDE DEF Bad
    <3>. QED BY <2>1, <2>2, <2>3, LargestElement
  <2>5. p \in DOMAIN sz /\ from[p] # After(p)
    OBVIOUS
  <2>6. p \in Nat /\ sz[p] \in Nat /\ sz[p] > 0 /\ (p = m.top <=> p + sz[p] = Ends(m))
    BY <2>5, HeapChunk
  <2>9. \A q \in DOMAIN sz : /\ q \in Nat /\ sz[q] \in Nat /\ sz[q] > 0 /\ q + sz[q] <= Ends(m)
                              /\ (p < q => p + sz[p] <= q)
    BY <1>1, <2>5 DEF Tiling
  <2>7. CASE p = m.top
    <3>1. from[p] = {p}
      BY <1>4, <2>5, <2>7
    <3>2. \A q \in DOMAIN sz : q >= p => q = p
      <4>. HIDE DEF Bad
      <4>1. SUFFICES ASSUME NEW q \in DOMAIN sz, q >= p, q # p PROVE FALSE
        OBVIOUS
      <4>2. p + sz[p] <= q /\ q + sz[q] <= Ends(m) /\ sz[q] > 0 /\ q \in Nat /\ sz[q] \in Nat
        BY <2>6, <2>9, <4>1
      <4>. QED BY <2>2, <2>6, <2>7, <4>2
    <3>. QED BY <2>5, <2>6, <3>1, <3>2
  <2>8. CASE p # m.top
    <3>. DEFINE x == p + sz[p]
    <3>1. x \in DOMAIN sz /\ x \in Nat /\ ~(p >= x)
      BY <2>5, <2>6, <2>8, HeapChunk
    <3>2. x \notin Bad
      <4>. HIDE DEF Bad
      <4>. QED BY <2>4, <3>1
    <3>3. from[x] = After(x)
      BY <3>1, <3>2
    <3>4. from[p] = {p} \cup from[x]
      BY <1>4, <2>5, <2>8
    <3>5. \A q \in DOMAIN sz : q >= p <=> q = p \/ q >= x
      <4>. HIDE DEF Bad
      <4>1. SUFFICES ASSUME NEW q \in DOMAIN sz PROVE q >= p <=> (q = p \/ q >= x)
        OBVIOUS
      <4>. QED BY <2>6, <2>9, <4>1
    <3>. HIDE DEF x
    <3>. QED BY <2>5, <3>3, <3>4, <3>5
  <2>. QED BY <2>7, <2>8
<1>6. align_as_chunk(HeapBase) = HeapBase
  BY <1>2, SizeFacts
<1>7. HeapBase \in DOMAIN sz /\ After(HeapBase) = DOMAIN sz
  BY <1>1 DEF Tiling
<1>8. from[HeapBase] = DOMAIN sz
  BY <1>5, <1>7
<1>9. m.seg.base = HeapBase
  BY <1>1
<1>. QED BY <1>6, <1>8, <1>9 DEF Chunks, from

(* An allocator without memory has no chunk.                               *)
LEMMA BlankChunks ==
  ASSUME NEW m, Blank(m)
  PROVE  Chunks(m) = {}
<1>. DEFINE from == ChunksFrom(m)
<1>1. DOMAIN m.head = {} /\ m.seg = [base |-> 0, size |-> 0]
  BY DEF Blank
<1>2. from = [p \in Int |->
              IF p \notin DOMAIN m.head \/ ~segment_holds(m, p) THEN {}
              ELSE {p} \cup IF p = m.top \/ chunksize(m, p) \notin 1 .. m.seg.size THEN {}
                            ELSE from[next_chunk(m, p)]]
  BY <1>1, ChunksFromEquation
<1>. HIDE DEF from
<1>3. from[0] = {}
  BY <1>1, <1>2
<1>4. align_as_chunk(m.seg.base) = 0
  BY <1>1, SizeFacts
<1>. QED BY <1>3, <1>4 DEF Chunks, from

(* Forgetting the words that are in no chunk's head or foot keeps the      *)
(* heap.                                                                   *)
LEMMA SettleHeap ==
  ASSUME NEW m, NEW sz, NEW us, Heap(m, sz, us, {})
  PROVE  Heap(Settle(m), sz, us, {}) /\ DOMAIN Settle(m).head = DOMAIN sz
<1>. DEFINE n == Settle(m)
<1>1. /\ Frame(m) /\ Segment(m) /\ Laid(m, sz, us, {}, Ends(m)) /\ Pieces(m, sz, us)
      /\ Victim(m, sz, us, {}) /\ Bins(m, InBins(m, sz, us)) /\ DOMAIN m = Fields
  BY FrameFacts DEF Heap
<1>2. Chunks(m) = DOMAIN sz
  BY HeapChunks
<1>3. /\ SameBut(m, n, {"head", "foot"}) /\ n.head = [p \in DOMAIN sz |-> m.head[p]]
      /\ n.foot = [p \in {q \in DOMAIN sz \cap DOMAIN m.foot : ~pinuse(m, q)} |-> m.foot[p]]
  BY <1>1, <1>2 DEF Settle, SameBut, Fields
<1>. HIDE DEF n
<1>4. \A p \in DOMAIN sz : p \in DOMAIN m.head
  BY HeapHead
<1>5. \A p \in DOMAIN sz : p \in DOMAIN n.head /\ HeadAt(n, p) = HeadAt(m, p)
  BY <1>3, <1>4 DEF HeadAt
<1>6. Words(n, sz, us, {})
  <2>1. Words(m, sz, us, {})
    BY <1>1 DEF Laid
  <2>2. ASSUME NEW p \in DOMAIN sz
        PROVE HeadIs(n, p, sz[p], p \in us, AfterUsed(sz, us, p))
    <3>1. HeadIs(m, p, sz[p], p \in us, AfterUsed(sz, us, p))
      BY <2>1 DEF Words
    <3>2. HeadAt(n, p) = HeadAt(m, p) /\ p \in DOMAIN n.head
      BY <1>5
    <3>. QED BY <3>1, <3>2 DEF HeadIs, chunksize, cinuse, pinuse
  <2>3. ASSUME NEW p \in DOMAIN sz \ us, p + sz[p] \in DOMAIN sz
        PROVE FootAt(n, p + sz[p]) = sz[p]
    <3>. DEFINE x == p + sz[p]
    <3>1. FootAt(m, x) = sz[p] /\ sz[p] > 0 /\ sz[p] \in Nat
      BY <2>1, <2>3, HeapChunk DEF Words
    <3>2. x \in DOMAIN m.foot /\ m.foot[x] = sz[p]
      BY <3>1 DEF FootAt
    <3>3. p # m.top
      BY <2>3, HeapChunk
    <3>4. ~pinuse(m, x)
      BY <2>3, <3>3, HeapNext
    <3>. HIDE DEF x
    <3>5. x \in DOMAIN sz
      BY <2>3 DEF x
    <3>6. FootAt(n, x) = sz[p]
      BY <1>3, <3>2, <3>4, <3>5 DEF FootAt
    <3>. QED BY <3>6 DEF x
  <2>4. \A p \in DOMAIN sz \ {} : HeadIs(n, p, sz[p], p \in us, AfterUsed(sz, us, p))
    BY <2>2
  <2>. QED BY <2>3, <2>4 DEF Words
<1>7. Frame(n) /\ Segment(n) /\ Ends(n) = Ends(m)
  <2>1. SameBut(m, n, HeapFields)
    BY <1>3 DEF SameBut, HeapFields
  <2>. QED BY <1>1, <2>1, FrameSame
<1>8. n.dv = m.dv /\ n.dvsize = m.dvsize /\ n.top = m.top /\ n.topsize = m.topsize
  BY <1>3 DEF SameBut, Fields
<1>9. Laid(n, sz, us, {}, Ends(n))
  BY <1>1, <1>6, <1>7 DEF Laid
<1>10. Pieces(n, sz, us)
  BY <1>1, <1>7, <1>8 DEF Pieces
<1>11. Victim(n, sz, us, {})
  BY <1>1, <1>8 DEF Victim
<1>12. Bins(n, InBins(n, sz, us))
  <2>1. {"head", "foot"} \cap BinFields = {}
    BY DEF BinFields
  <2>2. Bins(n, InBins(m, sz, us))
    BY <1>1, <1>3, <2>1, BinsSame
  <2>3. InBins(n, sz, us) = InBins(m, sz, us)
    BY <1>8 DEF InBins
  <2>. QED BY <2>2, <2>3
<1>13. Heap(n, sz, us, {})
  BY <1>7, <1>9, <1>10, <1>11, <1>12 DEF Heap
<1>14. DOMAIN n.head = DOMAIN sz
  BY <1>3
<1>. QED BY <1>13, <1>14 DEF n

(* ... and keeps an allocator that has no memory.                          *)
LEMMA SettleBlank ==
  ASSUME NEW m, Blank(m)
  PROVE  Blank(Settle(m)) /\ Settle(m).contiguous = m.contiguous /\ Settle(m).limit = m.limit
<1>. DEFINE n == Settle(m)
<1>1. Chunks(m) = {} /\ DOMAIN m = Fields /\ Frame(m) /\ Bins(m, Nothing)
  BY BlankChunks, FrameFacts DEF Blank
<1>2. SameBut(m, n, {"head", "foot"}) /\ DOMAIN n.head = {} /\ DOMAIN n.foot = {}
  BY <1>1 DEF Settle, SameBut, Fields
<1>. HIDE DEF n
<1>3. Frame(n)
  <2>1. SameBut(m, n, HeapFields)
    BY <1>2 DEF SameBut, HeapFields
  <2>. QED BY <1>1, <2>1, FrameSame
<1>4. /\ n.brk = m.brk /\ n.top = m.top /\ n.topsize = m.topsize /\ n.dv = m.dv /\ n.dvsize = m.dvsize
      /\ n.seg = m.seg /\ n.contiguous = m.contiguous /\ n.limit = m.limit
  BY <1>2 DEF SameBut, Fields
<1>5. Bins(n, Nothing)
  <2>1. {"head", "foot"} \cap BinFields = {}
    BY DEF BinFields
  <2>. QED BY <1>1, <1>2, <2>1, BinsSame
<1>6. Blank(n)
  BY <1>2, <1>3, <1>4, <1>5 DEF Blank
<1>. QED BY <1>4, <1>6 DEF n

-----------------------------------------------------------------------------
(* dlrealloc.                                                              *)

(* A heap is not an allocator without memory.                              *)
LEMMA HeapNotBlank ==
  ASSUME NEW m, NEW sz, NEW us, Heap(m, sz, us, {})
  PROVE  ~Blank(m) /\ \A bytes : FitsNow(m, bytes)
<1>1. m.top # 0
  BY TopFacts DEF is_initialized
<1>. QED BY <1>1 DEF Blank, FitsNow

(* A failed realloc leaves the block.                                      *)
LEMMA MovedFailed ==
  ASSUME NEW n, NEW z, NEW us, Heap(n, z, us, {}), NEW sz, Kept(sz, us, z), NEW p, NEW k
  PROVE  Moved(Failed(n), sz, us, p, k)
<1>1. Kept(sz, us \ {p}, z)
  BY DEF Kept
<1>. QED BY <1>1 DEF Moved, Failed

(* A block that stays where it is.                                         *)
LEMMA MovedStays ==
  ASSUME NEW n, NEW z, NEW us, Heap(n, z, us, {}), NEW sz, NEW p, p \in us, Kept(sz, us \ {p}, z), NEW k, z[p] >= k
  PROVE  Moved([m |-> n, mem |-> chunk2mem(p)], sz, us, p, k)
<1>1. (us \ {p}) \cup {p} = us
  OBVIOUS
<1>2. p \in DOMAIN z \ (us \ {p})
  BY HeapUsed
<1>. QED BY <1>1, <1>2 DEF Moved

(* A block moved by dlmalloc and dlfree.                                   *)
LEMMA MovedAway ==
  ASSUME NEW m, NEW sz, NEW us, Heap(m, sz, us, {}), NEW p, p \in us, NEW bytes \in 0 .. MAX_SIZE_T,
         NEW mem, mem = chunk2mem(p)
  PROVE  Moved(MovedTo(dlmalloc(m, bytes), mem), sz, us, p, bytes + 4)
<1>. DEFINE r == dlmalloc(m, bytes)
            w == MovedTo(r, mem)
<1>1. Got(r, sz, us, bytes + 4)
  <2>1. Ready(m, sz, us) /\ FitsNow(m, bytes)
    BY HeapNotBlank, ReadyInitialized
  <2>. QED BY <2>1, dlmallocBytes
<1>2. w = IF r.mem # 0 THEN [m |-> dlfree(r.m, mem), mem |-> r.mem] ELSE r
  BY DEF MovedTo
<1>. HIDE DEF r, w
<1>3. PICK z : /\ Kept(sz, us, z)
               /\ \/ r.mem = 0 /\ Ready(r.m, z, us) /\ (z = Nothing => sz = Nothing)
                  \/ \E q \in DOMAIN z \ us : /\ r.mem = chunk2mem(q) /\ Heap(r.m, z, us \cup {q}, {})
                                              /\ z[q] >= bytes + 4
  BY <1>1 DEF Got
<1>4. Kept(sz, us \ {p}, z)
  BY <1>3 DEF Kept
<1>5. ASSUME r.mem = 0, Ready(r.m, z, us) PROVE Moved(w, sz, us, p, bytes + 4)
  <2>1. Heap(r.m, z, us, {})
    BY <1>5 DEF Ready
  <2>2. w = r
    BY <1>2, <1>5
  <2>. QED BY <1>3, <1>4, <1>5, <2>1, <2>2 DEF Moved
<1>6. ASSUME NEW q \in DOMAIN z \ us, r.mem = chunk2mem(q), Heap(r.m, z, us \cup {q}, {}), z[q] >= bytes + 4
      PROVE  Moved(w, sz, us, p, bytes + 4)
  <2>1. p \in us \cup {q} /\ q # p
    OBVIOUS
  <2>. DEFINE g == us \cup {q}
             c == r.m
  <2>9. Heap(c, z, g, {}) /\ p \in g
    BY <1>6, <2>1
  <2>10. \E y : Heap(dlfree(c, mem), y, g \ {p}, {}) /\ Kept(z, g \ {p}, y)
    <3>. HIDE DEF g, c
    <3>. QED BY <2>9, FreeHeap
  <2>2. PICK y : Heap(dlfree(r.m, mem), y, (us \cup {q}) \ {p}, {}) /\ Kept(z, (us \cup {q}) \ {p}, y)
    BY <2>10
  <2>3. (us \cup {q}) \ {p} = (us \ {p}) \cup {q}
    BY <2>1
  <2>4. r.mem # 0
    <3>1. q \in Nat
      BY <1>6, HeapChunk
    <3>. QED BY <3>1, <1>6, SizeFacts
  <2>5. w.m = dlfree(r.m, mem) /\ w.mem = chunk2mem(q)
    BY <1>2, <1>6, <2>4
  <2>6. y[q] >= bytes + 4 /\ q \in DOMAIN y \ (us \ {p})
    BY <2>1, <2>2, <2>3, <1>6 DEF Kept
  <2>7. Kept(sz, us \ {p}, y)
    BY <1>3, <2>1, <2>2 DEF Kept
  <2>8. Heap(w.m, y, (us \ {p}) \cup {q}, {})
    BY <2>2, <2>3, <2>5
  <2>. QED BY <2>5, <2>6, <2>7, <2>8 DEF Moved
<1>7. Moved(w, sz, us, p, bytes + 4)
  BY <1>3, <1>5, <1>6
<1>. QED BY <1>7 DEF w, r

(* dlrealloc moves the block, grows or shrinks it in place, or fails and   *)
(* leaves it; every other block stays.                                     *)
LEMMA dlreallocMoved ==
  ASSUME NEW m, NEW sz, NEW us, Heap(m, sz, us, {}), NEW p, p \in us, NEW bytes \in 0 .. MAX_SIZE_T
  PROVE  Moved(dlrealloc(m, chunk2mem(p), bytes), sz, us, p, bytes + 4)
<1>. DEFINE mem == chunk2mem(p)
            r == dlrealloc(m, mem, bytes)
            nb == request2size(bytes)
            s == sz[p]
            x == p + s
            shrunk == set_inuse(set_inuse(m, p, nb), p + nb, s - nb)
            left == s + m.topsize - nb
            grown == PutHead([set_inuse(m, p, nb) EXCEPT !.top = p + nb, !.topsize = left],
                             p + nb, left, FALSE, TRUE)
            k == bytes + 4
<1>1. p \in DOMAIN sz /\ p \in Nat /\ p >= HeapBase /\ sz[p] \in Nat /\ sz[p] > 0 /\ p # m.top
  BY HeapUsed, HeapChunk
<1>2. chunksize(m, p) = s /\ cinuse(m, p) /\ pinuse(m, x) /\ p < x /\ m.topsize \in Nat
  <2>1. p \notin {} /\ p + sz[p] \notin {}
    OBVIOUS
  <2>2. chunksize(m, p) = s /\ cinuse(m, p)
    BY <1>1, <2>1, HeapHead
  <2>3. pinuse(m, x)
    BY <1>1, <2>1, HeapNext
  <2>. QED BY <1>1, <2>2, <2>3, TopFacts
<1>3. mem2chunk(mem) = p /\ mem # 0
  BY <1>1, SizeFacts
<1>4. ok_address(m, p) /\ ok_next(p, x)
  <2>1. m.least_addr = HeapBase
    BY DEF Heap, Segment
  <2>. QED BY <1>1, <1>2, <2>1 DEF ok_address, ok_next
<1>5. r = IF bytes >= MAX_REQUEST THEN Failed(m)
          ELSE IF s >= nb
            THEN [m |-> IF s - nb >= MIN_CHUNK_SIZE THEN dlfree(shrunk, chunk2mem(p + nb)) ELSE m, mem |-> mem]
          ELSE IF x = m.top /\ s + m.topsize > nb THEN [m |-> grown, mem |-> mem]
          ELSE MovedTo(dlmalloc(m, bytes), mem)
  <2>. HIDE DEF mem
  <2>1. r = LET next == p + chunksize(m, p)
                nb1 == request2size(bytes)
                shr == set_inuse(set_inuse(m, p, nb1), p + nb1, chunksize(m, p) - nb1)
                lft == chunksize(m, p) + m.topsize - nb1
                grw == PutHead([set_inuse(m, p, nb1) EXCEPT !.top = p + nb1, !.topsize = lft],
                               p + nb1, lft, FALSE, TRUE)
            IN IF mem = 0 THEN dlmalloc(m, bytes)
               ELSE IF bytes >= MAX_REQUEST THEN Failed(m)
               ELSE IF ~(/\ ok_address(m, p) /\ cinuse(m, p) /\ ok_next(p, next) /\ pinuse(m, next))
                 THEN Failed(Aborted(m))
               ELSE IF chunksize(m, p) >= nb1
                 THEN [m |-> IF chunksize(m, p) - nb1 >= MIN_CHUNK_SIZE THEN dlfree(shr, chunk2mem(p + nb1)) ELSE m,
                       mem |-> mem]
               ELSE IF next = m.top /\ chunksize(m, p) + m.topsize > nb1 THEN [m |-> grw, mem |-> mem]
               ELSE MovedTo(dlmalloc(m, bytes), mem)
    BY <1>3 DEF dlrealloc
  <2>. QED BY <1>2, <1>3, <1>4, <2>1
<1>. HIDE DEF r, mem
<1>18. \A n, y : Heap(n, y, us, {}) /\ Kept(sz, us \ {p}, y) /\ y[p] >= k =>
                   Moved([m |-> n, mem |-> mem], sz, us, p, k)
  BY MovedStays DEF mem
<1>. HIDE DEF k
<1>6. ASSUME bytes >= MAX_REQUEST PROVE Moved(r, sz, us, p, k)
  <2>1. Kept(sz, us, sz)
    BY HeapUsed, KeptAll
  <2>2. r = Failed(m)
    BY <1>5, <1>6
  <2>. QED BY <2>1, <2>2, MovedFailed
<1>7. ASSUME bytes < MAX_REQUEST PROVE Moved(r, sz, us, p, k)
  <2>1. nb \in Nat /\ nb % 8 = 0 /\ nb >= 16 /\ nb >= k
    BY <1>7, PadFacts DEF k
  <2>2. r = IF s >= nb
              THEN [m |-> IF s - nb >= MIN_CHUNK_SIZE THEN dlfree(shrunk, chunk2mem(p + nb)) ELSE m, mem |-> mem]
            ELSE IF x = m.top /\ s + m.topsize > nb THEN [m |-> grown, mem |-> mem]
            ELSE MovedTo(dlmalloc(m, bytes), mem)
    <3>. HIDE DEF nb, s, x, shrunk, grown
    <3>. QED BY <1>5, <1>7, SizeFacts, WordFacts
  <2>3. ASSUME s >= nb, s - nb >= MIN_CHUNK_SIZE PROVE Moved(r, sz, us, p, k)
    <3>1. r = [m |-> dlfree(shrunk, chunk2mem(p + nb)), mem |-> mem]
      <4>. HIDE DEF nb, s, x, shrunk, grown
      <4>. QED BY <2>2, <2>3
    <3>2. nb + 16 <= sz[p]
      BY <1>1, <2>1, <2>3, SizeFacts
    <3>3. Moved([m |-> dlfree(set_inuse(set_inuse(m, p, nb), p + nb, s - nb), chunk2mem(p + nb)), mem |-> mem],
                sz, us, p, k)
      <4>. DEFINE e == s - nb
      <4>1. e = sz[p] - nb /\ mem = chunk2mem(p)
        BY DEF mem
      <4>. HIDE DEF e, nb
      <4>2. Moved([m |-> dlfree(set_inuse(set_inuse(m, p, nb), p + nb, e), chunk2mem(p + nb)), mem |-> mem],
                  sz, us, p, k)
        BY <2>1, <3>2, <4>1, ShrunkMoved
      <4>. QED BY <4>2 DEF e
    <3>. QED BY <3>1, <3>3
  <2>4. ASSUME s >= nb, ~(s - nb >= MIN_CHUNK_SIZE) PROVE Moved(r, sz, us, p, k)
    <3>1. r = [m |-> m, mem |-> mem]
      <4>. HIDE DEF nb, s, x, shrunk, grown
      <4>. QED BY <2>2, <2>4
    <3>2. Kept(sz, us \ {p}, sz) /\ sz[p] >= k
      <4>1. sz[p] >= k
        <5>1. sz[p] >= nb
          BY <2>4
        <5>2. k \in Nat
          BY DEF k
        <5>. HIDE DEF nb
        <5>. QED BY <5>1, <5>2, <1>1, <2>1
      <4>. QED BY <4>1, HeapUsed DEF Kept
    <3>. QED BY <1>18, <3>1, <3>2
  <2>5. ASSUME s < nb, x = m.top, s + m.topsize > nb PROVE Moved(r, sz, us, p, k)
    <3>1. r = [m |-> grown, mem |-> mem]
      <4>1. ~(s >= nb)
        BY <1>1, <2>1, <2>5
      <4>. HIDE DEF nb, s, x, shrunk, grown
      <4>. QED BY <2>2, <2>5, <4>1
    <3>2. Grows(m, sz, us, p, nb)
      <4>1. p + sz[p] = m.top /\ nb > sz[p] /\ nb < sz[p] + m.topsize
        BY <1>1, <1>2, <2>1, <2>5
      <4>. HIDE DEF nb
      <4>. QED BY <2>1, <4>1 DEF Grows
    <3>3. Regrown(grown, sz, us, p, nb)
      <4>. DEFINE l == left
      <4>1. l = sz[p] + m.topsize - nb
        OBVIOUS
      <4>. HIDE DEF l, nb
      <4>2. Regrown(PutHead([set_inuse(m, p, nb) EXCEPT !.top = p + nb, !.topsize = l],
                            p + nb, l, FALSE, TRUE), sz, us, p, nb)
        BY <3>2, <4>1, GrownHeap
      <4>. QED BY <4>2 DEF l
    <3>. HIDE DEF grown
    <3>4. PICK z : Heap(grown, z, us, {}) /\ p \in DOMAIN z /\ z[p] = nb /\ Kept(sz, us \ {p}, z)
      BY <3>3 DEF Regrown
    <3>. QED BY <1>18, <2>1, <3>1, <3>4
  <2>6. ASSUME s < nb, ~(x = m.top /\ s + m.topsize > nb) PROVE Moved(r, sz, us, p, k)
    <3>1. r = MovedTo(dlmalloc(m, bytes), mem)
      <4>1. ~(s >= nb)
        BY <1>1, <2>1, <2>6
      <4>. HIDE DEF nb, s, x, shrunk, grown
      <4>. QED BY <2>2, <2>6, <4>1
    <3>2. mem = chunk2mem(p)
      BY DEF mem
    <3>3. Moved(MovedTo(dlmalloc(m, bytes), mem), sz, us, p, bytes + 4)
      BY <3>2, MovedAway
    <3>. QED BY <3>1, <3>3 DEF k
  <2>7. s >= nb \/ s < nb
    BY <1>1, <2>1
  <2>. QED BY <2>3, <2>4, <2>5, <2>6, <2>7
<1>8. bytes >= MAX_REQUEST \/ bytes < MAX_REQUEST
  BY SizeFacts, WordFacts
<1>9. Moved(r, sz, us, p, k)
  BY <1>6, <1>7, <1>8
<1>. QED BY <1>9 DEF r, mem, k

-----------------------------------------------------------------------------
(* Aligned blocks.                                                         *)

(* A heap in which u and the chunk q of k bytes are in use; us is the part *)
(* of u that was there before.                                             *)
Holds(n, sz, us, u, q, k) ==
  \E y : /\ Heap(n, y, u \cup {q}, {}) /\ q \notin u /\ us \subseteq u /\ Kept(sz, us, y) /\ y[q] = k

(* The same promise of a chunk that need not follow a chunk in use.        *)
Had(r, sz, us, nb) ==
  \E z : /\ Kept(sz, us, z)
         /\ \/ r.mem = 0 /\ Ready(r.m, z, us) /\ (z = Nothing => sz = Nothing)
            \/ \E p \in DOMAIN z \ us : /\ r.mem = chunk2mem(p) /\ Heap(r.m, z, us \cup {p}, {})
                                        /\ z[p] >= nb

(* A block that holds more holds less.                                     *)
LEMMA HadWeaken ==
  ASSUME NEW r, NEW sz, NEW us, NEW nb, Had(r, sz, us, nb), NEW k,
         \A s \in Nat : s >= nb /\ s < HALF_MAX_SIZE_T => s >= k
  PROVE  Had(r, sz, us, k)
<1>1. PICK y : /\ Kept(sz, us, y)
               /\ \/ r.mem = 0 /\ Ready(r.m, y, us) /\ (y = Nothing => sz = Nothing)
                  \/ \E p \in DOMAIN y \ us : /\ r.mem = chunk2mem(p) /\ Heap(r.m, y, us \cup {p}, {})
                                              /\ y[p] >= nb
  BY DEF Had
<1>2. CASE r.mem = 0 /\ Ready(r.m, y, us) /\ (y = Nothing => sz = Nothing)
  BY <1>1, <1>2 DEF Had
<1>3. ASSUME NEW p \in DOMAIN y \ us, r.mem = chunk2mem(p), Heap(r.m, y, us \cup {p}, {}), y[p] >= nb
      PROVE Had(r, sz, us, k)
  <2>1. y[p] >= k
    BY <1>3, HeapSmaller
  <2>. QED BY <1>1, <1>3, <2>1 DEF Had
<1>. QED BY <1>1, <1>2, <1>3

(* What dlmalloc hands out is a block of the heap.                         *)
LEMMA GotHad ==
  ASSUME NEW r, NEW sz, NEW us, NEW nb, Got(r, sz, us, nb)
  PROVE  Had(r, sz, us, nb)
BY DEF Got, Had

(* A block alone in use is one handed out.                                 *)
LEMMA HoldsGot ==
  ASSUME NEW n, NEW sz, NEW us, NEW q, NEW k, Holds(n, sz, us, us, q, k), NEW j, k >= j
  PROVE  Had([m |-> n, mem |-> chunk2mem(q)], sz, us, j)
<1>1. PICK y : /\ Heap(n, y, us \cup {q}, {}) /\ q \notin us /\ Kept(sz, us, y) /\ y[q] = k
  BY DEF Holds
<1>2. q \in DOMAIN y
  BY <1>1, HeapUsed
<1>. QED BY <1>1, <1>2 DEF Had

(* The parts that an aligned block does not need are freed.                *)
LEMMA HoldsFree ==
  ASSUME NEW n, NEW sz, NEW us, NEW u, NEW q, NEW k, Holds(n, sz, us, u, q, k),
         NEW x, x \in u, x \notin us, NEW mem, mem = chunk2mem(x)
  PROVE  Holds(dlfree(n, mem), sz, us, u \ {x}, q, k)
<1>1. PICK y : /\ Heap(n, y, u \cup {q}, {}) /\ q \notin u /\ us \subseteq u /\ Kept(sz, us, y) /\ y[q] = k
  BY DEF Holds
<1>. DEFINE g == u \cup {q}
<1>2. x \in g /\ Heap(n, y, g, {})
  BY <1>1
<1>3. \E z : Heap(dlfree(n, mem), z, g \ {x}, {}) /\ Kept(y, g \ {x}, z)
  <2>. HIDE DEF g
  <2>. QED BY <1>2, FreeHeap
<1>4. PICK z : Heap(dlfree(n, mem), z, g \ {x}, {}) /\ Kept(y, g \ {x}, z)
  BY <1>3
<1>5. g \ {x} = (u \ {x}) \cup {q}
  BY <1>1
<1>6. Kept(sz, us, z) /\ z[q] = k
  BY <1>1, <1>4 DEF Kept
<1>7. q \notin u \ {x} /\ us \subseteq u \ {x}
  BY <1>1
<1>. QED BY <1>4, <1>5, <1>6, <1>7 DEF Holds

(* The end of a block cut off.                                             *)
LEMMA HoldsCut ==
  ASSUME NEW n, NEW sz, NEW us, NEW u, NEW q, NEW k, Holds(n, sz, us, u, q, k),
         NEW nb \in Nat, nb % 8 = 0, nb >= 16, nb + 16 <= k, NEW s, s = k - nb
  PROVE  /\ Holds(set_inuse(set_inuse(n, q, nb), q + nb, s), sz, us, u \cup {q + nb}, q, nb)
         /\ q + nb \notin us
<1>1. PICK y : /\ Heap(n, y, u \cup {q}, {}) /\ q \notin u /\ us \subseteq u /\ Kept(sz, us, y) /\ y[q] = k
  BY DEF Holds
<1>. DEFINE g == u \cup {q}
            z == Split(y, q, nb)
            c == set_inuse(set_inuse(n, q, nb), q + nb, s)
<1>2. q \in g /\ Heap(n, y, g, {}) /\ nb + 16 <= y[q] /\ s = y[q] - nb
  BY <1>1
<1>3. Heap(c, z, g \cup {q + nb}, {}) /\ q + nb \notin DOMAIN y
  <2>. HIDE DEF g
  <2>. QED BY <1>2, CutBack
<1>4. u \subseteq DOMAIN y /\ q \in DOMAIN y /\ q \in Nat
  BY <1>2, HeapUsed, HeapChunk
<1>5. DOMAIN z = DOMAIN y \cup {q + nb} /\ z[q] = nb /\ \A x \in DOMAIN y : x # q => z[x] = y[x]
  BY <1>3, <1>4 DEF Split
<1>. HIDE DEF z, c
<1>6. g \cup {q + nb} = (u \cup {q + nb}) \cup {q}
  OBVIOUS
<1>7. q + nb \notin us /\ q \notin u \cup {q + nb} /\ us \subseteq u \cup {q + nb}
  BY <1>1, <1>3, <1>4
<1>8. Kept(sz, us, z)
  BY <1>1, <1>4, <1>5 DEF Kept
<1>9. Holds(c, sz, us, u \cup {q + nb}, q, nb)
  BY <1>3, <1>5, <1>6, <1>7, <1>8 DEF Holds
<1>. QED BY <1>7, <1>9 DEF c

(* The front of a block cut off.                                           *)
LEMMA HoldsLed ==
  ASSUME NEW n, NEW z, NEW us, NEW p, Heap(n, z, us \cup {p}, {}), p \notin us, NEW sz, Kept(sz, us, z),
         NEW d \in Nat, d % 8 = 0, d >= 16, d + 16 <= z[p], NEW s, s = z[p] - d, NEW q, q = p + d
  PROVE  Holds(set_inuse(set_inuse(n, q, s), p, d), sz, us, us \cup {p}, q, s)
<1>. DEFINE g == us \cup {p}
            y == Split(z, p, d)
            c == set_inuse(set_inuse(n, q, s), p, d)
<1>1. p \in g /\ Heap(n, z, g, {})
  OBVIOUS
<1>2. Heap(set_inuse(set_inuse(n, p + d, s), p, d), y, g \cup {p + d}, {}) /\ p + d \notin DOMAIN z
  <2>. HIDE DEF g
  <2>. QED BY <1>1, CutFront
<1>3. Heap(c, y, g \cup {q}, {}) /\ q \notin DOMAIN z
  BY <1>2
<1>4. g \subseteq DOMAIN z /\ p \in DOMAIN z /\ p \in Nat
  BY <1>1, HeapUsed, HeapChunk
<1>5. DOMAIN y = DOMAIN z \cup {q} /\ y[q] = s /\ \A x \in DOMAIN z : x # p => y[x] = z[x]
  <2>1. q # p
    BY <1>4
  <2>. QED BY <1>3, <1>4, <2>1 DEF Split
<1>. HIDE DEF y, c
<1>6. q \notin g /\ us \subseteq g
  BY <1>3, <1>4
<1>7. Kept(sz, us, y)
  BY <1>4, <1>5 DEF Kept
<1>8. Holds(c, sz, us, g, q, s)
  BY <1>3, <1>5, <1>6, <1>7 DEF Holds
<1>. QED BY <1>8 DEF c

(* An allocator that has no memory yet and has not yet asked the break.    *)
Untouched(m) == Blank(m) /\ m.contiguous

(* An allocator with memory keeps it.                                      *)
LEMMA HadNotBlank ==
  ASSUME NEW r, NEW z, NEW us, NEW nb, Had(r, z, us, nb), z # Nothing
  PROVE  ~Blank(r.m)
<1>1. PICK y : /\ Kept(z, us, y)
               /\ \/ r.mem = 0 /\ Ready(r.m, y, us) /\ (y = Nothing => z = Nothing)
                  \/ \E p \in DOMAIN y \ us : /\ r.mem = chunk2mem(p) /\ Heap(r.m, y, us \cup {p}, {})
                                              /\ y[p] >= nb
  BY DEF Had
<1>2. \E u : Heap(r.m, y, u, {})
  BY <1>1 DEF Ready
<1>. QED BY <1>2, HeapNotBlank

(* An allocator with memory keeps it.                                      *)
LEMMA GotNotBlank ==
  ASSUME NEW r, NEW z, NEW us, NEW nb, Got(r, z, us, nb), z # Nothing
  PROVE  ~Blank(r.m)
BY GotHad, HadNotBlank

(* A call on it either gets memory or gives up extending the segment.      *)
LEMMA FirstWayTouches ==
  ASSUME NEW m, Frame(m), NEW nb, LET a == FirstWay(m, nb) IN a.tbase = CMFAIL
  PROVE  FirstWay(m, nb).m.contiguous = FALSE
<1>1. DOMAIN m = Fields /\ m.contiguous \in BOOLEAN
  BY DEF Frame
<1>2. CASE m.contiguous
  <2>1. FirstWay(m, nb) = MoreContiguous(m, nb)
    BY <1>2 DEF FirstWay
  <2>2. [m EXCEPT !.contiguous = FALSE].contiguous = FALSE
    BY <1>1 DEF Fields
  <2>3. \/ MoreContiguous(m, nb).m = [m EXCEPT !.contiguous = FALSE]
        \/ MoreContiguous(m, nb).tbase # CMFAIL
    BY DEF MoreContiguous
  <2>. QED BY <2>1, <2>2, <2>3
<1>3. CASE ~m.contiguous
  BY <1>1, <1>3 DEF FirstWay
<1>. QED BY <1>2, <1>3

(* The second way of sys_alloc leaves the contiguous flag.                 *)
LEMMA AnywhereKeeps ==
  ASSUME NEW m, DOMAIN m = Fields, NEW nb
  PROVE  MoreAnywhere(m, nb).m.contiguous = m.contiguous
<1>1. \A d : sbrk(m, d).m.contiguous = m.contiguous
  BY DEF sbrk, Fields
<1>. QED BY <1>1 DEF MoreAnywhere

(* An allocator that gets memory is no longer without.                     *)
LEMMA WithMemoryBlank ==
  ASSUME NEW m, Blank(m), NEW r, Extended(m, r), r.tbase # CMFAIL, NEW nb, Asked(nb)
  PROVE  ~Blank(WithMemory(r, nb).m)
<1>1. /\ SameBut(m, r.m, {"brk", "contiguous"}) /\ r.m.contiguous \in BOOLEAN
      /\ r.tbase = HeapBase + m.brk /\ r.tsize \in Nat /\ r.tsize % 8 = 0
      /\ r.m.brk = m.brk + r.tsize /\ r.m.brk <= m.limit
      /\ (~is_initialized(m) => r.tsize > 40)
  BY DEF Extended
<1>. DEFINE t == r.tsize
            n == AddMemory(r.m, r.tbase, t)
            z == [p \in {HeapBase} |-> t - 40]
<1>2. m.brk = 0 /\ m.top = 0 /\ HeapBase \in Nat
  BY FrameFacts DEF Blank
<1>3. r.tbase = HeapBase /\ t > 40 /\ r.m.brk = t /\ t <= m.limit /\ t \in Nat /\ t % 8 = 0
  BY <1>1, <1>2 DEF is_initialized
<1>4. n = AddMemory(r.m, HeapBase, t)
  BY <1>3
<1>5. WithMemory(r, nb) = FromTop(n, nb)
  BY DEF WithMemory
<1>. HIDE DEF n, t
<1>6. Heap(AddMemory(r.m, HeapBase, t), z, {}, {})
  BY <1>1, <1>3, AddFirst
<1>. HIDE DEF z
<1>7. Got(FromTop(n, nb), z, {}, nb)
  BY <1>4, <1>6, FromTopGot
<1>8. ~Blank(FromTop(n, nb).m)
  BY <1>6, <1>7, HeapSome, GotNotBlank
<1>. QED BY <1>5, <1>8

(* A first sys_alloc gets memory or clears the contiguous flag.            *)
LEMMA sys_allocTouches ==
  ASSUME NEW m, Blank(m), NEW nb, Asked(nb), FirstFits(m, nb)
  PROVE  ~Untouched(sys_alloc(m, nb).m)
<1>. DEFINE a == FirstWay(m, nb)
            b == OrAnywhere(a, nb)
<1>1. Frame(m) /\ ~is_initialized(m) /\ m.brk = 0
  BY DEF Blank, is_initialized
<1>2. Extended(m, a)
  <2>1. Ready(m, Nothing, {})
    BY DEF Ready
  <2>. QED BY <2>1, FirstWayExtended
<1>3. a.tbase = CMFAIL => a.m.contiguous = FALSE
  BY <1>1, FirstWayTouches
<1>. HIDE DEF a
<1>4. Extended(m, b) /\ (b.tbase = CMFAIL => b.m.contiguous = FALSE)
  <2>1. CASE a.tbase = CMFAIL
    <3>1. SameBut(m, a.m, {"contiguous"})
      BY <1>1, <1>2, <2>1, FirstWayFailed
    <3>2. Frame(a.m)
      BY <1>1, <1>2, <2>1, FirstWayFailed
    <3>3. Extended(a.m, MoreAnywhere(a.m, nb))
      BY <3>2, MoreAnywhereExtended
    <3>4. MoreAnywhere(a.m, nb).m.contiguous = FALSE
      BY <1>3, <2>1, <3>2, AnywhereKeeps DEF Frame
    <3>. QED BY <2>1, <3>1, <3>3, <3>4, ExtendedTwice DEF OrAnywhere
  <2>2. CASE a.tbase # CMFAIL
    BY <1>2, <2>2 DEF OrAnywhere
  <2>. QED BY <2>1, <2>2
<1>. HIDE DEF b
<1>5. ~Untouched(WithMemory(b, nb).m)
  <2>1. CASE b.tbase = CMFAIL
    BY <1>4, <2>1 DEF WithMemory, Failed, Untouched
  <2>2. CASE b.tbase # CMFAIL
    BY <1>4, <2>2, WithMemoryBlank DEF Untouched
  <2>. QED BY <2>1, <2>2
<1>. QED BY <1>5 DEF sys_alloc, a, b

(* dlmalloc of an allocator without memory asks the break at once.         *)
LEMMA BlankMalloc ==
  ASSUME NEW m, Blank(m), NEW bytes \in 0 .. MAX_SIZE_T
  PROVE  dlmalloc(m, bytes) = sys_alloc(m, Padded(bytes))
<1>. DEFINE nb == Padded(bytes)
<1>1. m.smallmap = {} /\ m.treemap = {} /\ m.dvsize = 0 /\ m.topsize = 0
  BY BlankBins DEF Blank
<1>2. Asked(nb) /\ nb \in Nat /\ nb >= 16
  BY PaddedFacts
<1>3. /\ bytes \in Nat /\ MAX_REQUEST = WordRange - 64 /\ WordRange \in Nat /\ WordRange >= 4096
      /\ MIN_CHUNK_SIZE = 16 /\ MIN_REQUEST = 11
      /\ MAX_SIZE_T = WordRange - 1
  BY SizeFacts, WordFacts
<1>4. MAX_SMALL_REQUEST = MIN_LARGE_SIZE - 12
  BY SizeFacts, MinLarge DEF MAX_SMALL_REQUEST
<1>5. MIN_LARGE_SIZE >= 32 /\ 2 * MIN_LARGE_SIZE <= WordRange /\ MIN_LARGE_SIZE \in Nat
  BY MinLarge
<1>6. \A k \in Nat : k > 0 => FromRest(m, k) = sys_alloc(m, k)
  BY <1>1 DEF FromRest
<1>7. \A k : MallocSmall(m, k) = FromRest(m, k)
  BY <1>1 DEF MallocSmall
<1>8. \A k : MallocLarge(m, k) = FromRest(m, k)
  BY <1>1 DEF MallocLarge, OrFromRest, Failed
<1>9. bytes < MAX_REQUEST => nb = request2size(bytes)
  BY <1>3 DEF Padded
<1>10. bytes >= MAX_REQUEST => nb = MAX_SIZE_T
  BY DEF Padded
<1>. HIDE DEF nb
<1>11. CASE bytes <= MAX_SMALL_REQUEST
  <2>1. bytes < MAX_REQUEST
    BY <1>3, <1>4, <1>5, <1>11
  <2>2. dlmalloc(m, bytes) = MallocSmall(m, nb)
    BY <1>9, <1>11, <2>1 DEF dlmalloc, request2size
  <2>. QED BY <2>2, <1>2, <1>6, <1>7 DEF nb
<1>12. CASE ~(bytes <= MAX_SMALL_REQUEST) /\ bytes >= MAX_REQUEST
  BY <1>2, <1>6, <1>10, <1>12 DEF dlmalloc, nb
<1>13. CASE ~(bytes <= MAX_SMALL_REQUEST) /\ ~(bytes >= MAX_REQUEST)
  <2>1. bytes < MAX_REQUEST /\ ~(bytes < MIN_REQUEST)
    BY <1>3, <1>4, <1>5, <1>13
  <2>2. dlmalloc(m, bytes) = MallocLarge(m, nb)
    BY <1>9, <1>13, <2>1 DEF dlmalloc, request2size
  <2>. QED BY <2>2, <1>2, <1>6, <1>8 DEF nb
<1>. QED BY <1>11, <1>12, <1>13

(* A first dlmalloc leaves the allocator touched.                          *)
LEMMA dlmallocTouches ==
  ASSUME NEW m, Blank(m), NEW bytes \in 0 .. MAX_SIZE_T, FitsNow(m, bytes)
  PROVE  ~Untouched(dlmalloc(m, bytes).m)
<1>1. Asked(Padded(bytes))
  BY PaddedFacts
<1>2. FirstFits(m, Padded(bytes))
  BY FitsFirstFacts DEF FirstFits, FitsNow, Blank
<1>. QED BY <1>1, <1>2, BlankMalloc, sys_allocTouches

(* A call that leaves the allocator untouched did nothing.                 *)
Begun(m, n) == Untouched(n) => n = m

(* dlmalloc touches the allocator it starts from.                          *)
LEMMA BegunMalloc ==
  ASSUME NEW m, NEW sz, NEW us, Ready(m, sz, us), NEW bytes \in 0 .. MAX_SIZE_T, FitsNow(m, bytes)
  PROVE  Begun(m, dlmalloc(m, bytes).m)
<1>1. CASE Heap(m, sz, us, {})
  BY <1>1, HeapSome, dlmallocBytes, GotNotBlank DEF Begun, Untouched
<1>2. CASE Blank(m)
  BY <1>2, dlmallocTouches DEF Begun
<1>. QED BY <1>1, <1>2 DEF Ready

(* dlcalloc touches the allocator it starts from.                          *)
LEMMA BegunCalloc ==
  ASSUME NEW m, NEW sz, NEW us, Ready(m, sz, us), NEW n \in 0 .. MAX_SIZE_T, NEW size \in 0 .. MAX_SIZE_T,
         FitsNow(m, n * size)
  PROVE  Begun(m, dlcalloc(m, n, size).m)
<1>. DEFINE half == 2^(SIZE_T_BITSIZE \div 2)
            prod == n * size
            req == Word(prod)
            r == IF n # 0 /\ (n >= half \/ size >= half) /\ req \div n # size THEN MAX_SIZE_T ELSE req
<1>1. /\ r \in 0 .. MAX_SIZE_T /\ prod \in Nat /\ (r = MAX_SIZE_T \/ r = prod)
      /\ (prod < MAX_SIZE_T => r = prod)
  BY CallocSize
<1>2. dlcalloc(m, n, size) = dlmalloc(m, r)
  BY DEF dlcalloc
<1>. HIDE DEF r
<1>3. WordRange \in Nat /\ MAX_SIZE_T = WordRange - 1 /\ WordRange >= 4096 /\ MAX_REQUEST = WordRange - 64
      /\ HALF_MAX_SIZE_T \in Nat /\ 2 * HALF_MAX_SIZE_T = WordRange - 2
  BY WordFacts, SizeFacts
<1>4. FitsNow(m, r)
  <2>1. FitsNow(m, prod)
    OBVIOUS
  <2>. HIDE DEF prod
  <2>2. FitsFirst(prod) => FitsFirst(r)
    BY <1>1, <1>3 DEF FitsFirst
  <2>. QED BY <2>1, <2>2 DEF FitsNow
<1>5. Begun(m, dlmalloc(m, r).m)
  BY <1>1, <1>4, BegunMalloc
<1>. QED BY <1>2, <1>5

(* A block handed out lies in some tiling.                                 *)
LEMMA GotSomewhere ==
  ASSUME NEW r, NEW sz, NEW us, NEW nb, Got(r, sz, us, nb), r.mem # 0
  PROVE  \E z : Got(r, z, us, nb) /\ z # Nothing /\ Kept(sz, us, z)
<1>1. PICK z : /\ Kept(sz, us, z)
               /\ \E p \in DOMAIN z \ us : /\ r.mem = chunk2mem(p) /\ Heap(r.m, z, us \cup {p}, {})
                                           /\ z[p] >= nb /\ AfterUsed(z, us \cup {p}, p)
  BY DEF Got
<1>2. z # Nothing
  BY <1>1, HeapSome
<1>3. us \subseteq DOMAIN z
  BY <1>1, HeapUsed
<1>4. Kept(z, us, z)
  BY <1>3 DEF Kept
<1>5. Got(r, z, us, nb)
  BY <1>1, <1>4 DEF Got
<1>. QED BY <1>1, <1>2, <1>5

Lead(M, a, B, p, q) ==
  /\ M \in Nat /\ M % 8 = 0 /\ a \in Nat /\ a % 8 = 0 /\ a >= 16 /\ M % a # 0
  /\ B = AlignDown(M + a - 1, a) /\ p \in Int /\ M = p + 8
  /\ q = IF (B - 8) - p >= 16 THEN B - 8 ELSE (B - 8) + a

(* The aligned address inside a block leaves a chunk, or nothing, before   *)
(* it.                                                                     *)
LEMMA LeadFacts ==
  ASSUME NEW M, NEW a, NEW B, NEW p, NEW q, Lead(M, a, B, p, q)
  PROVE  /\ q - p \in Nat /\ (q - p) % 8 = 0 /\ q - p >= 16 /\ q - p <= a + 8 /\ q = p + (q - p)
         /\ (q + 8) % a = 0 /\ q \in Int
<1>. USE DEF Lead
<1>. DEFINE x == M + a - 1
<1>1. x \in Nat /\ a > 0
  OBVIOUS
<1>2. B \in Nat /\ B <= x /\ B > x - a /\ B % a = 0
  <2>. HIDE DEF x
  <2>1. AlignDown(x, a) \in Nat /\ AlignDown(x, a) <= x /\ AlignDown(x, a) > x - a /\ AlignDown(x, a) % a = 0
    BY <1>1, AlignDownFacts
  <2>. QED BY <2>1 DEF x
<1>3. B # M
  BY <1>2
<1>4. B % 8 = 0
  BY <1>1, <1>2, MultipleOfMultiple
<1>5. B > M /\ B < M + a
  BY <1>2, <1>3
<1>6. (B + a) % a = 0
  <2>. DEFINE k == B \div a
  <2>1. k \in Int /\ B = a * k + 0
    BY <1>1, <1>2, DivMod
  <2>. DEFINE y == B + a
             j == k + 1
  <2>2. y = a * j + 0 /\ y \in Int /\ j \in Int /\ 0 \in 0 .. a - 1
    <3>. HIDE DEF k
    <3>1. a * (k + 1) = a * k + a
      BY <2>1
    <3>. QED BY <2>1, <3>1, <1>2
  <2>. HIDE DEF y, j, k
  <2>3. y % a = 0
    BY <1>1, <2>2, ModUnique
  <2>. QED BY <2>3 DEF y
<1>7. CASE (B - 8) - p >= 16
  <2>1. q = B - 8
    BY <1>7
  <2>2. q + 8 = B
    BY <2>1, <1>2
  <2>3. (q + 8) % a = 0
    BY <2>2, <1>2
  <2>4. q - p = B - M
    BY <2>1, <1>2
  <2>5. (B - M) % 8 = 0
    BY <1>2, <1>4
  <2>. QED BY <2>1, <2>3, <2>4, <2>5, <1>2, <1>5, <1>7
<1>8. CASE ~((B - 8) - p >= 16)
  <2>1. q = (B - 8) + a
    BY <1>8
  <2>2. q + 8 = B + a
    BY <2>1, <1>2
  <2>3. (q + 8) % a = 0
    BY <2>2, <1>6
  <2>4. q - p = (B - M) + a
    BY <2>1, <1>2
  <2>5. ((B - M) + a) % 8 = 0 /\ (B - M) % 8 = 0
    BY <1>2, <1>4
  <2>6. B - M = 8
    BY <1>2, <1>4, <1>5, <1>8, <2>5
  <2>. QED BY <2>1, <2>3, <2>4, <2>5, <2>6, <1>2, <1>5
<1>. QED BY <1>7, <1>8

(* Zero is a multiple of everything.                                       *)
LEMMA ZeroMod ==
  ASSUME NEW a \in Nat, a > 0
  PROVE  0 % a = 0
<1>1. 0 = a * 0 + 0 /\ 0 \in 0 .. a - 1
  OBVIOUS
<1>. QED BY <1>1, ModUnique

(* What follows the lead: the spare part is cut off, then what was before  *)
(* and what comes after is freed.                                          *)
LEMMA AlignedRest ==
  ASSUME NEW led, NEW sz, NEW us, NEW u, NEW p, NEW q, NEW s \in Nat, Holds(led, sz, us, u, q, s),
         p \notin us, NEW front \in BOOLEAN, p \in Nat, front => p < q, u = IF front THEN us \cup {p} ELSE us,
         NEW mem, mem = chunk2mem(p), NEW nb \in Nat, nb % 8 = 0, nb >= 16, nb <= s, q \in Nat
  PROVE  LET spare == s > nb + MIN_CHUNK_SIZE
             cut == IF spare THEN set_inuse(set_inuse(led, q, nb), q + nb, s - nb) ELSE led
             trimmed == dlfree(cut, IF ~front THEN 0 ELSE mem)
         IN Had([m |-> dlfree(trimmed, IF spare THEN chunk2mem(q + nb) ELSE 0), mem |-> chunk2mem(q)],
                sz, us, nb)
<1>. DEFINE spare == s > nb + MIN_CHUNK_SIZE
            e == s - nb
            cut == IF spare THEN set_inuse(set_inuse(led, q, nb), q + nb, e) ELSE led
            k == IF spare THEN nb ELSE s
            v == IF spare THEN {q + nb} ELSE {}
            trimmed == dlfree(cut, IF ~front THEN 0 ELSE mem)
            n == dlfree(trimmed, IF spare THEN chunk2mem(q + nb) ELSE 0)
<1>0. \A c : dlfree(c, 0) = c
  BY DEF dlfree
<1>1. Holds(cut, sz, us, u \cup v, q, k) /\ (spare => q + nb \notin us)
  <2>1. CASE spare
    <3>1. nb + 16 <= s /\ e = s - nb
      BY <2>1, SizeFacts
    <3>2. Holds(set_inuse(set_inuse(led, q, nb), q + nb, e), sz, us, u \cup {q + nb}, q, nb) /\ q + nb \notin us
      <4>. HIDE DEF e
      <4>. QED BY <3>1, HoldsCut
    <3>. QED BY <2>1, <3>2
  <2>2. CASE ~spare
    <3>1. u \cup {} = u
      OBVIOUS
    <3>. QED BY <2>2, <3>1
  <2>. QED BY <2>1, <2>2
<1>. HIDE DEF cut
<1>2. Holds(trimmed, sz, us, us \cup v, q, k)
  <2>1. CASE front
    <3>1. p \in u \cup v
      BY <2>1
    <3>2. Holds(dlfree(cut, mem), sz, us, (u \cup v) \ {p}, q, k) 
      <4>. HIDE DEF v, k
      <4>. QED BY <1>1, <3>1, HoldsFree
    <3>3. p \notin v
      <4>1. CASE spare
        <5>1. p # q + nb
          BY <2>1
        <5>. QED BY <4>1, <5>1
      <4>. QED BY <4>1
    <3>. QED BY <2>1, <3>2, <3>3
  <2>2. CASE ~front
    <3>1. u = us /\ trimmed = cut
      BY <1>0, <2>2
    <3>. QED BY <1>1, <3>1
  <2>. QED BY <2>1, <2>2
<1>. HIDE DEF trimmed
<1>3. Holds(n, sz, us, us, q, k)
  <2>1. CASE spare
    <3>. DEFINE x == q + nb
    <3>1. x \in us \cup {x} /\ x \notin us
      BY <1>1, <2>1
    <3>2. Holds(trimmed, sz, us, us \cup {x}, q, k)
      BY <1>2, <2>1
    <3>3. Holds(dlfree(trimmed, chunk2mem(x)), sz, us, (us \cup {x}) \ {x}, q, k)
      <4>. HIDE DEF x, k
      <4>. QED BY <3>1, <3>2, HoldsFree
    <3>4. (us \cup {x}) \ {x} = us
      BY <3>1
    <3>. QED BY <2>1, <3>3, <3>4
  <2>2. CASE ~spare
    <3>1. us \cup v = us /\ n = trimmed
      BY <1>0, <2>2
    <3>. QED BY <1>2, <3>1
  <2>. QED BY <2>1, <2>2
<1>4. k >= nb
  OBVIOUS
<1>. HIDE DEF n, k
<1>5. Had([m |-> n, mem |-> chunk2mem(q)], sz, us, nb)
  BY <1>3, <1>4, HoldsGot
<1>. QED BY <1>5 DEF n, trimmed, cut

(* internal_memalign hands out an aligned block and frees what it does not *)
(* need.                                                                   *)
LEMMA AlignedInGot ==
  ASSUME NEW got, NEW sz, NEW us, NEW K, Got(got, sz, us, K),
         NEW a \in Nat, a % 8 = 0, a >= 16, NEW nb \in Nat, nb % 8 = 0, nb >= 16, K = nb + a + 16
  PROVE  Had(AlignedIn(got, a, nb), sz, us, nb) /\ AlignedIn(got, a, nb).mem % a = 0
<1>. DEFINE w == AlignedIn(got, a, nb)
<1>1. CASE got.mem = 0
  <2>1. w = got
    BY <1>1 DEF AlignedIn
  <2>2. Had(got, sz, us, nb)
    <3>1. \A s \in Nat : s >= K /\ s < HALF_MAX_SIZE_T => s >= nb
      OBVIOUS
    <3>. QED BY <3>1, GotHad, HadWeaken
  <2>. HIDE DEF w
  <2>3. w.mem % a = 0
    BY <1>1, <2>1, ZeroMod
  <2>. QED BY <2>1, <2>2, <2>3 DEF w
<1>2. ASSUME got.mem # 0 PROVE Had(w, sz, us, nb) /\ w.mem % a = 0
  <2>1. PICK z : /\ Kept(sz, us, z)
                 /\ \E p \in DOMAIN z \ us : /\ got.mem = chunk2mem(p) /\ Heap(got.m, z, us \cup {p}, {})
                                             /\ z[p] >= K
    BY <1>2 DEF Got
  <2>2. PICK p \in DOMAIN z \ us : /\ got.mem = chunk2mem(p) /\ Heap(got.m, z, us \cup {p}, {}) /\ z[p] >= K
    BY <2>1
  <2>. DEFINE M == got.mem
             n == got.m
             B == AlignDown(M + a - 1, a)
             br == B - 8
             q == IF M % a = 0 THEN p ELSE IF br - p >= 16 THEN br ELSE br + a
             d == q - p
             s == z[p] - d
             front == q # p
             led == IF q = p THEN n ELSE set_inuse(set_inuse(n, q, s), p, d)
             u == IF front THEN us \cup {p} ELSE us
             spare == s > nb + MIN_CHUNK_SIZE
             cut == IF spare THEN set_inuse(set_inuse(led, q, nb), q + nb, s - nb) ELSE led
             trimmed == dlfree(cut, IF ~front THEN 0 ELSE M)
             r == [m |-> dlfree(trimmed, IF spare THEN chunk2mem(q + nb) ELSE 0), mem |-> chunk2mem(q)]
  <2>3. p \in Nat /\ p % 8 = 0 /\ z[p] \in Nat /\ z[p] % 8 = 0 /\ p >= 8
    BY <2>2, HeapChunk
  <2>4. M = p + 8 /\ M \in Nat /\ M % 8 = 0 /\ mem2chunk(M) = p /\ mem2chunk(B) = br
    <3>1. M = p + 8
      BY <2>2, <2>3, SizeFacts
    <3>. HIDE DEF B, M
    <3>2. mem2chunk(M) = M - 8 /\ mem2chunk(B) = B - 8
      BY DEF mem2chunk, SIZE_T_SIZE
    <3>. QED BY <2>3, <3>1, <3>2
  <2>5. chunksize(n, p) = z[p]
    <3>1. p \notin {} /\ p \in DOMAIN z
      OBVIOUS
    <3>. QED BY <2>2, <3>1, HeapHead
  <2>6. w = r
    <3>1. MIN_CHUNK_SIZE = 16
      BY SizeFacts
    <3>2. w = LET pp == mem2chunk(M)
                  bb == mem2chunk(B)
                  qq == IF M % a = 0 THEN pp ELSE IF bb - pp >= 16 THEN bb ELSE bb + a
                  qsize == chunksize(n, pp) - (qq - pp)
                  ll == IF qq = pp THEN n ELSE set_inuse(set_inuse(n, qq, qsize), pp, qq - pp)
                  sp == qsize > nb + MIN_CHUNK_SIZE
                  cc == IF sp THEN set_inuse(set_inuse(ll, qq, nb), qq + nb, qsize - nb) ELSE ll
                  tt == dlfree(cc, IF qq = pp THEN 0 ELSE M)
              IN [m |-> dlfree(tt, IF sp THEN chunk2mem(qq + nb) ELSE 0), mem |-> chunk2mem(qq)]
      BY <1>2, <3>1 DEF AlignedIn
    <3>3. w = LET sp == s > nb + MIN_CHUNK_SIZE
                  ll == IF q = p THEN n ELSE set_inuse(set_inuse(n, q, s), p, d)
                  cc == IF sp THEN set_inuse(set_inuse(ll, q, nb), q + nb, s - nb) ELSE ll
                  tt == dlfree(cc, IF q = p THEN 0 ELSE M)
              IN [m |-> dlfree(tt, IF sp THEN chunk2mem(q + nb) ELSE 0), mem |-> chunk2mem(q)]
      <4>. HIDE DEF w, n, B, M
      <4>. QED BY <2>4, <2>5, <3>2
    <3>4. front <=> ~(q = p)
      OBVIOUS
    <3>. HIDE DEF w, q, d, s, n, M
    <3>. QED BY <3>3, <3>4
  <2>. HIDE DEF w, M, B
  <2>7. /\ M % a # 0 => d \in Nat /\ d % 8 = 0 /\ d >= 16 /\ d <= a + 8 /\ q = p + d /\ q # p
        /\ M % a = 0 => q = p /\ d = 0
        /\ (q + 8) % a = 0 /\ q \in Nat
    <3>1. CASE M % a = 0
      <4>1. q = p /\ d = 0 
        BY <3>1, <2>3
      <4>2. q + 8 = M
        BY <4>1, <2>4
      <4>. HIDE DEF q, d
      <4>. QED BY <3>1, <4>1, <4>2, <2>3
    <3>2. CASE M % a # 0
      <4>1. q = IF (B - 8) - p >= 16 THEN B - 8 ELSE (B - 8) + a
        BY <3>2
      <4>2. B = AlignDown(M + a - 1, a) /\ p \in Int
        BY <2>3 DEF B
      <4>3. /\ q - p \in Nat /\ (q - p) % 8 = 0 /\ q - p >= 16 /\ q - p <= a + 8 /\ q = p + (q - p)
            /\ (q + 8) % a = 0 /\ q \in Int
        <5>. HIDE DEF q
        <5>1. Lead(M, a, B, p, q)
          BY <2>4, <3>2, <4>1, <4>2 DEF Lead
        <5>. QED BY <5>1, LeadFacts
      <4>. HIDE DEF q
      <4>. QED BY <3>2, <4>3, <2>3
    <3>. QED BY <3>1, <3>2
  <2>. HIDE DEF q
  <2>8. s \in Nat /\ nb <= s /\ (M % a # 0 => d + 16 <= z[p])
    BY <2>2, <2>3, <2>7
  <2>9. Holds(led, sz, us, u, q, s)
    <3>1. CASE M % a = 0
      <4>1. led = n /\ u = us /\ s = z[p] /\ q = p
        BY <3>1, <2>7, <2>3
      <4>. HIDE DEF led, u, s, n
      <4>2. us \subseteq us /\ p \notin us
        OBVIOUS
      <4>. QED BY <4>1, <4>2, <2>1, <2>2 DEF Holds, n
    <3>2. CASE M % a # 0
      <4>1. led = set_inuse(set_inuse(n, q, s), p, d) /\ u = us \cup {p}
        BY <3>2, <2>7
      <4>2. Heap(n, z, us \cup {p}, {}) /\ p \notin us
        BY <2>2
      <4>3. d \in Nat /\ d % 8 = 0 /\ d >= 16 /\ d + 16 <= z[p] /\ s = z[p] - d /\ q = p + d
        BY <3>2, <2>7, <2>8
      <4>. HIDE DEF d, s, n, led, u
      <4>4. Holds(set_inuse(set_inuse(n, q, s), p, d), sz, us, us \cup {p}, q, s)
        BY <2>1, <4>2, <4>3, HoldsLed
      <4>. QED BY <4>1, <4>4
    <3>. QED BY <3>1, <3>2
  <2>10. Had(r, sz, us, nb)
    <3>1. p \notin us /\ front \in BOOLEAN /\ (front => p < q) /\ M = chunk2mem(p)
      BY <2>2, <2>3, <2>7 DEF M
    <3>2. u = IF front THEN us \cup {p} ELSE us
      OBVIOUS
    <3>. HIDE DEF led, u, s, front
    <3>3. LET spar == s > nb + MIN_CHUNK_SIZE
              cu == IF spar THEN set_inuse(set_inuse(led, q, nb), q + nb, s - nb) ELSE led
              trimme == dlfree(cu, IF ~front THEN 0 ELSE M)
          IN Had([m |-> dlfree(trimme, IF spar THEN chunk2mem(q + nb) ELSE 0), mem |-> chunk2mem(q)],
                sz, us, nb)
      BY <2>3, <2>7, <2>8, <2>9, <3>1, <3>2, AlignedRest
    <3>. QED BY ONLY <3>3
  <2>11. r.mem % a = 0
    <3>1. chunk2mem(q) = q + 8
      BY <2>7, SizeFacts
    <3>. QED BY <3>1, <2>7
  <2>. HIDE DEF r
  <2>. QED BY <2>6, <2>10, <2>11 DEF w
<1>3. Had(w, sz, us, nb) /\ w.mem % a = 0
  BY <1>1, <1>2
<1>. QED BY <1>3

(* ... and touches the allocator.                                          *)
LEMMA AlignedInBegun ==
  ASSUME NEW got, NEW sz, NEW us, NEW K, Got(got, sz, us, K),
         NEW a \in Nat, a % 8 = 0, a >= 16, NEW nb \in Nat, nb % 8 = 0, nb >= 16, K = nb + a + 16,
         NEW m, Begun(m, got.m)
  PROVE  Begun(m, AlignedIn(got, a, nb).m)
<1>1. CASE got.mem = 0
  BY <1>1 DEF AlignedIn
<1>2. CASE got.mem # 0
  <2>1. PICK z : Got(got, z, us, K) /\ z # Nothing
    BY <1>2, GotSomewhere
  <2>2. Had(AlignedIn(got, a, nb), z, us, nb)
    BY <2>1, AlignedInGot
  <2>3. ~Blank(AlignedIn(got, a, nb).m)
    BY <2>1, <2>2, HadNotBlank
  <2>. QED BY <2>3 DEF Begun, Untouched
<1>. QED BY <1>1, <1>2

(* The alignments of the requests: powers of two.                          *)
Alignments == {2^k : k \in 0 .. SIZE_T_BITSIZE - 2}

(* What an alignment is in a word.                                         *)
LEMMA AlignmentFacts ==
  ASSUME NEW al \in Alignments
  PROVE  /\ al \in Nat /\ al > 0 /\ 4 * al <= WordRange
         /\ al <= 8 => al \in {1, 2, 4, 8}
         /\ al > 8 => al % 8 = 0 /\ al >= 16
<1>1. PICK k \in 0 .. SIZE_T_BITSIZE - 2 : al = 2^k
  BY DEF Alignments
<1>2. SIZE_T_BITSIZE \in 12 .. 32
  BY MallocAssumption
<1>3. k \in 0 .. 33 /\ k \in 0 .. 32
  BY <1>2
<1>4. al \in Nat /\ al > 0
  BY <1>1, <1>3, PowerNat, Zenon
<1>5. 4 * al <= WordRange
  <2>1. PICK h \in 0 .. 32 : h = SIZE_T_BITSIZE - 2
    BY <1>2
  <2>2. PICK i \in 0 .. 32 : i = h + 1
    BY <2>1, <1>2
  <2>3. k \in 0 .. 33 /\ h \in 0 .. 33 /\ k <= h
    BY <1>2, <1>3, <2>1
  <2>4. 2^k <= 2^h
    BY <2>3, PowerMultiple, Zenon
  <2>5. 2^(h + 1) = 2 * 2^h /\ 2^h \in Nat
    BY PowerTable, Zenon
  <2>6. 2^(i + 1) = 2 * 2^i
    BY PowerTable, Zenon
  <2>7. SIZE_T_BITSIZE = i + 1
    BY <1>2, <2>1, <2>2
  <2>8. WordRange = 2^(i + 1)
    BY <2>7 DEF WordRange
  <2>9. 2^i = 2^(h + 1)
    BY <2>2
  <2>. QED BY <1>1, <1>4, <2>4, <2>5, <2>6, <2>8, <2>9
<1>6. 2^0 = 1 /\ 2^1 = 2 /\ 2^2 = 4 /\ 2^3 = 8 /\ 2^4 = 16
  OBVIOUS
<1>7. CASE k \in 0 .. 3
  <2>1. k = 0 \/ k = 1 \/ k = 2 \/ k = 3
    BY <1>7
  <2>2. al = 1 \/ al = 2 \/ al = 4 \/ al = 8
    BY <1>1, <1>6, <2>1
  <2>. QED BY <1>4, <1>5, <2>2
<1>8. CASE k >= 4
  <2>1. 4 \in 0 .. 33 /\ 4 <= k
    BY <1>8
  <2>2. 2^4 <= 2^k /\ \E q \in Nat : 2^k = q * 2^4
    BY <1>3, <2>1, PowerMultiple, Zenon
  <2>3. PICK q \in Nat : al = q * 16
    BY <1>1, <1>6, <2>2
  <2>4. al >= 16
    BY <1>1, <1>6, <2>2
  <2>. QED BY <1>4, <1>5, <2>3, <2>4
<1>9. k \in 0 .. 3 \/ k >= 4
  BY <1>3
<1>. QED BY <1>7, <1>8, <1>9

(* internal_memalign rounds an alignment up to itself.                     *)
LEMMA AlignmentChosen ==
  ASSUME NEW al \in Alignments, al > 8
  PROVE  al = CHOOSE x \in {2^k : k \in 0 .. SIZE_T_BITSIZE} :
                /\ x >= al /\ x >= MIN_CHUNK_SIZE
                /\ x < 2 * al \/ x = MIN_CHUNK_SIZE
<1>. DEFINE P(x) == /\ x >= al /\ x >= MIN_CHUNK_SIZE
                    /\ x < 2 * al \/ x = MIN_CHUNK_SIZE
            S == {2^k : k \in 0 .. SIZE_T_BITSIZE}
<1>1. al \in Nat /\ al >= 16 /\ al > 0
  BY AlignmentFacts
<1>2. PICK k \in 0 .. SIZE_T_BITSIZE - 2 : al = 2^k
  BY DEF Alignments
<1>3. SIZE_T_BITSIZE \in 12 .. 32
  BY MallocAssumption
<1>4. al \in S
  <2>1. k \in 0 .. SIZE_T_BITSIZE
    BY <1>3
  <2>. QED BY <1>2, <2>1
<1>5. P(al)
  BY <1>1, SizeFacts
<1>6. ASSUME NEW x \in S, P(x) PROVE x = al
  <2>1. PICK j \in 0 .. SIZE_T_BITSIZE : x = 2^j
    OBVIOUS
  <2>2. j \in 0 .. 33 /\ k \in 0 .. 33 /\ j \in 0 .. 32 /\ k \in 0 .. 32
    BY <1>3
  <2>3. x \in Nat
    BY <2>1, <2>2, PowerNat, Zenon
  <2>4. x = 16 => x = al
    BY <1>1, <1>6, <2>3
  <2>5. ASSUME x # 16 PROVE x = al
    <3>1. x >= al /\ x < 2 * al
      BY <1>6, <2>5, SizeFacts
    <3>2. ASSUME j < k PROVE FALSE
      <4>1. PICK i \in 0 .. 32 : i = j + 1
        BY <2>2, <3>2
      <4>2. i \in 0 .. 33 /\ i <= k
        BY <3>2, <4>1, <2>2
      <4>3. 2^i <= 2^k
        BY <2>2, <4>2, PowerMultiple, Zenon
      <4>4. 2^(j + 1) = 2 * 2^j
        BY <2>2, PowerTable, Zenon
      <4>5. 2 * x <= al
        BY <1>2, <2>1, <4>1, <4>3, <4>4
      <4>. QED BY <1>1, <2>3, <3>1, <4>5
    <3>3. ASSUME j > k PROVE FALSE
      <4>1. PICK i \in 0 .. 32 : i = k + 1
        BY <2>2, <3>3
      <4>2. i \in 0 .. 33 /\ i <= j
        BY <3>3, <4>1, <2>2
      <4>3. 2^i <= 2^j
        BY <2>2, <4>2, PowerMultiple, Zenon
      <4>4. 2^(k + 1) = 2 * 2^k
        BY <2>2, PowerTable, Zenon
      <4>5. 2 * al <= x
        BY <1>2, <2>1, <4>1, <4>3, <4>4
      <4>. QED BY <1>1, <2>3, <3>1, <4>5
    <3>4. j = k
      BY <2>2, <3>2, <3>3
    <3>. QED BY <1>2, <2>1, <3>4
  <2>. QED BY <2>4, <2>5
<1>7. al = CHOOSE x \in S : P(x)
  <2>. HIDE DEF P, S
  <2>. QED BY <1>4, <1>5, <1>6
<1>. QED BY <1>7

(* A first aligned request stays off the edge where the segment's size     *)
(* wraps.                                                                  *)
AlignFits(m, al, bytes) ==
  Blank(m) /\ m.contiguous => bytes >= MAX_REQUEST \/ al + bytes + 100 < HALF_MAX_SIZE_T

(* A block's address is aligned, or none.                                  *)
LEMMA HadMem ==
  ASSUME NEW r, NEW sz, NEW us, NEW k, Had(r, sz, us, k)
  PROVE  r.mem \in Nat /\ r.mem % 8 = 0
<1>1. PICK z : \/ r.mem = 0 
               \/ \E p \in DOMAIN z \ us : /\ r.mem = chunk2mem(p) /\ Heap(r.m, z, us \cup {p}, {})
  BY DEF Had
<1>2. CASE r.mem = 0
  BY <1>2
<1>3. ASSUME NEW p \in DOMAIN z \ us, r.mem = chunk2mem(p), Heap(r.m, z, us \cup {p}, {})
      PROVE  r.mem \in Nat /\ r.mem % 8 = 0
  <2>1. p \in Nat /\ p % 8 = 0
    BY <1>3, HeapChunk
  <2>. QED BY <2>1, <1>3, SizeFacts
<1>. QED BY <1>1, <1>2, <1>3

(* dlmemalign hands out a block at a multiple of the alignment, or fails   *)
(* with the heap intact.                                                   *)
LEMMA dlmemalignGot ==
  ASSUME NEW m, NEW sz, NEW us, Ready(m, sz, us), NEW al \in Alignments, NEW bytes \in 0 .. MAX_SIZE_T,
         AlignFits(m, al, bytes)
  PROVE  /\ Had(dlmemalign(m, al, bytes), sz, us, bytes + 4) /\ dlmemalign(m, al, bytes).mem % al = 0
         /\ Begun(m, dlmemalign(m, al, bytes).m)
<1>. DEFINE r == dlmemalign(m, al, bytes)
            nb == request2size(bytes)
            req == nb + al + MIN_CHUNK_SIZE - CHUNK_OVERHEAD
<1>1. al \in Nat /\ al > 0 /\ 4 * al <= WordRange /\ (al <= 8 => al \in {1, 2, 4, 8})
      /\ (al > 8 => al % 8 = 0 /\ al >= 16)
  BY AlignmentFacts
<1>2. r = IF al <= MALLOC_ALIGNMENT THEN dlmalloc(m, bytes)
          ELSE IF bytes >= Word(MAX_REQUEST - al) THEN Failed(m)
          ELSE AlignedIn(dlmalloc(m, req), al, nb)
  <2>1. CASE al <= MALLOC_ALIGNMENT
    BY <2>1 DEF dlmemalign
  <2>2. CASE ~(al <= MALLOC_ALIGNMENT)
    <3>1. al > 8
      BY <2>2, <1>1, SizeFacts
    <3>2. al = CHOOSE x \in {2^k : k \in 0 .. SIZE_T_BITSIZE} :
                /\ x >= al /\ x >= MIN_CHUNK_SIZE
                /\ x < 2 * al \/ x = MIN_CHUNK_SIZE
      BY <3>1, AlignmentChosen
    <3>3. dlmemalign(m, al, bytes) = 
            LET a == CHOOSE x \in {2^k : k \in 0 .. SIZE_T_BITSIZE} :
                       /\ x >= al /\ x >= MIN_CHUNK_SIZE
                       /\ x < 2 * al \/ x = MIN_CHUNK_SIZE
            IN IF bytes >= Word(MAX_REQUEST - a) THEN Failed(m)
               ELSE AlignedIn(dlmalloc(m, nb + a + MIN_CHUNK_SIZE - CHUNK_OVERHEAD), a, nb)
      BY <2>2 DEF dlmemalign
    <3>4. dlmemalign(m, al, bytes) = IF bytes >= Word(MAX_REQUEST - al) THEN Failed(m)
               ELSE AlignedIn(dlmalloc(m, nb + al + MIN_CHUNK_SIZE - CHUNK_OVERHEAD), al, nb)
      BY ONLY <3>2, <3>3
    <3>. QED BY <2>2, <3>4
  <2>. QED BY <2>1, <2>2
<1>. HIDE DEF r
<1>3. bytes \in Nat /\ bytes < WordRange /\ MAX_REQUEST = WordRange - 64 /\ WordRange \in Nat /\ WordRange >= 4096
  BY WordFacts, SizeFacts
<1>4. ASSUME al <= 8 PROVE Had(r, sz, us, bytes + 4) /\ r.mem % al = 0 /\ Begun(m, r.m)
  <2>1. r = dlmalloc(m, bytes)
    BY <1>2, <1>4, SizeFacts
  <2>2. FitsNow(m, bytes)
    BY <1>1, <1>3, WordFacts DEF AlignFits, FitsNow, FitsFirst
  <2>3. Had(r, sz, us, bytes + 4)
    BY <2>1, <2>2, dlmallocBytes, GotHad
  <2>4. r.mem \in Nat /\ r.mem % 8 = 0
    BY <2>3, HadMem
  <2>5. r.mem % al = 0
    <3>1. al = 1 \/ al = 2 \/ al = 4 \/ al = 8
      BY <1>1, <1>4
    <3>2. r.mem % 1 = 0 /\ r.mem % 2 = 0 /\ r.mem % 4 = 0
      BY <2>4
    <3>. QED BY <3>1, <3>2, <2>4
  <2>6. Begun(m, r.m)
    BY <2>1, <2>2, BegunMalloc
  <2>. QED BY <2>3, <2>5, <2>6
<1>5. ASSUME al > 8, bytes >= Word(MAX_REQUEST - al) PROVE Had(r, sz, us, bytes + 4) /\ r.mem % al = 0 /\ Begun(m, r.m)
  <2>1. r = Failed(m)
    BY <1>1, <1>2, <1>5, SizeFacts
  <2>2. Had(r, sz, us, bytes + 4)
    BY <2>1, GotReady, GotHad
  <2>3. r.mem = 0 /\ r.m = m
    BY <2>1 DEF Failed
  <2>. QED BY <2>2, <2>3, <1>1, ZeroMod DEF Begun
<1>6. ASSUME al > 8, ~(bytes >= Word(MAX_REQUEST - al)) PROVE Had(r, sz, us, bytes + 4) /\ r.mem % al = 0 /\ Begun(m, r.m)
  <2>1. r = AlignedIn(dlmalloc(m, req), al, nb)
    BY <1>1, <1>2, <1>6, SizeFacts
  <2>2. Word(MAX_REQUEST - al) = (WordRange - 64) - al
    <3>. DEFINE x == MAX_REQUEST - al
    <3>1. x \in Int /\ 0 <= x /\ x < WordRange /\ x = (WordRange - 64) - al
      BY <1>1, <1>3
    <3>2. Word(x) = x
      <4>. HIDE DEF x
      <4>. QED BY <3>1, WordOf
    <3>. QED BY <3>1, <3>2
  <2>3. bytes < (WordRange - 64) - al
    BY <1>1, <1>3, <1>6, <2>2
  <2>4. nb \in Nat /\ nb % 8 = 0 /\ nb >= 16 /\ nb >= bytes + 4 /\ nb <= bytes + 16
    <3>1. bytes < MAX_REQUEST /\ bytes \in Nat
      BY <1>1, <1>3, <2>3
    <3>. QED BY <3>1, PadFacts
  <2>5. req = nb + al + 12 /\ req \in 0 .. MAX_SIZE_T
    <3>. HIDE DEF nb
    <3>. QED BY <1>1, <1>3, <2>3, <2>4, SizeFacts, WordFacts
  <2>6. FitsNow(m, req)
    <3>1. ASSUME Blank(m), m.contiguous PROVE FitsFirst(req)
      <4>1. al + bytes + 100 < HALF_MAX_SIZE_T
        BY <1>1, <1>3, <2>3, <3>1 DEF AlignFits
      <4>2. req + 64 < HALF_MAX_SIZE_T
        <5>. HIDE DEF nb, req
        <5>. QED BY <1>1, <1>3, <2>4, <2>5, <4>1, WordFacts
      <4>. QED BY <4>2 DEF FitsFirst
    <3>. QED BY <3>1 DEF FitsNow
  <2>. HIDE DEF nb, req
  <2>7. Got(dlmalloc(m, req), sz, us, req + 4) /\ Begun(m, dlmalloc(m, req).m)
    BY <2>5, <2>6, dlmallocBytes, BegunMalloc
  <2>8. req + 4 = nb + al + 16 /\ al % 8 = 0 /\ al >= 16
    BY <1>1, <1>6, <2>4, <2>5
  <2>9. /\ Had(AlignedIn(dlmalloc(m, req), al, nb), sz, us, nb) /\ AlignedIn(dlmalloc(m, req), al, nb).mem % al = 0
        /\ Begun(m, AlignedIn(dlmalloc(m, req), al, nb).m)
    <3>. DEFINE g == dlmalloc(m, req)
                K == req + 4
    <3>1. Got(g, sz, us, K) /\ K = nb + al + 16 /\ Begun(m, g.m)
      BY <2>7, <2>8
    <3>. HIDE DEF g, K
    <3>2. Had(AlignedIn(g, al, nb), sz, us, nb) /\ AlignedIn(g, al, nb).mem % al = 0
      BY <1>1, <2>4, <2>8, <3>1, AlignedInGot
    <3>3. Begun(m, AlignedIn(g, al, nb).m)
      BY <1>1, <2>4, <2>8, <3>1, AlignedInBegun
    <3>. QED BY <3>2, <3>3 DEF g
  <2>10. Had(r, sz, us, bytes + 4)
    <3>1. \A s \in Nat : s >= nb /\ s < HALF_MAX_SIZE_T => s >= bytes + 4
      BY <1>3, <2>4
    <3>2. Had(r, sz, us, nb)
      BY <2>1, <2>9
    <3>. QED BY <3>1, <3>2, HadWeaken
  <2>. QED BY <2>1, <2>9, <2>10
<1>7. al <= 8 \/ al > 8
  BY <1>1
<1>8. Had(r, sz, us, bytes + 4) /\ r.mem % al = 0 /\ Begun(m, r.m)
  BY <1>4, <1>5, <1>6, <1>7
<1>. QED BY <1>8 DEF r

(* The page size is an alignment.                                          *)
LEMMA PageAligned ==
  PageSize \in Alignments /\ PageSize \in Nat /\ PageSize >= 16 /\ 4 * PageSize <= WordRange
<1>1. PICK k \in 4 .. SIZE_T_BITSIZE - 2 : PageSize = 2^k
  BY MallocAssumption
<1>2. PageSize \in Alignments
  <2>1. k \in 0 .. SIZE_T_BITSIZE - 2
    BY MallocAssumption
  <2>. QED BY <1>1, <2>1 DEF Alignments
<1>3. PageSize \in Nat /\ 4 * PageSize <= WordRange
  BY <1>2, AlignmentFacts
<1>4. PageSize >= 16
  <2>1. 4 \in 0 .. 33 /\ k \in 0 .. 33 /\ 4 <= k
    BY MallocAssumption
  <2>2. 2^4 <= 2^k
    BY <2>1, PowerMultiple, Zenon
  <2>3. 2^4 = 16
    OBVIOUS
  <2>. QED BY <1>1, <2>2, <2>3
<1>. QED BY <1>2, <1>3, <1>4

(* dlvalloc hands out a block of whole bytes.                              *)
LEMMA dlvallocGot ==
  ASSUME NEW m, NEW sz, NEW us, Ready(m, sz, us), NEW bytes \in 0 .. MAX_SIZE_T, AlignFits(m, PageSize, bytes)
  PROVE  Had(dlvalloc(m, bytes), sz, us, bytes + 4) /\ Begun(m, dlvalloc(m, bytes).m)
BY PageAligned, dlmemalignGot DEF dlvalloc

(* dlpvalloc hands out a block that holds the pages, for requests whose    *)
(* rounding does not wrap.                                                 *)
LEMMA dlpvallocGot ==
  ASSUME NEW m, NEW sz, NEW us, Ready(m, sz, us), NEW bytes \in 0 .. MAX_SIZE_T,
         bytes + PageSize <= WordRange, AlignFits(m, 2 * PageSize, bytes)
  PROVE  Had(dlpvalloc(m, bytes), sz, us, bytes + 4) /\ Begun(m, dlpvalloc(m, bytes).m)
<1>. DEFINE x == bytes + PageSize - 1
            b == AlignDown(x, PageSize)
<1>1. PageSize \in Alignments /\ PageSize \in Nat /\ PageSize >= 16 /\ PageSize > 0
  BY PageAligned
<1>2. x \in Nat /\ 0 <= x /\ x < WordRange
  BY <1>1, WordFacts
<1>3. Word(x) = x
  <2>. HIDE DEF x
  <2>. QED BY <1>2, WordOf
<1>4. b \in Nat /\ b <= x /\ b > x - PageSize
  <2>. HIDE DEF x
  <2>. QED BY <1>1, <1>2, AlignDownFacts
<1>5. b >= bytes /\ b <= bytes + PageSize /\ b \in 0 .. MAX_SIZE_T
  <2>. HIDE DEF b
  <2>. QED BY <1>1, <1>2, <1>4, WordFacts
<1>. HIDE DEF b
<1>6. AlignFits(m, PageSize, b)
  <2>1. ASSUME Blank(m), m.contiguous PROVE b >= MAX_REQUEST \/ PageSize + b + 100 < HALF_MAX_SIZE_T
    <3>1. bytes >= MAX_REQUEST \/ 2 * PageSize + bytes + 100 < HALF_MAX_SIZE_T
      BY <2>1 DEF AlignFits
    <3>. QED BY <1>1, <1>5, <3>1, WordFacts, SizeFacts
  <2>. QED BY <2>1 DEF AlignFits
<1>7. Had(dlmemalign(m, PageSize, b), sz, us, b + 4) /\ Begun(m, dlmemalign(m, PageSize, b).m)
  BY <1>1, <1>5, <1>6, dlmemalignGot
<1>8. Had(dlmemalign(m, PageSize, b), sz, us, bytes + 4)
  <2>1. \A s \in Nat : s >= b + 4 /\ s < HALF_MAX_SIZE_T => s >= bytes + 4
    BY <1>4, <1>5
  <2>. QED BY <1>7, <2>1, HadWeaken
<1>9. dlpvalloc(m, bytes) = dlmemalign(m, PageSize, b)
  BY <1>3 DEF dlpvalloc, b
<1>. QED BY <1>7, <1>8, <1>9

-----------------------------------------------------------------------------
(* Independent blocks.                                                     *)

(* What ialloc promises: nothing, or a chunk of its own for every piece.   *)
Parts(f, r, z, us, pieces) ==
  /\ f \in [1 .. Len(pieces) -> DOMAIN z \ us]
  /\ r.mems = [i \in 1 .. Len(pieces) |-> chunk2mem(f[i])]
  /\ \A i, j \in 1 .. Len(pieces) : f[i] = f[j] => i = j
  /\ Heap(r.m, z, us \cup {f[i] : i \in 1 .. Len(pieces)}, {})
  /\ \A i \in 1 .. Len(pieces) : z[f[i]] >= pieces[i]
Parted(r, sz, us, pieces) ==
  \E z : /\ Kept(sz, us, z)
         /\ \/ r.mems = <<>> /\ Ready(r.m, z, us) /\ (z = Nothing => sz = Nothing)
            \/ \E f : Parts(f, r, z, us, pieces)

(* The pieces of a block are chunks in use of their own.                   *)
LEMMA CutUpParts ==
  ASSUME NEW m, NEW z, NEW us, NEW p, p \notin us, NEW pieces, NEW c, NEW at,
         Cuttable(m, z, us \cup {p}, p, pieces, c, at), AfterUsed(z, us \cup {p}, p),
         NEW r, r.m = Pieced(m, p, pieces, at),
         r.mems = [i \in 1 .. Len(pieces) |-> chunk2mem(p + at[i - 1])],
         NEW sz, Kept(sz, us, z)
  PROVE  Parted(r, sz, us, pieces)
<1>. DEFINE n == Len(pieces)
            k == n - 1
            u == us \cup {p}
            S == Starts(p, at, k)
            f == [i \in 1 .. n |-> p + at[i - 1]]
            w == Pieced(m, p, pieces, at)
<1>1. /\ Heap(m, z, u, {}) /\ Blocks(pieces, c) /\ Adds(at, pieces) /\ at[n] <= z[p]
      /\ n \in Nat /\ n > 0 /\ k \in Nat /\ k = n - 1 /\ pieces \in Seq(Nat)
  BY DEF Cuttable, Blocks
<1>2. p \in DOMAIN z /\ p \in Nat /\ z[p] \in Nat /\ us \subseteq DOMAIN z
  <2>1. p \in DOMAIN z /\ us \subseteq DOMAIN z
    BY <1>1, HeapUsed
  <2>. QED BY <1>1, <2>1, HeapChunk
<1>3. PICK y : CutAt(m, z, u, p, at, k, y)
  BY CutAll
<1>4. /\ SameBut(m, w, {"head"}) /\ OtherHeads(m, w, S) /\ \A q \in S : NewHead(w, q, y[q], TRUE, TRUE)
  BY <1>3, PiecedFacts
<1>5. Heap(w, y, u \cup S, {})
  <2>. HIDE DEF w
  <2>. QED BY <1>3, <1>4, CutWritten
<1>6. /\ DOMAIN y = DOMAIN z \cup S
      /\ \A q \in DOMAIN z : q # p => q \notin S /\ y[q] = z[q]
      /\ \A j \in 1 .. k : y[p + at[j - 1]] = at[j] - at[j - 1]
      /\ y[p + at[k]] = z[p] - at[k]
  BY <1>3 DEF CutAt
<1>7. \A i \in 1 .. n : i - 1 \in 0 .. k /\ i - 1 \in 0 .. n /\ at[i - 1] \in Nat
  <2>1. \A i \in 1 .. n : i - 1 \in 0 .. k /\ i - 1 \in 0 .. n
    BY <1>1
  <2>. QED BY <1>1, <2>1 DEF Adds
<1>8. S = {f[i] : i \in 1 .. n}
  <2>1. \A i \in 1 .. n : f[i] \in S
    BY <1>7 DEF Starts
  <2>2. \A j \in 0 .. k : j + 1 \in 1 .. n /\ f[j + 1] = p + at[j]
    <3>1. \A j \in 0 .. k : j + 1 \in 1 .. n /\ (j + 1) - 1 = j
      BY <1>1
    <3>. QED BY <3>1
  <2>3. S \subseteq {f[i] : i \in 1 .. n}
    BY <2>2 DEF Starts
  <2>. QED BY <2>1, <2>3
<1>9. p \in S
  <2>1. 0 \in 0 .. k /\ p = p + at[0]
    BY <1>1, <1>2 DEF Adds
  <2>. QED BY <2>1 DEF Starts
<1>10. \A i, j \in 1 .. n : f[i] = f[j] => i = j
  <2>. SUFFICES ASSUME NEW i \in 1 .. n, NEW j \in 1 .. n, i < j PROVE f[i] # f[j]
    <3>. HIDE DEF f
    <3>. QED BY <1>1
  <2>1. i - 1 \in 0 .. n /\ j - 1 \in 0 .. n /\ i - 1 < j - 1
    BY <1>1
  <2>2. at[i - 1] + 16 <= at[j - 1]
    BY <1>1, <2>1, OffsetsGrow
  <2>. QED BY <1>2, <1>7, <2>2
<1>11. \A i \in 1 .. n : y[f[i]] >= pieces[i]
  <2>. SUFFICES ASSUME NEW i \in 1 .. n PROVE y[p + at[i - 1]] >= pieces[i]
    OBVIOUS
  <2>0. at[i] = at[i - 1] + pieces[i] /\ at[i - 1] \in Nat /\ pieces[i] \in Nat
    BY <1>1, <1>7 DEF Adds
  <2>1. CASE i = n
    <3>1. i - 1 = k /\ n - 1 = k
      BY <1>1, <2>1
    <3>2. at[n] = at[k] + pieces[n] /\ at[k] \in Nat /\ pieces[n] \in Nat
      BY <2>0, <2>1, <3>1
    <3>3. y[p + at[k]] = z[p] - at[k]
      BY <1>6
    <3>4. z[p] - at[k] >= pieces[n]
      <4>. HIDE DEF k, n
      <4>. QED BY <1>1, <1>2, <3>2
    <3>. QED BY <2>1, <3>1, <3>3, <3>4
  <2>2. CASE i # n
    <3>1. i \in 1 .. k
      BY <1>1, <2>2
    <3>2. y[p + at[i - 1]] = at[i] - at[i - 1]
      BY <3>1, <1>6
    <3>. QED BY <3>2, <2>0
  <2>. QED BY <2>1, <2>2
<1>12. us \cup S = u \cup S
  BY <1>9
<1>13. \A i \in 1 .. n : f[i] \in DOMAIN y \ us
  <2>1. \A q \in S : q \notin us
    <3>. HIDE DEF S
    <3>. QED BY <1>2, <1>6
  <2>2. \A i \in 1 .. n : f[i] \in S
    BY <1>8
  <2>. HIDE DEF f, S
  <2>. QED BY <1>6, <2>1, <2>2
<1>14. f \in [1 .. n -> DOMAIN y \ us]
  <2>1. f = [i \in 1 .. n |-> f[i]]
    OBVIOUS
  <2>. HIDE DEF f
  <2>. QED BY <1>13, <2>1
<1>15. r.mems = [i \in 1 .. n |-> chunk2mem(f[i])]
  OBVIOUS
<1>16. Heap(r.m, y, us \cup {f[i] : i \in 1 .. n}, {})
  BY <1>5, <1>8, <1>12
<1>17. Kept(sz, us, y)
  BY <1>2, <1>6 DEF Kept
<1>. HIDE DEF f
<1>18. Parts(f, r, y, us, pieces)
  BY <1>10, <1>11, <1>14, <1>15, <1>16 DEF Parts
<1>. QED BY <1>17, <1>18 DEF Parted

(* Cutting up what dlmalloc gave.                                          *)
LEMMA CutUpParted ==
  ASSUME NEW got, NEW sz, NEW us, NEW pieces, NEW c, Blocks(pieces, c), Len(pieces) > 0,
         Got(got, sz, us, Total(pieces))
  PROVE  Parted(CutUp(got, pieces), sz, us, pieces)
<1>. DEFINE r == CutUp(got, pieces)
            at == Offsets(pieces)
            n == Len(pieces)
<1>1. Adds(at, pieces) /\ Total(pieces) = at[n] /\ n \in Nat
  BY OffsetsAdd DEF Blocks, Total
<1>2. PICK z : /\ Kept(sz, us, z)
               /\ \/ got.mem = 0 /\ Ready(got.m, z, us) /\ (z = Nothing => sz = Nothing)
                  \/ \E p \in DOMAIN z \ us : /\ got.mem = chunk2mem(p) /\ Heap(got.m, z, us \cup {p}, {})
                                              /\ z[p] >= Total(pieces) /\ AfterUsed(z, us \cup {p}, p)
  BY DEF Got
<1>3. ASSUME got.mem = 0, Ready(got.m, z, us), z = Nothing => sz = Nothing
      PROVE  Parted(r, sz, us, pieces)
  <2>1. r = [m |-> got.m, mems |-> <<>>]
    BY <1>3 DEF CutUp
  <2>2. r.m = got.m /\ r.mems = <<>>
    BY <2>1
  <2>. HIDE DEF r
  <2>. QED BY <1>2, <1>3, <2>2 DEF Parted
<1>4. ASSUME NEW p \in DOMAIN z \ us, got.mem = chunk2mem(p), Heap(got.m, z, us \cup {p}, {}),
             z[p] >= Total(pieces), AfterUsed(z, us \cup {p}, p)
      PROVE  Parted(r, sz, us, pieces)
  <2>1. p \in Nat /\ p >= 8
    BY <1>4, HeapChunk
  <2>2. got.mem # 0 /\ mem2chunk(got.mem) = p
    BY <1>4, <2>1, SizeFacts
  <2>3. r.m = Pieced(got.m, p, pieces, at)
    BY <2>2 DEF CutUp, Pieced
  <2>4. r.mems = [i \in 1 .. n |-> chunk2mem(p + at[i - 1])]
    BY <2>2 DEF CutUp
  <2>. DEFINE g == us \cup {p}
              k == got.m
  <2>5. Cuttable(k, z, g, p, pieces, c, at)
    BY <1>1, <1>4 DEF Cuttable
  <2>6. AfterUsed(z, g, p) /\ r.m = Pieced(k, p, pieces, at) /\ p \notin us
    BY <1>4, <2>3
  <2>. HIDE DEF r, at, k
  <2>. QED BY <1>2, <2>4, <2>5, <2>6, CutUpParts
<1>5. Parted(r, sz, us, pieces)
  <2>. HIDE DEF r
  <2>. QED BY <1>2, <1>3, <1>4
<1>. QED BY <1>5 DEF r

(* An allocator with memory keeps it.                                      *)
LEMMA PartedNotBlank ==
  ASSUME NEW r, NEW z, NEW us, NEW pieces, Parted(r, z, us, pieces), z # Nothing
  PROVE  ~Blank(r.m)
<1>1. PICK y : \/ Ready(r.m, y, us) /\ (y = Nothing => z = Nothing)
               \/ \E f : Parts(f, r, y, us, pieces)
  BY DEF Parted
<1>2. \E u : Heap(r.m, y, u, {})
  BY <1>1 DEF Parts, Ready
<1>. QED BY <1>2, HeapNotBlank

(* Cutting up touches nothing further.                                     *)
LEMMA CutUpBegun ==
  ASSUME NEW got, NEW sz, NEW us, NEW pieces, NEW c, Blocks(pieces, c), Len(pieces) > 0,
         Got(got, sz, us, Total(pieces)), NEW m, Begun(m, got.m)
  PROVE  Begun(m, CutUp(got, pieces).m)
<1>1. CASE got.mem = 0
  BY <1>1 DEF CutUp
<1>2. CASE got.mem # 0
  <2>. DEFINE T == Total(pieces)
  <2>1. Got(got, sz, us, T)
    OBVIOUS
  <2>. HIDE DEF T
  <2>2. PICK z : Got(got, z, us, T) /\ z # Nothing
    BY <1>2, <2>1, GotSomewhere
  <2>3. Parted(CutUp(got, pieces), z, us, pieces)
    BY <2>2, CutUpParted DEF T
  <2>4. ~Blank(CutUp(got, pieces).m)
    BY <2>2, <2>3, PartedNotBlank
  <2>. QED BY <2>4 DEF Begun, Untouched
<1>. QED BY <1>1, <1>2

(* The chunks in use are chunks.                                           *)
LEMMA ReadyUsed ==
  ASSUME NEW m, NEW sz, NEW us, Ready(m, sz, us)
  PROVE  us \subseteq DOMAIN sz /\ Kept(sz, us, sz)
<1>1. us \subseteq DOMAIN sz
  BY HeapUsed DEF Ready
<1>. QED BY <1>1, KeptAll

(* What element i of an independent_calloc or independent_comalloc should  *)
(* hold; the one after the last is the array of pointers.                  *)
Wanted(sizes, i) == IF i <= Len(sizes) THEN sizes[i] ELSE Len(sizes) * SIZE_T_SIZE
(* Every piece holds its element and the overhead.                         *)
Enough(pieces, sizes) ==
  \A i \in 1 .. Len(pieces) : pieces[i] \in Nat /\ pieces[i] >= Wanted(sizes, i) + 4 /\ Wanted(sizes, i) \in Nat

(* Without elements ialloc makes at most an empty array.                   *)
LEMMA iallocNone ==
  ASSUME NEW m, NEW sz, NEW us, Ready(m, sz, us), NEW sizes, sizes = <<>>, NEW given \in BOOLEAN
  PROVE  \E pieces : /\ Parted(ialloc(m, sizes, given), sz, us, pieces) /\ Enough(pieces, sizes)
                     /\ Begun(m, ialloc(m, sizes, given).m)
<1>. DEFINE r == ialloc(m, sizes, given)
            d == dlmalloc(m, 0)
            pieces == <<4>>
<1>1. Len(sizes) = 0
  OBVIOUS
<1>2. r = IF given THEN [m |-> m, mems |-> <<>>] ELSE EmptyArray(d)
  BY <1>1 DEF ialloc
<1>3. Enough(pieces, sizes)
  <2>1. Len(pieces) = 1 /\ pieces[1] = 4 /\ \A i \in 1 .. 1 : i = 1
    OBVIOUS
  <2>2. Wanted(sizes, 1) = 0
    BY <1>1, SizeFacts DEF Wanted
  <2>. QED BY <2>1, <2>2 DEF Enough
<1>. HIDE DEF r
<1>4. CASE given
  <2>1. r.m = m /\ r.mems = <<>>
    BY <1>2, <1>4
  <2>2. Parted(r, sz, us, pieces)
    BY <2>1, ReadyUsed DEF Parted
  <2>3. Begun(m, r.m)
    BY <2>1 DEF Begun
  <2>. QED BY <1>3, <2>2, <2>3 DEF r
<1>5. CASE ~given
  <2>0. r = EmptyArray(d)
    BY <1>2, <1>5
  <2>1. Got(d, sz, us, 0 + 4) /\ Begun(m, d.m)
    <3>1. 0 \in 0 .. MAX_SIZE_T /\ FitsNow(m, 0)
      BY WordFacts DEF FitsNow, FitsFirst
    <3>. QED BY <3>1, dlmallocBytes, BegunMalloc
  <2>. HIDE DEF d
  <2>2. r.m = d.m /\ r.mems = IF d.mem = 0 THEN <<>> ELSE <<d.mem>>
    BY <2>0 DEF EmptyArray
  <2>3. PICK z : /\ Kept(sz, us, z)
                 /\ \/ d.mem = 0 /\ Ready(d.m, z, us) /\ (z = Nothing => sz = Nothing)
                    \/ \E p \in DOMAIN z \ us : /\ d.mem = chunk2mem(p) /\ Heap(d.m, z, us \cup {p}, {})
                                                /\ z[p] >= 0 + 4
    BY <2>1 DEF Got
  <2>4. ASSUME d.mem = 0, Ready(d.m, z, us), z = Nothing => sz = Nothing
        PROVE  Parted(r, sz, us, pieces)
    <3>1. r.mems = <<>> /\ Ready(r.m, z, us)
      BY <2>2, <2>4
    <3>. QED BY <2>3, <2>4, <3>1 DEF Parted
  <2>5. ASSUME NEW p \in DOMAIN z \ us, d.mem = chunk2mem(p), Heap(d.m, z, us \cup {p}, {}), z[p] >= 0 + 4
        PROVE  Parted(r, sz, us, pieces)
    <3>. DEFINE f == [i \in 1 .. 1 |-> p]
    <3>1. p \in Nat /\ d.mem # 0
      <4>1. p \in Nat
        BY <2>5, HeapChunk
      <4>. QED BY <4>1, <2>5, SizeFacts
    <3>2. Len(pieces) = 1 /\ pieces[1] = 4 /\ \A i \in 1 .. 1 : i = 1
      OBVIOUS
    <3>3. r.mems = [i \in 1 .. 1 |-> chunk2mem(f[i])]
      <4>1. r.mems = <<chunk2mem(p)>>
        BY <2>2, <2>5, <3>1
      <4>2. \A x : <<x>> = [i \in 1 .. 1 |-> x]
        OBVIOUS
      <4>. QED BY <4>1, <4>2
    <3>4. {f[i] : i \in 1 .. 1} = {p}
      OBVIOUS
    <3>5. f \in [1 .. 1 -> DOMAIN z \ us] /\ f[1] = p
      OBVIOUS
    <3>6. Heap(r.m, z, us \cup {f[i] : i \in 1 .. 1}, {})
      BY <2>2, <2>5, <3>4
    <3>7. z[f[1]] >= pieces[1]
      BY <2>5, <3>2, <3>5
    <3>. HIDE DEF f, pieces
    <3>8. Parts(f, r, z, us, pieces)
      BY <3>2, <3>3, <3>5, <3>6, <3>7 DEF Parts
    <3>. QED BY <2>3, <3>8 DEF Parted
  <2>6. Parted(r, sz, us, pieces)
    BY <2>3, <2>4, <2>5
  <2>7. Begun(m, r.m)
    BY <2>1, <2>2
  <2>. QED BY <1>3, <2>6, <2>7 DEF r
<1>. QED BY <1>4, <1>5

(* The sizes asked of ialloc are so small that their sum stays a size.     *)
LEMMA ElementBound ==
  ASSUME NEW sizes \in ElementLists, NEW n, n = Len(sizes), n > 0
  PROVE  \E c \in Nat : /\ n * c \in Nat /\ n * c <= HALF_MAX_SIZE_T - 112 * n
                        /\ \A i \in 1 .. n : sizes[i] \in Nat /\ sizes[i] + 16 <= c /\ sizes[i] < MAX_REQUEST
                        /\ n \in Nat /\ 128 * n <= HALF_MAX_SIZE_T
<1>. DEFINE H == HALF_MAX_SIZE_T
            h == H \div n
            c == h - 112
<1>1. /\ sizes \in Seq(0 .. MAX_SIZE_T) /\ n \in Nat /\ H \in Nat /\ MAX_SIZE_T \in Nat
      /\ \A i \in 1 .. n : sizes[i] \in Nat /\ n * (sizes[i] + 128) <= H
      /\ MAX_REQUEST = WordRange - 64 /\ WordRange = 2 * H + 2
  <2>1. /\ sizes \in Seq(0 .. MAX_SIZE_T)
        /\ \A i \in DOMAIN sizes : Len(sizes) * (sizes[i] + 8 * MIN_CHUNK_SIZE) <= HALF_MAX_SIZE_T
    BY InputAssumption
  <2>2. DOMAIN sizes = 1 .. n /\ n \in Nat
    BY <2>1
  <2>3. H \in Nat /\ MAX_SIZE_T \in Nat /\ MAX_REQUEST = WordRange - 64 /\ WordRange = 2 * H + 2
    BY WordFacts, SizeFacts
  <2>. HIDE DEF H
  <2>4. \A i \in 1 .. n : sizes[i] \in Nat
    BY <2>1, <2>2, <2>3
  <2>5. \A i \in 1 .. n : n * (sizes[i] + 128) <= H
    <3>1. 8 * MIN_CHUNK_SIZE = 128
      BY SizeFacts
    <3>2. \A i \in 1 .. n : n * (sizes[i] + 8 * MIN_CHUNK_SIZE) <= H
      BY <2>1, <2>2 DEF H
    <3>. QED BY <3>1, <3>2
  <2>. QED BY <2>1, <2>2, <2>3, <2>4, <2>5
<1>. HIDE DEF H
<1>2. /\ H % n \in 0 .. n - 1 /\ h \in Int /\ H = n * h + (H % n)
  BY <1>1, DivMod
<1>. HIDE DEF h
<1>3. h \in Nat
  <2>. SUFFICES ASSUME h < 0 PROVE FALSE
    BY <1>2
  <2>1. h + 1 <= 0 /\ -h - 1 \in Nat
    BY <1>2
  <2>2. n * (-h - 1) \in Nat
    BY <1>1, <2>1
  <2>3. n * (-h - 1) = -(n * h) - n
    BY <1>1, <1>2
  <2>. QED BY <1>1, <1>2, <2>2, <2>3
<1>4. \A i \in 1 .. n : sizes[i] + 128 <= h
  <2>. SUFFICES ASSUME NEW i \in 1 .. n, sizes[i] + 128 > h PROVE FALSE
    BY <1>1, <1>3
  <2>. DEFINE s == sizes[i] + 128
  <2>1. s \in Nat /\ h + 1 <= s /\ h + 1 \in Nat /\ n * s <= H
    BY <1>1, <1>3
  <2>. HIDE DEF s
  <2>2. s - h - 1 \in Nat
    BY <1>3, <2>1
  <2>3. n * (s - h - 1) \in Nat
    BY <1>1, <2>2
  <2>4. n * (s - h - 1) = n * s - n * h - n
    BY <1>1, <1>3, <2>1
  <2>5. n * h \in Nat /\ n * s \in Nat
    BY <1>1, <1>3, <2>1
  <2>. QED BY <1>1, <1>2, <2>1, <2>3, <2>4, <2>5
<1>5. h >= 128
  <2>1. sizes[1] \in Nat /\ sizes[1] + 128 <= h
    BY <1>1, <1>4
  <2>. QED BY <1>3, <2>1
<1>6. n * h \in Nat /\ n * h <= H
  BY <1>1, <1>2, <1>3
<1>7. n * c = n * h - 112 * n
  BY <1>1, <1>3
<1>8. n * 128 <= n * h /\ n * 128 = 128 * n
  <2>1. h - 128 \in Nat
    BY <1>3, <1>5
  <2>2. n * (h - 128) \in Nat
    BY <1>1, <2>1
  <2>3. n * (h - 128) = n * h - n * 128
    BY <1>1, <1>3
  <2>. QED BY <1>1, <1>6, <2>2, <2>3
<1>9. c \in Nat
  BY <1>3, <1>5
<1>10. n * c \in Nat /\ n * c <= H - 112 * n /\ 128 * n <= H
  <2>. HIDE DEF c
  <2>. QED BY <1>1, <1>6, <1>7, <1>8, <1>9
<1>11. \A i \in 1 .. n : sizes[i] \in Nat /\ sizes[i] + 16 <= c /\ sizes[i] < MAX_REQUEST
  <2>. SUFFICES ASSUME NEW i \in 1 .. n PROVE sizes[i] \in Nat /\ sizes[i] + 16 <= c /\ sizes[i] < MAX_REQUEST
    OBVIOUS
  <2>1. sizes[i] \in Nat /\ sizes[i] + 128 <= h
    BY <1>1, <1>4
  <2>2. n >= 1 /\ h <= H
    <3>1. n - 1 \in Nat
      BY <1>1
    <3>2. (n - 1) * h \in Nat
      BY <1>3, <3>1
    <3>3. (n - 1) * h = n * h - h
      BY <1>1, <1>3
    <3>. QED BY <1>1, <1>3, <1>6, <3>1, <3>2, <3>3
  <2>. QED BY <1>1, <1>3, <2>1, <2>2
<1>. HIDE DEF c
<1>. QED BY <1>1, <1>9, <1>10, <1>11 DEF H

(* The chunk size of each element.                                         *)
Elements(sizes) == [i \in 1 .. Len(sizes) |-> request2size(sizes[i])]
(* The pieces, with one for the array of pointers when the caller gave     *)
(* none.                                                                   *)
PiecesFor(sizes, given) ==
  IF given THEN Elements(sizes) ELSE Append(Elements(sizes), request2size(Len(sizes) * SIZE_T_SIZE))

(* The pieces are chunks, hold their elements, and their sum does not      *)
(* wrap.                                                                   *)
LEMMA PiecesFit ==
  ASSUME NEW sizes \in ElementLists, Len(sizes) > 0, NEW given \in BOOLEAN, NEW pieces, pieces = PiecesFor(sizes, given)
  PROVE  /\ \E c : Blocks(pieces, c)
         /\ Len(pieces) > 0 /\ Enough(pieces, sizes)
         /\ Total(pieces) \in Nat /\ Total(pieces) >= 16 /\ Total(pieces) + 92 <= HALF_MAX_SIZE_T
<1>. DEFINE n == Len(sizes)
            e == Elements(sizes)
            a == request2size(n * 4)
            at == Offsets(pieces)
            H == HALF_MAX_SIZE_T
<1>1. PICK c \in Nat : /\ n * c \in Nat /\ n * c <= H - 112 * n
                       /\ \A i \in 1 .. n : sizes[i] \in Nat /\ sizes[i] + 16 <= c /\ sizes[i] < MAX_REQUEST
                       /\ n \in Nat /\ 128 * n <= H
  BY ElementBound
<1>2. H \in Nat /\ MAX_REQUEST = 2 * H + 2 - 64 /\ SIZE_T_SIZE = 4
  BY WordFacts, SizeFacts
<1>3. /\ e \in Seq(Nat) /\ Len(e) = n
      /\ \A i \in 1 .. n : /\ e[i] \in Nat /\ e[i] % 8 = 0 /\ e[i] >= 16 /\ e[i] <= c /\ e[i] >= sizes[i] + 4
  <2>1. \A i \in 1 .. n : /\ request2size(sizes[i]) \in Nat /\ request2size(sizes[i]) % 8 = 0
                          /\ request2size(sizes[i]) >= 16 /\ request2size(sizes[i]) <= sizes[i] + 16
                          /\ request2size(sizes[i]) >= sizes[i] + 4
    BY <1>1, PadFacts
  <2>. HIDE DEF n, H
  <2>2. e = [i \in 1 .. n |-> request2size(sizes[i])]
    BY DEF Elements, n
  <2>3. e \in [1 .. n -> Nat]
    BY <2>1, <2>2
  <2>4. e \in Seq(Nat) /\ Len(e) = n
    BY <1>1, <2>2, <2>3
  <2>. QED BY <1>1, <2>1, <2>2, <2>4
<1>4. a \in Nat /\ a % 8 = 0 /\ a >= 16 /\ a <= n * 4 + 16 /\ a >= n * 4 + 4
  <2>1. n * 4 \in Nat /\ n * 4 < MAX_REQUEST
    BY <1>1, <1>2
  <2>. QED BY <2>1, PadFacts
<1>5. pieces = IF given THEN e ELSE Append(e, a)
  BY <1>2 DEF PiecesFor
<1>. HIDE DEF n, e, a, H
<1>6. /\ pieces \in Seq(Nat) /\ Len(pieces) = (IF given THEN n ELSE n + 1) /\ \A i \in 1 .. n : pieces[i] = e[i]
      /\ ~given => pieces[n + 1] = a
  BY <1>1, <1>3, <1>4, <1>5
<1>7. n > 0
  BY DEF n
<1>8. Blocks(pieces, c + a)
  <2>. SUFFICES ASSUME NEW i \in 1 .. Len(pieces)
                PROVE  pieces[i] % 8 = 0 /\ pieces[i] >= 16 /\ pieces[i] <= c + a
    BY <1>1, <1>4, <1>6 DEF Blocks
  <2>1. i \in 1 .. n \/ (~given /\ i = n + 1)
    BY <1>1, <1>6
  <2>2. CASE i \in 1 .. n
    <3>1. pieces[i] = e[i] /\ e[i] \in Nat /\ e[i] % 8 = 0 /\ e[i] >= 16 /\ e[i] <= c
      BY <1>3, <1>6, <2>2
    <3>. QED BY <1>1, <1>4, <3>1
  <2>3. CASE ~given /\ i = n + 1
    BY <1>1, <1>4, <1>6, <2>3
  <2>. QED BY <2>1, <2>2, <2>3
<1>9. Enough(pieces, sizes)
  <2>. SUFFICES ASSUME NEW i \in 1 .. Len(pieces)
                PROVE  pieces[i] \in Nat /\ pieces[i] >= Wanted(sizes, i) + 4 /\ Wanted(sizes, i) \in Nat
    BY DEF Enough
  <2>1. i \in 1 .. n \/ (~given /\ i = n + 1)
    BY <1>1, <1>6
  <2>2. CASE i \in 1 .. n
    <3>1. Wanted(sizes, i) = sizes[i]
      BY <2>2, <1>1 DEF Wanted, n
    <3>. QED BY <1>1, <1>3, <1>6, <2>2, <3>1
  <2>3. CASE ~given /\ i = n + 1
    <3>1. Wanted(sizes, i) = n * 4
      BY <1>1, <1>2, <2>3 DEF Wanted, n
    <3>. QED BY <1>1, <1>4, <1>6, <2>3, <3>1
  <2>. QED BY <2>1, <2>2, <2>3
<1>10. Adds(at, pieces) /\ Total(pieces) = at[Len(pieces)]
  BY <1>6, OffsetsAdd DEF Total
<1>. HIDE DEF at
<1>11. at[n] \in Nat /\ at[n] <= n * c /\ at[n] >= 16
  <2>. DEFINE b == [i \in 0 .. n |-> at[i]]
  <2>1. Adds(b, e)
    <3>1. \A i \in 0 .. n : at[i] \in Nat /\ b[i] = at[i]
      BY <1>1, <1>6, <1>10 DEF Adds
    <3>2. \A i \in 1 .. n : b[i] = b[i - 1] + e[i]
      <4>. SUFFICES ASSUME NEW i \in 1 .. n PROVE b[i] = b[i - 1] + e[i]
        OBVIOUS
      <4>1. i - 1 \in 0 .. n /\ i \in 0 .. n /\ i \in 1 .. Len(pieces)
        BY <1>1, <1>6
      <4>2. at[i] = at[i - 1] + pieces[i]
        BY <4>1, <1>10 DEF Adds
      <4>. QED BY <4>1, <4>2, <1>6
    <3>3. b[0] = 0 /\ b \in [0 .. n -> Nat]
      BY <1>1, <1>10, <3>1 DEF Adds
    <3>. HIDE DEF b
    <3>. QED BY <1>3, <3>2, <3>3 DEF Adds
  <2>2. Blocks(e, c)
    BY <1>1, <1>3 DEF Blocks
  <2>3. b[n] = at[n] /\ n \in 0 .. Len(e) /\ 0 \in 0 .. Len(e) /\ b[0] = at[0] /\ at[0] = 0
    BY <1>1, <1>3, <1>10 DEF Adds
  <2>. HIDE DEF b
  <2>4. b[n] \in Nat /\ b[n] <= n * c
    BY <2>1, <2>2, <2>3, OffsetsGrow
  <2>5. b[0] + 16 <= b[n]
    BY <1>7, <2>1, <2>2, <2>3, OffsetsGrow
  <2>. QED BY <2>3, <2>4, <2>5
<1>12. Total(pieces) = at[n] \/ Total(pieces) = at[n] + a
  <2>1. CASE given
    BY <2>1, <1>6, <1>10
  <2>2. CASE ~given
    <3>1. n + 1 \in 1 .. Len(pieces) /\ (n + 1) - 1 = n
      BY <2>2, <1>1, <1>6
    <3>2. at[n + 1] = at[(n + 1) - 1] + pieces[n + 1]
      BY <3>1, <1>10 DEF Adds
    <3>. QED BY <2>2, <1>6, <1>10, <3>1, <3>2
  <2>. QED BY <2>1, <2>2
<1>13. Total(pieces) \in Nat /\ Total(pieces) >= 16 /\ Total(pieces) + 92 <= H
  <2>. DEFINE t == Total(pieces)
              x == at[n]
              y == n * c
  <2>1. x \in Nat /\ x <= y /\ x >= 16 /\ (t = x \/ t = x + a) /\ y \in Nat /\ y <= H - 112 * n
    BY <1>1, <1>11, <1>12
  <2>. HIDE DEF t, x, y
  <2>2. t \in Nat /\ t >= 16 /\ t + 92 <= H
    BY <1>1, <1>2, <1>4, <1>7, <2>1
  <2>. QED BY <2>2 DEF t
<1>. QED BY <1>1, <1>6, <1>7, <1>8, <1>9, <1>13 DEF H

(* ialloc hands out chunks that hold the elements, or fails with the heap  *)
(* intact.                                                                 *)
LEMMA iallocParted ==
  ASSUME NEW m, NEW sz, NEW us, Ready(m, sz, us), NEW sizes \in ElementLists, NEW given \in BOOLEAN
  PROVE  \E pieces : /\ Parted(ialloc(m, sizes, given), sz, us, pieces) /\ Enough(pieces, sizes)
                     /\ Begun(m, ialloc(m, sizes, given).m)
<1>1. sizes \in Seq(0 .. MAX_SIZE_T) /\ Len(sizes) \in Nat
  BY InputAssumption
<1>2. CASE sizes = <<>>
  BY <1>2, iallocNone
<1>3. CASE sizes # <<>>
  <2>. DEFINE pieces == PiecesFor(sizes, given)
              b == Total(pieces) - 4
  <2>1. Len(sizes) > 0
    BY <1>1, <1>3
  <2>2. /\ \E c : Blocks(pieces, c)
        /\ Len(pieces) > 0 /\ Enough(pieces, sizes)
        /\ Total(pieces) \in Nat /\ Total(pieces) >= 16 /\ Total(pieces) + 92 <= HALF_MAX_SIZE_T
    <3>. HIDE DEF pieces
    <3>1. pieces = PiecesFor(sizes, given)
      BY DEF pieces
    <3>. QED BY <2>1, <3>1, PiecesFit
  <2>3. ialloc(m, sizes, given) = CutUp(dlmalloc(m, b), pieces)
    BY <2>1, SizeFacts DEF ialloc, PiecesFor, Elements
  <2>. HIDE DEF pieces
  <2>4. b \in 0 .. MAX_SIZE_T /\ b + 4 = Total(pieces) /\ FitsNow(m, b)
    BY <2>2, WordFacts DEF FitsNow, FitsFirst
  <2>. HIDE DEF b
  <2>. DEFINE g == dlmalloc(m, b)
  <2>5. Got(g, sz, us, Total(pieces)) /\ Begun(m, g.m)
    <3>1. Got(g, sz, us, b + 4) /\ Begun(m, g.m)
      BY <2>4, dlmallocBytes, BegunMalloc
    <3>. HIDE DEF g
    <3>. QED BY <2>4, <3>1
  <2>. HIDE DEF g
  <2>6. Parted(CutUp(g, pieces), sz, us, pieces)
    BY <2>2, <2>5, CutUpParted
  <2>7. Begun(m, CutUp(g, pieces).m)
    BY <2>2, <2>5, CutUpBegun
  <2>. QED BY <2>2, <2>3, <2>6, <2>7 DEF g
<1>. QED BY <1>2, <1>3

-----------------------------------------------------------------------------
(* Parameters and trimming.                                                *)

(* mallopt accepts only powers of two from the page size on.               *)
LEMMA GranularityFits ==
  ASSUME NEW v \in 0 .. MAX_SIZE_T, v >= PageSize, \E k \in 0 .. SIZE_T_BITSIZE : v = 2^k
  PROVE  v \in {2^k : k \in 4 .. SIZE_T_BITSIZE - 1} /\ v % PageSize = 0
<1>1. PICK k \in 0 .. SIZE_T_BITSIZE : v = 2^k
  OBVIOUS
<1>2. PICK j \in 4 .. SIZE_T_BITSIZE - 2 : PageSize = 2^j
  BY MallocAssumption
<1>3. SIZE_T_BITSIZE \in 12 .. 32 /\ k \in 0 .. 33 /\ j \in 0 .. 33 /\ k \in Nat /\ j \in Nat
  BY MallocAssumption
<1>4. k < SIZE_T_BITSIZE
  <2>1. SUFFICES ASSUME k = SIZE_T_BITSIZE PROVE FALSE
    BY <1>3
  <2>2. v = WordRange
    BY <1>1, <2>1 DEF WordRange
  <2>. QED BY <2>2, WordFacts
<1>5. j <= k
  <2>1. SUFFICES ASSUME k <= j - 1 PROVE FALSE
    BY <1>3
  <2>2. j - 1 \in 0 .. 32 /\ j - 1 \in 0 .. 33 /\ (j - 1) + 1 = j
    BY <1>2, <1>3
  <2>3. 2^k <= 2^(j - 1)
    BY <1>3, <2>1, <2>2, PowerMultiple, Zenon
  <2>4. 2^((j - 1) + 1) = 2 * 2^(j - 1) /\ 2^(j - 1) \in Nat /\ 2^(j - 1) > 0
    BY <2>2, PowerTable
  <2>5. 2^k \in Nat
    BY <1>3, PowerNat
  <2>. DEFINE x == 2^(j - 1)
              y == 2^k
  <2>6. PageSize = 2 * x /\ x \in Nat /\ x > 0 /\ y <= x /\ y = v /\ y \in Nat
    BY <1>1, <1>2, <2>2, <2>3, <2>4, <2>5
  <2>. HIDE DEF x, y
  <2>. QED BY <2>6
<1>6. v \in {2^n : n \in 4 .. SIZE_T_BITSIZE - 1}
  <2>1. k \in 4 .. SIZE_T_BITSIZE - 1
    BY <1>2, <1>3, <1>4, <1>5
  <2>. QED BY <1>1, <2>1
<1>7. v % PageSize = 0
  <2>1. /\ 2^j \in Nat /\ 2^j > 0 /\ 2^k \in Nat
        /\ \E q \in Nat : 2^k = q * 2^j
    BY <1>3, <1>5, PowerMultiple, Zenon
  <2>. DEFINE P == PageSize
  <2>2. PICK q \in Nat : v = q * P
    BY <1>1, <1>2, <2>1
  <2>3. P \in Nat /\ P > 0 /\ v \in Int /\ q \in Int
    BY <1>2, <2>1
  <2>. HIDE DEF P
  <2>4. 0 \in 0 .. P - 1 /\ v = P * q + 0
    BY <2>2, <2>3
  <2>5. v % P = 0
    BY <2>3, <2>4, ModUnique
  <2>. QED BY <2>5 DEF P
<1>. QED BY <1>6, <1>7

(* dlmallopt changes parameters alone.                                     *)
LEMMA change_mparamReady ==
  ASSUME NEW m, NEW sz, NEW us, Ready(m, sz, us), NEW param, NEW v \in 0 .. MAX_SIZE_T
  PROVE  LET n == change_mparam(m, param, v)
         IN /\ Ready(n, sz, us) /\ n.head = m.head
            /\ Untouched(n) => Untouched(m) /\ n.limit = m.limit
<1>. DEFINE n == change_mparam(m, param, v)
            X == {"trim_threshold", "granularity"}
<1>1. Frame(m) /\ DOMAIN m = Fields
  BY ReadyFrame DEF Frame
<1>2. \/ n = m
      \/ n = [m EXCEPT !.trim_threshold = v]
      \/ /\ n = [m EXCEPT !.granularity = v]
         /\ v \in {2^k : k \in 4 .. SIZE_T_BITSIZE - 1} /\ v % PageSize = 0
  <2>1. CASE param = "M_TRIM_THRESHOLD"
    BY <2>1 DEF change_mparam
  <2>2. CASE param # "M_TRIM_THRESHOLD"
    <3>1. CASE /\ param = "M_GRANULARITY" /\ v >= PageSize
               /\ \E k \in 0 .. SIZE_T_BITSIZE : v = 2^k
      BY <2>2, <3>1, GranularityFits DEF change_mparam
    <3>2. CASE ~(/\ param = "M_GRANULARITY" /\ v >= PageSize
                 /\ \E k \in 0 .. SIZE_T_BITSIZE : v = 2^k)
      BY <2>2, <3>2 DEF change_mparam
    <3>. QED BY <3>1, <3>2
  <2>. QED BY <2>1, <2>2
<1>. HIDE DEF n
<1>3. SameBut(m, n, X)
  <2>1. CASE n = m
    BY <1>1, <2>1 DEF SameBut
  <2>2. CASE n = [m EXCEPT !.trim_threshold = v]
    BY <1>1, <2>2 DEF SameBut, Fields
  <2>3. CASE n = [m EXCEPT !.granularity = v]
    BY <1>1, <2>3 DEF SameBut, Fields
  <2>. QED BY <1>2, <2>1, <2>2, <2>3
<1>4. /\ DOMAIN n = Fields /\ n.limit = m.limit /\ n.brk = m.brk /\ n.contiguous = m.contiguous
      /\ n.trim_check = m.trim_check /\ n.footprint = m.footprint /\ n.max_footprint = m.max_footprint
      /\ n.stray = m.stray /\ n.aborted = m.aborted /\ n.head = m.head
  BY <1>3 DEF SameBut, Fields
<1>5. n.granularity \in {2^k : k \in 4 .. SIZE_T_BITSIZE - 1} /\ n.granularity % PageSize = 0
      /\ n.trim_threshold \in 0 .. MAX_SIZE_T
  <2>0. m.granularity \in {2^k : k \in 4 .. SIZE_T_BITSIZE - 1} /\ m.granularity % PageSize = 0
        /\ m.trim_threshold \in 0 .. MAX_SIZE_T
    BY <1>1 DEF Frame
  <2>1. CASE n = m
    BY <2>0, <2>1
  <2>2. CASE n = [m EXCEPT !.trim_threshold = v]
    <3>1. n.granularity = m.granularity /\ n.trim_threshold = v
      BY <1>1, <2>2 DEF Fields
    <3>. QED BY <2>0, <3>1
  <2>3. CASE n = [m EXCEPT !.granularity = v] /\ v \in {2^k : k \in 4 .. SIZE_T_BITSIZE - 1} /\ v % PageSize = 0
    <3>1. n.granularity = v /\ n.trim_threshold = m.trim_threshold
      BY <1>1, <2>3 DEF Fields
    <3>. QED BY <2>0, <2>3, <3>1
  <2>. QED BY <1>2, <2>1, <2>2, <2>3
<1>6. Frame(n)
  BY <1>1, <1>4, <1>5 DEF Frame
<1>7. Ready(n, sz, us)
  <2>1. SameBut(m, n, {"trim_check", "trim_threshold", "granularity", "contiguous"})
    BY <1>3, SameButMore
  <2>. QED BY <2>1, <1>6, ReadyParams
<1>8. Untouched(n) => Untouched(m)
  <2>1. CASE Heap(m, sz, us, {})
    <3>1. m.top # 0 /\ n.top = m.top
      <4>1. is_initialized(m)
        BY <2>1, ReadyFacts
      <4>. QED BY <4>1, <1>3 DEF SameBut, Fields, is_initialized
    <3>. QED BY <3>1 DEF Untouched, Blank
  <2>2. CASE Blank(m)
    BY <2>2, <1>4 DEF Untouched
  <2>. QED BY <2>1, <2>2 DEF Ready
<1>9. Ready(n, sz, us) /\ n.head = m.head /\ (Untouched(n) => Untouched(m) /\ n.limit = m.limit)
  BY <1>4, <1>7, <1>8
<1>. QED BY <1>9 DEF n

(* dlmalloc_trim keeps the blocks.                                         *)
LEMMA TrimReady ==
  ASSUME NEW m, NEW sz, NEW us, Ready(m, sz, us), NEW pad \in Nat
  PROVE  LET n == dlmalloc_trim(m, pad)
         IN Begun(m, n) /\ \E z : Ready(n, z, us) /\ Kept(sz, us, z)
<1>. DEFINE n == sys_trim(m, pad).m
<1>1. CASE Heap(m, sz, us, {})
  <2>1. \E z : Heap(n, z, us, {}) /\ Kept(sz, us, z)
    BY <1>1, TrimHeap
  <2>2. ~Blank(n)
    BY <2>1, HeapNotBlank
  <2>. QED BY <2>1, <2>2 DEF dlmalloc_trim, Begun, Untouched, Ready
<1>2. CASE Blank(m)
  <2>1. n = m
    BY <1>2 DEF sys_trim, Blank, is_initialized
  <2>2. Kept(sz, us, sz)
    BY ReadyUsed
  <2>. QED BY <2>1, <2>2 DEF dlmalloc_trim, Begun
<1>. QED BY <1>1, <1>2 DEF Ready

-----------------------------------------------------------------------------
(* The invariant.                                                          *)

(* The chunks of blocks, and what an allocator is that has handed them out.*)
Holding(l) == {mem2chunk(x.mem) : x \in l}
(* Every block handed out has its bytes and the overhead in its chunk, and *)
(* no two are one.                                                         *)
Housed(l, sz) ==
  /\ \A x \in l : x.mem \in Nat /\ x.bytes \in Nat /\ x.bytes + 4 <= sz[mem2chunk(x.mem)]
  /\ \A x, y \in l : x.mem = y.mem => x = y
(* The allocator's state has a shape: a tiling sz of the segment by chunks *)
(* whose heads and feet say so, the chunks of the blocks handed out in use *)
(* and no other, the rest in the bins, the victim or the top.              *)
Shaped(m, l, sz) == Ready(m, sz, Holding(l)) /\ DOMAIN m.head = DOMAIN sz /\ Housed(l, sz)

(* Forgetting dead words changes no parameter.                             *)
LEMMA SettleFields ==
  ASSUME NEW m, DOMAIN m = Fields
  PROVE  Settle(m).limit = m.limit /\ Settle(m).contiguous = m.contiguous
BY DEF Settle, Fields

(* Forgetting dead words keeps an allocator ready.                         *)
LEMMA SettleReady ==
  ASSUME NEW m, NEW sz, NEW us, Ready(m, sz, us)
  PROVE  /\ Ready(Settle(m), sz, us) /\ DOMAIN Settle(m).head = DOMAIN sz
         /\ Untouched(Settle(m)) => Untouched(m) /\ Settle(m).limit = m.limit
<1>1. Settle(m).limit = m.limit /\ Settle(m).contiguous = m.contiguous
  BY ReadyFrame, SettleFields DEF Frame
<1>2. CASE Heap(m, sz, us, {})
  <2>1. Heap(Settle(m), sz, us, {}) /\ DOMAIN Settle(m).head = DOMAIN sz
    BY <1>2, SettleHeap
  <2>2. ~Blank(Settle(m))
    BY <2>1, HeapNotBlank
  <2>. QED BY <1>1, <2>1, <2>2 DEF Ready, Untouched
<1>3. CASE Blank(m) /\ sz = Nothing /\ us = {}
  <2>1. Blank(Settle(m))
    BY <1>3, SettleBlank
  <2>2. DOMAIN Settle(m).head = DOMAIN sz
    BY <1>3, <2>1 DEF Blank, Nothing
  <2>. QED BY <1>1, <1>3, <2>1, <2>2 DEF Ready, Untouched
<1>. QED BY <1>2, <1>3 DEF Ready

(* The shape after a call.                                                 *)
LEMMA ShapedMade ==
  ASSUME NEW n, NEW l, NEW z, Ready(n, z, Holding(l)), Housed(l, z)
  PROVE  Shaped(Settle(n), l, z)
BY SettleReady DEF Shaped

(* Blocks that are kept keep their room.                                   *)
LEMMA HousedKept ==
  ASSUME NEW l, NEW sz, Housed(l, sz), NEW k \in SUBSET l, NEW z, Kept(sz, Holding(k), z)
  PROVE  Housed(k, z)
<1>1. \A x \in k : mem2chunk(x.mem) \in Holding(k)
  BY DEF Holding
<1>2. \A x \in k : z[mem2chunk(x.mem)] = sz[mem2chunk(x.mem)]
  BY <1>1 DEF Kept
<1>. QED BY <1>2 DEF Housed

(* A new block with its room.                                              *)
LEMMA HousedMore ==
  ASSUME NEW l, NEW z, Housed(l, z), NEW p \in Nat, p \notin Holding(l), NEW bytes \in Nat, NEW kept,
         bytes + 4 <= z[p], NEW k, k = l \cup {Block(chunk2mem(p), bytes, kept)}
  PROVE  Housed(k, z) /\ Holding(k) = Holding(l) \cup {p}
<1>. DEFINE b == Block(chunk2mem(p), bytes, kept)
<1>0. k = l \cup {b}
  OBVIOUS
<1>1. b.mem = p + 8 /\ b.bytes = bytes /\ mem2chunk(b.mem) = p
  <2>1. b.mem = p + 8 /\ b.bytes = bytes
    BY SizeFacts DEF Block
  <2>. QED BY <2>1, SizeFacts
<1>. HIDE DEF b
<1>2. Holding(k) = Holding(l) \cup {p}
  BY <1>0, <1>1 DEF Holding
<1>3. \A x \in l : x.mem # b.mem
  BY <1>1 DEF Holding
<1>4. \A x \in k : x.mem \in Nat /\ x.bytes \in Nat /\ x.bytes + 4 <= z[mem2chunk(x.mem)]
  <2>1. b.mem \in Nat /\ b.bytes \in Nat /\ b.bytes + 4 <= z[mem2chunk(b.mem)]
    BY <1>1
  <2>. QED BY <1>0, <2>1 DEF Housed
<1>5. \A x, y \in k : x.mem = y.mem => x = y
  BY <1>0, <1>3 DEF Housed
<1>6. Housed(k, z)
  BY <1>4, <1>5 DEF Housed
<1>. QED BY <1>2, <1>6

(* A block handed out.                                                     *)
LEMMA HandOutShaped ==
  ASSUME NEW m, NEW l, NEW sz, Shaped(m, l, sz), NEW r, NEW bytes \in Nat,
         Had(r, sz, Holding(l), bytes + 4), NEW kept,
         NEW k, k = IF r.mem = 0 THEN l ELSE l \cup {Block(r.mem, bytes, kept)}
  PROVE  \E z : Shaped(Settle(r.m), k, z)
<1>1. PICK z : /\ Kept(sz, Holding(l), z)
               /\ \/ r.mem = 0 /\ Ready(r.m, z, Holding(l))
                  \/ \E p \in DOMAIN z \ Holding(l) : /\ r.mem = chunk2mem(p) /\ Heap(r.m, z, Holding(l) \cup {p}, {})
                                                      /\ z[p] >= bytes + 4
  BY DEF Had
<1>2. Housed(l, z)
  BY <1>1, HousedKept DEF Shaped
<1>3. ASSUME r.mem = 0, Ready(r.m, z, Holding(l)) PROVE Shaped(Settle(r.m), k, z)
  BY <1>2, <1>3, ShapedMade
<1>4. ASSUME NEW p \in DOMAIN z \ Holding(l), r.mem = chunk2mem(p), Heap(r.m, z, Holding(l) \cup {p}, {}),
             z[p] >= bytes + 4
      PROVE  Shaped(Settle(r.m), k, z)
  <2>1. p \in Nat /\ z[p] \in Nat
    BY <1>4, HeapChunk
  <2>2. r.mem # 0
    BY <1>4, <2>1, SizeFacts
  <2>3. k = l \cup {Block(chunk2mem(p), bytes, kept)}
    BY <1>4, <2>2
  <2>4. Housed(k, z) /\ Holding(k) = Holding(l) \cup {p}
    BY <1>2, <1>4, <2>1, <2>3, HousedMore
  <2>5. Ready(r.m, z, Holding(k))
    BY <1>4, <2>4 DEF Ready
  <2>. QED BY <2>4, <2>5, ShapedMade
<1>. QED BY <1>1, <1>3, <1>4

(* The chunks held after one block is given back.                          *)
LEMMA HoldingLess ==
  ASSUME NEW l, NEW sz, Housed(l, sz), NEW x \in l
  PROVE  Holding(l \ {x}) = Holding(l) \ {mem2chunk(x.mem)}
<1>1. \A y \in l : mem2chunk(y.mem) = mem2chunk(x.mem) => y = x
  <2>1. \A y \in l : y.mem \in Nat /\ mem2chunk(y.mem) = y.mem - 8
    BY SizeFacts DEF Housed
  <2>. QED BY <2>1 DEF Housed
<1>. QED BY <1>1 DEF Holding

(* A block given back.                                                     *)
LEMMA FreeShaped ==
  ASSUME NEW m, NEW l, NEW sz, Shaped(m, l, sz), NEW x \in l
  PROVE  \E z : Shaped(Settle(dlfree(m, x.mem)), l \ {x}, z) /\ z # Nothing
<1>. DEFINE p == mem2chunk(x.mem)
            us == Holding(l)
            n == dlfree(m, x.mem)
<1>1. p \in us
  BY DEF Holding
<1>2. Heap(m, sz, us, {})
  BY <1>1 DEF Shaped, Ready
<1>3. x.mem = chunk2mem(p)
  BY SizeFacts DEF Shaped, Housed
<1>4. Holding(l \ {x}) = us \ {p}
  BY HoldingLess DEF Shaped
<1>. HIDE DEF p, us
<1>5. PICK z : Heap(n, z, us \ {p}, {}) /\ Kept(sz, us \ {p}, z)
  BY <1>1, <1>2, <1>3, FreeHeap
<1>. HIDE DEF n
<1>6. Housed(l \ {x}, z)
  BY <1>4, <1>5, HousedKept DEF Shaped
<1>7. Shaped(Settle(n), l \ {x}, z)
  BY <1>4, <1>5, <1>6, ShapedMade DEF Ready
<1>. QED BY <1>5, <1>7, HeapSome DEF n

(* A block exchanged by dlrealloc.                                         *)
LEMMA ExchangeShaped ==
  ASSUME NEW m, NEW l, NEW sz, Shaped(m, l, sz), NEW x \in l, NEW bytes \in 0 .. MAX_SIZE_T, NEW kept,
         NEW r, r = dlrealloc(m, x.mem, bytes),
         NEW k, k = IF r.mem = 0 THEN l ELSE (l \ {x}) \cup {Block(r.mem, bytes, kept)}
  PROVE  \E z : Shaped(Settle(r.m), k, z) /\ z # Nothing
<1>. DEFINE p == mem2chunk(x.mem)
            us == Holding(l)
            l2 == l \ {x}
<1>1. p \in us
  BY DEF Holding
<1>2. Heap(m, sz, us, {})
  BY <1>1 DEF Shaped, Ready
<1>3. x.mem = chunk2mem(p)
  BY SizeFacts DEF Shaped, Housed
<1>4. Holding(l2) = us \ {p}
  BY HoldingLess DEF Shaped
<1>5. bytes \in Nat
  BY WordFacts
<1>. HIDE DEF p, us
<1>6. Moved(r, sz, us, p, bytes + 4)
  BY <1>1, <1>2, <1>3, dlreallocMoved
<1>7. PICK z : /\ Kept(sz, us \ {p}, z)
               /\ \/ r.mem = 0 /\ Heap(r.m, z, us, {}) /\ Kept(sz, us, z)
                  \/ \E q \in DOMAIN z \ (us \ {p}) : /\ r.mem = chunk2mem(q) /\ Heap(r.m, z, (us \ {p}) \cup {q}, {})
                                                      /\ z[q] >= bytes + 4
  BY <1>6 DEF Moved
<1>8. ASSUME r.mem = 0, Heap(r.m, z, us, {}), Kept(sz, us, z) PROVE Shaped(Settle(r.m), k, z) /\ z # Nothing
  <2>1. Housed(l, z)
    BY <1>8, HousedKept DEF us, Shaped
  <2>2. Ready(r.m, z, Holding(l))
    BY <1>8 DEF Ready, us
  <2>. QED BY <1>8, <2>1, <2>2, ShapedMade, HeapSome
<1>9. ASSUME NEW q \in DOMAIN z \ (us \ {p}), r.mem = chunk2mem(q), Heap(r.m, z, (us \ {p}) \cup {q}, {}),
             z[q] >= bytes + 4
      PROVE  Shaped(Settle(r.m), k, z) /\ z # Nothing
  <2>1. q \in Nat /\ z[q] \in Nat
    BY <1>9, HeapChunk
  <2>2. r.mem # 0
    BY <1>9, <2>1, SizeFacts
  <2>3. k = l2 \cup {Block(chunk2mem(q), bytes, kept)}
    BY <1>9, <2>2
  <2>4. Housed(l2, z)
    <3>1. l2 \in SUBSET l /\ Housed(l, sz) /\ Kept(sz, Holding(l2), z)
      BY <1>4, <1>7 DEF Shaped
    <3>. HIDE DEF l2
    <3>. QED BY <3>1, HousedKept
  <2>5. q \notin Holding(l2)
    BY <1>4, <1>9
  <2>. HIDE DEF l2
  <2>6. Housed(k, z) /\ Holding(k) = Holding(l2) \cup {q}
    <3>1. bytes + 4 <= z[q] /\ q \in Nat /\ bytes \in Nat
      BY <1>5, <1>9, <2>1
    <3>. QED BY <3>1, <2>3, <2>4, <2>5, HousedMore
  <2>7. Ready(r.m, z, Holding(k))
    BY <1>4, <1>9, <2>6 DEF Ready
  <2>. QED BY <1>9, <2>6, <2>7, ShapedMade, HeapSome
<1>. QED BY <1>7, <1>8, <1>9

Handed(k, l, r, sizes) == k = l \cup {Block(r.mems[i], Wanted(sizes, i), FALSE) : i \in DOMAIN r.mems}

(* Several blocks handed out at once.                                      *)
LEMMA HandOutAllShaped ==
  ASSUME NEW m, NEW l, NEW sz, Shaped(m, l, sz), NEW r, NEW pieces, NEW sizes,
         Parted(r, sz, Holding(l), pieces), Enough(pieces, sizes),
         NEW k, Handed(k, l, r, sizes)
  PROVE  \E z : Shaped(Settle(r.m), k, z)
<1>. DEFINE us == Holding(l)
<1>0. k = l \cup {Block(r.mems[i], Wanted(sizes, i), FALSE) : i \in DOMAIN r.mems}
  BY DEF Handed
<1>1. PICK z : /\ Kept(sz, us, z)
               /\ \/ r.mems = <<>> /\ Ready(r.m, z, us)
                  \/ \E f : Parts(f, r, z, us, pieces)
  BY DEF Parted
<1>2. Housed(l, z)
  BY <1>1, HousedKept DEF Shaped
<1>3. ASSUME r.mems = <<>>, Ready(r.m, z, us) PROVE Shaped(Settle(r.m), k, z)
  <2>1. k = l
    BY <1>0, <1>3
  <2>. QED BY <1>2, <1>3, <2>1, ShapedMade
<1>4. ASSUME NEW f, Parts(f, r, z, us, pieces) PROVE Shaped(Settle(r.m), k, z)
  <2>. DEFINE I == 1 .. Len(pieces)
              b(i) == Block(r.mems[i], Wanted(sizes, i), FALSE)
  <2>1. /\ f \in [I -> DOMAIN z \ us] /\ r.mems = [i \in I |-> chunk2mem(f[i])]
        /\ \A i, j \in I : f[i] = f[j] => i = j
        /\ Heap(r.m, z, us \cup {f[i] : i \in I}, {})
        /\ \A i \in I : z[f[i]] >= pieces[i]
    BY <1>4 DEF Parts
  <2>2. \A i \in I : f[i] \in DOMAIN z /\ f[i] \notin us /\ f[i] \in Nat /\ z[f[i]] \in Nat
    BY <2>1, HeapChunk
  <2>3. \A i \in I : pieces[i] \in Nat /\ pieces[i] >= Wanted(sizes, i) + 4 /\ Wanted(sizes, i) \in Nat
    BY DEF Enough
  <2>. HIDE DEF I, us
  <2>4. \A i \in I : /\ b(i).mem = f[i] + 8 /\ b(i).bytes = Wanted(sizes, i)
                     /\ mem2chunk(b(i).mem) = f[i]
    <3>. SUFFICES ASSUME NEW i \in I
                  PROVE /\ b(i).mem = f[i] + 8 /\ b(i).bytes = Wanted(sizes, i)
                        /\ mem2chunk(b(i).mem) = f[i]
      OBVIOUS
    <3>1. r.mems[i] = f[i] + 8
      BY <2>1, <2>2, SizeFacts
    <3>2. b(i).mem = f[i] + 8 /\ b(i).bytes = Wanted(sizes, i)
      BY <3>1 DEF Block
    <3>. HIDE DEF b
    <3>3. mem2chunk(f[i] + 8) = f[i]
      BY <2>2, SizeFacts
    <3>. QED BY <3>2, <3>3
  <2>5. k = l \cup {b(i) : i \in I}
    <3>1. DOMAIN r.mems = I
      BY <2>1
    <3>. QED BY <1>0, <3>1
  <2>. HIDE DEF b
  <2>6. Holding(k) = us \cup {f[i] : i \in I}
    BY <2>4, <2>5 DEF Holding, us
  <2>7. \A x \in k : x.mem \in Nat /\ x.bytes \in Nat /\ x.bytes + 4 <= z[mem2chunk(x.mem)]
    <3>1. \A x \in l : x.mem \in Nat /\ x.bytes \in Nat /\ x.bytes + 4 <= z[mem2chunk(x.mem)]
      BY <1>2 DEF Housed
    <3>2. ASSUME NEW i \in I
          PROVE  b(i).mem \in Nat /\ b(i).bytes \in Nat /\ b(i).bytes + 4 <= z[mem2chunk(b(i).mem)]
      <4>1. z[f[i]] \in Nat /\ z[f[i]] >= pieces[i] /\ pieces[i] \in Nat /\ pieces[i] >= Wanted(sizes, i) + 4
            /\ Wanted(sizes, i) \in Nat /\ f[i] \in Nat
        BY <2>1, <2>2, <2>3
      <4>2. z[mem2chunk(b(i).mem)] = z[f[i]] /\ b(i).bytes = Wanted(sizes, i) /\ b(i).mem = f[i] + 8
        BY <2>4
      <4>. QED BY <4>1, <4>2
    <3>. QED BY <2>5, <3>1, <3>2
  <2>8. \A x, y \in k : x.mem = y.mem => x = y
    <3>1. \A x, y \in l : x.mem = y.mem => x = y
      BY <1>2 DEF Housed
    <3>2. \A i \in I : \A x \in l : x.mem # b(i).mem
      <4>1. \A x \in l : mem2chunk(x.mem) \in us
        BY DEF us, Holding
      <4>. QED BY <2>2, <2>4, <4>1
    <3>3. \A i, j \in I : b(i).mem = b(j).mem => i = j
      <4>1. \A i, j \in I : b(i).mem = b(j).mem => f[i] = f[j]
        BY <2>4
      <4>. QED BY <2>1, <4>1
    <3>. QED BY <2>5, <3>1, <3>2, <3>3
  <2>9. Housed(k, z)
    BY <2>7, <2>8 DEF Housed
  <2>10. Ready(r.m, z, Holding(k))
    BY <2>1, <2>6 DEF Ready
  <2>. QED BY <2>9, <2>10, ShapedMade
<1>. QED BY <1>1, <1>3, <1>4

(* The shape after dlmalloc_trim.                                          *)
LEMMA TrimShaped ==
  ASSUME NEW m, NEW l, NEW sz, Shaped(m, l, sz), NEW pad \in Nat
  PROVE  /\ \E z : Shaped(Settle(dlmalloc_trim(m, pad)), l, z)
         /\ Begun(m, dlmalloc_trim(m, pad))
<1>. DEFINE n == dlmalloc_trim(m, pad)
<1>1. Begun(m, n) /\ \E z : Ready(n, z, Holding(l)) /\ Kept(sz, Holding(l), z)
  BY TrimReady DEF Shaped
<1>. HIDE DEF n
<1>2. PICK z : Ready(n, z, Holding(l)) /\ Kept(sz, Holding(l), z)
  BY <1>1
<1>3. Housed(l, z)
  BY <1>2, HousedKept DEF Shaped
<1>4. Shaped(Settle(n), l, z)
  BY <1>2, <1>3, ShapedMade
<1>. QED BY <1>1, <1>4 DEF n

(* The shape after dlmallopt.                                              *)
LEMMA MalloptShaped ==
  ASSUME NEW m, NEW l, NEW sz, Shaped(m, l, sz), NEW param, NEW v \in 0 .. MAX_SIZE_T
  PROVE  LET n == change_mparam(m, param, v)
         IN Shaped(n, l, sz) /\ (Untouched(n) => Untouched(m) /\ n.limit = m.limit)
<1>. DEFINE n == change_mparam(m, param, v)
<1>1. /\ Ready(n, sz, Holding(l)) /\ n.head = m.head
      /\ (Untouched(n) => Untouched(m) /\ n.limit = m.limit)
  BY change_mparamReady DEF Shaped
<1>. HIDE DEF n
<1>2. Shaped(n, l, sz)
  BY <1>1 DEF Shaped
<1>. QED BY <1>1, <1>2 DEF n

(* While the allocator is untouched the boot has everything before it.     *)
BootCalls == [bytes : 0 .. MAX_SIZE_T, kept : BOOLEAN]
(* An allocator that has not yet been touched is at the start of one of    *)
(* the boots.                                                              *)
Later(m, b) == b \in Seq(BootCalls) /\ (Untouched(m) => \E c \in Boots : m.limit = c[1] /\ b = c[2])
(* The inductive invariant: the state has a shape, and the boot's calls    *)
(* come first.                                                             *)
MInv == (\E sz : Shaped(gm, live, sz)) /\ Later(gm, booting)

(* The boot's calls stay first after a call.                               *)
LEMMA LaterSettled ==
  ASSUME NEW m, NEW b, Later(m, b), NEW n, NEW z, NEW us, Ready(n, z, us), Begun(m, n)
  PROVE  Later(Settle(n), b)
BY SettleReady DEF Later, Begun

(* An allocator that has handed out a block is ready.                      *)
LEMMA HadReady ==
  ASSUME NEW r, NEW sz, NEW us, NEW nb, Had(r, sz, us, nb)
  PROVE  \E z, u : Ready(r.m, z, u)
BY DEF Had, Ready

(* An allocator that has handed out pieces is ready.                       *)
LEMMA PartedReady ==
  ASSUME NEW r, NEW sz, NEW us, NEW pieces, Parted(r, sz, us, pieces)
  PROVE  \E z, u : Ready(r.m, z, u)
BY DEF Parted, Parts, Ready

(* Once there is memory, the boot's start is past.                         *)
LEMMA LaterShaped ==
  ASSUME NEW m, NEW l, NEW z, Shaped(m, l, z), z # Nothing, NEW n, NEW b, Later(n, b)
  PROVE  Later(m, b)
<1>1. Heap(m, z, Holding(l), {})
  BY DEF Shaped, Ready
<1>2. ~Untouched(m)
  BY <1>1, HeapNotBlank DEF Untouched
<1>. QED BY <1>2 DEF Later

(* The limit of the break is that of one of the boots.                     *)
LEMMA FrameLimit ==
  ASSUME NEW m, Frame(m)
  PROVE  \E b \in Boots : m.limit = b[1]
BY DEF Frame, Limits

(* The requests are words.                                                 *)
LEMMA RequestSize ==
  ASSUME NEW m, Frame(m), NEW r \in Requests[m.limit]
  PROVE  r \in 0 .. MAX_SIZE_T
BY FrameLimit, InputAssumption

(* An untouched allocator that has left the boot meets only requests whose *)
(* segment does not wrap.                                                  *)
LEMMA RequestFits ==
  ASSUME NEW m, Frame(m), Later(m, <<>>)
  PROVE  /\ \A r \in Requests[m.limit] : FitsNow(m, r)
         /\ \A c \in CallocInputs : FitsNow(m, c[1] * c[2])
         /\ \A a \in AlignInputs : /\ AlignFits(m, a[1], a[2]) /\ AlignFits(m, PageSize, a[2])
                                   /\ AlignFits(m, 2 * PageSize, a[2])
<1>1. CASE ~Untouched(m)
  BY <1>1 DEF Untouched, FitsNow, AlignFits
<1>2. CASE Untouched(m)
  <2>1. PICK c \in Boots : m.limit = c[1] /\ c[2] = <<>>
    BY <1>2 DEF Later
  <2>2. /\ \A r \in Requests[m.limit] : FitsFirst(r)
        /\ \A d \in CallocInputs : FitsFirst(d[1] * d[2])
        /\ \A a \in AlignInputs : a[2] >= MAX_REQUEST \/ a[1] + a[2] + 2 * PageSize + 128 < HALF_MAX_SIZE_T
    BY <2>1, FirstCallFits
  <2>3. ASSUME NEW a \in AlignInputs
        PROVE  AlignFits(m, a[1], a[2]) /\ AlignFits(m, PageSize, a[2]) /\ AlignFits(m, 2 * PageSize, a[2])
    <3>1. a \in Alignments \X (0 .. MAX_SIZE_T)
      BY InputAssumption DEF Alignments
    <3>2. a[1] \in Alignments /\ a[2] \in 0 .. MAX_SIZE_T
      BY <3>1
    <3>3. a[1] \in Nat /\ PageSize \in Nat /\ a[2] \in Nat
      <4>1. \A al \in Alignments : al \in Nat
        BY AlignmentFacts
      <4>2. a[2] \in Nat
        <5>. DEFINE y == a[2]
        <5>. HIDE DEF y
        <5>1. y \in 0 .. MAX_SIZE_T
          BY <3>2 DEF y
        <5>2. y \in Nat
          BY <5>1, WordFacts
        <5>. QED BY <5>2 DEF y
      <4>. QED BY <3>2, <4>1, <4>2, PageAligned
    <3>4. a[2] >= MAX_REQUEST \/ a[1] + a[2] + 2 * PageSize + 128 < HALF_MAX_SIZE_T
      BY <2>2
    <3>5. \A x \in {a[1], PageSize, 2 * PageSize} : a[2] >= MAX_REQUEST \/ x + a[2] + 100 < HALF_MAX_SIZE_T
      <4>. DEFINE x == a[1]
                  y == a[2]
                  P == PageSize
                  R == MAX_REQUEST
                  H == HALF_MAX_SIZE_T
      <4>1. x \in Nat /\ y \in Nat /\ P \in Nat /\ H \in Nat /\ (y >= R \/ x + y + 2 * P + 128 < H)
        BY <3>3, <3>4, WordFacts
      <4>. HIDE DEF x, y, P, R, H
      <4>2. y >= R \/ (x + y + 100 < H /\ P + y + 100 < H /\ 2 * P + y + 100 < H)
        BY <4>1
      <4>. QED BY <4>2 DEF x, y, P, R, H
    <3>. QED BY <3>5 DEF AlignFits
  <2>. QED BY <2>2, <2>3 DEF FitsNow
<1>. QED BY <1>1, <1>2

(* A shaped allocator is ready.                                            *)
LEMMA ReadyShaped ==
  ASSUME NEW m, NEW l, NEW sz, Shaped(m, l, sz)
  PROVE  Ready(m, sz, Holding(l)) /\ Frame(m)
BY ReadyFrame DEF Shaped

(* A block handed out keeps the invariant.                                 *)
LEMMA HandOutInv ==
  ASSUME NEW sz, Shaped(gm, live, sz), Later(gm, booting), NEW r, NEW bytes \in Nat, NEW kept,
         Had(r, sz, Holding(live), bytes + 4), Begun(gm, r.m), HandOut(r, bytes, kept), UNCHANGED booting
  PROVE  MInv'
<1>1. gm' = Settle(r.m) /\ live' = IF r.mem = 0 THEN live ELSE live \cup {Block(r.mem, bytes, kept)}
  BY DEF HandOut
<1>2. \E z : Shaped(Settle(r.m), live', z)
  BY <1>1, HandOutShaped
<1>3. PICK y, u : Ready(r.m, y, u)
  BY HadReady
<1>4. Later(Settle(r.m), booting)
  BY <1>3, LaterSettled
<1>5. (\E z : Shaped(gm', live', z)) /\ Later(gm', booting')
  BY <1>1, <1>2, <1>4
<1>. QED BY <1>5 DEF MInv

(* A call of the boot keeps the invariant.                                 *)
LEMMA BootInv ==
  ASSUME MInv, Boot
  PROVE  MInv'
<1>. DEFINE c == Head(booting)
            r == dlmalloc(gm, c.bytes)
<1>1. PICK sz : Shaped(gm, live, sz)
  BY DEF MInv
<1>2. booting \in Seq(BootCalls) /\ booting # <<>> /\ HandOut(r, c.bytes, c.kept) /\ booting' = Tail(booting)
      /\ (Untouched(gm) => \E b \in Boots : gm.limit = b[1] /\ booting = b[2])
  BY DEF MInv, Later, Boot
<1>3. c \in BootCalls /\ c.bytes \in 0 .. MAX_SIZE_T /\ c.bytes \in Nat /\ booting' \in Seq(BootCalls)
  <2>1. c \in BootCalls /\ booting' \in Seq(BootCalls)
    BY <1>2
  <2>2. c.bytes \in 0 .. MAX_SIZE_T
    BY <2>1 DEF BootCalls
  <2>. QED BY <2>1, <2>2, WordFacts
<1>4. FitsNow(gm, c.bytes)
  <2>1. ASSUME Untouched(gm) PROVE FitsFirst(c.bytes)
    <3>1. PICK b \in Boots : gm.limit = b[1] /\ booting = b[2]
      BY <1>2, <2>1
    <3>. QED BY <1>2, <3>1, FirstCallFits
  <2>. QED BY <2>1 DEF FitsNow, Untouched
<1>5. Ready(gm, sz, Holding(live))
  BY <1>1, ReadyShaped
<1>. DEFINE bytes == c.bytes
<1>6. Had(r, sz, Holding(live), bytes + 4)
  BY <1>3, <1>4, <1>5, dlmallocBytes, GotHad
<1>7. ~Untouched(r.m)
  <2>1. CASE Heap(gm, sz, Holding(live), {})
    BY <1>6, <2>1, HeapSome, HadNotBlank DEF Untouched
  <2>2. CASE Blank(gm)
    BY <1>3, <1>4, <2>2, dlmallocTouches
  <2>. QED BY <1>5, <2>1, <2>2 DEF Ready
<1>8. gm' = Settle(r.m) /\ live' = IF r.mem = 0 THEN live ELSE live \cup {Block(r.mem, bytes, c.kept)}
  BY <1>2 DEF HandOut
<1>9. bytes \in Nat
  BY <1>3
<1>. HIDE DEF r, c, bytes
<1>10. \E z : Shaped(Settle(r.m), live', z)
  BY <1>1, <1>6, <1>8, <1>9, HandOutShaped
<1>11. PICK y, u : Ready(r.m, y, u)
  BY <1>6, HadReady
<1>12. ~Untouched(Settle(r.m))
  BY <1>7, <1>11, SettleReady
<1>13. Later(gm', booting')
  BY <1>3, <1>8, <1>12 DEF Later
<1>14. (\E z : Shaped(gm', live', z)) /\ Later(gm', booting')
  BY <1>8, <1>10, <1>13
<1>. QED BY <1>14 DEF MInv

(* The allocator before its first call, as the loader leaves its zeroed    *)
(* state and init_mparams sets it.                                         *)
LEMMA FreshFacts ==
  ASSUME NEW b
  PROVE  LET m == Fresh(b)
         IN /\ DOMAIN m = Fields /\ DOMAIN m.head = {} /\ DOMAIN m.foot = {}
            /\ m.smallmap = {} /\ m.smallbins = [i \in SmallBins |-> <<>>]
            /\ m.treemap = {} /\ m.treebins = [i \in TreeBins |-> NoTrie]
            /\ m.dv = 0 /\ m.dvsize = 0 /\ m.top = 0 /\ m.topsize = 0 /\ m.trim_check = 0
            /\ m.seg = [base |-> 0, size |-> 0] /\ m.least_addr = 0 /\ m.contiguous = TRUE
            /\ m.footprint = 0 /\ m.max_footprint = 0 /\ m.granularity = PageSize
            /\ m.trim_threshold = TrimThreshold /\ m.limit = b /\ m.brk = 0
            /\ m.stray = FALSE /\ m.aborted = FALSE
BY DEF Fresh, Fields, SmallBins, TreeBins

(* It has no memory.                                                       *)
LEMMA FreshBlank ==
  ASSUME NEW c \in Boots
  PROVE  Blank(Fresh(c[1]))
<1>. DEFINE m == Fresh(c[1])
            b == c[1]
<1>1. /\ DOMAIN m = Fields /\ DOMAIN m.head = {} /\ DOMAIN m.foot = {}
      /\ m.smallmap = {} /\ m.smallbins = [i \in SmallBins |-> <<>>]
      /\ m.treemap = {} /\ m.treebins = [i \in TreeBins |-> NoTrie]
      /\ m.dv = 0 /\ m.dvsize = 0 /\ m.top = 0 /\ m.topsize = 0 /\ m.trim_check = 0
      /\ m.seg = [base |-> 0, size |-> 0] /\ m.least_addr = 0 /\ m.contiguous = TRUE
      /\ m.footprint = 0 /\ m.max_footprint = 0 /\ m.granularity = PageSize
      /\ m.trim_threshold = TrimThreshold /\ m.limit = b /\ m.brk = 0
      /\ m.stray = FALSE /\ m.aborted = FALSE
  BY FreshFacts
<1>2. b \in Limits /\ b \in Nat /\ HeapBase + b <= HALF_MAX_SIZE_T
  BY MallocAssumption DEF Limits
<1>. HIDE DEF m, b
<1>3. m.granularity \in {2^k : k \in 4 .. SIZE_T_BITSIZE - 1} /\ m.granularity % PageSize = 0
  <2>1. PICK k \in 4 .. SIZE_T_BITSIZE - 2 : PageSize = 2^k
    BY MallocAssumption
  <2>2. k \in 4 .. SIZE_T_BITSIZE - 1
    BY MallocAssumption
  <2>3. PageSize % PageSize = 0
    <3>. DEFINE P == PageSize
    <3>1. P \in Nat /\ P > 0
      BY PageAligned
    <3>. HIDE DEF P
    <3>2. 0 \in 0 .. P - 1 /\ P = P * 1 + 0 /\ P \in Int /\ 1 \in Int
      BY <3>1
    <3>3. P % P = 0
      BY <3>1, <3>2, ModUnique
    <3>. QED BY <3>3 DEF P
  <2>. QED BY <1>1, <2>1, <2>2, <2>3
<1>4. m.trim_threshold \in 0 .. MAX_SIZE_T /\ m.trim_check \in 0 .. MAX_SIZE_T
  BY <1>1, MallocAssumption, WordFacts
<1>5. Frame(m)
  <2>1. m.brk \in 0 .. m.limit /\ m.contiguous \in BOOLEAN /\ m.footprint = m.brk
        /\ m.max_footprint \in Nat /\ m.max_footprint >= m.brk
    <3>1. m.limit \in Nat /\ m.brk = 0 /\ m.footprint = 0 /\ m.max_footprint = 0
      BY <1>1, <1>2
    <3>2. m.contiguous \in BOOLEAN
      BY <1>1
    <3>. QED BY <3>1, <3>2
  <2>2. /\ DOMAIN m = Fields /\ m.limit \in Limits /\ m.limit \in Nat /\ HeapBase + m.limit <= HALF_MAX_SIZE_T
        /\ m.stray = FALSE /\ m.aborted = FALSE
    BY <1>1, <1>2
  <2>. QED BY <2>1, <2>2, <1>3, <1>4 DEF Frame
<1>6. Bins(m, Nothing)
  <2>1. DOMAIN Nothing = {} /\ \A s : Of(Nothing, s) = {}
    BY DEF Nothing, Of
  <2>2. \A i \in SmallBins : Lists(m.smallbins[i], Of(Nothing, i * 8))
    BY <1>1, <2>1, ListsEmpty
  <2>3. \A i \in TreeBins : Trie(m.treebins[i], i, Nothing)
    BY <1>1, <2>1 DEF Trie, NoTrie
  <2>4. m.smallmap = {i \in SmallBins : m.smallbins[i] # <<>>} /\ m.treemap = {i \in TreeBins : m.treebins[i] # NoTrie}
    BY <1>1
  <2>. QED BY <1>1, <2>1, <2>2, <2>3, <2>4 DEF Bins
<1>7. Blank(m)
  BY <1>1, <1>5, <1>6 DEF Blank
<1>. QED BY <1>7 DEF m, b

(* The initial states satisfy the invariant.                               *)
LEMMA InitInv == Init => MInv
<1>. SUFFICES ASSUME Init PROVE MInv
  OBVIOUS
<1>1. PICK c \in Boots : gm = Fresh(c[1]) /\ live = {} /\ booting = c[2]
  BY DEF Init
<1>2. Blank(gm)
  BY <1>1, FreshBlank
<1>3. Shaped(gm, live, Nothing)
  <2>1. Holding(live) = {} /\ Housed(live, Nothing)
    BY <1>1 DEF Holding, Housed
  <2>2. DOMAIN gm.head = DOMAIN Nothing
    BY <1>2 DEF Blank, Nothing
  <2>. QED BY <1>2, <2>1, <2>2 DEF Shaped, Ready
<1>4. Later(gm, booting)
  <2>1. booting \in Seq(BootCalls)
    BY <1>1, InputAssumption DEF BootCalls
  <2>2. gm.limit = c[1]
    BY <1>1, FreshFacts
  <2>. QED BY <1>1, <2>1, <2>2 DEF Later
<1>. QED BY <1>3, <1>4 DEF MInv

(* A call that hands out a block keeps the invariant.                      *)
LEMMA HandOutStep ==
  ASSUME MInv, booting = <<>>, UNCHANGED booting, NEW r, NEW bytes, bytes \in Nat, NEW kept, HandOut(r, bytes, kept),
         \A sz : Ready(gm, sz, Holding(live)) => Had(r, sz, Holding(live), bytes + 4) /\ Begun(gm, r.m)
  PROVE  MInv'
<1>1. PICK sz : Shaped(gm, live, sz)
  BY DEF MInv
<1>2. Ready(gm, sz, Holding(live)) /\ Later(gm, booting)
  BY <1>1, ReadyShaped DEF MInv
<1>3. Had(r, sz, Holding(live), bytes + 4) /\ Begun(gm, r.m)
  BY <1>2
<1>. QED BY <1>1, <1>2, <1>3, HandOutInv

(* The inputs of the calls are words, and none wraps the first segment.    *)
LEMMA NowFits ==
  ASSUME MInv, booting = <<>>
  PROVE  /\ \A r \in Requests[gm.limit] : r \in 0 .. MAX_SIZE_T /\ r \in Nat /\ FitsNow(gm, r)
         /\ \A c \in CallocInputs : /\ c[1] \in 0 .. MAX_SIZE_T /\ c[2] \in 0 .. MAX_SIZE_T
                                    /\ FitsNow(gm, c[1] * c[2])
         /\ \A a \in AlignInputs : /\ a[1] \in Alignments /\ a[2] \in 0 .. MAX_SIZE_T /\ a[2] \in Nat
                                   /\ a[2] + PageSize <= WordRange
                                   /\ AlignFits(gm, a[1], a[2]) /\ AlignFits(gm, PageSize, a[2])
                                   /\ AlignFits(gm, 2 * PageSize, a[2])
<1>1. PICK sz : Shaped(gm, live, sz)
  BY DEF MInv
<1>2. Frame(gm) /\ Later(gm, <<>>)
  BY <1>1, ReadyShaped DEF MInv
<1>3. \A x \in 0 .. MAX_SIZE_T : x \in Nat
  OBVIOUS
<1>4. CallocInputs \subseteq (0 .. MAX_SIZE_T) \X (0 .. MAX_SIZE_T)
  BY InputAssumption
<1>5. \A c \in CallocInputs : c[1] \in 0 .. MAX_SIZE_T /\ c[2] \in 0 .. MAX_SIZE_T
  BY <1>4
<1>6. AlignInputs \subseteq Alignments \X (0 .. MAX_SIZE_T) /\ \A a \in AlignInputs : a[2] + PageSize <= WordRange
  BY InputAssumption DEF Alignments, WordRange
<1>7. \A a \in AlignInputs : a[1] \in Alignments /\ a[2] \in 0 .. MAX_SIZE_T
  BY <1>6
<1>8. \A r \in Requests[gm.limit] : r \in 0 .. MAX_SIZE_T
  BY <1>2, RequestSize
<1>9. /\ \A r \in Requests[gm.limit] : FitsNow(gm, r)
      /\ \A c \in CallocInputs : FitsNow(gm, c[1] * c[2])
      /\ \A a \in AlignInputs : /\ AlignFits(gm, a[1], a[2]) /\ AlignFits(gm, PageSize, a[2])
                                /\ AlignFits(gm, 2 * PageSize, a[2])
  BY <1>2, RequestFits
<1>. QED BY <1>3, <1>5, <1>6, <1>7, <1>8, <1>9

(* dlmalloc keeps the invariant.                                           *)
LEMMA MallocInv == ASSUME MInv, NEW b \in Requests[gm.limit], Malloc(b) PROVE MInv'
<1>1. booting = <<>> /\ UNCHANGED booting /\ HandOut(dlmalloc(gm, b), b, FALSE)
  BY DEF Malloc, Booted
<1>2. b \in 0 .. MAX_SIZE_T /\ b \in Nat /\ FitsNow(gm, b)
  BY <1>1, NowFits
<1>3. ASSUME NEW sz, Ready(gm, sz, Holding(live))
      PROVE  Had(dlmalloc(gm, b), sz, Holding(live), b + 4) /\ Begun(gm, dlmalloc(gm, b).m)
  BY <1>2, <1>3, dlmallocBytes, GotHad, BegunMalloc
<1>. QED BY <1>1, <1>2, <1>3, HandOutStep

(* dlcalloc keeps the invariant.                                           *)
LEMMA CallocInv == ASSUME MInv, NEW c \in CallocInputs, Calloc(c[1], c[2]) PROVE MInv'
<1>. DEFINE n == c[1]
            s == c[2]
            b == n * s
            r == dlcalloc(gm, n, s)
<1>1. booting = <<>> /\ UNCHANGED booting /\ HandOut(r, b, FALSE)
  BY DEF Calloc, Booted
<1>2. n \in 0 .. MAX_SIZE_T /\ s \in 0 .. MAX_SIZE_T /\ FitsNow(gm, n * s)
  BY <1>1, NowFits
<1>. HIDE DEF n, s
<1>3. b \in Nat
  BY <1>2, WordFacts
<1>4. ASSUME NEW sz, Ready(gm, sz, Holding(live))
      PROVE  Had(r, sz, Holding(live), b + 4) /\ Begun(gm, r.m)
  <2>1. Got(dlcalloc(gm, n, s), sz, Holding(live), n * s + 4)
    BY <1>2, <1>4, dlcallocBytes
  <2>2. Begun(gm, dlcalloc(gm, n, s).m)
    BY <1>2, <1>4, BegunCalloc
  <2>. DEFINE k == n * s + 4
  <2>3. Got(r, sz, Holding(live), k)
    BY <2>1
  <2>. HIDE DEF k
  <2>4. Had(r, sz, Holding(live), k)
    BY <2>3, GotHad
  <2>. QED BY <2>2, <2>4 DEF k
<1>. HIDE DEF r, b
<1>. QED BY <1>1, <1>3, <1>4, HandOutStep

(* dlmemalign keeps the invariant.                                         *)
LEMMA MemalignInv == ASSUME MInv, NEW a \in AlignInputs, Memalign(a[1], a[2]) PROVE MInv'
<1>. DEFINE al == a[1]
            b == a[2]
            r == dlmemalign(gm, al, b)
<1>1. booting = <<>> /\ UNCHANGED booting /\ HandOut(r, b, FALSE)
  BY DEF Memalign, Booted
<1>2. al \in Alignments /\ b \in 0 .. MAX_SIZE_T /\ b \in Nat /\ AlignFits(gm, al, b)
  BY <1>1, NowFits
<1>. HIDE DEF al, b
<1>3. ASSUME NEW sz, Ready(gm, sz, Holding(live))
      PROVE  Had(r, sz, Holding(live), b + 4) /\ Begun(gm, r.m)
  BY <1>2, <1>3, dlmemalignGot
<1>. HIDE DEF r
<1>. QED BY <1>1, <1>2, <1>3, HandOutStep

(* dlvalloc keeps the invariant.                                           *)
LEMMA VallocInv == ASSUME MInv, NEW a \in AlignInputs, Valloc(a[2]) PROVE MInv'
<1>. DEFINE b == a[2]
            r == dlvalloc(gm, b)
<1>1. booting = <<>> /\ UNCHANGED booting /\ HandOut(r, b, FALSE)
  BY DEF Valloc, Booted
<1>2. b \in 0 .. MAX_SIZE_T /\ b \in Nat /\ AlignFits(gm, PageSize, b)
  BY <1>1, NowFits
<1>. HIDE DEF b
<1>3. ASSUME NEW sz, Ready(gm, sz, Holding(live))
      PROVE  Had(r, sz, Holding(live), b + 4) /\ Begun(gm, r.m)
  BY <1>2, <1>3, dlvallocGot
<1>. HIDE DEF r
<1>. QED BY <1>1, <1>2, <1>3, HandOutStep

(* dlpvalloc keeps the invariant.                                          *)
LEMMA PvallocInv == ASSUME MInv, NEW a \in AlignInputs, Pvalloc(a[2]) PROVE MInv'
<1>. DEFINE b == a[2]
            r == dlpvalloc(gm, b)
<1>1. booting = <<>> /\ UNCHANGED booting /\ HandOut(r, b, FALSE)
  BY DEF Pvalloc, Booted
<1>2. b \in 0 .. MAX_SIZE_T /\ b \in Nat /\ b + PageSize <= WordRange /\ AlignFits(gm, 2 * PageSize, b)
  BY <1>1, NowFits
<1>. HIDE DEF b
<1>3. ASSUME NEW sz, Ready(gm, sz, Holding(live))
      PROVE  Had(r, sz, Holding(live), b + 4) /\ Begun(gm, r.m)
  BY <1>2, <1>3, dlpvallocGot
<1>. HIDE DEF r
<1>. QED BY <1>1, <1>2, <1>3, HandOutStep

(* dlmallopt keeps the invariant.                                          *)
LEMMA MalloptInv == ASSUME MInv, NEW p \in Params, Mallopt(p[1], p[2]) PROVE MInv'
<1>. DEFINE v == p[2]
            n == change_mparam(gm, p[1], v)
<1>1. UNCHANGED booting /\ live' = live /\ gm' = n
  BY DEF Mallopt, Booted
<1>2. v \in 0 .. MAX_SIZE_T
  BY InputAssumption
<1>3. PICK sz : Shaped(gm, live, sz)
  BY DEF MInv
<1>. HIDE DEF v
<1>4. Shaped(n, live, sz) /\ (Untouched(n) => Untouched(gm) /\ n.limit = gm.limit)
  BY <1>2, <1>3, MalloptShaped
<1>. HIDE DEF n
<1>5. Later(n, booting)
  BY <1>4 DEF MInv, Later
<1>6. (\E z : Shaped(gm', live', z)) /\ Later(gm', booting')
  BY <1>1, <1>4, <1>5
<1>. QED BY <1>6 DEF MInv

(* dlrealloc keeps the invariant.                                          *)
LEMMA ReallocInv == ASSUME MInv, NEW x \in Loose, NEW b \in Requests[gm.limit], Realloc(x, b) PROVE MInv'
<1>. DEFINE r == dlrealloc(gm, x.mem, b)
<1>1. /\ booting = <<>> /\ UNCHANGED booting /\ gm' = Settle(r.m)
      /\ live' = IF r.mem = 0 THEN live ELSE (live \ {x}) \cup {Block(r.mem, b, FALSE)}
  BY DEF Realloc, Booted, Exchange
<1>2. b \in 0 .. MAX_SIZE_T /\ x \in live
  BY <1>1, NowFits DEF Loose
<1>3. PICK sz : Shaped(gm, live, sz)
  BY DEF MInv
<1>4. r = dlrealloc(gm, x.mem, b)
  OBVIOUS
<1>. HIDE DEF r
<1>5. PICK z : Shaped(Settle(r.m), live', z) /\ z # Nothing
  BY <1>1, <1>2, <1>3, <1>4, ExchangeShaped
<1>6. Shaped(gm', live', z)
  BY <1>1, <1>5
<1>7. Later(gm', booting')
  BY <1>1, <1>5, <1>6, LaterShaped DEF MInv
<1>. QED BY <1>6, <1>7 DEF MInv

(* independent_calloc and independent_comalloc keep the invariant.         *)
LEMMA IndependentInv ==
  ASSUME MInv, NEW l \in ElementLists, NEW given \in BOOLEAN, Independent(l, given) PROVE MInv'
<1>. DEFINE r == ialloc(gm, l, given)
<1>1. /\ booting = <<>> /\ UNCHANGED booting /\ gm' = Settle(r.m)
      /\ live' = live \cup {Block(r.mems[i], Wanted(l, i), FALSE) : i \in DOMAIN r.mems}
  BY DEF Independent, Booted, HandOutAll, Wanted
<1>2. PICK sz : Shaped(gm, live, sz)
  BY DEF MInv
<1>3. \E pieces : /\ Parted(r, sz, Holding(live), pieces) /\ Enough(pieces, l) /\ Begun(gm, r.m)
  <2>1. Ready(gm, sz, Holding(live))
    BY <1>2, ReadyShaped
  <2>. QED BY <2>1, iallocParted
<1>. HIDE DEF r
<1>4. PICK pieces : Parted(r, sz, Holding(live), pieces) /\ Enough(pieces, l) /\ Begun(gm, r.m)
  BY <1>3
<1>5. \E z : Shaped(Settle(r.m), live', z)
  <2>. DEFINE k == live'
              h == live
              m == gm
  <2>1. Handed(k, h, r, l)
    BY <1>1 DEF Handed
  <2>2. Shaped(m, h, sz) /\ Parted(r, sz, Holding(h), pieces) /\ Enough(pieces, l)
    BY <1>2, <1>4
  <2>. HIDE DEF k, h, m
  <2>3. \E z : Shaped(Settle(r.m), k, z)
    BY <2>1, <2>2, HandOutAllShaped
  <2>. QED BY <2>3 DEF k
<1>6. PICK y, u : Ready(r.m, y, u)
  BY <1>4, PartedReady
<1>7. Later(Settle(r.m), booting)
  BY <1>4, <1>6, LaterSettled DEF MInv
<1>8. (\E z : Shaped(gm', live', z)) /\ Later(gm', booting')
  BY <1>1, <1>5, <1>7
<1>. QED BY <1>8 DEF MInv

(* dlfree keeps the invariant.                                             *)
LEMMA FreeInv == ASSUME MInv, NEW x \in Loose, Free(x) PROVE MInv'
<1>1. UNCHANGED booting /\ gm' = Settle(dlfree(gm, x.mem)) /\ live' = live \ {x} /\ x \in live
  BY DEF Free, Booted, Loose
<1>2. PICK sz : Shaped(gm, live, sz)
  BY DEF MInv
<1>3. PICK z : Shaped(Settle(dlfree(gm, x.mem)), live \ {x}, z) /\ z # Nothing
  BY <1>1, <1>2, FreeShaped
<1>4. Shaped(gm', live', z)
  BY <1>1, <1>3
<1>5. Later(gm', booting')
  BY <1>1, <1>3, <1>4, LaterShaped DEF MInv
<1>. QED BY <1>4, <1>5 DEF MInv

(* dlmalloc_trim keeps the invariant.                                      *)
LEMMA TrimInv == ASSUME MInv, NEW pad \in Pads, Trim(pad) PROVE MInv'
<1>. DEFINE n == dlmalloc_trim(gm, pad)
<1>1. UNCHANGED booting /\ gm' = Settle(n) /\ live' = live
  BY DEF Trim, Booted
<1>2. pad \in Nat
  BY InputAssumption
<1>3. PICK sz : Shaped(gm, live, sz)
  BY DEF MInv
<1>4. (\E z : Shaped(Settle(n), live, z)) /\ Begun(gm, n)
  BY <1>2, <1>3, TrimShaped
<1>5. \E z : Ready(n, z, Holding(live))
  BY <1>2, <1>3, ReadyShaped, TrimReady
<1>. HIDE DEF n
<1>6. Later(Settle(n), booting)
  BY <1>4, <1>5, LaterSettled DEF MInv
<1>7. (\E z : Shaped(gm', live', z)) /\ Later(gm', booting')
  BY <1>1, <1>4, <1>6
<1>. QED BY <1>7 DEF MInv

(* Every step keeps the invariant.                                         *)
LEMMA NextInv == MInv /\ [Next]_vars => MInv'
<1>. SUFFICES ASSUME MInv, [Next]_vars PROVE MInv'
  OBVIOUS
<1>1. CASE Boot
  BY <1>1, BootInv
<1>2. CASE \E b \in Requests[gm.limit] : Malloc(b)
  BY <1>2, MallocInv
<1>3. CASE \E c \in CallocInputs : Calloc(c[1], c[2])
  BY <1>3, CallocInv
<1>4. CASE \E a \in AlignInputs : Memalign(a[1], a[2])
  BY <1>4, MemalignInv
<1>5. CASE \E a \in AlignInputs : Valloc(a[2]) \/ Pvalloc(a[2])
  BY <1>5, VallocInv, PvallocInv
<1>6. CASE \E p \in Params : Mallopt(p[1], p[2])
  BY <1>6, MalloptInv
<1>7. CASE \E x \in Loose, b \in Requests[gm.limit] : Realloc(x, b)
  BY <1>7, ReallocInv
<1>8. CASE \E l \in ElementLists, given \in BOOLEAN : Independent(l, given)
  BY <1>8, IndependentInv
<1>9. CASE \E x \in Loose : Free(x)
  BY <1>9, FreeInv
<1>10. CASE \E pad \in Pads : Trim(pad)
  BY <1>10, TrimInv
<1>11. CASE UNCHANGED vars
  BY <1>11 DEF vars, MInv
<1>. QED BY <1>1, <1>2, <1>3, <1>4, <1>5, <1>6, <1>7, <1>8, <1>9, <1>10, <1>11 DEF Next

(* The allocator keeps its shape: after every call of the malloc family,   *)
(* from every caller that gives back what it holds, the segment is tiled   *)
(* by chunks whose head and foot words say so, the blocks handed out are   *)
(* exactly the chunks in use, and the bins, the victim and the top hold    *)
(* exactly the rest.                                                       *)
THEOREM MallocInvariant == Spec => []MInv
<1>1. MInv /\ [Next]_vars => MInv'
  BY NextInv
<1>. QED BY InitInv, <1>1, PTL DEF Spec

-----------------------------------------------------------------------------
(* What follows from it.                                                   *)

(* The heads are words of a size and two bits.                             *)
LEMMA ReadyHeads ==
  ASSUME NEW m, NEW sz, NEW us, Ready(m, sz, us), DOMAIN m.head = DOMAIN sz
  PROVE  \A p \in DOMAIN m.head : m.head[p] \in HeadType
<1>1. CASE Heap(m, sz, us, {})
  <2>1. Words(m, sz, us, {})
    BY <1>1 DEF Heap, Laid
  <2>2. ASSUME NEW p \in DOMAIN m.head PROVE m.head[p] \in HeadType
    <3>1. HeadIs(m, p, sz[p], p \in us, AfterUsed(sz, us, p))
      BY <2>1 DEF Words
    <3>. QED BY <3>1 DEF HeadIs, HeadAt
  <2>. QED BY <2>2
<1>2. CASE Blank(m)
  BY <1>2 DEF Blank
<1>. QED BY <1>1, <1>2 DEF Ready

(* The bins index some set of chunks.                                      *)
LEMMA ReadyBins ==
  ASSUME NEW m, NEW sz, NEW us, Ready(m, sz, us)
  PROVE  \E F : Bins(m, F)
BY DEF Ready, Heap, Blank

(* The victim's size goes with its address.                                *)
LEMMA ReadyVictim ==
  ASSUME NEW m, NEW sz, NEW us, Ready(m, sz, us)
  PROVE  /\ m.dvsize \in Nat /\ m.topsize \in Nat
         /\ m.dvsize = 0 <=> m.dv = 0
         /\ m.dv # 0 => /\ Heap(m, sz, us, {}) /\ m.dv \in DOMAIN sz \ us /\ m.dv # m.top
                        /\ m.dvsize = sz[m.dv]
<1>1. CASE Heap(m, sz, us, {})
  <2>1. m.topsize \in Nat
    BY <1>1, TopFacts
  <2>2. \/ m.dv = 0 /\ m.dvsize = 0
        \/ m.dv \in DOMAIN sz \ us /\ m.dv # m.top /\ m.dvsize = sz[m.dv]
    BY <1>1 DEF Heap, Victim
  <2>3. CASE m.dv \in DOMAIN sz \ us /\ m.dv # m.top /\ m.dvsize = sz[m.dv]
    <3>1. m.dv >= 8 /\ sz[m.dv] \in Nat /\ sz[m.dv] > 0 /\ m.dv \in Nat
      BY <1>1, <2>3, HeapChunk
    <3>. QED BY <1>1, <2>1, <2>3, <3>1
  <2>. QED BY <2>1, <2>2, <2>3
<1>2. CASE Blank(m)
  BY <1>2 DEF Blank
<1>. QED BY <1>1, <1>2 DEF Ready

(* A block handed out is a chunk in use with room for its bytes.           *)
LEMMA ShapedLive ==
  ASSUME NEW m, NEW l, NEW sz, Shaped(m, l, sz), NEW x \in l
  PROVE  /\ Heap(m, sz, Holding(l), {}) /\ mem2chunk(x.mem) \in Holding(l) /\ mem2chunk(x.mem) \in DOMAIN sz
         /\ x.mem \in Nat /\ x.mem = mem2chunk(x.mem) + 8 /\ x.bytes \in Nat
         /\ x.bytes + 4 <= sz[mem2chunk(x.mem)]
<1>1. mem2chunk(x.mem) \in Holding(l)
  BY DEF Holding
<1>2. Heap(m, sz, Holding(l), {})
  BY <1>1 DEF Shaped, Ready
<1>3. x.mem \in Nat /\ x.bytes \in Nat /\ x.bytes + 4 <= sz[mem2chunk(x.mem)]
  BY DEF Shaped, Housed
<1>. QED BY <1>1, <1>2, <1>3, HeapUsed, SizeFacts

(* The invariant gives the types.                                          *)
LEMMA TypeFromMInv == MInv => TypeOK
<1>. SUFFICES ASSUME MInv PROVE TypeOK
  OBVIOUS
<1>1. PICK sz : Shaped(gm, live, sz)
  BY DEF MInv
<1>2. Ready(gm, sz, Holding(live)) /\ Frame(gm) /\ DOMAIN gm.head = DOMAIN sz
  BY <1>1, ReadyShaped DEF Shaped
<1>3. \A p \in DOMAIN gm.head : gm.head[p] \in [size : Nat, cinuse : BOOLEAN, pinuse : BOOLEAN]
  BY <1>2, ReadyHeads DEF HeadType
<1>4. gm.smallmap \subseteq 2 .. NSMALLBINS - 1 /\ gm.treemap \subseteq 0 .. NTREEBINS - 1
  BY <1>2, ReadyBins DEF Bins, SmallBins, TreeBins
<1>5. gm.dvsize \in Nat /\ gm.topsize \in Nat
  BY <1>2, ReadyVictim
<1>6. /\ gm.trim_check \in 0 .. MAX_SIZE_T /\ gm.brk \in 0 .. gm.limit /\ gm.contiguous \in BOOLEAN
      /\ gm.granularity % PageSize = 0 /\ gm.trim_threshold \in 0 .. MAX_SIZE_T
  BY <1>2 DEF Frame
<1>7. ASSUME NEW x \in live PROVE x.mem \in HeapBase .. HeapBase + gm.brk /\ x.bytes \in Nat
  <2>. DEFINE p == mem2chunk(x.mem)
  <2>1. Heap(gm, sz, Holding(live), {}) /\ p \in DOMAIN sz /\ x.mem = p + 8 /\ x.bytes \in Nat /\ p \in Holding(live)
    BY <1>1, ShapedLive
  <2>2. p # gm.top
    BY <2>1, HeapUsed
  <2>. HIDE DEF p
  <2>3. /\ p \in Nat /\ p >= HeapBase /\ sz[p] \in Nat /\ p + sz[p] <= Ends(gm) /\ Ends(gm) \in Nat
        /\ Sized(sz[p])
    BY <2>1, <2>2, HeapChunk
  <2>4. Ends(gm) = HeapBase + gm.brk - 40 /\ HeapBase \in Nat /\ gm.brk \in Nat
    BY <1>2, FrameFacts DEF Ends
  <2>. QED BY <2>1, <2>3, <2>4 DEF Sized
<1>. QED BY <1>3, <1>4, <1>5, <1>6, <1>7 DEF TypeOK

(* The state of _gm_ stays well typed: no head word, bin, map or counter   *)
(* of malloc.cpp takes a value outside its range.                          *)
THEOREM MallocTypes == Spec => []TypeOK
BY MallocInvariant, TypeFromMInv, PTL

(* The invariant gives the tiling that the chunks make.                    *)
LEMMA TileFromMInv == MInv => ChunksTile
<1>. SUFFICES ASSUME MInv, is_initialized(gm)
              PROVE  /\ gm.top \in Chunks(gm)
                     /\ gm.head[gm.top] = [size |-> gm.topsize, cinuse |-> FALSE, pinuse |-> TRUE]
                     /\ gm.topsize > 0 /\ gm.top + gm.topsize + TOP_FOOT_SIZE = segment_end(gm)
                     /\ \A p \in Chunks(gm) \ {gm.top} :
                          /\ chunksize(gm, p) >= MIN_CHUNK_SIZE /\ chunksize(gm, p) % MALLOC_ALIGNMENT = 0
                          /\ next_chunk(gm, p) \in Chunks(gm)
                          /\ pinuse(gm, next_chunk(gm, p)) <=> cinuse(gm, p)
                          /\ cinuse(gm, p) \/ (/\ pinuse(gm, p) /\ cinuse(gm, next_chunk(gm, p))
                                               /\ prev_chunk(gm, next_chunk(gm, p)) = p)
  BY DEF ChunksTile
<1>1. PICK sz : Shaped(gm, live, sz)
  BY DEF MInv
<1>. DEFINE us == Holding(live)
            m == gm
<1>2. Heap(m, sz, us, {}) /\ DOMAIN m.head = DOMAIN sz
  BY <1>1 DEF Shaped, Ready, Blank, is_initialized
<1>. HIDE DEF us
<1>3. Chunks(m) = DOMAIN sz
  BY <1>2, HeapChunks
<1>4. Words(m, sz, us, {}) /\ Merged(sz, us) /\ Tiling(sz, Ends(m))
  BY <1>2 DEF Heap, Laid
<1>5. m.top \in DOMAIN sz /\ m.top \notin us /\ m.topsize = sz[m.top]
  BY <1>2, HeapUsed, TopFacts
<1>6. m.topsize > 0 /\ m.top + m.topsize + TOP_FOOT_SIZE = segment_end(m)
  BY <1>2, TopFacts, SizeFacts
<1>7. \A p \in DOMAIN sz \ us : AfterUsed(sz, us, p)
  <2>. SUFFICES ASSUME NEW p \in DOMAIN sz \ us, NEW q \in DOMAIN sz, q + sz[q] = p, q \notin us PROVE FALSE
    BY DEF AfterUsed
  <2>. QED BY <1>4 DEF Merged
<1>8. \A p \in DOMAIN sz : /\ p \in DOMAIN m.head /\ chunksize(m, p) = sz[p]
                           /\ cinuse(m, p) \in BOOLEAN /\ pinuse(m, p) \in BOOLEAN
                           /\ (cinuse(m, p) <=> p \in us) /\ (pinuse(m, p) <=> AfterUsed(sz, us, p))
  BY <1>2, HeapHead
<1>9. m.head[m.top] = [size |-> m.topsize, cinuse |-> FALSE, pinuse |-> TRUE]
  <2>1. m.head[m.top] \in HeadType
    BY <1>1, <1>5, <1>8, ReadyHeads DEF Shaped
  <2>2. chunksize(m, m.top) = m.topsize /\ cinuse(m, m.top) = FALSE /\ pinuse(m, m.top) = TRUE
    BY <1>5, <1>7, <1>8
  <2>3. m.head[m.top].size = m.topsize /\ m.head[m.top].cinuse = FALSE /\ m.head[m.top].pinuse = TRUE
    BY <2>2, <1>5, <1>8 DEF chunksize, cinuse, pinuse, HeadAt
  <2>. QED BY <2>1, <2>3 DEF HeadType
<1>10. ASSUME NEW p \in DOMAIN sz, p # m.top
       PROVE  /\ chunksize(m, p) >= MIN_CHUNK_SIZE /\ chunksize(m, p) % MALLOC_ALIGNMENT = 0
              /\ next_chunk(m, p) \in DOMAIN sz
              /\ pinuse(m, next_chunk(m, p)) <=> cinuse(m, p)
              /\ cinuse(m, p) \/ (/\ pinuse(m, p) /\ cinuse(m, next_chunk(m, p))
                                  /\ prev_chunk(m, next_chunk(m, p)) = p)
  <2>1. Sized(sz[p]) /\ p \in Nat /\ sz[p] \in Nat
    BY <1>2, <1>10, HeapChunk
  <2>2. chunksize(m, p) = sz[p] /\ (cinuse(m, p) <=> p \in us) /\ next_chunk(m, p) = p + sz[p]
    BY <1>8 DEF next_chunk
  <2>3. /\ p + sz[p] \in DOMAIN sz /\ (pinuse(m, p + sz[p]) <=> p \in us)
        /\ (cinuse(m, p + sz[p]) <=> p + sz[p] \in us)
    BY <1>2, <1>10, HeapNext
  <2>4. ASSUME p \notin us
        PROVE  pinuse(m, p) /\ cinuse(m, next_chunk(m, p)) /\ prev_chunk(m, next_chunk(m, p)) = p
    <3>1. FootAt(m, p + sz[p]) = sz[p] /\ p + sz[p] \in us
      BY <1>4, <2>3, <2>4 DEF Words, Merged
    <3>2. prev_chunk(m, p + sz[p]) = p
      BY <2>1, <3>1 DEF prev_chunk
    <3>. QED BY <1>7, <1>8, <2>2, <2>3, <2>4, <3>1, <3>2
  <2>5. chunksize(m, p) >= MIN_CHUNK_SIZE /\ chunksize(m, p) % MALLOC_ALIGNMENT = 0
    BY <2>1, <2>2, SizeFacts DEF Sized
  <2>6. next_chunk(m, p) \in DOMAIN sz /\ (pinuse(m, next_chunk(m, p)) <=> cinuse(m, p))
    BY <2>2, <2>3
  <2>. QED BY <2>2, <2>4, <2>5, <2>6
<1>. QED BY <1>3, <1>5, <1>6, <1>9, <1>10

(* Following the sizes in the heads from the base of the segment meets     *)
(* every chunk once and ends at the top, each neighbour's pinuse bit and   *)
(* foot agree, and no two free chunks touch (dlfree coalesces both ways).  *)
THEOREM ChunksFollow == Spec => []ChunksTile
BY MallocInvariant, TileFromMInv, PTL

(* The bins of a heap index its free chunks but the top and the victim.    *)
LEMMA HeapBinned ==
  ASSUME NEW m, NEW sz, NEW us, Heap(m, sz, us, {}), NEW F, F = InBins(m, sz, us)
  PROVE  /\ Bins(m, F) /\ DOMAIN F = Binned(m) /\ \A p \in DOMAIN F : F[p] = chunksize(m, p)
         /\ m.dv # 0 => m.dv \in FreeChunks(m) /\ chunksize(m, m.dv) = m.dvsize
<1>1. Chunks(m) = DOMAIN sz /\ us \subseteq DOMAIN sz
  BY HeapChunks, HeapUsed
<1>2. \A p \in DOMAIN sz : chunksize(m, p) = sz[p] /\ (cinuse(m, p) <=> p \in us)
  BY HeapHead
<1>3. FreeChunks(m) = DOMAIN sz \ (us \cup {m.top})
  BY <1>1, <1>2 DEF FreeChunks
<1>4. Bins(m, F)
  BY DEF Heap
<1>5. DOMAIN F = Binned(m) /\ \A p \in DOMAIN F : F[p] = chunksize(m, p)
  <2>1. DOMAIN F = DOMAIN sz \ (us \cup {m.top, m.dv}) /\ \A p \in DOMAIN F : F[p] = sz[p]
    BY DEF InBins
  <2>2. DOMAIN F = Binned(m)
    BY <1>3, <2>1 DEF Binned
  <2>. QED BY <1>2, <2>1, <2>2
<1>6. m.dv # 0 => m.dv \in FreeChunks(m) /\ chunksize(m, m.dv) = m.dvsize
  <2>1. m.dv # 0 => m.dv \in DOMAIN sz \ us /\ m.dv # m.top /\ m.dvsize = sz[m.dv]
    BY ReadyInitialized, ReadyVictim
  <2>. QED BY <1>2, <1>3, <2>1
<1>. QED BY <1>4, <1>5, <1>6

(* ... and so do those of a ready allocator.                               *)
LEMMA ReadyBinned ==
  ASSUME NEW m, NEW sz, NEW us, Ready(m, sz, us)
  PROVE  /\ \E F : /\ Bins(m, F) /\ DOMAIN F = Binned(m)
                   /\ \A p \in DOMAIN F : F[p] = chunksize(m, p)
         /\ m.dv # 0 => m.dv \in FreeChunks(m) /\ chunksize(m, m.dv) = m.dvsize
<1>1. CASE Heap(m, sz, us, {})
  <2>1. PICK F : F = InBins(m, sz, us)
    OBVIOUS
  <2>. QED BY <1>1, <2>1, HeapBinned
<1>2. CASE Blank(m)
  <2>1. Binned(m) = {}
    BY <1>2, BlankChunks DEF Binned, FreeChunks
  <2>2. Bins(m, Nothing) /\ m.dv = 0 /\ DOMAIN Nothing = {}
    BY <1>2 DEF Blank, Nothing
  <2>3. DOMAIN Nothing = Binned(m) /\ \A p \in DOMAIN Nothing : Nothing[p] = chunksize(m, p)
    BY <2>1, <2>2
  <2>. HIDE DEF Nothing
  <2>. QED BY <2>2, <2>3
<1>. QED BY <1>1, <1>2 DEF Ready

(* The sizes of a tree bin lie between two minimum sizes.                  *)
LEMMA InBinExact ==
  ASSUME NEW s, Sized(s), NEW i \in TreeBins
  PROVE  InBin(s, i) <=> /\ ~is_small(s) /\ s >= minsize_for_tree_index(i)
                         /\ i < NTREEBINS - 1 => s < minsize_for_tree_index(i + 1)
<1>0. i \in 0 .. NTREEBINS - 1
  BY DEF TreeBins
<1>1. ASSUME InBin(s, i)
      PROVE  /\ ~is_small(s) /\ s >= minsize_for_tree_index(i)
             /\ i < NTREEBINS - 1 => s < minsize_for_tree_index(i + 1)
  <2>1. ~is_small(s) /\ s \in LargeSizes /\ compute_tree_index(s) = i
    BY <1>1, SmallNotLarge DEF InBin
  <2>2. minsize_for_tree_index(i) <= s /\ (i < NTREEBINS - 1 => s < minsize_for_tree_index(i + 1))
    BY <1>0, <2>1, TreeIndexExact
  <2>3. minsize_for_tree_index(i) \in Nat /\ s \in Nat
    BY <1>0, MinSizesGrow DEF Sized
  <2>. QED BY <2>1, <2>2, <2>3
<1>2. ASSUME ~is_small(s), s >= minsize_for_tree_index(i),
             i < NTREEBINS - 1 => s < minsize_for_tree_index(i + 1)
      PROVE  InBin(s, i)
  <2>1. s \in LargeSizes
    BY <1>2, LargeSize
  <2>2. minsize_for_tree_index(i) \in Nat /\ s \in Nat
    BY <1>0, MinSizesGrow DEF Sized
  <2>3. minsize_for_tree_index(i) <= s
    BY <1>2, <2>2
  <2>. QED BY <1>0, <1>2, <2>1, <2>3, TreeIndexExact DEF InBin
<1>. QED BY <1>1, <1>2

(* The chunks of a trie.                                                   *)
LEMMA TrieHolds ==
  ASSUME NEW t, NEW i, NEW F, Trie(t, i, F)
  PROVE  TreeChunks(t) = {x \in DOMAIN F : InBin(F[x], i)}
<1>1. \A q \in DOMAIN t : ToSet(t[q].ring) = Of(F, t[q].size) /\ InBin(t[q].size, i)
  BY DEF Trie, Node, Lists
<1>2. ASSUME NEW x \in TreeChunks(t) PROVE x \in DOMAIN F /\ InBin(F[x], i)
  <2>1. PICK q \in DOMAIN t : x \in ToSet(t[q].ring)
    BY DEF TreeChunks
  <2>. QED BY <1>1, <2>1 DEF Of
<1>3. ASSUME NEW x \in DOMAIN F, InBin(F[x], i) PROVE x \in TreeChunks(t)
  <2>1. PICK q \in DOMAIN t : t[q].size = F[x]
    BY <1>3 DEF Trie
  <2>2. x \in ToSet(t[q].ring)
    BY <1>1, <2>1 DEF Of
  <2>. QED BY <2>2 DEF TreeChunks
<1>. QED BY <1>2, <1>3

(* The nodes of a trie stand where the bits of their sizes lead.           *)
LEMMA TrieInOrder ==
  ASSUME NEW m, NEW t, NEW i, NEW F, Trie(t, i, F), \A p \in DOMAIN F : F[p] = chunksize(m, p)
  PROVE  TrieOrdered(m, t, bit_for_tree_index(i))
<1>1. ASSUME NEW q \in DOMAIN t
      PROVE  /\ t[q].ring # <<>> /\ IsInjective(t[q].ring)
             /\ \A x \in ToSet(t[q].ring) : chunksize(m, x) = t[q].size
             /\ q = Turns(t[q].size, bit_for_tree_index(i), Len(q))
             /\ q # Root => Front(q) \in DOMAIN t
  <2>1. Node(t, i, F, q)
    BY DEF Trie
  <2>2. Lists(t[q].ring, Of(F, t[q].size)) /\ Of(F, t[q].size) # {}
    BY <2>1 DEF Node
  <2>3. t[q].ring # <<>>
    BY <2>2, ListsIndex
  <2>4. IsInjective(t[q].ring) /\ \A x \in ToSet(t[q].ring) : chunksize(m, x) = t[q].size
    BY <2>2 DEF Lists, Of
  <2>. QED BY <2>1, <2>3, <2>4 DEF Node
<1>2. \A q, r \in DOMAIN t : t[q].size = t[r].size => q = r
  BY DEF Trie
<1>. QED BY <1>1, <1>2 DEF TrieOrdered

(* The invariant gives the exactness of the bins.                          *)
LEMMA BinsFromMInv == MInv => BinsExact
<1>. SUFFICES ASSUME MInv PROVE BinsExact
  OBVIOUS
<1>. DEFINE m == gm
<1>1. PICK sz : Shaped(m, live, sz)
  BY DEF MInv
<1>2. Ready(m, sz, Holding(live))
  BY <1>1 DEF Shaped
<1>. HIDE DEF m
<1>3. PICK F : Bins(m, F) /\ DOMAIN F = Binned(m) /\ \A p \in DOMAIN F : F[p] = chunksize(m, p)
  BY <1>2, ReadyBinned
<1>4. (m.dvsize = 0 <=> m.dv = 0) /\ (m.dv # 0 => m.dv \in FreeChunks(m) /\ chunksize(m, m.dv) = m.dvsize)
  BY <1>2, ReadyVictim, ReadyBinned
<1>5. \A x \in DOMAIN F : Sized(F[x])
  BY <1>3 DEF Bins
<1>6. ASSUME NEW i \in DOMAIN m.smallbins
      PROVE  /\ IsInjective(m.smallbins[i])
             /\ ToSet(m.smallbins[i]) = {p \in Binned(m) : chunksize(m, p) = small_index2size(i)}
             /\ i \in m.smallmap <=> m.smallbins[i] # <<>>
  <2>1. i \in SmallBins /\ Lists(m.smallbins[i], Of(F, i * 8)) /\ m.smallmap = {j \in SmallBins : m.smallbins[j] # <<>>}
    BY <1>3 DEF Bins
  <2>2. ToSet(m.smallbins[i]) = Of(F, i * 8) /\ IsInjective(m.smallbins[i])
    BY <2>1 DEF Lists
  <2>3. Of(F, i * 8) = {p \in Binned(m) : chunksize(m, p) = small_index2size(i)}
    BY <1>3 DEF Of, small_index2size
  <2>. QED BY <2>1, <2>2, <2>3
<1>7. ASSUME NEW i \in DOMAIN m.treebins
      PROVE  /\ TreeChunks(m.treebins[i]) =
                  {p \in Binned(m) : /\ ~is_small(chunksize(m, p))
                                     /\ chunksize(m, p) >= minsize_for_tree_index(i)
                                     /\ i < NTREEBINS - 1 =>
                                          chunksize(m, p) < minsize_for_tree_index(i + 1)}
             /\ i \in m.treemap <=> m.treebins[i] # NoTrie
             /\ TrieOrdered(m, m.treebins[i], bit_for_tree_index(i))
  <2>1. i \in TreeBins /\ Trie(m.treebins[i], i, F) /\ m.treemap = {j \in TreeBins : m.treebins[j] # NoTrie}
    BY <1>3 DEF Bins
  <2>2. TreeChunks(m.treebins[i]) = {x \in DOMAIN F : InBin(F[x], i)}
    BY <2>1, TrieHolds
  <2>3. \A x \in DOMAIN F : InBin(F[x], i) <=>
           /\ ~is_small(chunksize(m, x)) /\ chunksize(m, x) >= minsize_for_tree_index(i)
           /\ i < NTREEBINS - 1 => chunksize(m, x) < minsize_for_tree_index(i + 1)
    BY <1>3, <1>5, <2>1, InBinExact
  <2>4. TrieOrdered(m, m.treebins[i], bit_for_tree_index(i))
    BY <1>3, <2>1, TrieInOrder
  <2>. QED BY <1>3, <2>1, <2>2, <2>3, <2>4
<1>. QED BY <1>4, <1>6, <1>7 DEF BinsExact, m

(* The small bins, the tries and their bit maps hold exactly the free      *)
(* chunks that are neither the top nor the designated victim, each in the  *)
(* bin of its size and each trie in the order of its bits.                 *)
THEOREM BinsHoldTheFree == Spec => []BinsExact
BY MallocInvariant, BinsFromMInv, PTL

(* The chunks below the top, free and in use, fill the heap up to it.      *)
LEMMA HeapTotals ==
  ASSUME NEW m, NEW sz, NEW us, Heap(m, sz, us, {}), NEW free, free = {p \in Chunks(m) \ {m.top} : ~cinuse(m, p)}
  PROVE  /\ (Chunks(m) \ {m.top}) \ free = us /\ {p \in Chunks(m) : cinuse(m, p)} = us
         /\ SizeOf(m, free) \in Nat /\ SizeOf(m, us) \in Nat
         /\ SizeOf(m, free) + SizeOf(m, us) = m.top - HeapBase
<1>. DEFINE S == {q \in DOMAIN sz : q < m.top}
            D == DOMAIN sz
<1>1. Chunks(m) = D /\ us \subseteq D /\ m.top \in D /\ m.top \notin us
  BY HeapChunks, HeapUsed
<1>2. \A p \in D : chunksize(m, p) = sz[p] /\ cinuse(m, p) \in BOOLEAN /\ (cinuse(m, p) <=> p \in us)
  BY HeapHead
<1>3. Tiling(sz, Ends(m))
  BY DEF Heap, Laid
<1>4. IsFiniteSet(D) /\ \A p \in D : p \in Nat /\ chunksize(m, p) \in Nat
  BY <1>2, <1>3, TilingFinite DEF Tiling
<1>5. D \ {m.top} = S
  <2>1. ASSUME NEW p \in D, p # m.top PROVE p < m.top
    <3>1. /\ p \in Nat /\ m.top \in Nat /\ m.topsize \in Nat /\ m.topsize > 0
          /\ m.top + m.topsize = Ends(m) /\ Ends(m) \in Nat /\ m.topsize = sz[m.top]
      BY <1>4, <1>1, HeapChunk, TopFacts DEF Heap, Pieces
    <3>2. m.top < p => m.top + sz[m.top] <= p
      BY <1>1, <1>3 DEF Tiling
    <3>3. p + sz[p] <= Ends(m) /\ sz[p] \in Nat /\ sz[p] > 0
      BY HeapChunk
    <3>. QED BY <2>1, <3>1, <3>2, <3>3
  <2>2. ~(m.top < m.top)
    BY <1>1, <1>4
  <2>. QED BY <2>1, <2>2
<1>6. SizeOf(m, S) = m.top - HeapBase
  <2>1. \A p \in DOMAIN sz : chunksize(m, p) = sz[p]
    BY <1>2
  <2>. QED BY <1>1, <1>3, <2>1, SizeOfBelow
<1>. HIDE DEF S, D
<1>7. free = S \ us /\ us \subseteq S /\ S \subseteq D
  BY <1>1, <1>2, <1>5
<1>8. (Chunks(m) \ {m.top}) \ free = us /\ {p \in Chunks(m) : cinuse(m, p)} = us
  BY <1>1, <1>2, <1>5, <1>7
<1>9. Disjoint(free, us) /\ S = free \cup us /\ free \in SUBSET D /\ us \in SUBSET D
  BY <1>7 DEF Disjoint
<1>10. SizeOf(m, S) = SizeOf(m, free) + SizeOf(m, us)
  BY <1>4, <1>9, SizeOfUnion
<1>11. SizeOf(m, free) \in Nat /\ SizeOf(m, us) \in Nat
  <2>1. \A T \in SUBSET D : IsFiniteSet(T) /\ \A x \in T : chunksize(m, x) \in Nat
    BY <1>4, FS_Subset
  <2>. QED BY <1>9, <2>1, SizeOfTake
<1>. QED BY <1>6, <1>8, <1>10, <1>11

(* What dlmallinfo and dlmalloc_stats compute of a heap.                   *)
LEMMA HeapInfo ==
  ASSUME NEW m, NEW sz, NEW us, Heap(m, sz, us, {})
  PROVE  /\ internal_mallinfo(m).arena = m.brk
         /\ internal_mallinfo(m).uordblks = SizeOf(m, us)
         /\ internal_malloc_stats(m).used = SizeOf(m, us)
<1>. DEFINE free == {p \in Chunks(m) \ {m.top} : ~cinuse(m, p)}
            u == SizeOf(m, us)
            v == SizeOf(m, free)
<1>1. /\ (Chunks(m) \ {m.top}) \ free = us /\ v \in Nat /\ u \in Nat /\ v + u = m.top - HeapBase
  BY HeapTotals
<1>2. is_initialized(m) /\ m.top \in Nat /\ m.topsize \in Nat /\ m.top + m.topsize + 40 = HeapBase + m.brk
  BY TopFacts
<1>3. HeapBase \in Nat /\ m.brk \in Nat /\ m.footprint = m.brk /\ TOP_FOOT_SIZE = 40
  BY FrameFacts, SizeFacts DEF Heap, Frame
<1>4. /\ internal_mallinfo(m).arena = (m.topsize + TOP_FOOT_SIZE + v) + u
      /\ internal_mallinfo(m).uordblks = m.footprint - (m.topsize + TOP_FOOT_SIZE + v)
      /\ internal_malloc_stats(m).used = m.footprint - (m.topsize + TOP_FOOT_SIZE) - v
  <2>1. (Chunks(m) \ {m.top}) \ free = us
    BY <1>1
  <2>. QED BY <1>2, <2>1 DEF internal_mallinfo, internal_malloc_stats
<1>. HIDE DEF u, v
<1>5. /\ (m.topsize + 40 + v) + u = m.brk /\ m.brk - (m.topsize + 40 + v) = u
      /\ m.brk - (m.topsize + 40) - v = u
  BY <1>1, <1>2, <1>3
<1>6. /\ internal_mallinfo(m).arena = m.brk /\ internal_mallinfo(m).uordblks = u
      /\ internal_malloc_stats(m).used = u
  BY <1>3, <1>4, <1>5
<1>. QED BY <1>6 DEF u

(* ... and of an allocator without memory.                                 *)
LEMMA BlankInfo ==
  ASSUME NEW m, Blank(m)
  PROVE  /\ internal_mallinfo(m).arena = m.brk /\ ~is_initialized(m)
         /\ internal_mallinfo(m).uordblks = SizeOf(m, {})
         /\ internal_malloc_stats(m).used = SizeOf(m, {})
<1>1. ~is_initialized(m) /\ m.brk = 0
  BY DEF Blank, is_initialized
<1>2. SizeOf(m, {}) = 0
  <2>1. IsFiniteSet({})
    BY FS_EmptySet
  <2>. QED BY <2>1, SizeOfTake
<1>. QED BY <1>1, <1>2 DEF internal_mallinfo, internal_malloc_stats

(* The invariant gives the agreement of the break and the books.           *)
LEMMA BreakFromMInv == MInv => BreakInStep
<1>. SUFFICES ASSUME MInv PROVE BreakInStep
  OBVIOUS
<1>. DEFINE m == gm
<1>1. PICK sz : Shaped(m, live, sz)
  BY DEF MInv
<1>2. Ready(m, sz, Holding(live)) /\ Frame(m)
  BY <1>1, ReadyShaped
<1>3. (is_initialized(m) => segment_end(m) = HeapBase + m.brk /\ m.seg.base = HeapBase)
      /\ internal_mallinfo(m).arena = m.brk
  <2>1. CASE Heap(m, sz, Holding(live), {})
    <3>. HIDE DEF m
    <3>1. m.seg.base = HeapBase
      BY <2>1 DEF Heap, Segment
    <3>2. segment_end(m) = HeapBase + m.brk
      BY <2>1, TopFacts
    <3>. QED BY <2>1, <3>1, <3>2, HeapInfo
  <2>2. CASE Blank(m)
    BY <2>2, BlankInfo
  <2>. QED BY <1>2, <2>1, <2>2 DEF Ready
<1>4. m.footprint = m.brk /\ m.max_footprint >= m.brk /\ m.stray = FALSE /\ m.aborted = FALSE
  BY <1>2 DEF Frame
<1>. QED BY <1>3, <1>4 DEF BreakInStep

(* The segment, the footprint and what dlmallinfo reports follow the       *)
(* break, through failed extensions and sys_trim: no memory arrives that   *)
(* does not follow the segment, and no run-time check of malloc.cpp ever   *)
(* fails.                                                                  *)
THEOREM BreakFollows == Spec => []BreakInStep
BY MallocInvariant, BreakFromMInv, PTL

(* The invariant gives what is wanted of the blocks handed out.            *)
LEMMA LiveFromMInv == MInv => LiveBlocks
<1>. SUFFICES ASSUME MInv PROVE LiveBlocks
  OBVIOUS
<1>. DEFINE m == gm
            us == Holding(live)
<1>1. PICK sz : Shaped(m, live, sz)
  BY DEF MInv
<1>2. Ready(m, sz, us) /\ us = {mem2chunk(x.mem) : x \in live}
  BY <1>1 DEF Shaped, Holding
<1>. HIDE DEF us
<1>3. /\ {p \in Chunks(m) : cinuse(m, p)} = us
      /\ internal_mallinfo(m).uordblks = SizeOf(m, us)
      /\ internal_malloc_stats(m).used = internal_mallinfo(m).uordblks
  <2>1. CASE Heap(m, sz, us, {})
    <3>. HIDE DEF m
    <3>1. {p \in Chunks(m) : cinuse(m, p)} = us
      BY <2>1, HeapTotals
    <3>. QED BY <2>1, <3>1, HeapInfo
  <2>2. CASE Blank(m) /\ us = {}
    <3>. HIDE DEF m
    <3>1. {p \in Chunks(m) : cinuse(m, p)} = us
      BY <2>2, BlankChunks
    <3>. QED BY <2>2, <3>1, BlankInfo
  <2>. QED BY <1>2, <2>1, <2>2 DEF Ready
<1>4. \A x, y \in live : x.mem = y.mem => x = y
  BY <1>1 DEF Shaped, Housed
<1>5. ASSUME NEW x \in live PROVE x.bytes <= dlmalloc_usable_size(m, x.mem) /\ x.mem % MALLOC_ALIGNMENT = 0
  <2>. DEFINE p == mem2chunk(x.mem)
  <2>1. /\ Heap(m, sz, us, {}) /\ p \in us /\ p \in DOMAIN sz
        /\ x.mem \in Nat /\ x.mem = p + 8 /\ x.bytes \in Nat /\ x.bytes + 4 <= sz[p]
    BY <1>1, ShapedLive DEF us
  <2>2. chunksize(m, p) = sz[p] /\ cinuse(m, p) /\ p \in Nat /\ p % 8 = 0 /\ sz[p] \in Nat
    BY <2>1, HeapHead, HeapChunk
  <2>. HIDE DEF p, m
  <2>3. p = mem2chunk(x.mem) /\ x.mem # 0
    BY <2>1, <2>2 DEF p
  <2>4. dlmalloc_usable_size(m, x.mem) = sz[p] - 4
    BY <2>2, <2>3, SizeFacts DEF dlmalloc_usable_size
  <2>5. x.mem % MALLOC_ALIGNMENT = 0
    BY <2>1, <2>2, SizeFacts
  <2>. QED BY <2>1, <2>2, <2>4, <2>5
<1>6. ASSUME booting = <<>>, NEW a \in AlignInputs PROVE dlmemalign(m, a[1], a[2]).mem % a[1] = 0
  <2>1. a[1] \in Alignments /\ a[2] \in 0 .. MAX_SIZE_T /\ AlignFits(m, a[1], a[2])
    BY <1>6, NowFits
  <2>. QED BY <1>2, <2>1, dlmemalignGot
<1>. QED BY <1>2, <1>3, <1>4, <1>5, <1>6 DEF LiveBlocks

(* The chunks in use are exactly the blocks handed out and not yet freed,  *)
(* each with room for the bytes asked for (for calloc the true product)    *)
(* and aligned, and dlmallinfo and dlmalloc_stats count exactly them.      *)
THEOREM LiveAreInUse == Spec => []LiveBlocks
BY MallocInvariant, LiveFromMInv, PTL

-----------------------------------------------------------------------------
(* The best fit.                                                           *)

(* The searches of tmalloc_large and tmalloc_small, and what they find.    *)
LargeBest(m, nb) ==
  LET idx == compute_tree_index(nb)
      t == m.treebins[idx]
      bit == bit_for_tree_index(idx)
      own == Best([v |-> 0, rsize |-> Word(-nb)], t, Route(t, nb, bit), nb)
      passed == Passed(t, nb, bit)
      later == {i \in m.treemap : i > idx}
      u == m.treebins[Min(later)]
  IN IF passed # {} THEN Best(own, t, leftmost_children(t, Deepest(passed)), nb)
     ELSE IF own.v = 0 /\ later # {} THEN Best(own, u, leftmost_children(u, Root), nb)
     ELSE own

SmallBest(m, nb) ==
  LET t == m.treebins[Min(m.treemap)]
      root == [v |-> Head(t[Root].ring), rsize |-> Word(t[Root].size - nb)]
  IN Best(root, t, leftmost_children(t, Root), nb)

(* A search over the tries is as close as every chunk in them.             *)
Closer(found, F, nb) == Fitting(found, F, nb) /\ \A x \in DOMAIN F : Closest(found, nb, F[x])

(* A chunk's node in its trie.                                             *)
LEMMA TrieNodeOf ==
  ASSUME NEW i \in TreeBins, NEW t, NEW F, Trie(t, i, F), NEW x \in DOMAIN F, InBin(F[x], i)
  PROVE  t # NoTrie /\ \E q \in DOMAIN t : t[q].size = F[x]
<1>1. \E q \in DOMAIN t : t[q].size = F[x]
  BY DEF Trie
<1>2. DOMAIN NoTrie = {}
  BY DEF NoTrie
<1>. QED BY <1>1, <1>2

(* The search of a later bin.                                              *)
LEMMA FirstLater ==
  ASSUME NEW m, NEW F, Bins(m, F), NEW S \in SUBSET m.treemap, S # {},
         NEW x \in DOMAIN F, NEW j \in S, InBin(F[x], j),
         NEW u, u = m.treebins[Min(S)]
  PROVE  /\ Min(S) \in S /\ Min(S) \in TreeBins /\ Trie(u, Min(S), F) /\ Root \in DOMAIN u
         /\ \E o \in leftmost_children(u, Root) : o \in DOMAIN u /\ u[o].size <= F[x]
<1>. DEFINE i == Min(S)
<1>1. i \in S /\ i <= j
  <2>1. S \subseteq Nat
    BY BinConstants DEF Bins, TreeBins
  <2>. QED BY <2>1, MinOfSet
<1>. HIDE DEF i
<1>2. i \in TreeBins /\ j \in TreeBins /\ Trie(u, i, F) /\ u # NoTrie
  BY <1>1 DEF Bins, i
<1>3. Root \in DOMAIN u
  BY <1>2, TrieRoot
<1>. DEFINE b == bit_for_tree_index(i)
<1>4. b \in 0 .. 31 /\ \A q \in DOMAIN u : Way(u, b, q)
  BY <1>2, TrieWay
<1>. HIDE DEF b
<1>5. Len(Root) = 0 /\ \A s : Turns(s, b, Len(Root)) = Root
  BY DEF Root, Turns
<1>6. ASSUME NEW q \in DOMAIN u
      PROVE  \E o \in leftmost_children(u, Root) : o \in DOMAIN u /\ u[o].size <= u[q].size
  <2>1. Len(Root) <= Len(q) /\ Turns(u[q].size, b, Len(Root)) = Root
    BY <1>4, <1>5 DEF Way
  <2>2. PICK o \in leftmost_children(u, Root) : u[o].size <= u[q].size
    BY <1>2, <1>3, <2>1, LeftmostLeast DEF b
  <2>3. o \in DOMAIN u
    BY DEF leftmost_children, Descent
  <2>. QED BY <2>2, <2>3
<1>7. \E o \in leftmost_children(u, Root) : o \in DOMAIN u /\ u[o].size <= F[x]
  <2>1. CASE i = j
    <3>1. PICK q \in DOMAIN u : u[q].size = F[x]
      BY <1>2, <2>1, TrieNodeOf
    <3>. QED BY <1>6, <3>1
  <2>2. CASE i # j
    <3>1. i < j
      BY <1>1, <1>2, <2>2, BinConstants DEF TreeBins
    <3>2. InBin(u[Root].size, i)
      BY <1>2, <1>3 DEF Trie, Node
    <3>3. u[Root].size < F[x]
      BY <1>2, <3>1, <3>2, BinsGrow
    <3>4. PICK o \in leftmost_children(u, Root) : o \in DOMAIN u /\ u[o].size <= u[Root].size
      BY <1>3, <1>6
    <3>5. u[o].size \in Nat /\ u[Root].size \in Nat /\ F[x] \in Nat
      BY <1>3, <1>4, <3>4, InBinNat DEF Way
    <3>. QED BY <3>3, <3>4, <3>5
  <2>. QED BY <2>1, <2>2
<1>. QED BY <1>1, <1>2, <1>3, <1>7 DEF i

(* tmalloc_small finds the smallest of all chunks in the tries.            *)
LEMMA SmallBestCloser ==
  ASSUME NEW m, NEW F, Bins(m, F), NEW nb \in Nat, nb >= 16, is_small(nb), m.treemap # {},
         0 \notin DOMAIN F, NEW best, best = SmallBest(m, nb)
  PROVE  /\ Fitting(best, F, nb) /\ best.v # 0
         /\ \A x \in DOMAIN F : ~is_small(F[x]) => Closest(best, nb, F[x])
         /\ \A x \in DOMAIN F : ~is_small(F[x]) => F[x] >= nb
<1>. DEFINE i == Min(m.treemap)
            t == m.treebins[i]
            v == Head(t[Root].ring)
            s == Word(t[Root].size - nb)
            root == [v |-> v, rsize |-> s]
            path == leftmost_children(t, Root)
<1>0. best = Best(root, t, path, nb)
  BY DEF SmallBest
<1>2. i \in m.treemap
  <2>1. m.treemap \in SUBSET Nat
    BY BinConstants DEF Bins, TreeBins
  <2>. QED BY <2>1, MinOfSet
<1>. HIDE DEF i
<1>3. i \in TreeBins /\ Trie(t, i, F) /\ t # NoTrie /\ \A x \in DOMAIN F : Sized(F[x])
  BY <1>2 DEF Bins
<1>4. t = m.treebins[Min(m.treemap)]
  BY DEF i
<1>. HIDE DEF t
<1>5. Root \in DOMAIN t
  BY <1>3, TrieRoot
<1>6. InBin(t[Root].size, i) /\ Lists(t[Root].ring, Of(F, t[Root].size)) /\ Of(F, t[Root].size) # {}
  BY <1>3, <1>5 DEF Trie, Node
<1>7. v \in Of(F, t[Root].size)
  <2>1. t[Root].ring # <<>>
    BY <1>6, ListsIndex
  <2>. QED BY <1>6, <2>1, ListsTail
<1>8. v \in DOMAIN F /\ F[v] = t[Root].size
  BY <1>7 DEF Of
<1>. HIDE DEF v
<1>9. Sized(F[v]) /\ ~is_small(F[v])
  BY <1>3, <1>6, <1>8, SmallNotLarge
<1>10. t[Root].size \in Nat /\ t[Root].size >= MIN_LARGE_SIZE /\ t[Root].size < WordRange
  BY <1>6, InBinNat
<1>11. nb < MIN_LARGE_SIZE /\ MIN_LARGE_SIZE \in Nat
  BY BinConstants DEF is_small
<1>12. s = t[Root].size - nb /\ s \in Nat
  <2>1. t[Root].size - nb \in Int /\ 0 <= t[Root].size - nb /\ t[Root].size - nb < WordRange
    BY <1>10, <1>11, WordFacts
  <2>. QED BY <2>1, WordOf
<1>. HIDE DEF s
<1>13. root.v = v /\ root.rsize = s
  OBVIOUS
<1>. HIDE DEF root
<1>14. Fitting(root, F, nb)
  BY <1>8, <1>9, <1>10, <1>12, <1>13 DEF Fitting
<1>15. path \in SUBSET DOMAIN t
  BY DEF leftmost_children, Descent
<1>. HIDE DEF path
<1>16. nb \in 1 .. WordRange - 1
  BY <1>10, <1>11, WordFacts
<1>17. Fitting(best, F, nb)
  BY <1>0, <1>3, <1>14, <1>15, <1>16, BestFitting
<1>18. /\ best.rsize \in Nat /\ best.rsize <= root.rsize
       /\ \A q \in path : Closest(best, nb, t[q].size)
  BY <1>0, <1>3, <1>14, <1>15, <1>16, BestCloser
<1>19. best.v # 0
  <2>1. best.rsize # WordRange - nb
    BY <1>10, <1>11, <1>12, <1>13, <1>18, WordFacts
  <2>. QED BY <1>8, <1>17, <2>1 DEF Fitting
<1>20. ASSUME NEW x \in DOMAIN F, ~is_small(F[x]) PROVE Closest(best, nb, F[x]) /\ F[x] >= nb
  <2>. DEFINE j == compute_tree_index(F[x])
  <2>1. Sized(F[x]) /\ F[x] \in LargeSizes /\ j \in TreeBins /\ InBin(F[x], j)
    BY <1>3, <1>20, LargeSize
  <2>. HIDE DEF j
  <2>2. F[x] \in Nat /\ F[x] >= nb
    BY <1>11, <2>1, InBinNat
  <2>3. j \in m.treemap
    <3>1. Trie(m.treebins[j], j, F)
      BY <2>1 DEF Bins
    <3>2. m.treebins[j] # NoTrie
      BY <2>1, <3>1, TrieNodeOf
    <3>. QED BY <2>1, <3>2 DEF Bins
  <2>4. PICK o \in leftmost_children(t, Root) : o \in DOMAIN t /\ t[o].size <= F[x]
    <3>. DEFINE S == m.treemap
    <3>1. S \in SUBSET m.treemap /\ S # {} /\ j \in S /\ t = m.treebins[Min(S)]
      BY <1>4, <2>3
    <3>. HIDE DEF S
    <3>2. \E o \in leftmost_children(t, Root) : o \in DOMAIN t /\ t[o].size <= F[x]
      BY <2>1, <3>1, FirstLater
    <3>. QED BY <3>2
  <2>5. t[o].size \in Nat /\ t[o].size >= nb
    <3>1. InBin(t[o].size, i)
      BY <1>3, <2>4 DEF Trie, Node
    <3>. QED BY <1>11, <3>1, InBinNat
  <2>6. nb + best.rsize <= t[o].size
    BY <1>18, <2>4, <2>5 DEF Closest, path
  <2>. QED BY <1>18, <2>2, <2>4, <2>5, <2>6 DEF Closest
<1>. QED BY <1>17, <1>19, <1>20

(* tmalloc_large finds the chunk closest to the request among all the      *)
(* binned.                                                                 *)
LEMMA LargeBestCloser ==
  ASSUME NEW m, NEW F, Bins(m, F), NEW nb \in LargeSizes, NEW best, best = LargeBest(m, nb)
  PROVE  Closer(best, F, nb)
<1>. DEFINE idx == compute_tree_index(nb)
            t == m.treebins[idx]
            bit == bit_for_tree_index(idx)
            none == [v |-> 0, rsize |-> Word(-nb)]
            route == Route(t, nb, bit)
            own == Best(none, t, route, nb)
            passed == Passed(t, nb, bit)
            left == leftmost_children(t, Deepest(passed))
            later == {i \in m.treemap : i > idx}
            j == Min(later)
            u == m.treebins[j]
            first == leftmost_children(u, Root)
            down == Best(own, t, left, nb)
            next == Best(own, u, first, nb)
<1>1. best = IF passed # {} THEN down ELSE IF own.v = 0 /\ later # {} THEN next ELSE own
  BY DEF LargeBest
<1>2. nb \in Nat /\ nb < WordRange /\ nb \in 1 .. WordRange - 1
  <2>1. MIN_LARGE_SIZE \in Nat /\ WordRange \in Nat /\ MIN_LARGE_SIZE > 0
    BY MinLarge, WordFacts
  <2>. QED BY <2>1 DEF LargeSizes
<1>3. idx \in TreeBins /\ InBin(nb, idx)
  BY <1>2, TreeIndexRange DEF LargeSizes, TreeBins, InBin
<1>4. Trie(t, idx, F) /\ \A x \in DOMAIN F : Sized(F[x])
  BY <1>3 DEF Bins
<1>5. later \subseteq m.treemap /\ later \subseteq Nat
  <2>1. m.treemap \subseteq TreeBins
    BY DEF Bins
  <2>2. TreeBins \subseteq Nat
    BY BinConstants DEF TreeBins
  <2>3. later \subseteq m.treemap
    OBVIOUS
  <2>. HIDE DEF later
  <2>. QED BY <2>1, <2>2, <2>3
<1>6. Fitting(none, F, nb) /\ none.v = 0 /\ none.rsize = WordRange - nb
  <2>1. -nb \in Int /\ -WordRange <= -nb /\ -nb < 0 /\ -nb + WordRange = WordRange - nb
    BY <1>2, WordFacts
  <2>2. Word(-nb) = WordRange - nb
    BY <2>1, WordOf
  <2>. QED BY <2>2 DEF Fitting
<1>7. \A i \in TreeBins : i > idx /\ m.treebins[i] # NoTrie => i \in later
  BY DEF Bins
<1>. HIDE DEF none, later, t, idx
<1>8. /\ Fitting(own, F, nb) /\ own.rsize \in Nat
      /\ \A q \in route : Closest(own, nb, t[q].size)
      /\ own = none \/ \E q \in route : t[q].size = nb + own.rsize
  <2>1. route \in SUBSET DOMAIN t
    BY DEF Route
  <2>. HIDE DEF route
  <2>2. Fitting(own, F, nb)
    BY <1>2, <1>3, <1>4, <1>6, <2>1, BestFitting
  <2>3. /\ own.rsize \in Nat
        /\ \A q \in route : Closest(own, nb, t[q].size)
        /\ own = none \/ \E q \in route : t[q].size = nb + own.rsize
    BY <1>2, <1>3, <1>4, <1>6, <2>1, BestCloser
  <2>. QED BY <2>2, <2>3
<1>9. \A q \in route : q \in DOMAIN t
  BY DEF Route
<1>. HIDE DEF own, route
<1>10. /\ Fitting(down, F, nb) /\ down.rsize \in Nat /\ down.rsize <= own.rsize
       /\ \A q \in left : Closest(down, nb, t[q].size)
  <2>1. left \in SUBSET DOMAIN t
    BY DEF leftmost_children, Descent
  <2>. HIDE DEF left
  <2>2. Fitting(down, F, nb)
    BY <1>2, <1>3, <1>4, <1>8, <2>1, BestFitting
  <2>3. down.rsize \in Nat /\ down.rsize <= own.rsize /\ \A q \in left : Closest(down, nb, t[q].size)
    BY <1>2, <1>3, <1>4, <1>8, <2>1, BestCloser
  <2>. QED BY <2>2, <2>3
<1>11. later # {} => /\ Fitting(next, F, nb) /\ next.rsize \in Nat /\ next.rsize <= own.rsize
                     /\ \A q \in first : Closest(next, nb, u[q].size)
  <2>1. SUFFICES ASSUME later # {}
                 PROVE  /\ Fitting(next, F, nb) /\ next.rsize \in Nat /\ next.rsize <= own.rsize
                        /\ \A q \in first : Closest(next, nb, u[q].size)
    OBVIOUS
  <2>2. j \in later
    BY <1>5, <2>1, MinOfSet
  <2>. HIDE DEF j
  <2>3. j \in TreeBins
    BY <1>5, <2>2 DEF Bins
  <2>4. Trie(u, j, F)
    BY <2>3 DEF Bins
  <2>. HIDE DEF u
  <2>5. first \in SUBSET DOMAIN u
    BY DEF leftmost_children, Descent
  <2>. HIDE DEF first
  <2>6. Fitting(next, F, nb)
    BY <1>2, <1>4, <1>8, <2>3, <2>4, <2>5, BestFitting
  <2>7. next.rsize \in Nat /\ next.rsize <= own.rsize /\ \A q \in first : Closest(next, nb, u[q].size)
    BY <1>2, <1>8, <2>3, <2>4, <2>5, BestCloser
  <2>. QED BY <2>6, <2>7
<1>. HIDE DEF down, next
<1>12. Fitting(best, F, nb) /\ best.rsize \in Nat /\ best.rsize <= own.rsize
  BY <1>1, <1>8, <1>10, <1>11
<1>13. ASSUME NEW x \in DOMAIN F, F[x] >= nb PROVE nb + best.rsize <= F[x]
  <2>. DEFINE i == compute_tree_index(F[x])
  <2>0. Sized(F[x]) /\ F[x] \in Nat
    BY <1>4 DEF Sized
  <2>1. ~is_small(F[x])
    <3>1. MIN_LARGE_SIZE \in Nat /\ nb >= MIN_LARGE_SIZE /\ MIN_LARGE_SIZE = 8 * NSMALLBINS /\ NSMALLBINS \in Nat
      BY MinLarge, BinConstants DEF LargeSizes
    <3>. QED BY <1>2, <1>13, <2>0, <3>1 DEF is_small
  <2>2. i \in TreeBins /\ InBin(F[x], i)
    BY <2>0, <2>1, LargeSize
  <2>. HIDE DEF i
  <2>3. i >= idx /\ i \in Nat /\ idx \in Nat
    <3>1. i \in Nat /\ idx \in Nat
      BY <1>3, <2>2, BinConstants DEF TreeBins
    <3>2. ~(i < idx)
      <4>1. SUFFICES ASSUME i < idx PROVE FALSE
        OBVIOUS
      <4>2. F[x] < nb
        BY <1>3, <2>2, <4>1, BinsGrow
      <4>. QED BY <1>2, <1>13, <2>0, <4>2
    <3>. QED BY <3>1, <3>2
  <2>4. ASSUME passed # {}, i # idx PROVE nb + best.rsize <= F[x]
    <3>1. PICK o \in left : o \in DOMAIN t /\ t[o].size >= nb
      BY <1>3, <1>4, <2>4, PassedFound
    <3>2. nb + best.rsize <= t[o].size
      BY <1>1, <1>10, <2>4, <3>1 DEF Closest
    <3>3. InBin(t[o].size, idx)
      BY <1>4, <3>1 DEF Trie, Node
    <3>4. t[o].size < F[x] /\ t[o].size \in Nat
      BY <1>3, <2>2, <2>3, <2>4, <3>3, BinsGrow, InBinNat
    <3>. QED BY <1>2, <1>12, <2>0, <3>2, <3>4
  <2>5. ASSUME i = idx PROVE nb + best.rsize <= F[x]
    <3>1. PICK q \in DOMAIN t : t[q].size = F[x]
      BY <1>4, <2>2, <2>5 DEF Trie
    <3>2. CASE q \in route
      <4>1. nb + own.rsize <= F[x]
        BY <1>8, <1>13, <3>1, <3>2 DEF Closest
      <4>. QED BY <1>2, <1>8, <1>12, <2>0, <4>1
    <3>3. CASE q \notin route
      <4>1. /\ passed # {}
            /\ \E o \in left : t[o].size >= nb /\ t[o].size <= t[q].size
        BY <1>3, <1>4, <1>13, <3>1, <3>3, OffRoute DEF route
      <4>2. PICK o \in left : t[o].size >= nb /\ t[o].size <= F[x]
        BY <3>1, <4>1
      <4>3. nb + best.rsize <= t[o].size
        BY <1>1, <1>10, <4>1, <4>2 DEF Closest
      <4>4. t[o].size \in Nat
        <5>1. o \in DOMAIN t
          BY DEF leftmost_children, Descent
        <5>. QED BY <1>4, <5>1, InBinNat DEF Trie, Node
      <4>. QED BY <1>2, <1>12, <2>0, <4>2, <4>3, <4>4
    <3>. QED BY <3>2, <3>3
  <2>6. ASSUME passed = {}, i # idx, own.v # 0 PROVE nb + best.rsize <= F[x]
    <3>1. best = own /\ own # none
      BY <1>1, <1>6, <2>6
    <3>2. PICK q \in route : t[q].size = nb + own.rsize
      BY <1>8, <3>1
    <3>3. InBin(t[q].size, idx)
      BY <1>4, <1>9, <3>2 DEF Trie, Node
    <3>4. t[q].size < F[x] /\ t[q].size \in Nat
      BY <1>3, <2>2, <2>3, <2>6, <3>3, BinsGrow, InBinNat
    <3>. QED BY <2>0, <3>1, <3>2, <3>4
  <2>7. ASSUME passed = {}, i # idx, own.v = 0 PROVE nb + best.rsize <= F[x]
    <3>1. Trie(m.treebins[i], i, F)
      BY <2>2 DEF Bins
    <3>2. m.treebins[i] # NoTrie
      BY <2>2, <3>1, TrieNodeOf
    <3>3. i \in later
      BY <1>7, <2>2, <2>3, <2>7, <3>2
    <3>4. later # {} /\ best = next /\ later \in SUBSET m.treemap
      BY <1>1, <1>5, <2>7, <3>3
    <3>5. /\ j \in later /\ j \in TreeBins /\ Trie(u, j, F)
          /\ \E o \in first : o \in DOMAIN u /\ u[o].size <= F[x]
      BY <2>2, <3>3, <3>4, FirstLater
    <3>6. PICK o \in first : o \in DOMAIN u /\ u[o].size <= F[x]
      BY <3>5
    <3>7. InBin(u[o].size, j) /\ idx < j
      <4>1. InBin(u[o].size, j)
        BY <3>5, <3>6 DEF Trie, Node
      <4>2. \A k \in later : k > idx
        BY DEF later
      <4>3. j \in Nat
        BY <1>5, <3>5
      <4>4. j > idx
        BY <3>5, <4>2
      <4>. HIDE DEF j
      <4>. QED BY <2>3, <4>1, <4>3, <4>4
    <3>8. nb < u[o].size /\ u[o].size \in Nat
      BY <1>3, <3>5, <3>7, BinsGrow, InBinNat
    <3>9. nb + best.rsize <= u[o].size
      <4>1. u[o].size >= nb
        BY <1>2, <3>8
      <4>. QED BY <1>11, <3>4, <3>6, <4>1 DEF Closest
    <3>. QED BY <1>2, <1>12, <2>0, <3>6, <3>8, <3>9
  <2>. QED BY <2>4, <2>5, <2>6, <2>7
<1>. QED BY <1>12, <1>13 DEF Closer, Closest

-----------------------------------------------------------------------------
(* Taking a chunk leaves the break where it is.                            *)
Stays(m, n) == DOMAIN n = Fields /\ n.brk = m.brk

(* One step after another.                                                 *)
LEMMA StaysOn ==
  ASSUME NEW m, NEW n, Stays(m, n), NEW k, Stays(n, k)
  PROVE  Stays(m, k)
BY DEF Stays

(* Writing heads leaves the break.                                         *)
LEMMA StaysWords ==
  ASSUME NEW m, DOMAIN m = Fields, NEW p, NEW s
  PROVE  /\ \A c, i : Stays(m, PutHead(m, p, s, c, i))
         /\ Stays(m, set_size_and_pinuse_of_inuse_chunk(m, p, s))
         /\ Stays(m, set_inuse_and_pinuse(m, p, s))
         /\ Stays(m, set_size_and_pinuse_of_free_chunk(m, p, s))
<1>1. \A n, q, z, c, i : DOMAIN n = Fields => Stays(n, PutHead(n, q, z, c, i))
  BY DEF PutHead, Stays, Fields
<1>2. \A n, q, z : DOMAIN n = Fields => Stays(n, set_foot(n, q, z))
  BY DEF set_foot, Stays, Fields
<1>3. Stays(m, set_size_and_pinuse_of_inuse_chunk(m, p, s))
  BY <1>1 DEF set_size_and_pinuse_of_inuse_chunk
<1>4. Stays(m, set_inuse_and_pinuse(m, p, s))
  <2>. DEFINE n == PutHead(m, p, s, TRUE, TRUE)
  <2>1. Stays(m, n)
    BY <1>1
  <2>. HIDE DEF n
  <2>2. Stays(n, PutPinuse(n, p + s, TRUE))
    <3>1. DOMAIN n = Fields
      BY <2>1 DEF Stays
    <3>2. Stays(n, PutHead(n, p + s, chunksize(n, p + s), cinuse(n, p + s), TRUE))
      BY <1>1, <3>1
    <3>. QED BY <3>2 DEF PutPinuse
  <2>3. set_inuse_and_pinuse(m, p, s) = PutPinuse(n, p + s, TRUE)
    BY DEF set_inuse_and_pinuse, n
  <2>. QED BY <2>1, <2>2, <2>3, StaysOn
<1>5. Stays(m, set_size_and_pinuse_of_free_chunk(m, p, s))
  <2>. DEFINE n == PutHead(m, p, s, FALSE, TRUE)
  <2>1. Stays(m, n)
    BY <1>1
  <2>. HIDE DEF n
  <2>2. Stays(n, set_foot(n, p, s))
    BY <1>2, <2>1 DEF Stays
  <2>3. set_size_and_pinuse_of_free_chunk(m, p, s) = set_foot(n, p, s)
    BY DEF set_size_and_pinuse_of_free_chunk, n
  <2>. QED BY <2>1, <2>2, <2>3, StaysOn
<1>. QED BY <1>1, <1>3, <1>4, <1>5

(* Changing the bins leaves the break.                                     *)
LEMMA StaysBins ==
  ASSUME NEW m, DOMAIN m = Fields, NEW p, NEW s
  PROVE  /\ \A i : Stays(m, unlink_first_small_chunk(m, p, i))
         /\ Stays(m, unlink_large_chunk(m, p))
         /\ Stays(m, insert_chunk(m, p, s)) /\ Stays(m, replace_dv(m, p, s))
<1>1. \A n, x, z : DOMAIN n = Fields => Stays(n, insert_small_chunk(n, x, z))
  BY DEF insert_small_chunk, Stays, Fields
<1>2. Stays(m, insert_large_chunk(m, p, s))
  BY DEF insert_large_chunk, Stays, Fields
<1>3. Stays(m, insert_chunk(m, p, s))
  BY <1>1, <1>2 DEF insert_chunk
<1>4. Stays(m, replace_dv(m, p, s))
  <2>. DEFINE n == IF m.dvsize # 0 THEN insert_small_chunk(m, m.dv, m.dvsize) ELSE m
  <2>1. Stays(m, n)
    BY <1>1 DEF Stays
  <2>. HIDE DEF n
  <2>2. replace_dv(m, p, s) = [n EXCEPT !.dv = p, !.dvsize = s]
    BY DEF replace_dv, n
  <2>. QED BY <2>1, <2>2 DEF Stays, Fields
<1>5. Stays(m, unlink_large_chunk(m, p))
  BY DEF unlink_large_chunk, Stays, Fields
<1>6. \A i : Stays(m, unlink_first_small_chunk(m, p, i))
  BY DEF unlink_first_small_chunk, Stays, Fields
<1>. QED BY <1>3, <1>4, <1>5, <1>6

(* A call that took chunk p.                                               *)
Taken(m, r, p) == r.mem = chunk2mem(p) /\ r.m.brk = m.brk

(* A small bin serves with its first chunk.                                *)
LEMMA TakeSmallTaken ==
  ASSUME NEW m, DOMAIN m = Fields, NEW i, NEW nb, NEW p, p = Head(m.smallbins[i])
  PROVE  Taken(m, TakeSmallWhole(m, i), p) /\ Taken(m, TakeSmallSplit(m, i, nb), p)
<1>. DEFINE k == unlink_first_small_chunk(m, p, i)
            s == small_index2size(i)
            a == set_size_and_pinuse_of_inuse_chunk(k, p, nb)
            b == set_size_and_pinuse_of_free_chunk(a, p + nb, s - nb)
            n == replace_dv(b, p + nb, s - nb)
            w == set_inuse_and_pinuse(k, p, s)
<1>1. TakeSmallWhole(m, i) = [m |-> w, mem |-> chunk2mem(p)]
  BY DEF TakeSmallWhole
<1>2. TakeSmallSplit(m, i, nb) = [m |-> n, mem |-> chunk2mem(p)]
  BY DEF TakeSmallSplit
<1>3. Stays(m, k)
  BY StaysBins
<1>. HIDE DEF k, s
<1>4. Stays(m, w)
  BY <1>3, StaysWords, StaysOn DEF Stays
<1>5. Stays(k, a)
  BY <1>3, StaysWords DEF Stays
<1>. HIDE DEF a
<1>6. Stays(a, b)
  BY <1>5, StaysWords DEF Stays
<1>. HIDE DEF b
<1>7. Stays(b, n)
  BY <1>6, StaysBins DEF Stays
<1>. HIDE DEF n, w
<1>. QED BY <1>1, <1>2, <1>3, <1>4, <1>5, <1>6, <1>7 DEF Taken, Stays

(* A trie serves with the chunk found.                                     *)
LEMMA TakeTreeTaken ==
  ASSUME NEW m, NEW sz, NEW us, Heap(m, sz, us, {}), NEW best, NEW nb \in Nat, nb >= 16,
         Fitting(best, InBins(m, sz, us), nb), best.v # 0, NEW victim
  PROVE  Taken(m, TakeTreeChunk(m, best, nb, victim), best.v)
<1>. DEFINE v == best.v
            s == best.rsize
            k == unlink_large_chunk(m, v)
            w == set_inuse_and_pinuse(k, v, s + nb)
            a == set_size_and_pinuse_of_inuse_chunk(k, v, nb)
            b == set_size_and_pinuse_of_free_chunk(a, v + nb, s)
            f == KeepRest(b, v + nb, s, victim)
<1>1. DOMAIN m = Fields /\ m.least_addr = HeapBase
  BY FrameFacts DEF Heap, Segment
<1>2. v \in DOMAIN sz
  BY DEF Fitting, InBins
<1>3. v \in Nat /\ v >= HeapBase /\ HeapBase \in Nat
  BY <1>2, HeapChunk, FrameFacts DEF Heap
<1>4. ok_address(m, v) /\ ok_next(v, v + nb)
  BY <1>1, <1>3 DEF ok_address, ok_next
<1>5. TakeTreeChunk(m, best, nb, victim) = [m |-> IF s < MIN_CHUNK_SIZE THEN w ELSE f, mem |-> chunk2mem(v)]
  BY <1>4 DEF TakeTreeChunk, SplitFor
<1>6. Stays(m, k)
  BY <1>1, StaysBins
<1>. HIDE DEF k, s, v
<1>7. Stays(m, w)
  BY <1>6, StaysWords, StaysOn DEF Stays
<1>8. Stays(k, a)
  BY <1>6, StaysWords DEF Stays
<1>. HIDE DEF a
<1>9. Stays(a, b)
  BY <1>8, StaysWords DEF Stays
<1>. HIDE DEF b
<1>10. Stays(b, f)
  BY <1>9, StaysBins DEF Stays, KeepRest
<1>. HIDE DEF f, w
<1>11. Taken(m, TakeTreeChunk(m, best, nb, victim), v)
  BY <1>5, <1>6, <1>7, <1>8, <1>9, <1>10 DEF Taken, Stays
<1>. QED BY <1>11 DEF v

(* The victim and the top serve with themselves.                           *)
LEMMA TakeRestTaken ==
  ASSUME NEW m, DOMAIN m = Fields, NEW nb
  PROVE  Taken(m, TakeDv(m, nb), m.dv) /\ Taken(m, SplitTop(m, nb), m.top)
<1>. DEFINE p == m.dv
            s == m.dvsize - nb
            c == [m EXCEPT !.dv = p + nb, !.dvsize = s]
            d == set_size_and_pinuse_of_free_chunk(c, p + nb, s)
            x == set_size_and_pinuse_of_inuse_chunk(d, p, nb)
            e == [m EXCEPT !.dv = 0, !.dvsize = 0]
            y == set_inuse_and_pinuse(e, p, m.dvsize)
<1>1. TakeDv(m, nb) = [m |-> IF s >= MIN_CHUNK_SIZE THEN x ELSE y, mem |-> chunk2mem(p)]
  BY DEF TakeDv
<1>2. Stays(m, c) /\ Stays(m, e)
  BY DEF Stays, Fields
<1>. HIDE DEF c, e
<1>3. Stays(c, d) /\ Stays(e, y)
  BY <1>2, StaysWords DEF Stays
<1>. HIDE DEF d, y
<1>4. Stays(d, x)
  BY <1>3, StaysWords DEF Stays
<1>. HIDE DEF x
<1>5. Taken(m, TakeDv(m, nb), m.dv)
  BY <1>1, <1>2, <1>3, <1>4 DEF Taken, Stays
<1>. DEFINE t == m.top
            r == t + nb
            g == [m EXCEPT !.top = r, !.topsize = @ - nb]
            a == PutHead(g, r, m.topsize - nb, FALSE, TRUE)
            n == set_size_and_pinuse_of_inuse_chunk(a, t, nb)
<1>6. SplitTop(m, nb) = [m |-> n, mem |-> chunk2mem(t)]
  BY DEF SplitTop
<1>7. Stays(m, g)
  BY DEF Stays, Fields
<1>. HIDE DEF g
<1>8. Stays(g, a)
  <2>. DEFINE z == m.topsize - nb
  <2>1. DOMAIN g = Fields
    BY <1>7 DEF Stays
  <2>2. \A f, i : Stays(g, PutHead(g, r, z, f, i))
    BY <2>1, StaysWords
  <2>3. Stays(g, PutHead(g, r, z, FALSE, TRUE))
    BY <2>2
  <2>. QED BY <2>3
<1>. HIDE DEF a
<1>9. Stays(a, n)
  BY <1>8, StaysWords DEF Stays
<1>. HIDE DEF n
<1>10. Taken(m, SplitTop(m, nb), m.top)
  BY <1>6, <1>7, <1>8, <1>9 DEF Taken, Stays
<1>. QED BY <1>5, <1>10

-----------------------------------------------------------------------------
(* What malloc chooses: the closest binned chunk, the victim if no binned  *)
(* chunk is closer, the top chunk, or, when nothing fits, the system.      *)
Chosen(m, r, F, nb) ==
  \/ \E p \in DOMAIN F : /\ Taken(m, r, p) /\ F[p] >= nb
                         /\ \A x \in DOMAIN F : F[x] >= nb => F[p] <= F[x]
  \/ /\ Taken(m, r, m.dv) /\ m.dv # 0 /\ nb <= m.dvsize
     /\ ~is_small(nb) => \A x \in DOMAIN F : F[x] >= nb => m.dvsize <= F[x]
  \/ Taken(m, r, m.top)
  \/ /\ r = sys_alloc(m, nb) /\ m.dvsize < nb /\ m.topsize <= nb
     /\ \A x \in DOMAIN F : F[x] < nb

(* What is chosen when no bin serves.                                      *)
LEMMA FromRestChosen ==
  ASSUME NEW m, NEW sz, NEW us, Heap(m, sz, us, {}), NEW F, NEW nb \in Nat, nb >= 16,
         nb <= m.dvsize /\ ~is_small(nb) => \A x \in DOMAIN F : F[x] >= nb => m.dvsize <= F[x],
         m.dvsize < nb => \A x \in DOMAIN F : F[x] < nb
  PROVE  Chosen(m, FromRest(m, nb), F, nb)
<1>1. DOMAIN m = Fields /\ m.dvsize \in Nat /\ m.topsize \in Nat /\ (m.dvsize = 0 <=> m.dv = 0)
  BY FrameFacts, ReadyInitialized, ReadyVictim DEF Heap
<1>2. Taken(m, TakeDv(m, nb), m.dv) /\ Taken(m, SplitTop(m, nb), m.top)
  BY <1>1, TakeRestTaken
<1>3. CASE nb <= m.dvsize
  <2>1. FromRest(m, nb) = TakeDv(m, nb) /\ m.dv # 0
    BY <1>1, <1>3 DEF FromRest
  <2>. QED BY <1>2, <1>3, <2>1 DEF Chosen
<1>4. CASE ~(nb <= m.dvsize) /\ nb < m.topsize
  <2>1. FromRest(m, nb) = SplitTop(m, nb)
    BY <1>4 DEF FromRest
  <2>. QED BY <1>2, <2>1 DEF Chosen
<1>5. CASE ~(nb <= m.dvsize) /\ ~(nb < m.topsize)
  <2>1. FromRest(m, nb) = sys_alloc(m, nb)
    BY <1>5 DEF FromRest
  <2>2. m.dvsize < nb /\ m.topsize <= nb
    BY <1>1, <1>5
  <2>. QED BY <2>1, <2>2 DEF Chosen
<1>. QED BY <1>3, <1>4, <1>5

(* A small chunk's bin is marked.                                          *)
LEMMA SmallIn ==
  ASSUME NEW m, NEW F, Bins(m, F), NEW x \in DOMAIN F, is_small(F[x])
  PROVE  /\ small_index(F[x]) \in m.smallmap /\ small_index(F[x]) * 8 = F[x]
         /\ small_index(F[x]) \in Nat
<1>. DEFINE i == small_index(F[x])
<1>1. i \in SmallBins /\ i * 8 = F[x]
  BY SmallSize DEF Bins
<1>. HIDE DEF i
<1>2. Lists(m.smallbins[i], Of(F, i * 8)) /\ x \in Of(F, i * 8)
  BY <1>1 DEF Bins, Of
<1>3. m.smallbins[i] # <<>>
  BY <1>2, ListsIndex
<1>4. i \in m.smallmap
  BY <1>1, <1>3 DEF Bins
<1>. QED BY <1>1, <1>4 DEF i, SmallBins

(* The first marked small bin at or above the request is the closest.      *)
LEMMA SmallTaken ==
  ASSUME NEW m, DOMAIN m = Fields, NEW F, Bins(m, F), NEW i \in m.smallmap, NEW nb \in Nat, nb <= i * 8,
         NEW r, r = TakeSmallWhole(m, i) \/ r = TakeSmallSplit(m, i, nb),
         \A x \in DOMAIN F : is_small(F[x]) /\ F[x] >= nb => i * 8 <= F[x]
  PROVE  Chosen(m, r, F, nb)
<1>. DEFINE p == Head(m.smallbins[i])
<1>1. p \in DOMAIN F /\ F[p] = i * 8 /\ i \in SmallBins
  BY BinsUnlinkFirst
<1>2. Taken(m, r, p)
  BY TakeSmallTaken
<1>. HIDE DEF p
<1>3. i * 8 < MIN_LARGE_SIZE /\ i \in Nat /\ MIN_LARGE_SIZE \in Nat
  BY <1>1, SmallBinSize, MinLarge
<1>4. ASSUME NEW x \in DOMAIN F, F[x] >= nb PROVE F[p] <= F[x]
  <2>1. Sized(F[x])
    BY DEF Bins
  <2>2. CASE is_small(F[x])
    BY <1>1, <1>4, <2>2
  <2>3. CASE ~is_small(F[x])
    <3>1. F[x] \in Nat /\ F[x] >= MIN_LARGE_SIZE
      BY <2>1, <2>3, LargeSize, InBinNat
    <3>. QED BY <1>1, <1>3, <3>1
  <2>. QED BY <2>2, <2>3
<1>. QED BY <1>1, <1>2, <1>4 DEF Chosen

(* A trie's closest chunk is the closest of all.                           *)
LEMMA TreeTaken ==
  ASSUME NEW m, NEW sz, NEW us, Heap(m, sz, us, {}), NEW F, F = InBins(m, sz, us),
         NEW best, NEW nb \in Nat, nb >= 16, Fitting(best, F, nb), best.v # 0, NEW victim,
         \A x \in DOMAIN F : Closest(best, nb, F[x])
  PROVE  Chosen(m, TakeTreeChunk(m, best, nb, victim), F, nb)
<1>1. Taken(m, TakeTreeChunk(m, best, nb, victim), best.v)
  BY TakeTreeTaken
<1>2. best.v \in DOMAIN F /\ best.rsize \in Nat /\ F[best.v] = nb + best.rsize
  BY DEF Fitting
<1>3. F[best.v] >= nb
  BY <1>2
<1>4. \A x \in DOMAIN F : F[x] >= nb => F[best.v] <= F[x]
  BY <1>2 DEF Closest
<1>. QED BY <1>1, <1>2, <1>3, <1>4 DEF Chosen

(* What dlmalloc chooses for a small request.                              *)
LEMMA MallocSmallChosen ==
  ASSUME NEW m, NEW sz, NEW us, Heap(m, sz, us, {}), NEW F, F = InBins(m, sz, us),
         NEW nb \in Nat, nb >= 16, nb % 8 = 0, nb < MIN_LARGE_SIZE
  PROVE  Chosen(m, MallocSmall(m, nb), F, nb)
<1>. DEFINE idx == small_index(nb)
            above == {i \in m.smallmap : i > idx + 1}
            i0 == Min(above)
<1>1. idx \in Nat /\ idx * 8 = nb
  BY DEF small_index
<1>2. is_small(nb)
  BY <1>1, BinConstants DEF is_small, small_index
<1>3. Bins(m, F) /\ DOMAIN m = Fields /\ 0 \notin DOMAIN F /\ m.smallmap \subseteq Nat /\ m.dvsize \in Nat
  <2>1. Bins(m, F)
    BY DEF Heap
  <2>2. DOMAIN m = Fields /\ m.dvsize \in Nat
    <3>1. Frame(m) /\ Ready(m, sz, us)
      BY ReadyInitialized DEF Heap
    <3>2. DOMAIN m = Fields
      BY <3>1, FrameFacts
    <3>3. m.dvsize \in Nat
      BY <3>1, ReadyVictim
    <3>. QED BY <3>2, <3>3
  <2>3. 0 \notin DOMAIN F
    BY HeapUsed DEF InBins
  <2>4. m.smallmap \subseteq Nat
    BY <2>1 DEF Bins, SmallBins
  <2>. QED BY <2>1, <2>2, <2>3, <2>4
<1>. HIDE DEF idx
<1>4. \A x \in DOMAIN F : is_small(F[x]) => \E i \in m.smallmap : i \in Nat /\ F[x] = i * 8
  BY <1>3, SmallIn
<1>5. CASE idx \in m.smallmap
  <2>1. MallocSmall(m, nb) = TakeSmallWhole(m, idx)
    BY <1>5 DEF MallocSmall, idx
  <2>2. \A x \in DOMAIN F : is_small(F[x]) /\ F[x] >= nb => idx * 8 <= F[x]
    BY <1>1
  <2>3. nb <= idx * 8
    BY <1>1
  <2>. QED BY <1>3, <1>5, <2>1, <2>2, <2>3, SmallTaken
<1>6. CASE idx \notin m.smallmap /\ idx + 1 \in m.smallmap
  <2>1. MallocSmall(m, nb) = TakeSmallWhole(m, idx + 1)
    BY <1>6 DEF MallocSmall, idx
  <2>2. ASSUME NEW x \in DOMAIN F, is_small(F[x]), F[x] >= nb PROVE (idx + 1) * 8 <= F[x]
    <3>1. PICK i \in m.smallmap : i \in Nat /\ F[x] = i * 8
      BY <1>4, <2>2
    <3>2. i # idx
      BY <1>6
    <3>. QED BY <1>1, <2>2, <3>1, <3>2
  <2>. DEFINE j == idx + 1
  <2>3. j \in m.smallmap /\ nb <= j * 8 /\ MallocSmall(m, nb) = TakeSmallWhole(m, j)
    BY <1>1, <1>6, <2>1
  <2>4. \A x \in DOMAIN F : is_small(F[x]) /\ F[x] >= nb => j * 8 <= F[x]
    BY <2>2
  <2>. HIDE DEF j
  <2>. QED BY <1>3, <2>3, <2>4, SmallTaken
<1>7. CASE idx \notin m.smallmap /\ idx + 1 \notin m.smallmap
  <2>1. ASSUME NEW x \in DOMAIN F, is_small(F[x]), F[x] >= nb
        PROVE  \E i \in above : i \in Nat /\ F[x] = i * 8
    <3>1. PICK i \in m.smallmap : i \in Nat /\ F[x] = i * 8
      BY <1>4, <2>1
    <3>2. i # idx /\ i # idx + 1
      BY <1>7
    <3>3. i > idx + 1
      BY <1>1, <2>1, <3>1, <3>2
    <3>. QED BY <3>1, <3>3
  <2>2. CASE nb > m.dvsize /\ above # {}
    <3>1. i0 \in above /\ \A i \in above : i0 <= i
      <4>1. above \in SUBSET Nat
        BY <1>3
      <4>. HIDE DEF above
      <4>. QED BY <2>2, <4>1, MinOfSet
    <3>2. i0 \in m.smallmap /\ i0 \in Nat /\ i0 > idx + 1
      BY <1>3, <3>1
    <3>3. MallocSmall(m, nb) = TakeSmallSplit(m, i0, nb)
      BY <1>7, <2>2 DEF MallocSmall, idx
    <3>. HIDE DEF i0, above
    <3>4. nb <= i0 * 8
      BY <1>1, <3>2
    <3>5. ASSUME NEW x \in DOMAIN F, is_small(F[x]), F[x] >= nb PROVE i0 * 8 <= F[x]
      <4>1. PICK i \in above : i \in Nat /\ F[x] = i * 8
        BY <2>1, <3>5
      <4>2. i0 <= i
        BY <3>1
      <4>. QED BY <3>2, <4>1, <4>2
    <3>. QED BY <1>3, <3>2, <3>3, <3>4, <3>5, SmallTaken
  <2>3. CASE ~(nb > m.dvsize /\ above # {}) /\ nb > m.dvsize /\ m.treemap # {}
    <3>. DEFINE best == SmallBest(m, nb)
    <3>1. MallocSmall(m, nb) = TakeTreeChunk(m, best, nb, TRUE)
      BY <1>7, <2>3 DEF MallocSmall, idx, tmalloc_small, SmallBest
    <3>2. /\ Fitting(best, F, nb) /\ best.v # 0
          /\ \A x \in DOMAIN F : ~is_small(F[x]) => Closest(best, nb, F[x])
      BY <1>2, <1>3, <2>3, SmallBestCloser
    <3>. HIDE DEF best
    <3>3. \A x \in DOMAIN F : Closest(best, nb, F[x])
      BY <2>1, <2>3, <3>2 DEF Closest
    <3>4. Chosen(m, TakeTreeChunk(m, best, nb, TRUE), F, nb)
      BY <3>2, <3>3, TreeTaken
    <3>. QED BY <3>1, <3>4
  <2>4. CASE ~(nb > m.dvsize /\ above # {}) /\ ~(nb > m.dvsize /\ m.treemap # {})
    <3>1. MallocSmall(m, nb) = FromRest(m, nb)
      BY <1>7, <2>4 DEF MallocSmall, idx
    <3>2. ASSUME m.dvsize < nb, NEW x \in DOMAIN F PROVE F[x] < nb
      <4>1. above = {} /\ m.treemap = {}
        BY <1>3, <2>4, <3>2
      <4>2. is_small(F[x])
        <5>1. SUFFICES ASSUME ~is_small(F[x]) PROVE FALSE
          OBVIOUS
        <5>. DEFINE j == compute_tree_index(F[x])
        <5>2. Sized(F[x])
          BY <1>3 DEF Bins
        <5>3. j \in TreeBins /\ InBin(F[x], j)
          BY <5>1, <5>2, LargeSize
        <5>. HIDE DEF j
        <5>4. Trie(m.treebins[j], j, F)
          BY <1>3, <5>3 DEF Bins
        <5>5. m.treebins[j] # NoTrie
          BY <5>3, <5>4, TrieNodeOf
        <5>. QED BY <1>3, <4>1, <5>3, <5>5 DEF Bins
      <4>3. ~(F[x] >= nb)
        BY <2>1, <4>1, <4>2
      <4>4. F[x] \in Nat
        BY <1>3 DEF Bins, Sized
      <4>. QED BY <4>3, <4>4
    <3>3. Chosen(m, FromRest(m, nb), F, nb)
      BY <1>2, <3>2, FromRestChosen
    <3>. QED BY <3>1, <3>3
  <2>. QED BY <2>2, <2>3, <2>4
<1>. QED BY <1>5, <1>6, <1>7

(* With no trie, every binned chunk is small.                              *)
LEMMA NoTrees ==
  ASSUME NEW m, NEW F, Bins(m, F), m.treemap = {}, NEW x \in DOMAIN F
  PROVE  is_small(F[x]) /\ F[x] < MIN_LARGE_SIZE /\ F[x] \in Nat
<1>1. Sized(F[x])
  BY DEF Bins
<1>2. is_small(F[x])
  <2>1. SUFFICES ASSUME ~is_small(F[x]) PROVE FALSE
    OBVIOUS
  <2>. DEFINE j == compute_tree_index(F[x])
  <2>2. j \in TreeBins /\ InBin(F[x], j)
    BY <1>1, <2>1, LargeSize
  <2>. HIDE DEF j
  <2>3. Trie(m.treebins[j], j, F)
    BY <2>2 DEF Bins
  <2>4. m.treebins[j] # NoTrie
    BY <2>2, <2>3, TrieNodeOf
  <2>. QED BY <2>2, <2>4 DEF Bins
<1>3. small_index(F[x]) \in SmallBins /\ small_index(F[x]) * 8 = F[x]
  BY <1>1, <1>2, SmallSize
<1>. QED BY <1>1, <1>2, <1>3, SmallBinSize DEF Sized

(* What dlmalloc chooses for a large request.                              *)
LEMMA MallocLargeChosen ==
  ASSUME NEW m, NEW sz, NEW us, Heap(m, sz, us, {}), NEW F, F = InBins(m, sz, us),
         NEW nb, Asked(nb), nb >= MIN_LARGE_SIZE
  PROVE  Chosen(m, MallocLarge(m, nb), F, nb)
<1>. DEFINE best == LargeBest(m, nb)
            t == tmalloc_large(m, nb)
            w == Word(m.dvsize - nb)
<1>1. /\ nb \in Nat /\ nb >= 16 /\ nb < WordRange /\ nb \in LargeSizes
      /\ MIN_LARGE_SIZE \in Nat /\ WordRange \in Nat /\ MAX_SIZE_T = WordRange - 1
  BY AskedFacts, MinLarge, WordFacts DEF LargeSizes
<1>2. t = IF best.v # 0 /\ best.rsize < w THEN TakeTreeChunk(m, best, nb, FALSE) ELSE Failed(m)
  BY DEF tmalloc_large, LargeBest
<1>3. Bins(m, F)
  BY DEF Heap
<1>4. Fitting(best, F, nb) /\ \A x \in DOMAIN F : Closest(best, nb, F[x])
  BY <1>1, <1>3, LargeBestCloser DEF Closer
<1>5. m.dvsize \in Nat /\ m.dvsize < WordRange
  <2>1. Ready(m, sz, us)
    BY ReadyInitialized
  <2>2. m.dvsize \in Nat /\ (m.dvsize = 0 <=> m.dv = 0)
        /\ (m.dv # 0 => m.dv \in DOMAIN sz /\ m.dvsize = sz[m.dv])
    BY <2>1, ReadyVictim
  <2>3. m.dv # 0 => m.dvsize < MAX_SIZE_T
    BY <2>2, HeapSmaller
  <2>. QED BY <1>1, <2>2, <2>3
<1>6. w = IF nb <= m.dvsize THEN m.dvsize - nb ELSE (m.dvsize - nb) + WordRange
  <2>1. m.dvsize - nb \in Int
    BY <1>1, <1>5
  <2>2. CASE nb <= m.dvsize
    <3>1. 0 <= m.dvsize - nb /\ m.dvsize - nb < WordRange
      BY <1>1, <1>5, <2>2
    <3>. QED BY <2>1, <2>2, <3>1, WordOf
  <2>3. CASE ~(nb <= m.dvsize)
    <3>1. -WordRange <= m.dvsize - nb /\ m.dvsize - nb < 0
      BY <1>1, <1>5, <2>3
    <3>. QED BY <2>1, <2>3, <3>1, WordOf
  <2>. QED BY <2>2, <2>3
<1>. HIDE DEF best, w
<1>7. \A x \in DOMAIN F : F[x] \in Nat /\ F[x] < WordRange
  BY <1>3 DEF Bins, Sized
<1>8. best.rsize \in Nat /\ (best.v = 0 => best.rsize = WordRange - nb)
      /\ (best.v # 0 => best.v \in DOMAIN F)
  <2>1. 0 \notin DOMAIN F
    BY HeapUsed DEF InBins
  <2>2. CASE best.v = 0 /\ best.rsize = WordRange - nb
    BY <1>1, <2>2
  <2>3. CASE best.v \in DOMAIN F /\ best.rsize \in Nat
    BY <2>1, <2>3
  <2>. QED BY <1>4, <2>2, <2>3 DEF Fitting
<1>9. CASE m.treemap # {} /\ best.v # 0 /\ best.rsize < w
  <2>1. Chosen(m, TakeTreeChunk(m, best, nb, FALSE), F, nb)
    BY <1>1, <1>4, <1>9, TreeTaken
  <2>2. best.v \in Nat
    <3>1. best.v \in DOMAIN sz
      BY <1>8, <1>9 DEF InBins
    <3>. QED BY <3>1, HeapChunk
  <2>3. Taken(m, TakeTreeChunk(m, best, nb, FALSE), best.v)
    BY <1>1, <1>4, <1>9, TakeTreeTaken
  <2>4. TakeTreeChunk(m, best, nb, FALSE).mem # 0
    <3>. DEFINE r == TakeTreeChunk(m, best, nb, FALSE)
                v == best.v
    <3>1. r.mem = chunk2mem(v)
      BY <2>3 DEF Taken
    <3>2. v \in Nat
      BY <2>2
    <3>. HIDE DEF r, v
    <3>3. r.mem # 0
      BY ONLY <3>1, <3>2 DEF chunk2mem, SIZE_T_SIZE
    <3>. QED BY <3>3 DEF r
  <2>5. MallocLarge(m, nb) = TakeTreeChunk(m, best, nb, FALSE)
    <3>1. t = TakeTreeChunk(m, best, nb, FALSE)
      BY <1>2, <1>9
    <3>2. MallocLarge(m, nb) = OrFromRest(t, m, nb)
      BY <1>9 DEF MallocLarge
    <3>. QED BY <2>4, <3>1, <3>2 DEF OrFromRest
  <2>. QED BY <2>1, <2>5
<1>10. CASE m.treemap # {} /\ ~(best.v # 0 /\ best.rsize < w)
  <2>1. MallocLarge(m, nb) = FromRest(m, nb)
    <3>1. t = Failed(m)
      BY <1>2, <1>10
    <3>2. MallocLarge(m, nb) = OrFromRest(t, m, nb)
      BY <1>10 DEF MallocLarge
    <3>. QED BY <3>1, <3>2 DEF OrFromRest, Failed
  <2>2. ASSUME nb <= m.dvsize, NEW x \in DOMAIN F, F[x] >= nb PROVE m.dvsize <= F[x]
    <3>1. nb + best.rsize <= F[x] /\ F[x] \in Nat /\ F[x] < WordRange
      BY <1>4, <1>7, <2>2 DEF Closest
    <3>2. best.v # 0
      BY <1>1, <1>8, <3>1
    <3>3. ~(best.rsize < m.dvsize - nb)
      BY <1>6, <1>10, <2>2, <3>2
    <3>. QED BY <1>1, <1>5, <1>8, <3>1, <3>3
  <2>3. ASSUME m.dvsize < nb, NEW x \in DOMAIN F PROVE F[x] < nb
    <3>1. SUFFICES ASSUME F[x] >= nb PROVE FALSE
      BY <1>1, <1>7
    <3>2. nb + best.rsize <= F[x] /\ F[x] \in Nat /\ F[x] < WordRange
      BY <1>4, <1>7, <3>1 DEF Closest
    <3>3. best.v # 0
      BY <1>1, <1>8, <3>2
    <3>4. ~(best.rsize < (m.dvsize - nb) + WordRange)
      BY <1>1, <1>5, <1>6, <1>10, <2>3, <3>3
    <3>. QED BY <1>1, <1>5, <1>8, <3>2, <3>4
  <2>. QED BY <1>1, <2>1, <2>2, <2>3, FromRestChosen
<1>11. CASE m.treemap = {}
  <2>1. MallocLarge(m, nb) = FromRest(m, nb)
    BY <1>11 DEF MallocLarge, OrFromRest, Failed
  <2>2. \A x \in DOMAIN F : F[x] < nb /\ F[x] \in Nat
    BY <1>1, <1>3, <1>11, NoTrees
  <2>3. nb <= m.dvsize /\ ~is_small(nb) => \A x \in DOMAIN F : F[x] >= nb => m.dvsize <= F[x]
    BY <1>1, <2>2
  <2>. QED BY <1>1, <2>1, <2>2, <2>3, FromRestChosen
<1>. QED BY <1>9, <1>10, <1>11

(* What dlmalloc chooses.                                                  *)
LEMMA dlmallocChosen ==
  ASSUME NEW m, NEW sz, NEW us, Heap(m, sz, us, {}), NEW F, F = InBins(m, sz, us),
         NEW bytes \in 0 .. MAX_SIZE_T, NEW nb, nb = Padded(bytes)
  PROVE  Chosen(m, dlmalloc(m, bytes), F, nb)
<1>1. /\ bytes \in Nat /\ MAX_REQUEST = WordRange - 64 /\ WordRange \in Nat /\ WordRange >= 4096
      /\ MIN_CHUNK_SIZE = 16 /\ MIN_REQUEST = 11
      /\ MAX_SIZE_T = WordRange - 1
  BY SizeFacts, WordFacts
<1>2. MAX_SMALL_REQUEST = MIN_LARGE_SIZE - 12
  BY SizeFacts, MinLarge DEF MAX_SMALL_REQUEST
<1>3. MIN_LARGE_SIZE >= 32 /\ 2 * MIN_LARGE_SIZE <= WordRange /\ MIN_LARGE_SIZE % 8 = 0 /\ MIN_LARGE_SIZE \in Nat
  BY MinLarge
<1>4. Asked(nb) /\ nb \in Nat /\ nb >= 16
  BY PaddedFacts
<1>5. CASE bytes <= MAX_SMALL_REQUEST
  <2>1. bytes < MAX_REQUEST
    BY <1>1, <1>2, <1>3, <1>5
  <2>2. nb = request2size(bytes)
    BY <1>1, <2>1 DEF Padded
  <2>3. nb = IF bytes < MIN_REQUEST THEN MIN_CHUNK_SIZE ELSE pad_request(bytes)
    BY <2>2 DEF request2size
  <2>4. pad_request(bytes) <= bytes + 11 /\ pad_request(bytes) \in Nat /\ request2size(bytes) % 8 = 0
    BY <1>1, <2>1, PadFacts
  <2>5. nb < MIN_LARGE_SIZE /\ nb % 8 = 0
    BY <1>1, <1>2, <1>3, <1>5, <2>2, <2>3, <2>4
  <2>6. Chosen(m, MallocSmall(m, nb), F, nb)
    BY <1>4, <2>5, MallocSmallChosen
  <2>7. dlmalloc(m, bytes) = MallocSmall(m, nb)
    BY <1>5, <2>3 DEF dlmalloc
  <2>. QED BY <2>6, <2>7
<1>6. CASE ~(bytes <= MAX_SMALL_REQUEST) /\ bytes >= MAX_REQUEST
  <2>1. nb = MAX_SIZE_T
    BY <1>6 DEF Padded
  <2>2. \A x \in DOMAIN F : F[x] < nb
    BY <2>1, HeapSmaller DEF InBins
  <2>3. ~(nb <= m.dvsize)
    <3>1. m.dv # 0 => m.dv \in DOMAIN sz /\ m.dvsize = sz[m.dv]
      BY ReadyInitialized, ReadyVictim
    <3>2. m.dvsize = 0 <=> m.dv = 0
      BY ReadyInitialized, ReadyVictim
    <3>3. m.dv # 0 => m.dvsize < nb /\ m.dvsize \in Nat
      BY <2>1, <3>1, HeapSmaller
    <3>. QED BY <1>4, <3>2, <3>3
  <2>4. Chosen(m, FromRest(m, nb), F, nb)
    BY <1>4, <2>2, <2>3, FromRestChosen
  <2>. QED BY <1>6, <2>1, <2>4 DEF dlmalloc
<1>7. CASE ~(bytes <= MAX_SMALL_REQUEST) /\ ~(bytes >= MAX_REQUEST)
  <2>1. nb = request2size(bytes)
    BY <1>7 DEF Padded
  <2>2. bytes < MAX_REQUEST /\ bytes >= MIN_REQUEST /\ bytes >= MIN_LARGE_SIZE - 11
    BY <1>1, <1>2, <1>3, <1>7
  <2>3. nb = pad_request(bytes) /\ nb % 8 = 0 /\ nb >= bytes + 4
    BY <2>1, <2>2, PadFacts
  <2>4. nb >= MIN_LARGE_SIZE
    BY <1>1, <1>3, <1>4, <2>2, <2>3
  <2>5. Chosen(m, MallocLarge(m, nb), F, nb)
    BY <1>4, <2>4, MallocLargeChosen
  <2>6. dlmalloc(m, bytes) = MallocLarge(m, nb)
    BY <1>7, <2>3 DEF dlmalloc
  <2>. QED BY <2>5, <2>6
<1>. QED BY <1>5, <1>6, <1>7

-----------------------------------------------------------------------------
(* The break is asked last.                                                *)

(* New memory is added to the top.                                         *)
LEMMA AddMemoryTop ==
  ASSUME NEW m, NEW sz, NEW us, Heap(m, sz, us, {}), NEW k, SameBut(m, k, {"brk", "contiguous"}),
         NEW t \in Nat, NEW n, n = AddMemory(k, HeapBase + m.brk, t)
  PROVE  n.top = m.top /\ n.topsize = m.topsize + t
<1>. DEFINE reached == k.footprint + t
            f == [k EXCEPT !.footprint = reached,
                           !.max_footprint = IF reached > @ THEN reached ELSE @]
            g == [f EXCEPT !.seg.size = @ + t]
            s == m.topsize + t
<1>1. DOMAIN m = Fields
  BY FrameFacts DEF Heap
<1>2. /\ is_initialized(m) /\ m.top \in Nat /\ m.top % 8 = 0 /\ m.topsize \in Nat
      /\ segment_end(m) = HeapBase + m.brk /\ segment_holds(m, m.top)
  BY TopFacts
<1>3. k.top = m.top /\ k.topsize = m.topsize /\ k.seg = m.seg /\ DOMAIN k = Fields
  BY <1>1 DEF SameBut, Fields
<1>4. is_initialized(k) /\ segment_end(k) = HeapBase + m.brk /\ segment_holds(k, k.top)
  BY <1>2, <1>3 DEF is_initialized, segment_end, segment_holds
<1>5. n = init_top(g, m.top, s)
  BY <1>3, <1>4 DEF AddMemory
<1>6. DOMAIN g = Fields
  BY <1>3 DEF Fields
<1>7. s \in Int
  BY <1>2
<1>. HIDE DEF g, s
<1>8. LET x == init_top(g, m.top, s)
      IN /\ SameBut(g, x, {"head", "top", "topsize", "trim_check"})
         /\ NewHead(x, m.top, s, FALSE, TRUE) /\ OtherHeads(g, x, {m.top}) /\ x.foot = g.foot
         /\ x.top = m.top /\ x.topsize = s /\ x.trim_check = g.trim_threshold
  BY <1>2, <1>6, <1>7, InitTopFacts
<1>9. n.top = m.top /\ n.topsize = s
  BY <1>5, <1>8
<1>. QED BY <1>9 DEF s

(* sys_alloc serves from the top.                                          *)
LEMMA sys_allocTop ==
  ASSUME NEW m, NEW sz, NEW us, Heap(m, sz, us, {}), NEW nb, Asked(nb), NEW r, r = sys_alloc(m, nb)
  PROVE  r.mem = 0 \/ r.mem = chunk2mem(m.top)
<1>. DEFINE b == OrAnywhere(FirstWay(m, nb), nb)
            n == AddMemory(b.m, b.tbase, b.tsize)
<1>1. Extended(m, b)
  <2>1. Ready(m, sz, us) /\ FirstFits(m, nb)
    BY ReadyInitialized, HeapNotBlank DEF FirstFits
  <2>. QED BY <2>1, MemoryExtended
<1>2. r = WithMemory(b, nb)
  BY DEF sys_alloc
<1>. HIDE DEF b
<1>3. CASE b.tbase = CMFAIL
  BY <1>2, <1>3 DEF WithMemory, Failed
<1>4. CASE b.tbase # CMFAIL
  <2>1. r = FromTop(n, nb)
    BY <1>2, <1>4 DEF WithMemory
  <2>2. SameBut(m, b.m, {"brk", "contiguous"}) /\ b.tsize \in Nat /\ b.tbase = HeapBase + m.brk
    BY <1>1, <1>4 DEF Extended
  <2>3. n.top = m.top
    BY <2>2, AddMemoryTop
  <2>. HIDE DEF n
  <2>. QED BY <2>1, <2>3 DEF FromTop, SplitTop, Failed
<1>. QED BY <1>3, <1>4

(* Rounding to the granularity without wrapping.                           *)
LEMMA GranularityOf ==
  ASSUME NEW m, Frame(m), NEW x \in Nat, x + m.granularity < WordRange
  PROVE  granularity_align(m, x) = AlignDown(x + m.granularity, m.granularity)
<1>1. m.granularity \in Nat /\ WordRange \in Nat
  BY FrameFacts, WordFacts
<1>2. x + m.granularity \in Int /\ 0 <= x + m.granularity
  BY <1>1
<1>3. Word(x + m.granularity) = x + m.granularity
  BY <1>1, <1>2, WordOf
<1>. QED BY <1>3 DEF granularity_align

(* What malloc asks the break for when the first way has failed.           *)
NeedOf(m, nb) == AlignDown((nb + 41) + m.granularity, m.granularity)

(* That amount, when the break has it, does not wrap.                      *)
LEMMA NeedFacts ==
  ASSUME NEW m, Frame(m), NEW nb, Asked(nb), NEW need, need = NeedOf(m, nb), need <= m.limit - m.brk
  PROVE  /\ nb \in Nat /\ need \in Nat /\ need > nb + 41 /\ need < HALF_MAX_SIZE_T
         /\ (nb + 41) + m.granularity < WordRange /\ m.limit # 0
         /\ Word(nb + 41) = nb + 41 /\ Word(nb + 40) = nb + 40
         /\ granularity_align(m, nb + 41) = need
<1>. DEFINE g == m.granularity
            x == (nb + 41) + g
<1>1. nb \in Nat /\ nb < WordRange
  BY AskedFacts
<1>2. /\ g \in Nat /\ g >= 16 /\ g <= HALF_MAX_SIZE_T + 1 /\ HeapBase \in Nat /\ HeapBase >= 8
      /\ m.limit \in Nat /\ m.brk \in Nat /\ HeapBase + m.limit <= HALF_MAX_SIZE_T
  BY FrameFacts
<1>3. HALF_MAX_SIZE_T \in Nat /\ 2 * HALF_MAX_SIZE_T = WordRange - 2 /\ WordRange \in Nat
  BY WordFacts
<1>. HIDE DEF g
<1>4. x \in Nat /\ x - g = nb + 41
  BY <1>1, <1>2
<1>5. need = AlignDown(x, g)
  BY DEF NeedOf, g
<1>. HIDE DEF x
<1>6. need \in Nat /\ need > x - g
  BY <1>2, <1>4, <1>5, AlignDownFacts
<1>7. need > nb + 41
  BY <1>4, <1>6
<1>8. need < HALF_MAX_SIZE_T /\ m.limit # 0
  BY <1>1, <1>2, <1>3, <1>6, <1>7
<1>9. x < WordRange
  BY <1>1, <1>2, <1>3, <1>7, <1>8, <1>6 DEF x
<1>10. Word(nb + 41) = nb + 41 /\ Word(nb + 40) = nb + 40
  <2>1. nb + 41 \in Int /\ 0 <= nb + 41 /\ nb + 41 < WordRange
    BY <1>1, <1>3, <1>6, <1>7, <1>8
  <2>2. nb + 40 \in Int /\ 0 <= nb + 40 /\ nb + 40 < WordRange
    BY <1>1, <1>3, <2>1
  <2>. QED BY <2>1, <2>2, WordOf
<1>11. granularity_align(m, nb + 41) = need
  <2>. DEFINE y == nb + 41
  <2>1. y \in Nat /\ y + m.granularity < WordRange /\ y + m.granularity = x
    <3>1. y \in Nat
      BY <1>1
    <3>2. x = y + m.granularity
      BY DEF x, g
    <3>. HIDE DEF y
    <3>. QED BY <1>9, <3>1, <3>2
  <2>. HIDE DEF y
  <2>2. granularity_align(m, y) = AlignDown(x, g)
    BY <2>1, GranularityOf DEF g
  <2>. QED BY <1>5, <2>2 DEF y
<1>. QED BY <1>1, <1>6, <1>7, <1>8, <1>9, <1>10, <1>11 DEF x, g

(* The second way succeeds when the break has that much.                   *)
LEMMA AnywhereGets ==
  ASSUME NEW m, Frame(m), NEW nb, Asked(nb), NEW need, need = NeedOf(m, nb), need <= m.limit - m.brk
  PROVE  MoreAnywhere(m, nb).tbase # CMFAIL /\ MoreAnywhere(m, nb).tsize = need
<1>. DEFINE got == sbrk(m, need)
            end == sbrk(got.m, 0).ret
            n == MoreAnywhere(m, nb)
<1>1. /\ nb \in Nat /\ need \in Nat /\ need > nb + 41 /\ need < HALF_MAX_SIZE_T /\ m.limit # 0
      /\ Word(nb + 41) = nb + 41 /\ Word(nb + 40) = nb + 40 /\ granularity_align(m, nb + 41) = need
  BY NeedFacts
<1>2. DOMAIN m = Fields /\ m.brk \in Nat /\ m.limit \in Nat /\ m.brk <= m.limit /\ HeapBase \in Nat
  BY FrameFacts
<1>3. n = IF /\ need < HALF_MAX_SIZE_T
             /\ got.ret # CMFAIL /\ end # CMFAIL /\ got.ret < end
             /\ end - got.ret > nb + 40
       THEN [m |-> got.m, tbase |-> got.ret, tsize |-> end - got.ret]
       ELSE [m |-> IF need < HALF_MAX_SIZE_T THEN got.m ELSE m, tbase |-> CMFAIL, tsize |-> 0]
  <2>1. nb + TOP_FOOT_SIZE = nb + 40 /\ nb + TOP_FOOT_SIZE + 1 = nb + 41
    BY <1>1, SizeFacts
  <2>. QED BY <1>1, <2>1 DEF MoreAnywhere
<1>4. got.ret = HeapBase + m.brk /\ got.m = [m EXCEPT !.brk = @ + need]
  BY <1>1, <1>2 DEF sbrk, NoHeap
<1>. HIDE DEF got, n
<1>5. DOMAIN got.m = Fields /\ got.m.brk = m.brk + need /\ got.m.limit = m.limit
  BY <1>2, <1>4 DEF Fields
<1>6. end = HeapBase + (m.brk + need)
  <2>1. got.m.brk \in Nat /\ got.m.limit \in Nat /\ got.m.brk <= got.m.limit /\ got.m.limit # 0
    BY <1>1, <1>2, <1>5
  <2>2. end = HeapBase + got.m.brk
    BY <1>5, <2>1, SbrkZero
  <2>. QED BY <1>5, <2>2
<1>. HIDE DEF end
<1>7. end - got.ret = need /\ got.ret < end /\ end # CMFAIL /\ got.ret # CMFAIL
  BY <1>1, <1>2, <1>4, <1>6 DEF CMFAIL
<1>8. n = [m |-> got.m, tbase |-> got.ret, tsize |-> need]
  BY <1>1, <1>3, <1>7
<1>. QED BY <1>7, <1>8 DEF n

(* The first way, when it succeeds, gets enough for the request.           *)
LEMMA ContiguousGets ==
  ASSUME NEW m, NEW sz, NEW us, Ready(m, sz, us), NEW nb, Asked(nb), nb >= m.topsize,
         NEW need, need = NeedOf(m, nb), need <= m.limit - m.brk,
         NEW n, n = MoreContiguous(m, nb), n.tbase # CMFAIL
  PROVE  /\ ~is_initialized(m) => n.tsize > nb + 41
         /\ is_initialized(m) => n.tsize > (nb - m.topsize) + 41
<1>. DEFINE here == sbrk(m, 0)
            first == ~(is_initialized(m) /\ segment_holds(m, m.top))
            want == IF first THEN Word(nb + 41) ELSE Word(nb - m.topsize + TOP_FOOT_SIZE + 1)
            slack == IF first /\ here.ret % PageSize # 0 THEN page_align(here.ret) - here.ret ELSE 0
            asize == granularity_align(m, want) + slack
            start == IF first THEN here.ret ELSE segment_end(m)
            got == sbrk(m, asize)
            rest == nb - m.topsize
<1>1. /\ nb \in Nat /\ need \in Nat /\ need > nb + 41 /\ need < HALF_MAX_SIZE_T /\ m.limit # 0
      /\ (nb + 41) + m.granularity < WordRange
      /\ Word(nb + 41) = nb + 41 /\ granularity_align(m, nb + 41) = need
  BY ReadyFacts, NeedFacts
<1>2. /\ Frame(m) /\ m.topsize \in Nat
      /\ (is_initialized(m) => segment_holds(m, m.top) /\ segment_end(m) = HeapBase + m.brk)
      /\ (~is_initialized(m) => Blank(m))
  BY ReadyFacts
<1>3. DOMAIN m = Fields /\ m.brk \in Nat /\ m.limit \in Nat /\ m.brk <= m.limit /\ HeapBase \in Nat
      /\ HeapBase % 8 = 0 /\ HeapBase + m.limit <= HALF_MAX_SIZE_T /\ m.granularity \in Nat
  BY <1>2, FrameFacts
<1>4. n = IF asize < HALF_MAX_SIZE_T /\ start # CMFAIL /\ got.ret # CMFAIL
       THEN [m |-> got.m, tbase |-> got.ret, tsize |-> asize]
       ELSE [m |-> [m EXCEPT !.contiguous = FALSE], tbase |-> CMFAIL, tsize |-> 0]
  <2>1. nb + TOP_FOOT_SIZE + 1 = nb + 41
    BY <1>1, SizeFacts
  <2>. QED BY <2>1 DEF MoreContiguous
<1>5. n.tsize = asize
  <2>. HIDE DEF asize, start, got
  <2>. QED BY <1>4
<1>6. here.ret = HeapBase + m.brk
  BY <1>1, <1>3, SbrkZero
<1>7. slack \in Nat
  <2>1. CASE first /\ here.ret % PageSize # 0
    <3>1. m.brk = 0
      BY <1>2, <2>1 DEF Blank
    <3>2. here.ret = HeapBase
      BY <1>3, <1>6, <3>1
    <3>3. HeapBase <= HALF_MAX_SIZE_T
      <4>1. /\ HeapBase \in Nat /\ m.limit \in Nat /\ HeapBase + m.limit <= HALF_MAX_SIZE_T
            /\ HALF_MAX_SIZE_T \in Nat
        BY <1>3, WordFacts
      <4>. QED BY ONLY <4>1
    <3>. QED BY <1>3, <2>1, <3>2, <3>3, SlackFacts
  <2>2. CASE ~(first /\ here.ret % PageSize # 0)
    BY <2>2
  <2>. QED BY <2>1, <2>2
<1>. HIDE DEF slack
<1>8. CASE ~is_initialized(m)
  <2>1. want = nb + 41
    BY <1>1, <1>8
  <2>2. asize = need + slack
    BY <1>1, <2>1
  <2>. QED BY <1>1, <1>5, <1>7, <1>8, <2>2
<1>9. CASE is_initialized(m)
  <2>1. rest \in Nat /\ rest <= nb
    BY <1>1, <1>2
  <2>2. want = Word(rest + 41)
    <3>1. rest + TOP_FOOT_SIZE + 1 = rest + 41
      BY <2>1, SizeFacts
    <3>. QED BY <1>2, <1>9, <3>1
  <2>. HIDE DEF rest
  <2>3. rest + 41 \in 0 .. WordRange - 1 /\ (rest + 41) + m.granularity < WordRange
    BY <1>1, <1>3, <2>1, WordFacts
  <2>4. want = rest + 41
    BY <2>2, <2>3, WordFacts, WordOf
  <2>5. granularity_align(m, want) > want /\ granularity_align(m, want) \in Nat
    BY <1>2, <2>3, <2>4, GranularityAlign
  <2>. HIDE DEF want
  <2>6. asize > rest + 41
    <3>1. PICK c \in Nat : c = granularity_align(m, want)
      BY <2>5
    <3>. QED BY <1>7, <2>1, <2>4, <2>5, <3>1
  <2>. HIDE DEF asize
  <2>7. n.tsize > rest + 41
    BY <1>5, <2>6
  <2>. QED BY <1>9, <2>7 DEF rest
<1>. QED BY <1>8, <1>9

(* If the system has nothing, its request does not fit in the section.     *)
LEMMA AllocFails ==
  ASSUME NEW m, NEW sz, NEW us, Ready(m, sz, us), NEW nb, Asked(nb), nb >= m.topsize,
         NEW r, r = sys_alloc(m, nb), r.mem = 0
  PROVE  m.limit - m.brk < NeedOf(m, nb)
<1>. DEFINE need == NeedOf(m, nb)
            a == FirstWay(m, nb)
            b == OrAnywhere(a, nb)
            n == AddMemory(b.m, b.tbase, b.tsize)
<1>1. Frame(m) /\ m.topsize \in Nat /\ m.limit \in Nat /\ m.brk \in Nat
      /\ (is_initialized(m) <=> Heap(m, sz, us, {})) /\ (~is_initialized(m) => Blank(m))
  <2>1. Frame(m)
    BY ReadyFacts
  <2>. QED BY <2>1, ReadyFacts, FrameFacts
<1>2. need \in Nat
  <2>1. m.granularity \in Nat /\ m.granularity > 0 /\ (nb + 41) + m.granularity \in Nat
    BY <1>1, FrameFacts, AskedFacts
  <2>. DEFINE x == (nb + 41) + m.granularity
              g == m.granularity
  <2>2. x \in Nat /\ g \in Nat /\ g > 0
    BY <2>1
  <2>. HIDE DEF x, g
  <2>3. AlignDown(x, g) \in Nat
    BY <2>2, AlignDownFacts
  <2>. QED BY <2>3 DEF NeedOf, x, g
<1>3. SUFFICES ASSUME need <= m.limit - m.brk PROVE FALSE
  BY <1>1, <1>2
<1>4. nb \in Nat /\ need > nb + 41
  BY <1>1, <1>3, NeedFacts
<1>5. Extended(m, a) /\ Extended(m, b)
  <2>1. Word(nb + 41) = nb + 41 /\ granularity_align(m, nb + 41) = need
    BY <1>1, <1>3, NeedFacts
  <2>2. granularity_align(m, Word(nb + 41)) # 0
    BY <1>2, <1>4, <2>1
  <2>3. FirstFits(m, nb)
    BY <2>2 DEF FirstFits
  <2>. QED BY <2>3, FirstWayExtended, MemoryExtended
<1>6. r = WithMemory(b, nb)
  BY DEF sys_alloc
<1>7. /\ b.tbase # CMFAIL
      /\ ~is_initialized(m) => b.tsize > nb + 41
      /\ is_initialized(m) => b.tsize > (nb - m.topsize) + 41
  <2>. HIDE DEF need
  <2>1. CASE a.tbase = CMFAIL
    <3>. DEFINE k == a.m
    <3>. HIDE DEF a
    <3>1. SameBut(m, k, {"contiguous"}) /\ Frame(k)
      BY <1>1, <1>5, <2>1, FirstWayFailed
    <3>2. k.limit = m.limit /\ k.brk = m.brk /\ k.granularity = m.granularity
      BY <1>1, <3>1, FrameFacts DEF SameBut, Fields
    <3>3. need = NeedOf(k, nb) /\ need <= k.limit - k.brk
      BY <1>3, <3>2 DEF need, NeedOf
    <3>4. b = MoreAnywhere(k, nb)
      BY <2>1 DEF OrAnywhere
    <3>. HIDE DEF b, k
    <3>5. b.tbase # CMFAIL /\ b.tsize = need
      BY <3>1, <3>3, <3>4, AnywhereGets
    <3>. QED BY <1>1, <1>2, <1>4, <3>5
  <2>2. CASE a.tbase # CMFAIL
    <3>1. b = a
      BY <2>2 DEF OrAnywhere
    <3>2. m.contiguous /\ a = MoreContiguous(m, nb)
      BY <2>2 DEF FirstWay
    <3>. HIDE DEF a, b
    <3>3. need = NeedOf(m, nb)
      BY DEF need
    <3>4. /\ ~is_initialized(m) => a.tsize > nb + 41
          /\ is_initialized(m) => a.tsize > (nb - m.topsize) + 41
      BY <1>3, <2>2, <3>2, <3>3, ContiguousGets
    <3>. QED BY <2>2, <3>1, <3>4
  <2>. QED BY <2>1, <2>2
<1>. HIDE DEF a, b, need
<1>8. /\ SameBut(m, b.m, {"brk", "contiguous"}) /\ b.m.contiguous \in BOOLEAN
      /\ b.tbase = HeapBase + m.brk /\ b.tsize \in Nat /\ b.tsize % 8 = 0
      /\ b.m.brk = m.brk + b.tsize /\ b.m.brk <= m.limit
      /\ (~is_initialized(m) => b.tsize > 40)
  BY <1>5, <1>7 DEF Extended
<1>9. r = FromTop(n, nb)
  BY <1>6, <1>7 DEF WithMemory
<1>10. nb < n.topsize /\ n.top \in Nat
  <2>1. CASE is_initialized(m)
    <3>1. Heap(m, sz, us, {}) /\ m.top \in Nat
      BY <1>1, <2>1, TopFacts
    <3>2. n.top = m.top /\ n.topsize = m.topsize + b.tsize
      BY <1>8, <3>1, AddMemoryTop
    <3>3. b.tsize > (nb - m.topsize) + 41
      BY <1>7, <2>1
    <3>. HIDE DEF n
    <3>. QED BY <1>1, <1>4, <1>8, <3>1, <3>2, <3>3
  <2>2. CASE ~is_initialized(m)
    <3>. DEFINE t == b.tsize
                z == [p \in {HeapBase} |-> t - 40]
    <3>1. Blank(m) /\ m.brk = 0 /\ HeapBase \in Nat
      BY <1>1, <2>2, FrameFacts DEF Blank
    <3>2. b.tbase = HeapBase /\ b.m.brk = t /\ t \in Nat /\ t % 8 = 0 /\ t > 40 /\ t > nb + 41 /\ t <= m.limit
      BY <1>7, <1>8, <2>2, <3>1
    <3>3. n = AddMemory(b.m, HeapBase, t)
      BY <3>2
    <3>. HIDE DEF n, t
    <3>4. Heap(n, z, {}, {})
      BY <1>8, <3>1, <3>2, <3>3, AddFirst
    <3>5. n.top \in DOMAIN z /\ n.topsize = z[n.top]
      BY <3>4 DEF Heap, Pieces
    <3>6. n.top = HeapBase /\ n.topsize = t - 40
      BY <3>5
    <3>. QED BY <1>4, <3>1, <3>2, <3>6
  <2>. QED BY <2>1, <2>2
<1>. HIDE DEF n
<1>11. r.mem = chunk2mem(n.top)
  BY <1>9, <1>10 DEF FromTop, SplitTop
<1>. QED BY <1>10, <1>11 DEF chunk2mem, SIZE_T_SIZE

(* The first memory starts at the break.                                   *)
LEMMA ExtensionBase ==
  ASSUME NEW m, Frame(m), ~is_initialized(m), NEW nb,
         NEW b, b = OrAnywhere(FirstWay(m, nb), nb), b.tbase # CMFAIL
  PROVE  b.tbase = HeapBase + m.brk /\ DOMAIN b.m = Fields /\ b.m.top = m.top
<1>. DEFINE a == FirstWay(m, nb)
<1>1. DOMAIN m = Fields
  BY FrameFacts
<1>2. \A k, d : DOMAIN k = Fields => /\ sbrk(k, d).ret \in {CMFAIL, HeapBase + k.brk}
                                     /\ DOMAIN sbrk(k, d).m = Fields /\ sbrk(k, d).m.top = k.top
  BY DEF sbrk, Fields
<1>3. /\ a.tbase \in {CMFAIL, HeapBase + m.brk} /\ DOMAIN a.m = Fields /\ a.m.top = m.top
      /\ a.tbase = CMFAIL => a.m.brk = m.brk
  <2>1. CASE m.contiguous
    <3>. DEFINE c == [m EXCEPT !.contiguous = FALSE]
    <3>1. DOMAIN c = Fields /\ c.top = m.top /\ c.brk = m.brk
      BY <1>1 DEF Fields
    <3>2. \/ a.m = c /\ a.tbase = CMFAIL
          \/ \E d : a.m = sbrk(m, d).m /\ a.tbase = sbrk(m, d).ret /\ a.tbase # CMFAIL
      BY <2>1 DEF FirstWay, MoreContiguous
    <3>. HIDE DEF a, c
    <3>. QED BY <1>1, <1>2, <3>1, <3>2
  <2>2. CASE ~m.contiguous
    BY <1>1, <2>2 DEF FirstWay
  <2>. QED BY <2>1, <2>2
<1>4. CASE a.tbase = CMFAIL
  <2>. DEFINE k == a.m
  <2>1. b = MoreAnywhere(k, nb)
    BY <1>4 DEF OrAnywhere
  <2>2. DOMAIN k = Fields /\ k.top = m.top /\ k.brk = m.brk
    BY <1>3, <1>4
  <2>. HIDE DEF k
  <2>3. \E d : b.m = sbrk(k, d).m /\ b.tbase = sbrk(k, d).ret
    BY <2>1 DEF MoreAnywhere
  <2>. QED BY <1>2, <2>2, <2>3
<1>5. CASE a.tbase # CMFAIL
  BY <1>3, <1>5 DEF OrAnywhere
<1>. QED BY <1>4, <1>5

(* The first block starts the heap.                                        *)
LEMMA BlankAlloc ==
  ASSUME NEW m, Blank(m), NEW nb, NEW r, r = sys_alloc(m, nb)
  PROVE  r.mem = 0 \/ r.mem = chunk2mem(HeapBase)
<1>. DEFINE b == OrAnywhere(FirstWay(m, nb), nb)
            n == AddMemory(b.m, b.tbase, b.tsize)
<1>1. Frame(m) /\ ~is_initialized(m) /\ m.brk = 0 /\ m.top = 0 /\ HeapBase \in Nat /\ HeapBase % 8 = 0
  BY FrameFacts DEF Blank, is_initialized
<1>2. r = WithMemory(b, nb)
  BY DEF sys_alloc
<1>3. CASE b.tbase = CMFAIL
  <2>. HIDE DEF b
  <2>. QED BY <1>2, <1>3 DEF WithMemory, Failed
<1>4. CASE b.tbase # CMFAIL
  <2>1. b.tbase = HeapBase /\ DOMAIN b.m = Fields /\ b.m.top = 0
    BY <1>1, <1>4, ExtensionBase
  <2>. HIDE DEF b
  <2>. DEFINE reached == b.m.footprint + b.tsize
              f == [b.m EXCEPT !.footprint = reached,
                               !.max_footprint = IF reached > @ THEN reached ELSE @]
              g == [f EXCEPT !.seg = [base |-> HeapBase, size |-> b.tsize], !.least_addr = HeapBase]
              w == Word(b.tsize - TOP_FOOT_SIZE)
  <2>2. n = init_top(g, HeapBase, w)
    BY <2>1 DEF AddMemory, is_initialized
  <2>3. DOMAIN g = Fields
    BY <2>1 DEF Fields
  <2>. HIDE DEF g, w
  <2>4. n.top = HeapBase + align_offset(chunk2mem(HeapBase))
    BY <2>2, <2>3 DEF init_top, PutHead, Fields
  <2>5. n.top = HeapBase
    BY <1>1, <2>4, SizeFacts
  <2>. HIDE DEF n
  <2>6. r = FromTop(n, nb)
    BY <1>2, <1>4 DEF WithMemory, n
  <2>. QED BY <2>5, <2>6 DEF FromTop, SplitTop, Failed
<1>. QED BY <1>3, <1>4

(* The invariant gives the choice of the best fit.                         *)
LEMMA FitFromMInv == MInv => BestFit
<1>. SUFFICES ASSUME MInv, NEW b \in Requests[gm.limit] PROVE FitsBest(dlmalloc(gm, b).mem, b)
  BY DEF BestFit
<1>. DEFINE m == gm
            r == dlmalloc(m, b)
            nb == Padded(b)
            us == Holding(live)
            p == mem2chunk(r.mem)
            fitting == {chunksize(m, q) : q \in {x \in Binned(m) : chunksize(m, x) >= nb}}
<1>1. PICK sz : Ready(m, sz, us) /\ Frame(m)
  BY ReadyShaped DEF MInv
<1>2. b \in 0 .. MAX_SIZE_T
  BY <1>1, RequestSize
<1>3. Asked(nb) /\ nb \in Nat
  BY <1>2, PaddedFacts
<1>4. \A x : mem2chunk(chunk2mem(x)) = x \/ x \notin Int
  BY DEF mem2chunk, chunk2mem, SIZE_T_SIZE
<1>5. FitsBest(r.mem, b) <=>
        /\ r.mem # 0 /\ p \in Binned(m) => chunksize(m, p) = Min(fitting)
        /\ r.mem # 0 /\ p = m.dv /\ ~is_small(nb) => \A s \in fitting : m.dvsize <= s
  BY DEF FitsBest
<1>. HIDE DEF m, us
<1>6. CASE Heap(m, sz, us, {})
  <2>. DEFINE F == InBins(m, sz, us)
  <2>1. Chosen(m, r, F, nb)
    BY <1>2, <1>6, dlmallocChosen
  <2>2. DOMAIN F = Binned(m) /\ \A x \in DOMAIN F : F[x] = chunksize(m, x)
    BY <1>6, HeapBinned
  <2>3. m.top \notin DOMAIN F /\ m.dv \notin DOMAIN F /\ \A x \in DOMAIN F : x \in DOMAIN sz
    BY DEF InBins
  <2>4. m.top \in Int /\ m.top # m.dv /\ m.dv \in Int
    <3>1. m.top \in Nat /\ m.top > 0
      BY <1>1, <1>6, TopFacts, FrameFacts
    <3>2. m.dv # 0 => m.dv \in DOMAIN sz /\ m.dv # m.top
      BY <1>1, ReadyVictim
    <3>3. m.dv # 0 => m.dv \in Nat
      BY <1>6, <3>2, HeapChunk
    <3>. QED BY <3>1, <3>2, <3>3
  <2>5. \A x \in DOMAIN F : x \in Int /\ F[x] \in Nat
    <3>1. \A x \in DOMAIN F : x \in Nat
      BY <1>6, <2>3, HeapChunk
    <3>2. Bins(m, F)
      BY <1>6 DEF Heap
    <3>. QED BY <3>1, <3>2 DEF Bins, Sized
  <2>. HIDE DEF F, r, nb
  <2>6. fitting = {F[x] : x \in {y \in DOMAIN F : F[y] >= nb}}
    BY <2>2
  <2>7. fitting \in SUBSET Nat /\ \A s \in fitting : \E x \in DOMAIN F : s = F[x] /\ F[x] >= nb
    BY <2>5, <2>6
  <2>8. \A x \in DOMAIN F : F[x] >= nb => F[x] \in fitting
    BY <2>6
  <2>. HIDE DEF fitting
  <2>9. ASSUME NEW x \in DOMAIN F, Taken(m, r, x), F[x] >= nb, \A y \in DOMAIN F : F[y] >= nb => F[x] <= F[y]
        PROVE  FitsBest(r.mem, b)
    <3>1. p = x
      BY <1>4, <2>5, <2>9 DEF Taken
    <3>2. F[x] \in fitting
      BY <2>8, <2>9
    <3>3. Min(fitting) \in fitting /\ Min(fitting) <= F[x] /\ Min(fitting) \in Nat
      BY <2>7, <3>2, MinOfSet
    <3>4. F[x] <= Min(fitting)
      BY <2>7, <2>9, <3>3
    <3>5. chunksize(m, p) = Min(fitting)
      BY <2>2, <2>5, <3>1, <3>3, <3>4
    <3>. QED BY <1>5, <2>3, <3>1, <3>5
  <2>10. ASSUME Taken(m, r, m.dv), ~is_small(nb) => \A x \in DOMAIN F : F[x] >= nb => m.dvsize <= F[x]
         PROVE  FitsBest(r.mem, b)
    <3>1. p = m.dv
      BY <1>4, <2>4, <2>10 DEF Taken
    <3>2. ~is_small(nb) => \A s \in fitting : m.dvsize <= s
      BY <2>7, <2>10
    <3>. QED BY <1>5, <2>2, <2>3, <3>1, <3>2
  <2>11. ASSUME r.mem = 0 \/ r.mem = chunk2mem(m.top)
         PROVE  FitsBest(r.mem, b)
    <3>1. CASE r.mem = 0
      BY <1>5, <3>1
    <3>2. CASE r.mem = chunk2mem(m.top)
      <4>1. p = m.top
        BY <1>4, <2>4, <3>2
      <4>. QED BY <1>5, <2>2, <2>3, <2>4, <4>1
    <3>. QED BY <2>11, <3>1, <3>2
  <2>12. r = sys_alloc(m, nb) => r.mem = 0 \/ r.mem = chunk2mem(m.top)
    BY <1>3, <1>6, sys_allocTop DEF nb
  <2>13. FitsBest(r.mem, b)
    BY <2>1, <2>9, <2>10, <2>11, <2>12 DEF Chosen, Taken
  <2>. QED BY <2>13 DEF r, m
<1>7. CASE Blank(m)
  <2>1. r = sys_alloc(m, nb)
    BY <1>2, <1>7, BlankMalloc
  <2>2. Binned(m) = {} /\ m.dv = 0
    BY <1>7, BlankChunks DEF Binned, FreeChunks, Blank
  <2>. HIDE DEF r, nb
  <2>3. r.mem = 0 \/ r.mem = chunk2mem(HeapBase)
    BY <1>7, <2>1, BlankAlloc
  <2>4. HeapBase \in Nat /\ HeapBase > 0
    BY <1>1, FrameFacts
  <2>5. r.mem # 0 => p # 0
    BY <1>4, <2>3, <2>4
  <2>6. FitsBest(r.mem, b)
    BY <1>5, <2>2, <2>5
  <2>. QED BY <2>6 DEF r, m
<1>. QED BY <1>1, <1>6, <1>7 DEF Ready

(* Of the binned chunks dlmalloc takes the smallest that holds the         *)
(* request, a small bin's found in the bit map or a trie's by the bits of  *)
(* the size (tmalloc_small, tmalloc_large); and it serves a large request  *)
(* from the designated victim only when no binned chunk is closer.         *)
THEOREM ChoosesBest == Spec => []BestFit
BY MallocInvariant, FitFromMInv, PTL

(* The invariant gives that the break is asked last.                       *)
LEMMA GrowsFromMInv == MInv => GrowsOnlyWhenNothingFits
<1>. SUFFICES ASSUME MInv, NEW b \in Requests[gm.limit] PROVE NothingFits(dlmalloc(gm, b), b)
  BY DEF GrowsOnlyWhenNothingFits
<1>. DEFINE m == gm
            r == dlmalloc(m, b)
            nb == Padded(b)
            us == Holding(live)
            need == NeedOf(m, nb)
<1>1. PICK sz : Ready(m, sz, us) /\ Frame(m)
  BY ReadyShaped DEF MInv
<1>2. b \in 0 .. MAX_SIZE_T
  BY <1>1, RequestSize
<1>3. Asked(nb) /\ nb \in Nat
  BY <1>2, PaddedFacts
<1>4. NothingFits(r, b) <=>
        /\ r.m.brk > m.brk \/ r.mem = 0 =>
             (\A p \in FreeChunks(m) : chunksize(m, p) < nb) /\ m.topsize <= nb
        /\ r.mem = 0 => m.limit - m.brk < need
  <2>1. nb + TOP_FOOT_SIZE + 1 + m.granularity = (nb + 41) + m.granularity
    <3>1. m.granularity \in Nat /\ TOP_FOOT_SIZE = 40
      BY <1>1, FrameFacts, SizeFacts
    <3>. HIDE DEF nb
    <3>. QED BY <1>3, <3>1
  <2>. QED BY <2>1 DEF NothingFits, NeedOf
<1>5. m.brk \in Nat /\ m.topsize \in Nat
  BY <1>1, FrameFacts, ReadyFacts
<1>6. ASSUME r = sys_alloc(m, nb), r.mem = 0, m.topsize <= nb PROVE m.limit - m.brk < need
  <2>. HIDE DEF r, nb, m, us
  <2>. QED BY <1>1, <1>3, <1>5, <1>6, AllocFails
<1>. HIDE DEF m, us, need
<1>7. CASE Heap(m, sz, us, {})
  <2>. DEFINE F == InBins(m, sz, us)
  <2>1. Chosen(m, r, F, nb)
    BY <1>2, <1>7, dlmallocChosen
  <2>2. DOMAIN F = Binned(m) /\ \A x \in DOMAIN F : F[x] = chunksize(m, x)
    BY <1>7, HeapBinned
  <2>3. m.dv # 0 => chunksize(m, m.dv) = m.dvsize /\ m.dv \in Nat
    <3>1. m.dv # 0 => m.dv \in DOMAIN sz
      BY <1>1, ReadyVictim
    <3>. QED BY <1>7, <3>1, HeapBinned, HeapChunk
  <2>4. m.top \in Nat
    BY <1>7, TopFacts
  <2>5. \A x \in DOMAIN F : x \in Nat
    <3>1. \A x \in DOMAIN F : x \in DOMAIN sz
      BY DEF InBins
    <3>. QED BY <1>7, <3>1, HeapChunk
  <2>6. \A p \in FreeChunks(m) : p \in DOMAIN F \/ (p = m.dv /\ m.dv # 0)
    <3>1. 0 \notin FreeChunks(m)
      <4>1. Chunks(m) = DOMAIN sz /\ 0 \notin DOMAIN sz
        BY <1>7, HeapChunks, HeapUsed
      <4>. QED BY <4>1 DEF FreeChunks
    <3>. QED BY <2>2, <3>1 DEF Binned
  <2>. HIDE DEF F, r, nb
  <2>7. ASSUME NEW x \in Nat, Taken(m, r, x) PROVE NothingFits(r, b)
    <3>1. r.mem # 0
      BY <2>7 DEF Taken, chunk2mem, SIZE_T_SIZE
    <3>2. ~(r.m.brk > m.brk)
      BY <1>5, <2>7 DEF Taken
    <3>. QED BY <1>4, <3>1, <3>2
  <2>8. ASSUME r = sys_alloc(m, nb), m.dvsize < nb, m.topsize <= nb, \A x \in DOMAIN F : F[x] < nb
        PROVE  NothingFits(r, b)
    <3>1. ASSUME NEW p \in FreeChunks(m) PROVE chunksize(m, p) < nb
      BY <2>2, <2>3, <2>6, <2>8
    <3>. QED BY <1>4, <1>6, <2>8, <3>1
  <2>9. NothingFits(r, b)
    BY <2>1, <2>3, <2>4, <2>5, <2>7, <2>8 DEF Chosen
  <2>. QED BY <2>9 DEF r, m
<1>8. CASE Blank(m)
  <2>1. r = sys_alloc(m, nb)
    BY <1>2, <1>8, BlankMalloc
  <2>2. FreeChunks(m) = {} /\ m.topsize = 0
    BY <1>8, BlankChunks DEF FreeChunks, Blank
  <2>. HIDE DEF r, nb
  <2>3. NothingFits(r, b)
    BY <1>3, <1>4, <1>6, <2>1, <2>2
  <2>. QED BY <2>3 DEF r, m
<1>. QED BY <1>1, <1>7, <1>8 DEF Ready

(* dlmalloc moves the break, or fails, only when neither a free chunk nor  *)
(* the top holds the request, and it fails only when what sys_alloc would  *)
(* ask of sbrk is more than the heap's section has left.                   *)
THEOREM GrowsLast == Spec => []GrowsOnlyWhenNothingFits
BY MallocInvariant, GrowsFromMInv, PTL

=============================================================================
