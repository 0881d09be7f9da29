------------------------------- MODULE Malloc -------------------------------
(***************************************************************************)
(* The kernel's heap: the allocator of kernel/core/malloc.cpp as the       *)
(* kernel builds it, over the break that sbrk.cpp moves inside the heap's  *)
(* section.  The configuration is the one the macros at the head of the    *)
(* file select: no mmap, contiguous MORECORE = sbrk, no locks, no footers, *)
(* no separate spaces, abort on a detected corruption, i386 bit searches.  *)
(*                                                                         *)
(* The allocator is one record m: the words it keeps in the heap (head and *)
(* prev_foot of every chunk) and the fields of malloc_state.  Every        *)
(* routine is an operator from such a record to the next one, so that      *)
(* realloc and memalign are composed of malloc and free as in the code.    *)
(* Addresses and sizes are byte counts; the word width, the page, and the  *)
(* number of bins are constants, scaled down together for model checking.  *)
(***************************************************************************)
EXTENDS Integers, Sequences, FiniteSets, SequencesExt, FiniteSetsExt

CONSTANTS SIZE_T_BITSIZE,  \* width of size_t
          PageSize,        \* page size and granularity
          NSMALLBINS,      \* bins of one size each
          NTREEBINS,       \* bins that hold a trie of sizes
          TREEBIN_SHIFT,   \* log2 of the smallest size kept in a trie
          TrimThreshold,   \* DEFAULT_TRIM_THRESHOLD: the top chunk's size above which free trims it
          HeapBase,        \* Base of the heap's section
          Boots,           \* pairs <<extent sbrk found for it, blocks of the boot>>
          Requests,        \* for each extent: sizes malloc and realloc are asked for
          CallocInputs,    \* pairs <<number of elements, size of one>>
          AlignInputs,     \* pairs <<alignment, size>>
          ElementLists,    \* sequences of sizes for the independent blocks
          Params,          \* pairs <<parameter, value>> for mallopt
          Pads,            \* what a call of malloc_trim may keep at the top
          MaxLive,         \* for each extent: bound on the blocks that may be freed
          MaxSpecial       \* for each extent: bound on the calls the kernel itself never makes

VARIABLES gm,      \* the allocator: malloc_state and the words in the heap
          live,    \* the blocks handed out: address, size asked for
          booting, \* what the boot has still to allocate
          special  \* calls of the bounded kind so far
vars == <<gm, live, booting, special>>

-----------------------------------------------------------------------------
(* size_t arithmetic and the sizes of chunks.                              *)

SIZE_T_SIZE == 4
MALLOC_ALIGNMENT == 8
MAX_SIZE_T == 2^SIZE_T_BITSIZE - 1
HALF_MAX_SIZE_T == MAX_SIZE_T \div 2
Word(x) == x % 2^SIZE_T_BITSIZE
AlignDown(x, a) == x - (x % a)

CHUNK_OVERHEAD == SIZE_T_SIZE
MIN_CHUNK_SIZE == 4 * SIZE_T_SIZE
MIN_REQUEST == MIN_CHUNK_SIZE - CHUNK_OVERHEAD - 1
MAX_REQUEST == Word(-MIN_CHUNK_SIZE * 4)

(* What init_mparams insists on before the first allocation, the relations *)
(* between the bin constants that the file fixes by its numbers, and a     *)
(* heap in the lower half of the addresses.                                *)
ASSUME MallocAssumption ==
  /\ SIZE_T_BITSIZE \in 12 .. 32
  /\ \E k \in 4 .. SIZE_T_BITSIZE - 2 : PageSize = 2^k
  /\ TREEBIN_SHIFT \in 5 .. SIZE_T_BITSIZE /\ NSMALLBINS \in Nat
  /\ NSMALLBINS * 8 = 2^TREEBIN_SHIFT
  /\ \E h \in 1 .. SIZE_T_BITSIZE : NTREEBINS = 2 * h /\ TREEBIN_SHIFT + h < SIZE_T_BITSIZE
  /\ TrimThreshold \in 0 .. MAX_SIZE_T
  /\ HeapBase \in Nat /\ HeapBase > 0 /\ HeapBase % MALLOC_ALIGNMENT = 0
  /\ \A b \in Boots : b[1] \in Nat /\ HeapBase + b[1] <= HALF_MAX_SIZE_T

(* Arguments are of type size_t; an alignment is a power of two.  A size   *)
(* for dlpvalloc may be rounded up to pages, and the sizes of independent  *)
(* blocks may be added up: the code does both without a check.             *)
ASSUME InputAssumption ==
  /\ \A b \in Boots : /\ b[2] \in Seq([bytes : 0 .. MAX_SIZE_T, kept : BOOLEAN])
                      /\ Requests[b[1]] \subseteq 0 .. MAX_SIZE_T
  /\ CallocInputs \subseteq (0 .. MAX_SIZE_T) \X (0 .. MAX_SIZE_T)
  /\ AlignInputs \subseteq {2^k : k \in 0 .. SIZE_T_BITSIZE - 2} \X (0 .. MAX_SIZE_T)
  /\ \A a \in AlignInputs : a[2] + PageSize <= 2^SIZE_T_BITSIZE
  /\ \A p \in Params : p[2] \in 0 .. MAX_SIZE_T
  /\ Pads \subseteq 0 .. MAX_SIZE_T
  /\ \A l \in ElementLists :
       /\ l \in Seq(0 .. MAX_SIZE_T)
       /\ \A i \in DOMAIN l : Len(l) * (l[i] + 8 * MIN_CHUNK_SIZE) <= HALF_MAX_SIZE_T

(* The first allocation finds the break at the start of the section.  If   *)
(* its size is just below MAX_REQUEST, rounding it up to the granularity   *)
(* wraps to nothing, sbrk grants that, and the block lies beyond the heap. *)
(* The kernel's first allocation is small; the theorems assume as much.    *)
FitsFirst(bytes) == bytes >= MAX_REQUEST \/ bytes + 64 < HALF_MAX_SIZE_T
ASSUME FirstCallFits ==
  \A b \in Boots :
    IF b[2] # <<>> THEN FitsFirst(Head(b[2]).bytes)
    ELSE /\ \A r \in Requests[b[1]] : FitsFirst(r)
         /\ \A c \in CallocInputs : FitsFirst(c[1] * c[2])
         /\ \A a \in AlignInputs : a[2] >= MAX_REQUEST \/ a[1] + a[2] + 2 * PageSize + 128 < HALF_MAX_SIZE_T

chunk2mem(p) == p + 2 * SIZE_T_SIZE
mem2chunk(mem) == mem - 2 * SIZE_T_SIZE
align_offset(a) == (-a) % MALLOC_ALIGNMENT
align_as_chunk(a) == a + align_offset(chunk2mem(a))

pad_request(req) == AlignDown(Word(req + CHUNK_OVERHEAD + MALLOC_ALIGNMENT - 1), MALLOC_ALIGNMENT)
request2size(req) == IF req < MIN_REQUEST THEN MIN_CHUNK_SIZE ELSE pad_request(req)

(* Both alignments add a whole page to a size that is aligned already.     *)
page_align(s) == AlignDown(Word(s + PageSize), PageSize)
granularity_align(m, s) == AlignDown(Word(s + m.granularity), m.granularity)

(* Room at the end of the segment for the record of a further segment.     *)
TOP_FOOT_SIZE ==
  align_offset(chunk2mem(0)) + pad_request(4 * SIZE_T_SIZE) + MIN_CHUNK_SIZE

-----------------------------------------------------------------------------
(* Bin indexes.                                                            *)

MIN_LARGE_SIZE == 2^TREEBIN_SHIFT
MAX_SMALL_REQUEST == MIN_LARGE_SIZE - 1 - (MALLOC_ALIGNMENT - 1) - CHUNK_OVERHEAD

is_small(s) == s \div 8 < NSMALLBINS
small_index(s) == s \div 8
small_index2size(i) == i * 8

Bit(s, b) == IF b < 0 THEN 0 ELSE (s \div 2^b) % 2

compute_tree_index(s) ==
  LET X == s \div MIN_LARGE_SIZE
      K == CHOOSE k \in 0 .. SIZE_T_BITSIZE : 2^k <= X /\ X < 2^(k + 1)   \* bsrl
  IN IF X = 0 THEN 0
     ELSE IF X >= 2^(NTREEBINS \div 2) THEN NTREEBINS - 1
     ELSE 2 * K + Bit(s, K + TREEBIN_SHIFT - 1)

(* The first size bit that tells the two subtrees of a bin's root apart.   *)
bit_for_tree_index(i) ==
  IF i = NTREEBINS - 1 THEN SIZE_T_BITSIZE - 1 ELSE i \div 2 + TREEBIN_SHIFT - 2

minsize_for_tree_index(i) ==
  2^(i \div 2 + TREEBIN_SHIFT) + (i % 2) * 2^(i \div 2 + TREEBIN_SHIFT - 1)

-----------------------------------------------------------------------------
(* The words of a chunk.  A word inside a chunk is its user's, so a head   *)
(* nobody has written yet reads as no flag set.                            *)

NoHead == [size |-> 0, cinuse |-> FALSE, pinuse |-> FALSE]
HeadAt(m, p) == IF p \in DOMAIN m.head THEN m.head[p] ELSE NoHead
FootAt(m, p) == IF p \in DOMAIN m.foot THEN m.foot[p] ELSE 0
chunksize(m, p) == HeadAt(m, p).size
cinuse(m, p) == HeadAt(m, p).cinuse
pinuse(m, p) == HeadAt(m, p).pinuse
next_chunk(m, p) == p + chunksize(m, p)
prev_chunk(m, p) == p - FootAt(m, p)

Put(f, p, v) == [q \in DOMAIN f \cup {p} |-> IF q = p THEN v ELSE f[q]]
PutHead(m, p, s, c, i) ==
  [m EXCEPT !.head = Put(@, p, [size |-> s, cinuse |-> c, pinuse |-> i])]
PutPinuse(m, n, i) == PutHead(m, n, chunksize(m, n), cinuse(m, n), i)
set_foot(m, p, s) == [m EXCEPT !.foot = Put(@, p + s, s)]

set_inuse(m, p, s) == PutPinuse(PutHead(m, p, s, TRUE, pinuse(m, p)), p + s, TRUE)
set_inuse_and_pinuse(m, p, s) == PutPinuse(PutHead(m, p, s, TRUE, TRUE), p + s, TRUE)
set_size_and_pinuse_of_inuse_chunk(m, p, s) == PutHead(m, p, s, TRUE, TRUE)
set_size_and_pinuse_of_free_chunk(m, p, s) == set_foot(PutHead(m, p, s, FALSE, TRUE), p, s)
(* Mutant: the next chunk keeps its pinuse bit.                            *)
MutSetFree(m, p, s, n) == set_size_and_pinuse_of_free_chunk(m, p, s)

set_free_with_pinuse(m, p, s, n) ==
  set_size_and_pinuse_of_free_chunk(PutPinuse(m, n, FALSE), p, s)

(* The run-time checks: an address is not below the segment, the next      *)
(* chunk lies higher.  A failed one aborts the kernel.                     *)
ok_address(m, a) == a >= m.least_addr
ok_next(p, n) == p < n
Aborted(m) == [m EXCEPT !.aborted = TRUE]

-----------------------------------------------------------------------------
(* Small bins: lists of chunks of one size, the front one used first.      *)

Unlinked(s, x) == RemoveAt(s, CHOOSE i \in DOMAIN s : s[i] = x)

insert_small_chunk(m, P, S) ==
  LET I == small_index(S)
  IN [m EXCEPT !.smallmap = @ \cup {I},
               !.smallbins[I] = IF I \in m.smallmap THEN <<P>> \o @ ELSE <<P>>]

unlink_small_chunk(m, P, S) ==
  LET I == small_index(S)
  IN IF m.smallbins[I] = <<P>>
       THEN [m EXCEPT !.smallmap = @ \ {I}, !.smallbins[I] = <<>>]
       ELSE [m EXCEPT !.smallbins[I] = Unlinked(@, P)]

unlink_first_small_chunk(m, P, I) ==
  IF Len(m.smallbins[I]) = 1
    THEN [m EXCEPT !.smallmap = @ \ {I}, !.smallbins[I] = <<>>]
    ELSE [m EXCEPT !.smallbins[I] = Tail(@)]

(* The remainder of a split becomes the designated victim; the old one is  *)
(* put in its bin.                                                         *)
replace_dv(m, P, S) ==
  [(IF m.dvsize # 0 THEN insert_small_chunk(m, m.dv, m.dvsize) ELSE m)
     EXCEPT !.dv = P, !.dvsize = S]

-----------------------------------------------------------------------------
(* Tree bins: a trie on the bits of the size.  A node is named by the      *)
(* turns that lead to it from the root, 0 to the left and 1 to the right;  *)
(* it stands for one size and holds the ring of chunks of that size, the   *)
(* oldest first: that one is the chunk linked into the tree.               *)

NoTrie == <<>>
Root == <<>>

(* The first d turns on the way of size s; bit b decides the first one.    *)
Turns(s, b, d) == [j \in 1 .. d |-> Bit(s, b + 1 - j)]

(* The nodes passed from q on, q included, when each time the one child is *)
(* taken if there is one, else the other.                                  *)
Descent(t, q, turn) ==
  {p \in DOMAIN t : /\ IsPrefix(q, p)
                    /\ \A k \in Len(q) + 1 .. Len(p) :
                         p[k] = turn \/ Append(SubSeq(p, 1, k - 1), turn) \notin DOMAIN t}

(* Mutant: the larger half first.                                          *)
MutLeftmost(t, q) == Descent(t, q, 1)

leftmost_children(t, q) == Descent(t, q, 0)
rightmost_children(t, q) == Descent(t, q, 1)

(* A size is put at the first place on its way that is its own or free.    *)
PlaceFor(t, s, b) ==
  LET Fits(d) == LET q == Turns(s, b, d) IN q \notin DOMAIN t \/ t[q].size = s
  IN Turns(s, b, Min({d \in 0 .. SIZE_T_BITSIZE : Fits(d)}))
TreeInsert(t, x, s, b) ==
  LET q == PlaceFor(t, s, b)
  IN Put(t, q, [size |-> s, ring |-> IF q \in DOMAIN t THEN Append(t[q].ring, x) ELSE <<x>>])

(* The leaf reached by going right wherever that is possible.              *)
LastLeaf(t, q) ==
  CHOOSE p \in rightmost_children(t, q) : \A o \in rightmost_children(t, q) : Len(o) <= Len(p)

(* Mutant: the leaf that takes a node's place also stays where it was.     *)
MutReplaceByLeaf(t, q) == [t EXCEPT ![q] = t[LastLeaf(t, q)]]

(* The last chunk of a size leaves its place to that leaf.                 *)
ReplaceByLeaf(t, q) ==
  LET r == LastLeaf(t, q)
  IN [p \in DOMAIN t \ {r} |-> IF p = q THEN t[r] ELSE t[p]]

NodeOf(t, x) == CHOOSE q \in DOMAIN t : Contains(t[q].ring, x)
TreeUnlink(t, x) ==
  LET q == NodeOf(t, x)
  IN IF t[q].ring = <<x>> THEN ReplaceByLeaf(t, q)
                          ELSE [t EXCEPT ![q].ring = Unlinked(@, x)]

insert_large_chunk(m, X, S) ==
  LET I == compute_tree_index(S)
      t == IF I \in m.treemap THEN m.treebins[I] ELSE NoTrie
  IN [m EXCEPT !.treemap = @ \cup {I},
               !.treebins[I] = TreeInsert(t, X, S, bit_for_tree_index(I))]

unlink_large_chunk(m, X) ==
  LET I == compute_tree_index(chunksize(m, X))
      t == TreeUnlink(m.treebins[I], X)
  IN [m EXCEPT !.treebins[I] = t, !.treemap = IF t = NoTrie THEN @ \ {I} ELSE @]

insert_chunk(m, P, S) ==
  IF is_small(S) THEN insert_small_chunk(m, P, S) ELSE insert_large_chunk(m, P, S)
unlink_chunk(m, P, S) ==
  IF is_small(S) THEN unlink_small_chunk(m, P, S) ELSE unlink_large_chunk(m, P)

-----------------------------------------------------------------------------
(* The break: sbrk moves the end of the heap's section, within its extent, *)
(* and returns the end it had.  Without a section (no address range was    *)
(* found for it) every call fails.                                         *)

CMFAIL == -1
NoHeap == 0

(* Mutant: the extent of the section is not checked.                       *)
MutSbrk(m, d) == [m |-> [m EXCEPT !.brk = @ + d], ret |-> HeapBase + m.brk]

sbrk(m, d) ==
  IF \/ m.limit = NoHeap
     \/ d >= 0 /\ m.limit - m.brk < d
     \/ d < 0 /\ m.brk < -d
    THEN [m |-> m, ret |-> CMFAIL]
    ELSE [m |-> [m EXCEPT !.brk = @ + d], ret |-> HeapBase + m.brk]

is_initialized(m) == m.top # 0
segment_end(m) == m.seg.base + m.seg.size
segment_holds(m, a) == m.seg.base <= a /\ a < segment_end(m)
should_trim(m, s) == s > m.trim_check

init_top(m, p, psize) ==
  LET offset == align_offset(chunk2mem(p))
  IN [PutHead(m, p + offset, psize - offset, FALSE, TRUE)
        EXCEPT !.top = p + offset, !.topsize = psize - offset, !.trim_check = m.trim_threshold]

(* Carve nb bytes off the top chunk.                                       *)
SplitTop(m, nb) ==
  LET p == m.top
      r == p + nb
      a == PutHead([m EXCEPT !.top = r, !.topsize = @ - nb], r, m.topsize - nb, FALSE, TRUE)
  IN [m |-> set_size_and_pinuse_of_inuse_chunk(a, p, nb), mem |-> chunk2mem(p)]

Failed(m) == [m |-> m, mem |-> 0]

(* First way to get memory: extend the segment, or, the first time, start  *)
(* it where the break is.  A failure rules this way out for ever.  (The    *)
(* code also copes with a break that was not at the segment's end; memory  *)
(* from there is "stray" below.)                                           *)
MoreContiguous(m, nb) ==
  LET here == sbrk(m, 0)
      first == ~(is_initialized(m) /\ segment_holds(m, m.top))
      want == IF first THEN Word(nb + TOP_FOOT_SIZE + 1)
                       ELSE Word(nb - m.topsize + TOP_FOOT_SIZE + 1)
      slack == IF first /\ here.ret % PageSize # 0 THEN page_align(here.ret) - here.ret ELSE 0
      asize == granularity_align(m, want) + slack
      start == IF first THEN here.ret ELSE segment_end(m)
      got == sbrk(m, asize)
  IN IF asize < HALF_MAX_SIZE_T /\ start # CMFAIL /\ got.ret # CMFAIL
       THEN [m |-> got.m, tbase |-> got.ret, tsize |-> asize]
       ELSE [m |-> [m EXCEPT !.contiguous = FALSE], tbase |-> CMFAIL, tsize |-> 0]

(* Mutant: the segment gets what was needed, not what the break gave.      *)
MutMoreAnywhere(m, nb) ==
  LET got == sbrk(m, granularity_align(m, Word(nb + TOP_FOOT_SIZE + 1)))
  IN [m |-> got.m, tbase |-> got.ret, tsize |-> nb + TOP_FOOT_SIZE + 1]

(* Second way: take what the break gives, wherever it is.                  *)
MoreAnywhere(m, nb) ==
  LET asize == granularity_align(m, Word(nb + TOP_FOOT_SIZE + 1))
      got == sbrk(m, asize)
      end == sbrk(got.m, 0).ret
  IN IF /\ asize < HALF_MAX_SIZE_T
        /\ got.ret # CMFAIL /\ end # CMFAIL /\ got.ret < end
        /\ end - got.ret > Word(nb + TOP_FOOT_SIZE)
       THEN [m |-> got.m, tbase |-> got.ret, tsize |-> end - got.ret]
       ELSE [m |-> IF asize < HALF_MAX_SIZE_T THEN got.m ELSE m, tbase |-> CMFAIL, tsize |-> 0]

(* New memory starts the segment, or is appended to it.  Memory that does  *)
(* not follow the segment would open a second one (prepend_alloc and       *)
(* add_segment, not modelled): "stray" records that it happened.           *)
AddMemory(m, tbase, tsize) ==
  LET reached == m.footprint + tsize
      f == [m EXCEPT !.footprint = reached,
                     !.max_footprint = IF reached > @ THEN reached ELSE @]
  IN IF ~is_initialized(m)
       THEN init_top([f EXCEPT !.seg = [base |-> tbase, size |-> tsize], !.least_addr = tbase],
                     tbase, Word(tsize - TOP_FOOT_SIZE))
     ELSE IF tbase = segment_end(m) /\ segment_holds(m, m.top)
       THEN init_top([f EXCEPT !.seg.size = @ + tsize], m.top, m.topsize + tsize)
     ELSE [f EXCEPT !.stray = TRUE]

FirstWay(m, nb) ==
  IF m.contiguous THEN MoreContiguous(m, nb) ELSE [m |-> m, tbase |-> CMFAIL, tsize |-> 0]
OrAnywhere(got, nb) == IF got.tbase = CMFAIL THEN MoreAnywhere(got.m, nb) ELSE got
FromTop(m, nb) == IF nb < m.topsize THEN SplitTop(m, nb) ELSE Failed(m)
WithMemory(got, nb) ==
  IF got.tbase = CMFAIL THEN Failed(got.m)
  ELSE FromTop(AddMemory(got.m, got.tbase, got.tsize), nb)

sys_alloc(m, nb) == WithMemory(OrAnywhere(FirstWay(m, nb), nb), nb)

(* Give whole units at the end of the top chunk back to the break.  When   *)
(* nothing could be given back, free does not try again until the top      *)
(* chunk is next set up.                                                   *)
Shrunk(m, rel, released) ==
  IF released > 0
    THEN [m |-> init_top([rel.m EXCEPT !.seg.size = @ - released, !.footprint = @ - released],
                         m.top, m.topsize - released),
          released |-> released]
    ELSE [m |-> [m EXCEPT !.trim_check = MAX_SIZE_T], released |-> 0]

Released(m, rel, old) ==
  IF old = segment_end(m) /\ rel.ret # CMFAIL THEN old - sbrk(rel.m, 0).ret ELSE 0

sys_trim(m, pad) ==
  LET room == pad + TOP_FOOT_SIZE
      unit == m.granularity
      spare == ((m.topsize - room + unit - 1) \div unit - 1) * unit
      extra == IF spare >= HALF_MAX_SIZE_T THEN HALF_MAX_SIZE_T + 1 - unit ELSE spare
      rel == sbrk(m, -extra)
  IN IF ~(pad < MAX_REQUEST /\ is_initialized(m)) THEN [m |-> m, released |-> 0]
     ELSE Shrunk(m, rel, IF m.topsize > room THEN Released(m, rel, sbrk(m, 0).ret) ELSE 0)

-----------------------------------------------------------------------------
(* malloc from the tree bins.  A search carries the best chunk so far and  *)
(* what would remain of it; a subtraction that goes below zero wraps, and  *)
(* so never looks like a good fit.                                         *)

(* The best of a path's nodes, if one is better than what was found before.*)
Best(found, t, path, nb) ==
  LET Rest(q) == Word(t[q].size - nb)
      rsize == Min({found.rsize} \cup {Rest(q) : q \in path})
  IN IF rsize = found.rsize THEN found
     ELSE [v |-> Head(t[CHOOSE q \in path : Rest(q) = rsize].ring), rsize |-> rsize]

(* The nodes on the way of nb down its own bin, and the deepest right      *)
(* subtree passed by on that way.                                          *)
Route(t, nb, b) == {q \in DOMAIN t : q = Turns(nb, b, Len(q))}
Passed(t, nb, b) ==
  {Append(q, 1) : q \in {x \in Route(t, nb, b) : Bit(nb, b - Len(x)) = 0}} \cap DOMAIN t
Deepest(qs) == CHOOSE q \in qs : \A o \in qs : Len(o) <= Len(q)

(* Take chunk v; a remainder that is large enough to be a chunk becomes    *)
(* the designated victim, or goes into its bin.                            *)
KeepRest(m, r, rsize, victim) == IF victim THEN replace_dv(m, r, rsize) ELSE insert_chunk(m, r, rsize)
SplitFor(m, v, nb, rsize, victim) ==
  IF rsize < MIN_CHUNK_SIZE THEN set_inuse_and_pinuse(m, v, rsize + nb)
  ELSE KeepRest(set_size_and_pinuse_of_free_chunk(
              set_size_and_pinuse_of_inuse_chunk(m, v, nb), v + nb, rsize), v + nb, rsize, victim)

TakeTreeChunk(m, best, nb, victim) ==
  LET v == best.v
  IN IF ~(ok_address(m, v) /\ ok_next(v, v + nb)) THEN Failed(Aborted(m))
     ELSE [m |-> SplitFor(unlink_large_chunk(m, v), v, nb, best.rsize, victim),
           mem |-> chunk2mem(v)]

tmalloc_large(m, nb) ==
  LET idx == compute_tree_index(nb)
      t == m.treebins[idx]
      bit == bit_for_tree_index(idx)
      own == Best([v |-> 0, rsize |-> Word(-nb)], t, Route(t, nb, bit), nb)
      passed == Passed(t, nb, bit)
      later == {i \in m.treemap : i > idx}
      u == m.treebins[Min(later)]
      best == IF passed # {} THEN Best(own, t, leftmost_children(t, Deepest(passed)), nb)
              ELSE IF own.v = 0 /\ later # {} THEN Best(own, u, leftmost_children(u, Root), nb)
              ELSE own
  IN IF best.v # 0 /\ best.rsize < Word(m.dvsize - nb) THEN TakeTreeChunk(m, best, nb, FALSE)
     ELSE Failed(m)

tmalloc_small(m, nb) ==
  LET t == m.treebins[Min(m.treemap)]
      root == [v |-> Head(t[Root].ring), rsize |-> Word(t[Root].size - nb)]
  IN TakeTreeChunk(m, Best(root, t, leftmost_children(t, Root), nb), nb, TRUE)

-----------------------------------------------------------------------------
(* The public routines.                                                    *)

(* Use all of the designated victim, or split it.                          *)
TakeDv(m, nb) ==
  LET p == m.dv
      rsize == m.dvsize - nb
      split == set_size_and_pinuse_of_free_chunk(
                 [m EXCEPT !.dv = p + nb, !.dvsize = rsize], p + nb, rsize)
  IN [m |-> IF rsize >= MIN_CHUNK_SIZE
              THEN set_size_and_pinuse_of_inuse_chunk(split, p, nb)
              ELSE set_inuse_and_pinuse([m EXCEPT !.dv = 0, !.dvsize = 0], p, m.dvsize),
      mem |-> chunk2mem(p)]

(* The first chunk of small bin i, whole when nb is within one bin step of *)
(* it, else split with the remainder as the new victim.                    *)
TakeSmallWhole(m, i) ==
  LET p == Head(m.smallbins[i])
  IN [m |-> set_inuse_and_pinuse(unlink_first_small_chunk(m, p, i), p, small_index2size(i)),
      mem |-> chunk2mem(p)]
TakeSmallSplit(m, i, nb) ==
  LET p == Head(m.smallbins[i])
      a == set_size_and_pinuse_of_inuse_chunk(unlink_first_small_chunk(m, p, i), p, nb)
      rsize == small_index2size(i) - nb
  IN [m |-> replace_dv(set_size_and_pinuse_of_free_chunk(a, p + nb, rsize), p + nb, rsize),
      mem |-> chunk2mem(p)]

(* Mutant: a victim of just the right size is passed over.                 *)
MutFromRest(m, nb) ==
  IF nb < m.dvsize THEN TakeDv(m, nb)
  ELSE IF nb < m.topsize THEN SplitTop(m, nb)
  ELSE sys_alloc(m, nb)

(* Last resorts, in this order: the victim, the top chunk, the system.     *)
FromRest(m, nb) ==
  IF nb <= m.dvsize THEN TakeDv(m, nb)
  ELSE IF nb < m.topsize THEN SplitTop(m, nb)
  ELSE sys_alloc(m, nb)

MallocSmall(m, nb) ==
  LET idx == small_index(nb)
      above == {i \in m.smallmap : i > idx + 1}
  IN IF idx \in m.smallmap THEN TakeSmallWhole(m, idx)
     ELSE IF idx + 1 \in m.smallmap THEN TakeSmallWhole(m, idx + 1)
     ELSE IF nb > m.dvsize /\ above # {} THEN TakeSmallSplit(m, Min(above), nb)
     ELSE IF nb > m.dvsize /\ m.treemap # {} THEN tmalloc_small(m, nb)
     ELSE FromRest(m, nb)

OrFromRest(t, m, nb) == IF t.mem # 0 THEN t ELSE FromRest(m, nb)
MallocLarge(m, nb) ==
  OrFromRest(IF m.treemap # {} THEN tmalloc_large(m, nb) ELSE Failed(m), m, nb)

dlmalloc(m, bytes) ==
  IF bytes <= MAX_SMALL_REQUEST
    THEN MallocSmall(m, IF bytes < MIN_REQUEST THEN MIN_CHUNK_SIZE ELSE pad_request(bytes))
  ELSE IF bytes >= MAX_REQUEST THEN FromRest(m, MAX_SIZE_T)
  ELSE MallocLarge(m, pad_request(bytes))

(* Free chunk p, of psize bytes after any merge with the chunk before it,  *)
(* whose successor is next: merge forward and bin it.                      *)
FreeForward(m, p, psize, next) ==
  LET nsize == chunksize(m, next)
      top == PutHead([m EXCEPT !.top = p, !.topsize = @ + psize,
                               !.dv = IF p = m.dv THEN 0 ELSE @,
                               !.dvsize = IF p = m.dv THEN 0 ELSE @],
                     p, m.topsize + psize, FALSE, TRUE)
      both == set_size_and_pinuse_of_free_chunk(unlink_chunk(m, next, nsize), p, psize + nsize)
  IN IF cinuse(m, next)
       THEN insert_chunk(set_free_with_pinuse(m, p, psize, next), p, psize)
     ELSE IF next = m.top
       THEN IF should_trim(top, top.topsize) THEN sys_trim(top, 0).m ELSE top
     ELSE IF next = m.dv
       THEN set_size_and_pinuse_of_free_chunk(
              [m EXCEPT !.dv = p, !.dvsize = @ + psize], p, m.dvsize + psize)
     ELSE IF p = m.dv THEN [both EXCEPT !.dvsize = psize + nsize]
     ELSE insert_chunk(both, p, psize + nsize)

Forward(m, a, p, psize, next) ==
  IF ok_next(p, next) /\ pinuse(m, next) THEN FreeForward(a, p, psize, next) ELSE Aborted(m)

dlfree(m, mem) ==
  LET p == mem2chunk(mem)
      psize == chunksize(m, p)
      next == p + psize
      prevsize == FootAt(m, p)
      prev == p - prevsize
      both == psize + prevsize
  IN IF mem = 0 THEN m
     ELSE IF ~(ok_address(m, p) /\ cinuse(m, p)) THEN Aborted(m)
     ELSE IF pinuse(m, p) THEN Forward(m, m, p, psize, next)
     ELSE IF ~ok_address(m, prev) THEN Aborted(m)
     ELSE IF prev # m.dv THEN Forward(m, unlink_chunk(m, prev, prevsize), prev, both, next)
     ELSE IF cinuse(m, next) /\ pinuse(m, next)
       THEN set_free_with_pinuse([m EXCEPT !.dvsize = both], prev, both, next)
     ELSE Forward(m, m, prev, both, next)

(* Mutant: the product is not checked.                                     *)
MutCalloc(m, n, size) == dlmalloc(m, Word(n * size))

(* A product that does not fit in size_t becomes a size that cannot be had.*)
dlcalloc(m, n, size) ==
  LET req == Word(n * size)
      half == 2^(SIZE_T_BITSIZE \div 2)
  IN dlmalloc(m, IF n # 0 /\ (n >= half \/ size >= half) /\ req \div n # size
                   THEN MAX_SIZE_T ELSE req)

(* Shrink in place, extend into the top chunk, or move.                    *)
MovedTo(moved, oldmem) ==
  IF moved.mem # 0 THEN [m |-> dlfree(moved.m, oldmem), mem |-> moved.mem] ELSE moved

dlrealloc(m, oldmem, bytes) ==
  LET oldp == mem2chunk(oldmem)
      oldsize == chunksize(m, oldp)
      next == oldp + oldsize
      nb == request2size(bytes)
      shrunk == set_inuse(set_inuse(m, oldp, nb), oldp + nb, oldsize - nb)
      left == oldsize + m.topsize - nb
      grown == PutHead([set_inuse(m, oldp, nb) EXCEPT !.top = oldp + nb, !.topsize = left],
                       oldp + nb, left, FALSE, TRUE)
  IN IF oldmem = 0 THEN dlmalloc(m, bytes)
     ELSE IF bytes >= MAX_REQUEST THEN Failed(m)
     ELSE IF ~(/\ ok_address(m, oldp) /\ cinuse(m, oldp)
               /\ ok_next(oldp, next) /\ pinuse(m, next))
       THEN Failed(Aborted(m))
     ELSE IF oldsize >= nb
       THEN [m |-> IF oldsize - nb >= MIN_CHUNK_SIZE
                     THEN dlfree(shrunk, chunk2mem(oldp + nb)) ELSE m,
             mem |-> oldmem]
     ELSE IF next = m.top /\ oldsize + m.topsize > nb THEN [m |-> grown, mem |-> oldmem]
     ELSE MovedTo(dlmalloc(m, bytes), oldmem)

(* An aligned block is cut out of a larger one; what is left before it and *)
(* after it is freed.                                                      *)
AlignedIn(got, a, nb) ==
  LET p == mem2chunk(got.mem)
      br == mem2chunk(AlignDown(got.mem + a - 1, a))
      q == IF got.mem % a = 0 THEN p ELSE IF br - p >= MIN_CHUNK_SIZE THEN br ELSE br + a
      qsize == chunksize(got.m, p) - (q - p)
      led == IF q = p THEN got.m ELSE set_inuse(set_inuse(got.m, q, qsize), p, q - p)
      spare == qsize > nb + MIN_CHUNK_SIZE
      cut == IF spare THEN set_inuse(set_inuse(led, q, nb), q + nb, qsize - nb) ELSE led
      trimmed == dlfree(cut, IF q = p THEN 0 ELSE got.mem)
  IN IF got.mem = 0 THEN got
     ELSE [m |-> dlfree(trimmed, IF spare THEN chunk2mem(q + nb) ELSE 0), mem |-> chunk2mem(q)]

dlmemalign(m, alignment, bytes) ==
  LET a == CHOOSE x \in {2^k : k \in 0 .. SIZE_T_BITSIZE} :
             /\ x >= alignment /\ x >= MIN_CHUNK_SIZE
             /\ x < 2 * alignment \/ x = MIN_CHUNK_SIZE
      nb == request2size(bytes)
  IN IF alignment <= MALLOC_ALIGNMENT THEN dlmalloc(m, bytes)
     ELSE IF bytes >= Word(MAX_REQUEST - a) THEN Failed(m)
     ELSE AlignedIn(dlmalloc(m, nb + a + MIN_CHUNK_SIZE - CHUNK_OVERHEAD), a, nb)

(* One chunk cut into independent blocks, and into the array of their      *)
(* addresses unless the caller brought one.  The last piece takes the      *)
(* slop.  Returns the addresses of all pieces.                             *)
Offsets(pieces) ==
  LET at[i \in 0 .. Len(pieces)] == IF i = 0 THEN 0 ELSE at[i - 1] + pieces[i]
  IN at
Total(pieces) == Offsets(pieces)[Len(pieces)]
CutUp(got, pieces) ==
  LET p == mem2chunk(got.mem)
      n == Len(pieces)
      at == Offsets(pieces)
      size == [i \in 1 .. n |-> IF i = n THEN chunksize(got.m, p) - at[n - 1] ELSE pieces[i]]
      starts == {p + at[i - 1] : i \in 1 .. n}
      Piece(q) == [size |-> size[CHOOSE i \in 1 .. n : q = p + at[i - 1]], cinuse |-> TRUE, pinuse |-> TRUE]
  IN IF got.mem = 0 THEN [m |-> got.m, mems |-> <<>>]
     ELSE [m |-> [got.m EXCEPT !.head = [q \in DOMAIN @ \cup starts |->
                                           IF q \in starts THEN Piece(q) ELSE @[q]]],
           mems |-> [i \in 1 .. n |-> chunk2mem(p + at[i - 1])]]
EmptyArray(got) == [m |-> got.m, mems |-> IF got.mem = 0 THEN <<>> ELSE <<got.mem>>]

ialloc(m, sizes, given) ==
  LET n == Len(sizes)
      elements == [i \in 1 .. n |-> request2size(sizes[i])]
      pieces == IF given THEN elements ELSE Append(elements, request2size(n * SIZE_T_SIZE))
  IN IF n = 0 THEN IF given THEN [m |-> m, mems |-> <<>>] ELSE EmptyArray(dlmalloc(m, 0))
     ELSE CutUp(dlmalloc(m, Total(pieces) - CHUNK_OVERHEAD), pieces)

dlmalloc_trim(m, pad) == sys_trim(m, pad).m

dlvalloc(m, bytes) == dlmemalign(m, PageSize, bytes)
dlpvalloc(m, bytes) == dlmemalign(m, PageSize, AlignDown(Word(bytes + PageSize - 1), PageSize))

(* The threshold of mmap is never looked at without mmap.                  *)
change_mparam(m, param_number, value) ==
  CASE param_number = "M_TRIM_THRESHOLD" -> [m EXCEPT !.trim_threshold = value]
    [] /\ param_number = "M_GRANULARITY"
       /\ value >= PageSize
       /\ \E k \in 0 .. SIZE_T_BITSIZE : value = 2^k -> [m EXCEPT !.granularity = value]
    [] OTHER -> m

-----------------------------------------------------------------------------
(* The allocator as the rest of the kernel uses it.  After a call the      *)
(* words that are inside a chunk are its owner's: the record keeps the     *)
(* heads a walk of the segment meets and the feet next to a free chunk.    *)

ChunksFrom(m) ==
  LET from[p \in Int] ==
        IF p \notin DOMAIN m.head \/ ~segment_holds(m, p) THEN {}
        ELSE {p} \cup IF p = m.top \/ chunksize(m, p) \notin 1 .. m.seg.size THEN {}
                      ELSE from[next_chunk(m, p)]
  IN from
Chunks(m) == ChunksFrom(m)[align_as_chunk(m.seg.base)]

(* What the allocator tells of itself, from a walk along the segment.      *)
SizeOf(m, cs) == MapThenSumSet(LAMBDA p : chunksize(m, p), cs)

internal_mallinfo(m) ==
  LET walked == Chunks(m) \ {m.top}
      free == {p \in walked : ~cinuse(m, p)}
      mfree == m.topsize + TOP_FOOT_SIZE + SizeOf(m, free)
      arena == mfree + SizeOf(m, walked \ free)
  IN IF is_initialized(m)
       THEN [arena |-> arena, ordblks |-> Cardinality(free) + 1, hblkhd |-> m.footprint - arena,
             usmblks |-> m.max_footprint, uordblks |-> m.footprint - mfree,
             fordblks |-> mfree, keepcost |-> m.topsize]
       ELSE [arena |-> 0, ordblks |-> 0, hblkhd |-> 0, usmblks |-> 0, uordblks |-> 0,
             fordblks |-> 0, keepcost |-> 0]

internal_malloc_stats(m) ==
  LET free == {p \in Chunks(m) \ {m.top} : ~cinuse(m, p)}
  IN IF is_initialized(m)
       THEN [maxfp |-> m.max_footprint, fp |-> m.footprint,
             used |-> m.footprint - (m.topsize + TOP_FOOT_SIZE) - SizeOf(m, free)]
       ELSE [maxfp |-> 0, fp |-> 0, used |-> 0]

dlmalloc_usable_size(m, mem) ==
  IF mem # 0 /\ cinuse(m, mem2chunk(mem)) THEN chunksize(m, mem2chunk(mem)) - CHUNK_OVERHEAD ELSE 0

Settle(m) ==
  LET cs == Chunks(m)
  IN [m EXCEPT !.head = [p \in cs |-> m.head[p]],
               !.foot = [p \in {q \in cs \cap DOMAIN m.foot : ~pinuse(m, q)} |-> m.foot[p]]]

Fresh(limit) ==
  [head |-> <<>>, foot |-> <<>>,
   smallmap |-> {}, smallbins |-> [i \in 2 .. NSMALLBINS - 1 |-> <<>>],
   treemap |-> {}, treebins |-> [i \in 0 .. NTREEBINS - 1 |-> NoTrie],
   dv |-> 0, dvsize |-> 0, top |-> 0, topsize |-> 0, trim_check |-> 0,
   seg |-> [base |-> 0, size |-> 0], least_addr |-> 0, contiguous |-> TRUE,
   footprint |-> 0, max_footprint |-> 0,
   granularity |-> PageSize, trim_threshold |-> TrimThreshold, limit |-> limit, brk |-> 0, stray |-> FALSE, aborted |-> FALSE]

Block(mem, bytes, kept) == [mem |-> mem, bytes |-> bytes, kept |-> kept]
HandOut(r, bytes, kept) ==
  /\ gm' = Settle(r.m)
  /\ live' = IF r.mem = 0 THEN live ELSE live \cup {Block(r.mem, bytes, kept)}

Init ==
  \E b \in Boots : gm = Fresh(b[1]) /\ live = {} /\ booting = b[2] /\ special = 0

(* The kernel allocates while it starts, and keeps some of that for ever.  *)
Boot ==
  /\ booting # <<>>
  /\ HandOut(dlmalloc(gm, Head(booting).bytes), Head(booting).bytes, Head(booting).kept)
  /\ booting' = Tail(booting)
  /\ UNCHANGED special

Booted == booting = <<>> /\ UNCHANGED booting
Loose == {x \in live : ~x.kept}
Room(n) == Cardinality(Loose) + n <= MaxLive[gm.limit]
Special == special < MaxSpecial[gm.limit] /\ special' = special + 1

Malloc(bytes) ==
  Booted /\ Room(1) /\ HandOut(dlmalloc(gm, bytes), bytes, FALSE) /\ UNCHANGED special

Calloc(n, size) ==
  Booted /\ Room(1) /\ Special /\ HandOut(dlcalloc(gm, n, size), n * size, FALSE)

Memalign(align, bytes) ==
  Booted /\ Room(1) /\ Special /\ HandOut(dlmemalign(gm, align, bytes), bytes, FALSE)

Valloc(bytes) == Booted /\ Room(1) /\ Special /\ HandOut(dlvalloc(gm, bytes), bytes, FALSE)

Pvalloc(bytes) == Booted /\ Room(1) /\ Special /\ HandOut(dlpvalloc(gm, bytes), bytes, FALSE)

Mallopt(param_number, value) ==
  Booted /\ Special /\ gm' = change_mparam(gm, param_number, value) /\ UNCHANGED live

Exchange(r, x, bytes) ==
  /\ gm' = Settle(r.m)
  /\ live' = IF r.mem = 0 THEN live ELSE (live \ {x}) \cup {Block(r.mem, bytes, FALSE)}

Realloc(x, bytes) ==
  Booted /\ Exchange(dlrealloc(gm, x.mem, bytes), x, bytes) /\ UNCHANGED special

HandOutAll(r, sizes) ==
  LET Wanted(i) == IF i <= Len(sizes) THEN sizes[i] ELSE Len(sizes) * SIZE_T_SIZE
  IN /\ gm' = Settle(r.m)
     /\ live' = live \cup {Block(r.mems[i], Wanted(i), FALSE) : i \in DOMAIN r.mems}

Independent(sizes, given) ==
  Booted /\ Room(Len(sizes) + 1) /\ Special /\ HandOutAll(ialloc(gm, sizes, given), sizes)

Free(x) ==
  Booted /\ gm' = Settle(dlfree(gm, x.mem)) /\ live' = live \ {x} /\ UNCHANGED special

Trim(pad) == Booted /\ gm' = Settle(dlmalloc_trim(gm, pad)) /\ UNCHANGED <<live, special>>

Next ==
  \/ Boot
  \/ \E b \in Requests[gm.limit] : Malloc(b)
  \/ \E c \in CallocInputs : Calloc(c[1], c[2])
  \/ \E a \in AlignInputs : Memalign(a[1], a[2])
  \/ \E a \in AlignInputs : Valloc(a[2]) \/ Pvalloc(a[2])
  \/ \E p \in Params : Mallopt(p[1], p[2])
  \/ \E x \in Loose, b \in Requests[gm.limit] : Realloc(x, b)
  \/ \E l \in ElementLists, given \in BOOLEAN : Independent(l, given)
  \/ \E x \in Loose : Free(x)
  \/ \E pad \in Pads : Trim(pad)

Spec == Init /\ [][Next]_vars

-----------------------------------------------------------------------------
(* Properties.                                                             *)

FreeChunks(m) == {p \in Chunks(m) : ~cinuse(m, p)} \ {m.top}
Binned(m) == FreeChunks(m) \ {m.dv}
Padded(bytes) == IF bytes >= MAX_REQUEST THEN MAX_SIZE_T ELSE request2size(bytes)

(* The fields have their types, and a block handed out is an address in    *)
(* the heap's section.                                                     *)
TypeOK ==
  /\ \A p \in DOMAIN gm.head : gm.head[p] \in [size : Nat, cinuse : BOOLEAN, pinuse : BOOLEAN]
  /\ gm.smallmap \subseteq 2 .. NSMALLBINS - 1 /\ gm.treemap \subseteq 0 .. NTREEBINS - 1
  /\ gm.dvsize \in Nat /\ gm.topsize \in Nat /\ gm.trim_check \in 0 .. MAX_SIZE_T
  /\ gm.brk \in 0 .. gm.limit /\ gm.contiguous \in BOOLEAN
  /\ gm.granularity % PageSize = 0 /\ gm.trim_threshold \in 0 .. MAX_SIZE_T
  /\ \A x \in live : x.mem \in HeapBase .. HeapBase + gm.brk /\ x.bytes \in Nat

(* Walking the segment from its base, the chunks follow one another to the *)
(* top chunk without gap or overlap; each head tells whether the chunk     *)
(* before it is in use, the foot before it how far back that one starts,   *)
(* and no two free chunks are neighbours, so everything freed is merged    *)
(* (what the asserts of traverse_and_check and do_check_*_chunk demand).   *)
ChunksTile ==
  is_initialized(gm) =>
    /\ gm.top \in Chunks(gm)
    /\ gm.head[gm.top] = [size |-> gm.topsize, cinuse |-> FALSE, pinuse |-> TRUE]
    /\ gm.topsize > 0 /\ gm.top + gm.topsize + TOP_FOOT_SIZE = segment_end(gm)
    /\ \A p \in Chunks(gm) \ {gm.top} :
         /\ chunksize(gm, p) >= MIN_CHUNK_SIZE /\ chunksize(gm, p) % MALLOC_ALIGNMENT = 0
         /\ next_chunk(gm, p) \in Chunks(gm)
         /\ pinuse(gm, next_chunk(gm, p)) <=> cinuse(gm, p)
         /\ cinuse(gm, p) \/ (/\ pinuse(gm, p) /\ cinuse(gm, next_chunk(gm, p))
                              /\ prev_chunk(gm, next_chunk(gm, p)) = p)

(* Each node's ring holds chunks of its size once, no size has two nodes,  *)
(* and a node's place is on the way of its size.                           *)
TrieOrdered(m, t, b) ==
  /\ \A q \in DOMAIN t :
       /\ t[q].ring # <<>> /\ IsInjective(t[q].ring)
       /\ \A x \in ToSet(t[q].ring) : chunksize(m, x) = t[q].size
       /\ q = Turns(t[q].size, b, Len(q))
       /\ q # Root => Front(q) \in DOMAIN t
  /\ \A q, r \in DOMAIN t : t[q].size = t[r].size => q = r
TreeChunks(t) == UNION {ToSet(t[q].ring) : q \in DOMAIN t}

(* Every free chunk but the top and the designated victim is in exactly    *)
(* one bin, that of its size, once; the bit maps mark exactly the bins     *)
(* that hold something; every trie is ordered by the bits of the sizes.    *)
BinsExact ==
  /\ gm.dvsize = 0 <=> gm.dv = 0
  /\ gm.dv # 0 => gm.dv \in FreeChunks(gm) /\ chunksize(gm, gm.dv) = gm.dvsize
  /\ \A i \in DOMAIN gm.smallbins :
       /\ IsInjective(gm.smallbins[i])
       /\ ToSet(gm.smallbins[i]) = {p \in Binned(gm) : chunksize(gm, p) = small_index2size(i)}
       /\ i \in gm.smallmap <=> gm.smallbins[i] # <<>>
  /\ \A i \in DOMAIN gm.treebins :
       /\ TreeChunks(gm.treebins[i]) =
            {p \in Binned(gm) : /\ ~is_small(chunksize(gm, p))
                                /\ chunksize(gm, p) >= minsize_for_tree_index(i)
                                /\ i < NTREEBINS - 1 =>
                                     chunksize(gm, p) < minsize_for_tree_index(i + 1)}
       /\ i \in gm.treemap <=> gm.treebins[i] # NoTrie
       /\ TrieOrdered(gm, gm.treebins[i], bit_for_tree_index(i))

(* The chunks in use are exactly the blocks handed out and not yet freed,  *)
(* none is lost and none is shared, and each has the room and the          *)
(* alignment asked for (for calloc, the true product of its arguments).    *)
(* malloc_usable_size says so, and mallinfo and malloc_stats count them.   *)
LiveBlocks ==
  /\ {p \in Chunks(gm) : cinuse(gm, p)} = {mem2chunk(x.mem) : x \in live}
  /\ \A x, y \in live : x.mem = y.mem => x = y
  /\ internal_mallinfo(gm).uordblks = SizeOf(gm, {mem2chunk(x.mem) : x \in live})
  /\ internal_malloc_stats(gm).used = internal_mallinfo(gm).uordblks
  /\ \A x \in live : /\ x.bytes <= dlmalloc_usable_size(gm, x.mem)
                     /\ x.mem % MALLOC_ALIGNMENT = 0
  /\ booting = <<>> => \A a \in AlignInputs : dlmemalign(gm, a[1], a[2]).mem % a[1] = 0

(* malloc moves the break, or fails, only when no free chunk is large      *)
(* enough, and it fails only when the section has no room either.          *)
NothingFits(r, b) ==
  /\ r.m.brk > gm.brk \/ r.mem = 0 =>
       /\ \A p \in FreeChunks(gm) : chunksize(gm, p) < Padded(b)
       /\ gm.topsize <= Padded(b)
  /\ r.mem = 0 => gm.limit - gm.brk <
                        AlignDown(Padded(b) + TOP_FOOT_SIZE + 1 + gm.granularity, gm.granularity)
GrowsOnlyWhenNothingFits == \A b \in Requests[gm.limit] : NothingFits(dlmalloc(gm, b), b)

(* A chunk taken from a bin is the smallest binned one that fits; a large  *)
(* request takes the designated victim only if nothing binned fits closer. *)
FitsBest(mem, b) ==
  LET p == mem2chunk(mem)
      fitting == {chunksize(gm, q) : q \in {x \in Binned(gm) : chunksize(gm, x) >= Padded(b)}}
  IN /\ mem # 0 /\ p \in Binned(gm) => chunksize(gm, p) = Min(fitting)
     /\ mem # 0 /\ p = gm.dv /\ ~is_small(Padded(b)) => \A s \in fitting : gm.dvsize <= s
BestFit == \A b \in Requests[gm.limit] : FitsBest(dlmalloc(gm, b).mem, b)

(* The allocator and the heap's section agree on where the heap ends, also *)
(* after a failed extension and after a trim; memory never arrives that    *)
(* does not follow the segment, and no run-time check ever fails.          *)
BreakInStep ==
  /\ is_initialized(gm) => segment_end(gm) = HeapBase + gm.brk /\ gm.seg.base = HeapBase
  /\ gm.footprint = gm.brk /\ gm.max_footprint >= gm.brk
  /\ internal_mallinfo(gm).arena = gm.brk
  /\ ~gm.stray /\ ~gm.aborted
=============================================================================
