------------------------------ MODULE MCMalloc ------------------------------
(* The allocator with a page of 128 bytes and bins scaled down with it:    *)
(* sizes up to 56 are small, 64..95, 96..127, 128..191 and the rest each   *)
(* share a trie.  Heaps: none; one of two pages, used for blocks of one    *)
(* small size; one of three and a half pages, used for every kind of       *)
(* request; and one of five pages where the boot has taken three blocks of *)
(* one trie, each fenced by a block that stays.                            *)
EXTENDS Malloc, TLC

Loosely(bytes) == [bytes |-> bytes, kept |-> FALSE]
Firmly(bytes) == [bytes |-> bytes, kept |-> TRUE]

MCBoots == {<<0, <<>>>>, <<256, <<>>>>, <<448, <<>>>>,
            <<640, <<Loosely(76), Firmly(12), Loosely(60), Firmly(12),
                     Loosely(84), Firmly(12)>>>>}
MCRequests == 0 :> {60} @@ 256 :> {20} @@ 448 :> {20, 60, MAX_SIZE_T} @@ 640 :> {20, 84}
MCMaxLive == 0 :> 1 @@ 256 :> 4 @@ 448 :> 2 @@ 640 :> 2
MCMaxSpecial == 0 :> 1 @@ 256 :> 1 @@ 448 :> 1 @@ 640 :> 0
MCCallocInputs == {<<2, 42>>, <<256, 256>>}
MCAlignInputs == {<<16, 60>>}
MCParams == {<<"M_TRIM_THRESHOLD", 40>>, <<"M_GRANULARITY", 256>>, <<"M_GRANULARITY", 200>>}
MCElementLists == {<<60>>}
=============================================================================
