---------------------------- MODULE MCSpinlock ----------------------------
(* Small instances of Spinlock for TLC. *)
EXTENDS Spinlock, TLC

CONSTANTS A, B, C

(* The priority all threads that take a lock have in the kernel, and       *)
(* priorities that differ.                                                 *)
MCEqual == [t \in Threads |-> 5]
MCMixed == (A :> 1) @@ (B :> 5) @@ (C :> 5)
=============================================================================
