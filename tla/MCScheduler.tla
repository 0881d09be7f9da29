---------------------------- MODULE MCScheduler ----------------------------
(* Small instances of Scheduler for TLC. *)
EXTENDS Scheduler

CONSTANTS Idle, A, B

MCPriority == (Idle :> 0) @@ (A :> 1) @@ (B :> 1)
MCSlice == (Idle :> 1) @@ (A :> 3) @@ (B :> 2)
=============================================================================
