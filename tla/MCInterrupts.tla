---------------------------- MODULE MCInterrupts ----------------------------
(* A kernel thread and one of a user process;    a heap of three pages;    *)
(* stacks of seven frames: a tick that comes on the way out of another,    *)
(* one more on top of that, and a page fault inside it.                    *)
EXTENDS Interrupts

CONSTANTS ta, tu
MCThreads == {ta, tu}
MCUserThreads == {tu}
MCHeapPages == 0 .. 2
=============================================================================
