------------------------------ MODULE AbsLock ------------------------------
(***************************************************************************)
(* What deriving a class from Lockable promises: one thread at a time is   *)
(* between Lock and Unlock, a thread waits until nobody is, and a lock     *)
(* changes hands only through its holder's Unlock.                         *)
(***************************************************************************)
CONSTANTS Threads, NoThread, Locks

VARIABLES holder, waiting

vars == <<holder, waiting>>

Init ==
    /\ holder = [l \in Locks |-> NoThread]
    /\ waiting = [l \in Locks |-> {}]

Request(t, l) ==
    /\ t # holder[l]
    /\ waiting' = [waiting EXCEPT ![l] = @ \cup {t}]
    /\ UNCHANGED holder

Acquire(t, l) ==
    /\ t \in waiting[l]
    /\ holder[l] = NoThread
    /\ holder' = [holder EXCEPT ![l] = t]
    /\ waiting' = [waiting EXCEPT ![l] = @ \ {t}]

Release(t, l) ==
    /\ holder[l] = t
    /\ holder' = [holder EXCEPT ![l] = NoThread]
    /\ UNCHANGED waiting

Next ==
    \E t \in Threads, l \in Locks :
        Request(t, l) \/ Acquire(t, l) \/ Release(t, l)

Spec == Init /\ [][Next]_vars
=============================================================================
