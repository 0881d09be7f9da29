---------------------------- MODULE AbsScheduler ----------------------------
(***************************************************************************)
(* What Scheduler<priorities> promises, without queues, slices and time: a *)
(* thread is ready, sleeping, blocked or released; while no tick is being  *)
(* handled only calls change that; a tick does nothing but wake sleepers   *)
(* and then give the processor to a ready thread of the highest priority   *)
(* there is, or leave it where it is when no thread is ready.              *)
(***************************************************************************)
EXTENDS Integers

CONSTANTS Threads, StartupThread, Priority

VARIABLES status, CurrentThread, ticking

vars == <<status, CurrentThread, ticking>>

Statuses == {"ready", "sleeping", "blocked", "released"}

Ready == {t \in Threads : status[t] = "ready"}

Init ==
    /\ status = [t \in Threads |-> "released"]
    /\ CurrentThread = StartupThread
    /\ ticking = FALSE

Become(t, s) ==
    /\ ~ ticking
    /\ status' = [status EXCEPT ![t] = s]
    /\ UNCHANGED <<CurrentThread, ticking>>

Tick ==
    /\ ~ ticking
    /\ ticking' = TRUE
    /\ UNCHANGED <<status, CurrentThread>>

Wake(t) ==
    /\ ticking
    /\ status[t] = "sleeping"
    /\ status' = [status EXCEPT ![t] = "ready"]
    /\ UNCHANGED <<CurrentThread, ticking>>

Dispatch(t) ==
    /\ ticking
    /\ t \in Ready
    /\ \A u \in Ready : Priority[u] <= Priority[t]
    /\ CurrentThread' = t
    /\ ticking' = FALSE
    /\ UNCHANGED status

Stay ==
    /\ ticking
    /\ Ready = {}
    /\ ticking' = FALSE
    /\ UNCHANGED <<status, CurrentThread>>

Next ==
    \/ \E t \in Threads, s \in Statuses : Become(t, s)
    \/ \E t \in Threads : Wake(t) \/ Dispatch(t)
    \/ Tick
    \/ Stay

Spec == Init /\ [][Next]_vars
=============================================================================
