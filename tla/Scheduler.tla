------------------------------ MODULE Scheduler ------------------------------
(***************************************************************************)
(* The priority scheduler of include/sys/sched.h (Scheduler<priorities>)   *)
(* together with the timer interrupt that drives it (pit_stub) and the     *)
(* thread switch that ends it.                                             *)
(*                                                                         *)
(* Deschedule, Reschedule, Block and Sleep run with the scheduler's        *)
(* spinlock held and so with interrupts masked (Spinlock.tla): each is one *)
(* step.  The timer interrupt handler runs with interrupts masked too, but *)
(* takes several steps, the loop over the due sleepers being one of them;  *)
(* phase says where in TimerTick it is.                                    *)
(***************************************************************************)
EXTENDS DeltaQueue

CONSTANTS
    Threads,        \* the threads given to the scheduler
    StartupThread,  \* the thread kmain runs in, which is never scheduled
    NumPriorities,  \* the template parameter priorities
    Priority,       \* Thread::priority
    DefaultSlice,   \* Thread::default_slice
    Interval,       \* ITimer::GetInterval(), ns between two ticks
    SleepTimes      \* the ns a caller passes to Sleep

Priorities == 0 .. NumPriorities - 1

LOC_SLEEPING == -2
LOC_BLOCKING == -3
LOC_RELEASED == -4

ASSUME SchedulerAssumption ==
    /\ StartupThread \notin Threads
    /\ NumPriorities \in Nat
    /\ Priority \in [Threads -> Priorities]
    /\ DefaultSlice \in [Threads -> Nat]
    /\ Interval \in Nat \ {0}
    /\ SleepTimes \subseteq Delta

VARIABLES
    running_tasks,   \* one Queue<Thread> per priority
    sleeping_tasks,  \* DeltaQueue<Thread>
    blocking_tasks,  \* LinkedList<Thread>
    location,        \* Thread::location
    time_to_run,     \* Thread::time_to_run
    CurrentThread,
    phase            \* "thread", or where in TimerTick the handler is

queues == <<running_tasks, sleeping_tasks, blocking_tasks>>
vars == <<queues, location, time_to_run, CurrentThread, phase>>

-----------------------------------------------------------------------------
(* _Release takes the thread out of the list its location names.           *)
RunningWithout(t) ==
    IF location[t] >= 0
    THEN [running_tasks EXCEPT ![location[t]] = RemoveFirst(@, t)]
    ELSE running_tasks

SleepingWithout(t) ==
    IF location[t] = LOC_SLEEPING THEN RemoveItem(sleeping_tasks, t)
                                  ELSE sleeping_tasks

(* Mutant: _Release without its case for LOC_BLOCKING.                     *)
BlockingKept(t) == blocking_tasks

BlockingWithout(t) ==
    IF location[t] = LOC_BLOCKING THEN RemoveFirst(blocking_tasks, t)
                                  ELSE blocking_tasks

SetLocation(t, l) == location' = [location EXCEPT ![t] = l]

(* Mutant: the thread joins the head of the queue.                         *)
JoinRunningAtHead(t) ==
    /\ running_tasks' = [RunningWithout(t) EXCEPT ![Priority[t]] = <<t>> \o @]
    /\ time_to_run' = [time_to_run EXCEPT ![t] = DefaultSlice[t]]
    /\ SetLocation(t, Priority[t])

(* The part of _Reschedule after _Release: the thread joins the tail of    *)
(* the queue of its priority with a fresh time slice.                      *)
JoinRunning(t) ==
    /\ running_tasks' = [RunningWithout(t) EXCEPT ![Priority[t]] = Append(@, t)]
    /\ time_to_run' = [time_to_run EXCEPT ![t] = DefaultSlice[t]]
    /\ SetLocation(t, Priority[t])

_Reschedule(t) ==
    /\ JoinRunning(t)
    /\ sleeping_tasks' = SleepingWithout(t)
    /\ blocking_tasks' = BlockingWithout(t)

-----------------------------------------------------------------------------
(* The calls a running thread makes, on any thread.                        *)
Deschedule(t) ==
    /\ phase = "thread"
    /\ running_tasks' = RunningWithout(t)
    /\ sleeping_tasks' = SleepingWithout(t)
    /\ blocking_tasks' = BlockingWithout(t)
    /\ SetLocation(t, LOC_RELEASED)
    /\ UNCHANGED <<time_to_run, CurrentThread, phase>>

Reschedule(t) ==
    /\ phase = "thread"
    /\ _Reschedule(t)
    /\ UNCHANGED <<CurrentThread, phase>>

Block(t) ==
    /\ phase = "thread"
    /\ running_tasks' = RunningWithout(t)
    /\ sleeping_tasks' = SleepingWithout(t)
    /\ blocking_tasks' = Append(BlockingWithout(t), t)
    /\ SetLocation(t, LOC_BLOCKING)
    /\ UNCHANGED <<time_to_run, CurrentThread, phase>>

Sleep(t, ns) ==
    /\ phase = "thread"
    /\ running_tasks' = RunningWithout(t)
    /\ sleeping_tasks' = InsertAtDelta(SleepingWithout(t), t, ns)
    /\ blocking_tasks' = BlockingWithout(t)
    /\ SetLocation(t, LOC_SLEEPING)
    /\ UNCHANGED <<time_to_run, CurrentThread, phase>>

-----------------------------------------------------------------------------
(* The timer interrupt.  TimerTick starts by letting the time pass.        *)
TimerTick ==
    /\ phase = "thread"
    /\ sleeping_tasks' = DecreaseDelta(sleeping_tasks, Interval)
    /\ phase' = "wake"
    /\ UNCHANGED <<running_tasks, blocking_tasks, location, time_to_run,
                   CurrentThread>>

(* One round of its loop: GetZero has taken the thread off the list, so    *)
(* that the _Release in _Reschedule finds nothing there to remove.         *)
WakeNext ==
    LET t    == GetZero(sleeping_tasks)
        rest == _remove(sleeping_tasks, 1)
    IN  /\ phase = "wake"
        /\ HasZero(sleeping_tasks)
        /\ JoinRunning(t)
        /\ sleeping_tasks' = IF location[t] = LOC_SLEEPING THEN RemoveItem(rest, t)
                                                           ELSE rest
        /\ blocking_tasks' = BlockingWithout(t)
        /\ UNCHANGED <<CurrentThread, phase>>

(* Mutant: the loop of TimerTick is an if.                                 *)
WakeDoneEarly ==
    /\ phase = "wake"
    /\ phase' = "schedule"
    /\ UNCHANGED <<queues, location, time_to_run, CurrentThread>>

WakeDone ==
    /\ phase = "wake"
    /\ ~ HasZero(sleeping_tasks)
    /\ phase' = "schedule"
    /\ UNCHANGED <<queues, location, time_to_run, CurrentThread>>

(* Mutant: _GetNextThread counts up.                                       *)
IsLowestReady(p) ==
    /\ running_tasks[p] # <<>>
    /\ \A q \in Priorities : q < p => running_tasks[q] = <<>>

(* p is the queue _GetNextThread finds first, counting down.               *)
IsHighestReady(p) ==
    /\ running_tasks[p] # <<>>
    /\ \A q \in Priorities : q > p => running_tasks[q] = <<>>

(* ScheduleNext: the head of that queue runs next.  It stays the head,     *)
(* with its slice reduced, or goes to the tail when the slice is used up.  *)
(* Switch makes it the current thread unless it already is.                *)
SliceLeft0(t) == time_to_run[t] > 0    \* mutant: any rest is enough

SliceLeft(t) == time_to_run[t] > Interval

ScheduleNext ==
    /\ phase = "schedule"
    /\ \E p \in Priorities :
          LET next == Head(running_tasks[p])
          IN  /\ IsHighestReady(p)
              /\ CurrentThread' = next
              /\ \/ /\ SliceLeft(next)
                    /\ time_to_run' = [time_to_run EXCEPT ![next] = @ - Interval]
                    /\ UNCHANGED <<queues, location>>
                 \/ /\ ~ SliceLeft(next)
                    /\ _Reschedule(next)
    /\ phase' = "thread"

(* _GetNextThread found nothing to run: the interrupted thread goes on.    *)
ScheduleNone ==
    /\ phase = "schedule"
    /\ \A p \in Priorities : running_tasks[p] = <<>>
    /\ phase' = "thread"
    /\ UNCHANGED <<queues, location, time_to_run, CurrentThread>>

-----------------------------------------------------------------------------
Init ==
    /\ running_tasks = [p \in Priorities |-> <<>>]
    /\ sleeping_tasks = <<>>
    /\ blocking_tasks = <<>>
    /\ location = [t \in Threads |-> LOC_RELEASED]
    /\ time_to_run = [t \in Threads |-> 0]
    /\ CurrentThread = StartupThread
    /\ phase = "thread"

Tick == TimerTick \/ WakeNext \/ WakeDone \/ ScheduleNext \/ ScheduleNone

Next ==
    \/ \E t \in Threads : \/ Deschedule(t)
                          \/ Reschedule(t)
                          \/ Block(t)
                          \/ \E ns \in SleepTimes : Sleep(t, ns)
    \/ Tick

(* The PIT interrupts periodically and its handler runs to the end; no     *)
(* thread is obliged to call the scheduler.                                *)
Spec == Init /\ [][Next]_vars /\ WF_vars(Tick)

-----------------------------------------------------------------------------
Locations == Priorities \cup {LOC_SLEEPING, LOC_BLOCKING, LOC_RELEASED}

(* The types of the fields of Scheduler and Thread.                        *)
TypeOK ==
    /\ running_tasks \in [Priorities -> Seq(Threads)]
    /\ sleeping_tasks \in Seq(NodeOf(Threads))
    /\ blocking_tasks \in Seq(Threads)
    /\ location \in [Threads -> Locations]
    /\ time_to_run \in [Threads -> Nat]
    /\ CurrentThread \in Threads \cup {StartupThread}
    /\ phase \in {"thread", "wake", "schedule"}

(* A thread is in the list its location names, exactly once, and in no     *)
(* other list: what lets _Release find every thread, and only there, and   *)
(* what keeps one thread from being dispatched from two queues.            *)
At(l) == {t \in Threads : location[t] = l}

QueueCoherent ==
    /\ \A p \in Priorities : ListsExactly(running_tasks[p], At(p))
    /\ ListsExactly(Items(sleeping_tasks), At(LOC_SLEEPING))
    /\ ListsExactly(blocking_tasks, At(LOC_BLOCKING))

-----------------------------------------------------------------------------
(* The nanoseconds of ticks it takes to wake a sleeper: DecreaseDelta and  *)
(* GetZero use up one delta after the other, so that this is their sum,    *)
(* which is more than a counter holds once the first delta of             *)
(* InsertAtDelta has underflowed.                                          *)
Asleep(t) == _find(sleeping_tasks, t) # 0
TimeLeft(t) == SumTo(sleeping_tasks, _find(sleeping_tasks, t))
Fits(t) == TimeLeft(t) < Modulus

(* A tick takes exactly Interval ns off the time every sleeper has left,   *)
(* however DecreaseDelta spreads it over the nodes, and none is forgotten. *)
TickExact ==
    [][phase = "thread" /\ phase' = "wake" =>
          /\ Len(sleeping_tasks') = Len(sleeping_tasks)
          /\ \A k \in 1 .. Len(sleeping_tasks) :
                /\ sleeping_tasks'[k].item = sleeping_tasks[k].item
                /\ SumTo(sleeping_tasks', k) =
                      Max({0, SumTo(sleeping_tasks, k) - Interval})]_vars

(* Threads that go to sleep, are woken early or are woken by the timer     *)
(* leave the time the other sleepers have left as it was: outside a tick   *)
(* at most one thread's time changes.  Those whose time is more than a     *)
(* counter holds are left out: the sum _remove gives the node after the    *)
(* one it takes off may then overflow.                                     *)
SleepersUndisturbed ==
    [][phase' # "wake" \/ phase = "wake" =>
          \E t \in Threads \cup {StartupThread} : \A u \in Threads \ {t} :
              Asleep(u) /\ Asleep(u)' /\ Fits(u) => TimeLeft(u)' = TimeLeft(u)]_vars

(* When the handler comes to choose the next thread, no thread whose time  *)
(* has run out is left asleep, wherever it is in the list.                 *)
NoOverdueSleeper ==
    phase = "schedule" =>
        \A k \in 1 .. Len(sleeping_tasks) : SumTo(sleeping_tasks, k) > 0

(* Sleep(thread, ns) lets the thread sleep for ns nanoseconds and no less. *)
SleepNotShortened ==
    [][\A t \in Threads, ns \in SleepTimes :
          Sleep(t, ns) => TimeLeft(t)' >= ns]_vars

(* Round robin: a thread that stays ready with no thread of a higher       *)
(* priority ready, and is not itself rescheduled again and again, is given *)
(* the processor again and again, whatever the other threads do.           *)
Eligible(t) == location[t] >= 0 /\ IsHighestReady(location[t])

RoundRobin ==
    \A t \in Threads :
        <>[]Eligible(t) /\ <>[][~ (phase = "thread" /\ Reschedule(t))]_vars
            => []<>(CurrentThread = t)

(* A sleeper does not sleep for ever unless it is put to sleep again and   *)
(* again.                                                                  *)
SleeperWakes ==
    \A t \in Threads :
        <>[][\A ns \in SleepTimes : ~ Sleep(t, ns)]_vars
            => []<>(location[t] # LOC_SLEEPING)

(* The scheduler does what AbsScheduler promises.                          *)
StatusOf(l) ==
    CASE l >= 0            -> "ready"
      [] l = LOC_SLEEPING  -> "sleeping"
      [] l = LOC_BLOCKING  -> "blocked"
      [] l = LOC_RELEASED  -> "released"

Abs == INSTANCE AbsScheduler
           WITH status  <- [t \in Threads |-> StatusOf(location[t])],
                ticking <- phase # "thread"

ImplementsAbs == Abs!Spec
=============================================================================
