------------------------------ MODULE Spinlock ------------------------------
(***************************************************************************)
(* Lockable (kernel/i386/concurrent.cpp) over obtain_spinlock and          *)
(* release_spinlock (include/i386/concurrent.h), instruction by            *)
(* instruction where the timer can come in between, on the one processor   *)
(* the kernel supports.                                                    *)
(*                                                                         *)
(* A lock is the word that holds the id of its owner, here the thread      *)
(* itself; cli and sti act on the one interrupt flag IFlag.  Instructions  *)
(* executed after a cli and before the next sti form one step, for nothing *)
(* can happen between them.                                                *)
(*                                                                         *)
(* The timer interrupt gives the processor to a ready thread of the        *)
(* highest priority, whatever that thread or the one it takes the          *)
(* processor from is doing.                                                *)
(***************************************************************************)
EXTENDS Integers, Sequences

CONSTANTS
    Threads,
    NoThread,   \* the 0 of a free lock
    Locks,      \* numbered in the order in which the kernel nests them
    NoLock,
    Apart,      \* those never taken inside another, nor others inside them
    MaxNest,    \* bound: how many calls of Lock a thread may be inside of
    Recursive,  \* whether a thread may lock again what it has locked
    Priority    \* Thread::priority

ASSUME SpinlockAssumption ==
    /\ NoThread \notin Threads
    /\ Locks \subseteq Nat
    /\ NoLock \notin Locks
    /\ Apart \subseteq Locks
    /\ MaxNest \in Nat
    /\ Recursive \in BOOLEAN
    /\ Priority \in [Threads -> Int]

VARIABLES
    lock,   \* Lockable::lock
    held,   \* the calls of Lock a thread has returned from, innermost last
    pc,     \* "run", or where in obtain_spinlock the thread is
    want,   \* the lock it is obtaining there, else NoLock
    eax,    \* the register cmpxchg compares the lock with
    cpu,    \* the thread the processor executes
    asleep, \* the threads in none of the scheduler's running_tasks
    IFlag   \* the interrupt flag

vars == <<lock, held, pc, want, eax, cpu, asleep, IFlag>>

IsInside(t, l) == \E i \in 1 .. Len(held[t]) : held[t][i] = l

-----------------------------------------------------------------------------
(* What _GetNextThread may choose: a ready thread with no ready thread of  *)
(* a higher priority.                                                      *)
Outranked(t) == \E u \in Threads \ asleep : Priority[u] > Priority[t]

Eligible(t) == t \notin asleep /\ ~ Outranked(t)

(* The timer interrupt switches threads, whenever interrupts are enabled.  *)
Switch(t) ==
    /\ IFlag
    /\ t # cpu
    /\ Eligible(t)
    /\ cpu' = t
    /\ UNCHANGED <<lock, held, pc, want, eax, asleep, IFlag>>

(* A thread that is inside no lock goes to sleep, and executes nothing     *)
(* until the timer or another thread has made it ready again.              *)
Sleep(t) ==
    /\ cpu = t
    /\ t \notin asleep
    /\ pc[t] = "run"
    /\ held[t] = <<>>
    /\ asleep' = asleep \cup {t}
    /\ UNCHANGED <<lock, held, pc, want, eax, cpu, IFlag>>

Wake(t) ==
    /\ IFlag
    /\ t \in asleep
    /\ asleep' = asleep \ {t}
    /\ UNCHANGED <<lock, held, pc, want, eax, cpu, IFlag>>

(* Mutant: locks are nested in any order.                                  *)
MayNestAnyhow(t, l) ==
    /\ Len(held[t]) < MaxNest
    /\ IsInside(t, l) => Recursive
    /\ held[t] # <<>> => l \notin Apart /\ \A k \in Apart : ~ IsInside(t, k)

(* The kernel nests the locks of its objects in one order, the lock of the *)
(* physical memory stack being innermost: MapPage takes it inside that of  *)
(* the temporary pages.  Apart are the locks it nests with no other.       *)
MayNest(t, l) ==
    /\ Len(held[t]) < MaxNest
    /\ \A i \in 1 .. Len(held[t]) : held[t][i] <= l
    /\ IsInside(t, l) => Recursive
    /\ held[t] # <<>> => l \notin Apart /\ \A k \in Apart : ~ IsInside(t, k)

(* A call of Lock, with eax loaded with 0.                                 *)
Lock(t, l) ==
    /\ cpu = t
    /\ t \notin asleep
    /\ pc[t] = "run"
    /\ MayNest(t, l)
    /\ pc' = [pc EXCEPT ![t] = "spin_lock"]
    /\ want' = [want EXCEPT ![t] = l]
    /\ eax' = [eax EXCEPT ![t] = NoThread]
    /\ UNCHANGED <<lock, held, cpu, asleep, IFlag>>

(* spin_lock: cmpl $0, lock; je get_lock                                   *)
Test(t) ==
    /\ cpu = t
    /\ pc[t] = "spin_lock"
    /\ pc' = [pc EXCEPT ![t] = IF lock[want[t]] = NoThread THEN "get_lock"
                                                           ELSE "cli"]
    /\ UNCHANGED <<lock, held, want, eax, cpu, asleep, IFlag>>

(* Mutant: the path into the section without its cli.                      *)
EnterOpen(t) ==
    /\ held' = [held EXCEPT ![t] = Append(@, want[t])]
    /\ want' = [want EXCEPT ![t] = NoLock]
    /\ pc' = [pc EXCEPT ![t] = "run"]
    /\ UNCHANGED IFlag

Enter(t) ==
    /\ held' = [held EXCEPT ![t] = Append(@, want[t])]
    /\ want' = [want EXCEPT ![t] = NoLock]
    /\ pc' = [pc EXCEPT ![t] = "run"]
    /\ IFlag' = FALSE

SpinAgain(t) ==
    /\ pc' = [pc EXCEPT ![t] = "spin_lock"]
    /\ IFlag' = TRUE
    /\ UNCHANGED <<held, want>>

(* cli; cmpl id, lock; je get_lock2; sti; pause; jmp spin_lock             *)
Look(t) ==
    /\ cpu = t
    /\ pc[t] = "cli"
    /\ \/ lock[want[t]] = t /\ Enter(t)
       \/ lock[want[t]] # t /\ SpinAgain(t)
    /\ UNCHANGED <<lock, eax, cpu, asleep>>

(* get_lock: cli; lock cmpxchgl id, lock; jz get_lock2; sti; jmp spin_lock *)
(* cmpxchg that fails loads eax with what the lock holds.                  *)
Get(t) ==
    /\ cpu = t
    /\ pc[t] = "get_lock"
    /\ \/ /\ lock[want[t]] = eax[t]
          /\ lock' = [lock EXCEPT ![want[t]] = t]
          /\ Enter(t)
          /\ UNCHANGED eax
       \/ /\ lock[want[t]] # eax[t]
          /\ eax' = [eax EXCEPT ![t] = lock[want[t]]]
          /\ SpinAgain(t)
          /\ UNCHANGED lock
    /\ UNCHANGED <<cpu, asleep>>

(* Mutant: the comparison of release_spinlock never succeeds.              *)
UnlockNothing(t) ==
    /\ cpu = t
    /\ pc[t] = "run"
    /\ held[t] # <<>>
    /\ IFlag' = TRUE
    /\ held' = [held EXCEPT ![t] = SubSeq(@, 1, Len(@) - 1)]
    /\ UNCHANGED <<lock, pc, want, eax, cpu, asleep>>

(* Mutant: release_spinlock without its sti.                               *)
UnlockDeaf(t) ==
    /\ cpu = t
    /\ pc[t] = "run"
    /\ held[t] # <<>>
    /\ LET l == held[t][Len(held[t])]
       IN  lock' = [lock EXCEPT ![l] = IF @ = t THEN NoThread ELSE @]
    /\ held' = [held EXCEPT ![t] = SubSeq(@, 1, Len(@) - 1)]
    /\ UNCHANGED <<IFlag, pc, want, eax, cpu, asleep>>

(* Mutant: cmpxchg stores its other operand, the lock's address.           *)
UnlockSwapped(t) ==
    /\ cpu = t
    /\ pc[t] = "run"
    /\ held[t] # <<>>
    /\ LET l == held[t][Len(held[t])]
       IN  lock' = [lock EXCEPT ![l] = l]
    /\ IFlag' = TRUE
    /\ held' = [held EXCEPT ![t] = SubSeq(@, 1, Len(@) - 1)]
    /\ UNCHANGED <<pc, want, eax, cpu, asleep>>

(* Unlock: cmpxchgl with eax = id puts 0 into a lock that holds the id,    *)
(* and only then enables interrupts.                                       *)
Unlock(t) ==
    /\ cpu = t
    /\ pc[t] = "run"
    /\ held[t] # <<>>
    /\ LET l == held[t][Len(held[t])]
       IN  \/ /\ lock[l] = t
              /\ lock' = [lock EXCEPT ![l] = NoThread]
              /\ IFlag' = TRUE
           \/ /\ lock[l] # t
              /\ UNCHANGED <<lock, IFlag>>
    /\ held' = [held EXCEPT ![t] = SubSeq(@, 1, Len(@) - 1)]
    /\ UNCHANGED <<pc, want, eax, cpu, asleep>>

-----------------------------------------------------------------------------
Init ==
    /\ lock = [l \in Locks |-> NoThread]
    /\ held = [t \in Threads |-> <<>>]
    /\ pc = [t \in Threads |-> "run"]
    /\ want = [t \in Threads |-> NoLock]
    /\ eax = [t \in Threads |-> NoThread]
    /\ cpu \in Threads
    /\ asleep = {}
    /\ IFlag = TRUE

(* What a thread does once it has entered Lock.                            *)
Spin(t) == Test(t) \/ Look(t) \/ Get(t)

(* The Unlock of an outermost Lock.                                        *)
Leave(t) == Len(held[t]) = 1 /\ Unlock(t)

Next ==
    \E t \in Threads :
        \/ Switch(t)
        \/ Sleep(t)
        \/ Wake(t)
        \/ \E l \in Locks : Lock(t, l)
        \/ Spin(t)
        \/ Unlock(t)

Spec == Init /\ [][Next]_vars

(* What Scheduler.tla proves of the timer and no more (RoundRobin): a      *)
(* thread that stays ready is given the processor again and again if no    *)
(* thread of a higher priority stays ready; one that is outranked may      *)
(* never be.                                                               *)
SchedulerFairness ==
    \A t \in Threads : <>[]Eligible(t) => []<>(cpu = t)

(* A thread that is given the processor again and again executes           *)
(* instructions, and what it has locked it unlocks, the inner locks and in *)
(* the end the outermost, though it need not lock anything.                *)
ThreadFairness ==
    \A t \in Threads : SF_vars(Spin(t) \/ Unlock(t)) /\ SF_vars(Leave(t))

FairSpec == Spec /\ SchedulerFairness /\ ThreadFairness

-----------------------------------------------------------------------------
(* The types of the lock words, of the registers and of the flag.          *)
TypeOK ==
    /\ lock \in [Locks -> Threads \cup {NoThread}]
    /\ held \in [Threads -> Seq(Locks)]
    /\ pc \in [Threads -> {"run", "spin_lock", "cli", "get_lock"}]
    /\ want \in [Threads -> Locks \cup {NoLock}]
    /\ \A t \in Threads : pc[t] # "run" => want[t] \in Locks
    /\ eax \in [Threads -> Threads \cup {NoThread}]
    /\ cpu \in Threads
    /\ asleep \subseteq Threads
    /\ IFlag \in BOOLEAN

(* "Derive from this to add a spinlock to a particular class": two threads *)
(* are never between Lock and Unlock of one object.                        *)
Exclusive(l) == \A t, u \in Threads : IsInside(t, l) /\ IsInside(u, l) => t = u

MutualExclusion == \A l \in Locks : Exclusive(l)

(* Of a lock that is never nested this is so, whatever happens to others.  *)
ApartExclusion == \A l \in Apart : Exclusive(l)

(* No interrupt handler runs while some thread is between Lock and Unlock  *)
(* of a lock that is never nested: what allows TimerTick and ScheduleNext  *)
(* not to take the scheduler's lock (NO_LOCK_TIMER_TICK,                   *)
(* NO_LOCK_SCHEDULE_NEXT).                                                 *)
SectionsUninterrupted ==
    \A t \in Threads, l \in Apart : IsInside(t, l) => cpu = t /\ ~ IFlag

(* A lock that is taken is taken by a thread that will unlock it.          *)
OwnerInside ==
    \A l \in Locks : lock[l] # NoThread => IsInside(lock[l], l)

(* Interrupts are disabled only on behalf of a thread that is going to     *)
(* enable them again: the machine is never left deaf.                      *)
NeverLeftDeaf ==
    ~ IFlag => \E l \in Locks : lock[l] = cpu /\ IsInside(cpu, l)

Awaited(l) == \E t \in Threads : pc[t] # "run" /\ want[t] = l

(* Priority inversion: a thread that owns a lock is kept from the          *)
(* processor by a ready thread of a higher priority.                       *)
Inversion == \E l \in Locks : lock[l] # NoThread /\ Outranked(lock[l])

(* A lock that somebody waits for becomes free, unless owners of locks are *)
(* outranked again and again: priority inversion is the one way in which a *)
(* spinning thread keeps the thread it waits for from ever running.  Among *)
(* threads of one priority, which all of the kernel's threads that lock    *)
(* anything have, there is none: neither nesting nor the comparison with a *)
(* stale owner makes all threads wait for each other.                      *)
FreedUnlessInverted ==
    \A l \in Locks : Awaited(l) ~> (lock[l] = NoThread \/ Inversion)

(* A Lockable that is never nested does what AbsLock promises.             *)
Abs == INSTANCE AbsLock
           WITH Locks   <- Apart,
                holder  <- [l \in Apart |-> lock[l]],
                waiting <- [l \in Apart |-> {t \in Threads :
                                               pc[t] # "run" /\ want[t] = l}]

ImplementsAbs == Abs!Spec
=============================================================================
