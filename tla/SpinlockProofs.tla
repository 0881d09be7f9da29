--------------------------- MODULE SpinlockProofs ---------------------------
(***************************************************************************)
(* Whatever the number of threads and of locks: a taken lock is owned by a *)
(* thread inside it, interrupts are never left disabled, and the sections  *)
(* of a lock that is never nested with another are never interrupted,      *)
(* exclude each other and are entered and left as AbsLock says, even where *)
(* other locks are nested and stolen.                                      *)
(***************************************************************************)
EXTENDS Spinlock, TLAPS

LEMMA TypeInit == Init => TypeOK
BY DEF Init, TypeOK

LEMMA EnterType ==
    ASSUME TypeOK, NEW t \in Threads, pc[t] # "run", Enter(t)
    PROVE  /\ held' \in [Threads -> Seq(Locks)]
           /\ pc' \in [Threads -> {"run", "spin_lock", "cli", "get_lock"}]
           /\ want' \in [Threads -> Locks \cup {NoLock}]
           /\ \A u \in Threads : pc'[u] # "run" => want'[u] \in Locks
           /\ IFlag' = FALSE
<1>1. Append(held[t], want[t]) \in Seq(Locks)
    BY DEF TypeOK
<1> QED BY <1>1 DEF TypeOK, Enter

LEMMA TypeNext == TypeOK /\ [Next]_vars => TypeOK'
<1> SUFFICES ASSUME TypeOK, [Next]_vars PROVE TypeOK'
    OBVIOUS
<1> USE DEF TypeOK
<1>1. ASSUME NEW t \in Threads, Switch(t) PROVE TypeOK'
    BY <1>1 DEF Switch
<1>2. ASSUME NEW t \in Threads, NEW l \in Locks, Lock(t, l) PROVE TypeOK'
    BY <1>2 DEF Lock
<1>3. ASSUME NEW t \in Threads, Test(t) PROVE TypeOK'
    BY <1>3 DEF Test
<1>4. ASSUME NEW t \in Threads, Look(t) PROVE TypeOK'
    <2>1. CASE Enter(t)
        BY <1>4, <2>1, EnterType DEF Look
    <2>2. CASE SpinAgain(t)
        BY <1>4, <2>2 DEF Look, SpinAgain
    <2> QED BY <1>4, <2>1, <2>2 DEF Look
<1>5. ASSUME NEW t \in Threads, Get(t) PROVE TypeOK'
    <2>1. CASE /\ Enter(t)
               /\ lock' = [lock EXCEPT ![want[t]] = t]
               /\ UNCHANGED <<eax, cpu, asleep>>
        <3>1. /\ held' \in [Threads -> Seq(Locks)]
              /\ pc' \in [Threads -> {"run", "spin_lock", "cli", "get_lock"}]
              /\ want' \in [Threads -> Locks \cup {NoLock}]
              /\ \A u \in Threads : pc'[u] # "run" => want'[u] \in Locks
              /\ IFlag' = FALSE
            BY <1>5, <2>1, EnterType DEF Get
        <3>2. lock' \in [Locks -> Threads \cup {NoThread}]
            BY <2>1
        <3>3. UNCHANGED <<eax, cpu, asleep>>
            BY <2>1
        <3> QED BY <3>1, <3>2, <3>3
    <2>2. CASE /\ SpinAgain(t)
               /\ eax' = [eax EXCEPT ![t] = lock[want[t]]]
               /\ UNCHANGED <<lock, cpu, asleep>>
        <3>1. lock[want[t]] \in Threads \cup {NoThread}
            BY <1>5 DEF Get
        <3>2. eax' \in [Threads -> Threads \cup {NoThread}]
            BY <2>2, <3>1
        <3> QED BY <1>5, <2>2, <3>2 DEF SpinAgain, Get
    <2> QED BY <1>5, <2>1, <2>2 DEF Get
<1>6. ASSUME NEW t \in Threads, Unlock(t) PROVE TypeOK'
    <2>1. SubSeq(held[t], 1, Len(held[t]) - 1) \in Seq(Locks)
        BY <1>6 DEF Unlock
    <2>2. held' \in [Threads -> Seq(Locks)]
        BY <1>6, <2>1 DEF Unlock
    <2>3. lock' \in [Locks -> Threads \cup {NoThread}] /\ IFlag' \in BOOLEAN
        BY <1>6 DEF Unlock
    <2> QED BY <1>6, <2>2, <2>3 DEF Unlock
<1>7. ASSUME NEW t \in Threads, Sleep(t) \/ Wake(t) PROVE TypeOK'
    BY <1>7 DEF Sleep, Wake
<1>8. CASE UNCHANGED vars
    BY <1>8 DEF vars
<1> QED BY <1>1, <1>2, <1>3, <1>4, <1>5, <1>6, <1>7, <1>8 DEF Next, Spin

(* Every field of a Lockable and every register keeps its type.            *)
THEOREM SpinlockTypeCorrect == Spec => []TypeOK
BY TypeInit, TypeNext, PTL DEF Spec

-----------------------------------------------------------------------------
(* What entering and leaving do to the locks a thread is inside.           *)
LEMMA EnterInside ==
    ASSUME TypeOK, NEW t \in Threads, Enter(t), NEW k \in Locks, k = want[t]
    PROVE  /\ IsInside(t, k)'
           /\ \A u \in Threads, l \in Locks : IsInside(u, l) => IsInside(u, l)'
<1>1. /\ held \in [Threads -> Seq(Locks)]
      /\ held' = [held EXCEPT ![t] = Append(held[t], k)]
    BY DEF TypeOK, Enter
<1> DEFINE n == Len(held[t]) + 1
<1>2. /\ n \in 1 .. n
      /\ Len(held'[t]) = n
      /\ held'[t][n] = k
      /\ \A i \in 1 .. Len(held[t]) : i \in 1 .. n /\ held'[t][i] = held[t][i]
    BY <1>1
<1>3. IsInside(t, k)'
    BY <1>2 DEF IsInside
<1>4. ASSUME NEW u \in Threads, NEW l \in Locks, IsInside(u, l)
      PROVE  IsInside(u, l)'
    <2>1. CASE u = t
        BY <1>2, <1>4, <2>1 DEF IsInside
    <2>2. CASE u # t
        BY <1>1, <1>4, <2>2 DEF IsInside
    <2> QED BY <2>1, <2>2
<1> QED BY <1>3, <1>4

LEMMA LeaveInside ==
    ASSUME TypeOK, NEW t \in Threads, Unlock(t)
    PROVE  LET n == Len(held[t])
           IN  /\ n \in Nat \ {0}
               /\ held[t][n] \in Locks
               /\ \A u \in Threads, l \in Locks :
                     /\ IsInside(u, l)
                     /\ u # t \/ l # held[t][n]
                     => IsInside(u, l)'
<1>1. /\ held \in [Threads -> Seq(Locks)]
      /\ held[t] # <<>>
      /\ held' = [held EXCEPT ![t] = SubSeq(held[t], 1, Len(held[t]) - 1)]
    BY DEF TypeOK, Unlock
<1> DEFINE n == Len(held[t])
<1>2. n \in Nat \ {0} /\ held[t][n] \in Locks
    BY <1>1
<1>3. ASSUME NEW u \in Threads, NEW l \in Locks, IsInside(u, l),
             u # t \/ l # held[t][n]
      PROVE  IsInside(u, l)'
    <2>1. CASE u # t
        BY <1>1, <1>3, <2>1 DEF IsInside
    <2>2. CASE u = t
        <3>1. PICK i \in 1 .. Len(held[t]) : held[t][i] = l
            BY <1>3, <2>2 DEF IsInside
        <3>2. i \in 1 .. n - 1
            BY <1>2, <1>3, <2>2, <3>1
        <3>3. /\ Len(held'[t]) = n - 1
              /\ held'[t][i] = l
            BY <1>1, <1>2, <3>1, <3>2
        <3> QED BY <2>2, <3>2, <3>3 DEF IsInside
    <2> QED BY <2>1, <2>2
<1> QED BY <1>2, <1>3

Owned == TypeOK /\ OwnerInside

LEMMA OwnerInsideNext ==
    ASSUME TypeOK',
           \A l \in Locks, o \in Threads : o = lock'[l] => IsInside(o, l)'
    PROVE  OwnerInside'
<1> SUFFICES ASSUME NEW l \in Locks, lock'[l] # NoThread
             PROVE  IsInside(lock[l], l)'
    BY DEF OwnerInside
<1>1. PICK o \in Threads : o = lock'[l]
    BY DEF TypeOK
<1>2. IsInside(o, l)'
    BY <1>1
<1> QED BY <1>1, <1>2 DEF IsInside

LEMMA OwnerNext == Owned /\ [Next]_vars => OwnerInside'
<1> SUFFICES ASSUME TypeOK, OwnerInside, [Next]_vars, TypeOK'
             PROVE  OwnerInside'
    BY TypeNext DEF Owned
<1>1. CASE UNCHANGED <<lock, held>>
    BY <1>1 DEF OwnerInside, IsInside
<1>2. ASSUME NEW t \in Threads, NEW k \in Locks, k = want[t], Enter(t),
             lock' = lock \/ lock' = [lock EXCEPT ![k] = t]
      PROVE  OwnerInside'
    <2>1. /\ IsInside(t, k)'
          /\ \A u \in Threads, l \in Locks : IsInside(u, l) => IsInside(u, l)'
        BY <1>2, EnterInside
    <2>2. ASSUME NEW l \in Locks, NEW o \in Threads, o = lock'[l]
          PROVE  IsInside(o, l)'
        <3>1. (l = k /\ o = t) \/ o = lock[l]
            BY <1>2, <2>2 DEF TypeOK
        <3>2. CASE o = lock[l]
            <4>1. IsInside(o, l)
                BY <3>2, SpinlockAssumption DEF OwnerInside
            <4> QED BY <2>1, <4>1
        <3> QED BY <2>1, <3>1, <3>2
    <2> QED BY <2>2, OwnerInsideNext
<1>3. ASSUME NEW t \in Threads, Look(t) PROVE OwnerInside'
    <2>1. CASE Enter(t)
        BY <1>2, <1>3, <2>1 DEF Look, TypeOK
    <2>2. CASE UNCHANGED held
        BY <1>1, <1>3, <2>2 DEF Look
    <2> QED BY <1>3, <2>1, <2>2 DEF Look, SpinAgain
<1>4. ASSUME NEW t \in Threads, Get(t) PROVE OwnerInside'
    <2>1. CASE Enter(t) /\ lock' = [lock EXCEPT ![want[t]] = t]
        BY <1>2, <1>4, <2>1 DEF Get, TypeOK
    <2>2. CASE UNCHANGED <<lock, held>>
        BY <1>1, <2>2
    <2> QED BY <1>4, <2>1, <2>2 DEF Get, SpinAgain
<1>5. ASSUME NEW t \in Threads, Unlock(t) PROVE OwnerInside'
    <2>1. PICK k \in Locks :
             /\ k = held[t][Len(held[t])]
             /\ \A u \in Threads, l \in Locks :
                   IsInside(u, l) /\ (u # t \/ l # k) => IsInside(u, l)'
        BY <1>5, LeaveInside
    <2>2. \/ lock' = [lock EXCEPT ![k] = NoThread]
          \/ lock' = lock /\ lock[k] # t
        BY <1>5, <2>1 DEF Unlock
    <2>3. ASSUME NEW l \in Locks, NEW o \in Threads, o = lock'[l]
          PROVE  IsInside(o, l)'
        <3>1. o = lock[l] /\ (o # t \/ l # k)
            BY <2>2, <2>3, SpinlockAssumption DEF TypeOK
        <3>2. IsInside(o, l)
            BY <3>1, SpinlockAssumption DEF OwnerInside
        <3> QED BY <2>1, <3>1, <3>2
    <2> QED BY <2>3, OwnerInsideNext
<1> QED BY <1>1, <1>3, <1>4, <1>5 DEF Next, Spin, Switch, Sleep, Wake, Lock, Test, vars

(* However locks are nested, and even where two threads are inside one, a  *)
(* lock never stays taken in the name of a thread that has left it.        *)
THEOREM SpinlockOwnerInside == Spec => []OwnerInside
<1>1. Init => Owned
    BY TypeInit DEF Init, Owned, OwnerInside
<1>2. Owned /\ [Next]_vars => Owned'
    BY OwnerNext, TypeNext DEF Owned
<1>3. Owned => OwnerInside
    BY DEF Owned
<1> QED BY <1>1, <1>2, <1>3, PTL DEF Spec

-----------------------------------------------------------------------------
Awake == Owned /\ NeverLeftDeaf

LEMMA AwakeNext == Awake /\ [Next]_vars => NeverLeftDeaf'
<1> SUFFICES ASSUME TypeOK, OwnerInside, NeverLeftDeaf, [Next]_vars
             PROVE  NeverLeftDeaf'
    BY DEF Awake, Owned
<1>1. CASE UNCHANGED <<lock, held, cpu, IFlag>>
    BY <1>1 DEF NeverLeftDeaf, IsInside
<1>2. ASSUME NEW t \in Threads, Switch(t) PROVE NeverLeftDeaf'
    BY <1>2 DEF Switch, NeverLeftDeaf
<1>3. ASSUME NEW t \in Threads, NEW k \in Locks, k = want[t], Enter(t),
             lock'[k] = t, cpu' = t
      PROVE  NeverLeftDeaf'
    <2>1. IsInside(t, k)'
        BY <1>3, EnterInside
    <2>2. IsInside(cpu, k)'
        BY <1>3, <2>1 DEF IsInside
    <2> QED BY <1>3, <2>2 DEF NeverLeftDeaf
<1>4. ASSUME NEW t \in Threads, Look(t) PROVE NeverLeftDeaf'
    <2>1. CASE Enter(t) /\ lock[want[t]] = t
        BY <1>3, <1>4, <2>1 DEF Look, TypeOK
    <2>2. CASE SpinAgain(t)
        BY <2>2 DEF SpinAgain, NeverLeftDeaf
    <2> QED BY <1>4, <2>1, <2>2 DEF Look
<1>5. ASSUME NEW t \in Threads, Get(t) PROVE NeverLeftDeaf'
    <2>1. CASE Enter(t) /\ lock' = [lock EXCEPT ![want[t]] = t]
        BY <1>3, <1>5, <2>1 DEF Get, TypeOK
    <2>2. CASE SpinAgain(t)
        BY <2>2 DEF SpinAgain, NeverLeftDeaf
    <2> QED BY <1>5, <2>1, <2>2 DEF Get
<1>6. ASSUME NEW t \in Threads, Unlock(t) PROVE NeverLeftDeaf'
    <2>1. PICK k \in Locks :
             /\ k = held[t][Len(held[t])]
             /\ \A u \in Threads, l \in Locks :
                   IsInside(u, l) /\ (u # t \/ l # k) => IsInside(u, l)'
        BY <1>6, LeaveInside
    <2>2. CASE IFlag' = TRUE
        BY <2>2 DEF NeverLeftDeaf
    <2>3. CASE lock[k] # t /\ UNCHANGED <<lock, IFlag>>
        <3>1. cpu = t /\ cpu' = t
            BY <1>6 DEF Unlock
        <3>2. SUFFICES ASSUME ~ IFlag PROVE NeverLeftDeaf'
            BY <2>3 DEF NeverLeftDeaf
        <3>3. PICK l \in Locks : lock[l] = t /\ IsInside(t, l)
            BY <3>1, <3>2 DEF NeverLeftDeaf
        <3>4. IsInside(t, l)'
            BY <2>1, <2>3, <3>3
        <3>5. IsInside(cpu, l)'
            BY <3>1, <3>4 DEF IsInside
        <3> QED BY <2>3, <3>1, <3>3, <3>5 DEF NeverLeftDeaf
    <2> QED BY <1>6, <2>1, <2>2, <2>3 DEF Unlock
<1> QED BY <1>1, <1>2, <1>4, <1>5, <1>6
        DEF Next, Spin, Sleep, Wake, Lock, Test, vars

(* The machine is never left with interrupts disabled by a lock that its   *)
(* thread has left or that another thread owns.                            *)
THEOREM SpinlockNeverLeftDeaf == Spec => []NeverLeftDeaf
<1>1. Init => Awake
    BY TypeInit DEF Init, Awake, Owned, OwnerInside, NeverLeftDeaf
<1>2. Awake /\ [Next]_vars => Awake'
    BY AwakeNext, OwnerNext, TypeNext DEF Awake, Owned
<1>3. Awake => NeverLeftDeaf
    BY DEF Awake
<1> QED BY <1>1, <1>2, <1>3, PTL DEF Spec

-----------------------------------------------------------------------------
(* A thread inside a lock that is never nested is inside no other, has had *)
(* the processor ever since it entered and waits for nothing; and it was   *)
(* inside none when it asked for it.                                       *)
InsideApart ==
    \A t \in Threads, l \in Apart :
        IsInside(t, l) => held[t] = <<l>> /\ pc[t] = "run" /\ cpu = t /\ ~ IFlag

WantsApart ==
    \A t \in Threads : pc[t] # "run" /\ want[t] \in Apart => held[t] = <<>>

Flat == TypeOK /\ InsideApart /\ WantsApart

LEMMA NobodyInside ==
    ASSUME Flat, NEW t \in Threads, cpu = t, pc[t] # "run"
    PROVE  \A u \in Threads, l \in Apart : ~ IsInside(u, l)
BY DEF Flat, InsideApart

(* Entering takes a thread into one more lock, and nobody else anywhere.   *)
LEMMA EnterOnly ==
    ASSUME TypeOK, NEW t \in Threads, Enter(t), NEW k \in Locks, k = want[t]
    PROVE  /\ held[t] = <<>> => held'[t] = <<k>>
           /\ \A u \in Threads, l \in Locks :
                 IsInside(u, l)' => IsInside(u, l) \/ (u = t /\ l = k)
<1>1. /\ held \in [Threads -> Seq(Locks)]
      /\ held' = [held EXCEPT ![t] = Append(held[t], k)]
    BY DEF TypeOK, Enter
<1>2. /\ Len(held'[t]) = Len(held[t]) + 1
      /\ held'[t][Len(held[t]) + 1] = k
      /\ \A i \in 1 .. Len(held[t]) : held'[t][i] = held[t][i]
    BY <1>1
<1>3. ASSUME NEW u \in Threads, NEW l \in Locks, IsInside(u, l)'
      PROVE  IsInside(u, l) \/ (u = t /\ l = k)
    <2>1. PICK i \in 1 .. Len(held'[u]) : held'[u][i] = l
        BY <1>3 DEF IsInside
    <2>2. CASE u # t
        BY <1>1, <2>1, <2>2 DEF IsInside
    <2>3. CASE u = t
        <3>1. i \in 1 .. Len(held[t]) \/ i = Len(held[t]) + 1
            BY <1>1, <1>2, <2>1, <2>3
        <3> QED BY <1>2, <2>1, <2>3, <3>1 DEF IsInside
    <2> QED BY <2>2, <2>3
<1>4. held[t] = <<>> => held'[t] = <<k>>
    BY <1>1
<1> QED BY <1>3, <1>4

(* Leaving takes a thread into nothing.                                    *)
LEMMA LeaveOnly ==
    ASSUME TypeOK, NEW t \in Threads, Unlock(t)
    PROVE  /\ \A u \in Threads, l \in Locks : IsInside(u, l)' => IsInside(u, l)
           /\ \A u \in Threads \ {t} : held'[u] = held[u]
           /\ Len(held[t]) = 1 => held'[t] = <<>>
<1>1. /\ held \in [Threads -> Seq(Locks)]
      /\ held[t] # <<>>
      /\ held' = [held EXCEPT ![t] = SubSeq(held[t], 1, Len(held[t]) - 1)]
    BY DEF TypeOK, Unlock
<1> DEFINE n == Len(held[t])
<1>2. /\ n \in Nat \ {0}
      /\ Len(held'[t]) = n - 1
      /\ \A i \in 1 .. n - 1 : held'[t][i] = held[t][i]
    <2>1. held[t] \in Seq(Locks) /\ n \in Nat \ {0}
        BY <1>1
    <2>2. held'[t] = SubSeq(held[t], 1, n - 1)
        BY <1>1
    <2> QED BY <2>1, <2>2
<1>3. ASSUME NEW u \in Threads, NEW l \in Locks, IsInside(u, l)'
      PROVE  IsInside(u, l)
    <2>1. CASE u # t
        BY <1>1, <1>3, <2>1 DEF IsInside
    <2>2. CASE u = t
        <3>1. PICK i \in 1 .. n - 1 : held'[t][i] = l
            BY <1>2, <1>3, <2>2 DEF IsInside
        <3>2. i \in 1 .. n /\ held[t][i] = l
            BY <1>2, <3>1
        <3> QED BY <2>2, <3>2 DEF IsInside
    <2> QED BY <2>1, <2>2
<1> QED BY <1>1, <1>3

LEMMA FlatNext ==
    ASSUME Flat, [Next]_vars
    PROVE  InsideApart' /\ WantsApart'
<1>1. TypeOK /\ InsideApart /\ WantsApart /\ Apart \subseteq Locks
    BY SpinlockAssumption DEF Flat
<1>2. CASE UNCHANGED <<held, pc, want, cpu, IFlag>>
    BY <1>1, <1>2 DEF InsideApart, WantsApart, IsInside
<1>3. ASSUME NEW t \in Threads, Switch(t) PROVE InsideApart' /\ WantsApart'
    BY <1>1, <1>3 DEF Switch, InsideApart, WantsApart, IsInside
<1>4. ASSUME NEW t \in Threads, NEW l \in Locks, Lock(t, l)
      PROVE  InsideApart' /\ WantsApart'
    <2>1. \A k \in Apart : ~ IsInside(t, k)
        <3>1. held[t] = <<>> => \A k \in Apart : ~ IsInside(t, k)
            BY DEF IsInside
        <3> QED BY <1>4, <3>1 DEF Lock, MayNest
    <2>2. l \in Apart => held[t] = <<>>
        BY <1>4 DEF Lock, MayNest
    <2>3. /\ UNCHANGED <<held, cpu, IFlag>>
          /\ pc' = [pc EXCEPT ![t] = "spin_lock"]
          /\ want' = [want EXCEPT ![t] = l]
        BY <1>4 DEF Lock
    <2>4. InsideApart'
        BY <1>1, <2>1, <2>3 DEF InsideApart, IsInside, TypeOK
    <2>5. WantsApart'
        BY <1>1, <2>2, <2>3 DEF WantsApart, TypeOK
    <2> QED BY <2>4, <2>5
<1>5. ASSUME NEW t \in Threads, cpu = t, pc[t] # "run"
      PROVE  \A u \in Threads, l \in Apart : ~ IsInside(u, l)
    BY <1>5, NobodyInside
<1>6. ASSUME NEW t \in Threads, Test(t) PROVE InsideApart' /\ WantsApart'
    BY <1>1, <1>5, <1>6 DEF Test, InsideApart, WantsApart, IsInside, TypeOK
<1>7. ASSUME NEW t \in Threads, NEW k \in Locks, k = want[t], pc[t] # "run",
             cpu = t, cpu' = t, Enter(t)
      PROVE  InsideApart' /\ WantsApart'
    <2>1. /\ held[t] = <<>> => held'[t] = <<k>>
          /\ \A u \in Threads, l \in Apart : IsInside(u, l)' => u = t /\ l = k
        BY <1>1, <1>5, <1>7, EnterOnly
    <2>2. k \in Apart => held[t] = <<>>
        BY <1>1, <1>7 DEF WantsApart
    <2>3. pc'[t] = "run" /\ IFlag' = FALSE
        BY <1>1, <1>7 DEF Enter, TypeOK
    <2>4. InsideApart'
        BY <1>7, <2>1, <2>2, <2>3 DEF InsideApart
    <2>5. \A u \in Threads \ {t} :
             pc'[u] = pc[u] /\ want'[u] = want[u] /\ held'[u] = held[u]
        BY <1>1, <1>7 DEF Enter, TypeOK
    <2>6. WantsApart'
        BY <1>1, <2>3, <2>5 DEF WantsApart
    <2> QED BY <2>4, <2>6
<1>8. ASSUME NEW t \in Threads, pc[t] # "run", cpu = t, cpu' = t, SpinAgain(t)
      PROVE  InsideApart' /\ WantsApart'
    <2>1. \A u \in Threads, l \in Apart : ~ IsInside(u, l)'
        BY <1>5, <1>8 DEF SpinAgain, IsInside
    <2>2. WantsApart'
        BY <1>1, <1>8 DEF SpinAgain, WantsApart, TypeOK
    <2> QED BY <2>1, <2>2 DEF InsideApart
<1>9. ASSUME NEW t \in Threads, Look(t) \/ Get(t)
      PROVE  InsideApart' /\ WantsApart'
    <2>1. cpu = t /\ cpu' = t /\ pc[t] # "run"
        BY <1>9 DEF Look, Get
    <2>2. Enter(t) \/ SpinAgain(t)
        BY <1>9 DEF Look, Get
    <2>3. want[t] \in Locks
        BY <1>1, <2>1 DEF TypeOK
    <2> QED BY <1>7, <1>8, <2>1, <2>2, <2>3
<1>10. ASSUME NEW t \in Threads, Unlock(t) PROVE InsideApart' /\ WantsApart'
    <2>1. /\ \A u \in Threads, l \in Locks : IsInside(u, l)' => IsInside(u, l)
          /\ \A u \in Threads \ {t} : held'[u] = held[u]
          /\ Len(held[t]) = 1 => held'[t] = <<>>
        BY <1>1, <1>10, LeaveOnly
    <2>2. cpu = t /\ pc[t] = "run" /\ UNCHANGED <<pc, want, cpu>>
        BY <1>10 DEF Unlock
    <2>3. ASSUME NEW u \in Threads, NEW l \in Apart PROVE ~ IsInside(u, l)'
        <3>1. SUFFICES ASSUME IsInside(u, l)' PROVE FALSE
            OBVIOUS
        <3>2. IsInside(u, l)
            BY <1>1, <2>1, <3>1
        <3>3. u = t /\ held[t] = <<l>>
            BY <1>1, <2>2, <3>2 DEF InsideApart
        <3>4. held'[u] = <<>>
            BY <2>1, <3>3
        <3> QED BY <3>1, <3>4 DEF IsInside
    <2>4. WantsApart'
        BY <1>1, <2>1, <2>2 DEF WantsApart
    <2> QED BY <2>3, <2>4 DEF InsideApart
<1> QED BY <1>2, <1>3, <1>4, <1>6, <1>9, <1>10
        DEF Next, Spin, Sleep, Wake, vars

LEMMA InitFlat == Init => Flat
<1> SUFFICES ASSUME Init PROVE Flat
    OBVIOUS
<1>1. \A t \in Threads : held[t] = <<>> /\ pc[t] = "run"
    BY DEF Init
<1> QED BY <1>1, TypeInit DEF Flat, InsideApart, WantsApart, IsInside

(* On one processor, no timer interrupt comes between a Lock and the       *)
(* Unlock of an object whose lock is not nested with others, whatever is   *)
(* done with those.                                                        *)
THEOREM SpinlockSectionsUninterrupted == Spec => []SectionsUninterrupted
<1>1. Init => Flat
    BY InitFlat
<1>2. Flat /\ [Next]_vars => Flat'
    BY FlatNext, TypeNext DEF Flat
<1>3. Flat => SectionsUninterrupted
    BY DEF Flat, InsideApart, SectionsUninterrupted
<1> QED BY <1>1, <1>2, <1>3, PTL DEF Spec

(* And so no two threads are between Lock and Unlock of such an object.    *)
THEOREM SpinlockApartExclusion == Spec => []ApartExclusion
<1>1. SectionsUninterrupted => ApartExclusion
    BY DEF SectionsUninterrupted, ApartExclusion, Exclusive
<1> QED BY <1>1, SpinlockSectionsUninterrupted, PTL

-----------------------------------------------------------------------------
(***************************************************************************)
(* A lock that is never nested implements AbsLock: cmpxchg is the abstract *)
(* Acquire or a stutter, and the test before it and the spinning around it *)
(* are stutters, as is what happens to other locks.                        *)
(***************************************************************************)

(* A cmpxchg on such a lock never fails, so that eax keeps the 0 that      *)
(* means a free lock: what a stale eax could match is excluded.            *)
EaxFree ==
    \A t \in Threads : pc[t] # "run" /\ want[t] \in Apart => eax[t] = NoThread

RInv == Flat /\ OwnerInside /\ EaxFree

(* A thread on its way into any lock finds those that are not nested free. *)
LEMMA AllFree ==
    ASSUME RInv, NEW t \in Threads, cpu = t, pc[t] # "run"
    PROVE  \A l \in Apart : lock[l] = NoThread
<1>1. \A u \in Threads, l \in Apart : ~ IsInside(u, l)
    BY NobodyInside DEF RInv
<1> QED BY <1>1, SpinlockAssumption DEF RInv, OwnerInside, Flat, TypeOK

LEMMA EaxFreeNext == RInv /\ [Next]_vars => EaxFree'
<1> SUFFICES ASSUME RInv, [Next]_vars PROVE EaxFree'
    OBVIOUS
<1>1. EaxFree /\ TypeOK
    BY DEF RInv, Flat
<1>2. CASE UNCHANGED <<eax, pc, want>>
    BY <1>1, <1>2 DEF EaxFree
<1>3. ASSUME NEW t \in Threads, NEW l \in Locks, Lock(t, l) PROVE EaxFree'
    BY <1>1, <1>3 DEF Lock, EaxFree, TypeOK
<1>4. ASSUME NEW t \in Threads, Test(t) PROVE EaxFree'
    BY <1>1, <1>4 DEF Test, EaxFree, TypeOK
<1>5. ASSUME NEW t \in Threads, Enter(t), UNCHANGED eax PROVE EaxFree'
    BY <1>1, <1>5 DEF Enter, EaxFree, TypeOK
<1>6. ASSUME NEW t \in Threads, Look(t) PROVE EaxFree'
    <2>1. CASE Enter(t)
        BY <1>5, <1>6, <2>1 DEF Look
    <2>2. CASE SpinAgain(t)
        BY <1>1, <1>6, <2>2 DEF Look, SpinAgain, EaxFree, TypeOK
    <2> QED BY <1>6, <2>1, <2>2 DEF Look
<1>7. ASSUME NEW t \in Threads, Get(t) PROVE EaxFree'
    <2>1. CASE Enter(t) /\ UNCHANGED eax
        BY <1>5, <2>1
    <2>2. CASE /\ SpinAgain(t)
               /\ lock[want[t]] # eax[t]
               /\ eax' = [eax EXCEPT ![t] = lock[want[t]]]
        <3>1. want[t] \notin Apart
            BY <1>1, <1>7, <2>2, AllFree DEF Get, EaxFree
        <3> QED BY <1>1, <2>2, <3>1 DEF SpinAgain, EaxFree, TypeOK
    <2> QED BY <1>7, <2>1, <2>2 DEF Get
<1> QED BY <1>2, <1>3, <1>4, <1>6, <1>7
        DEF Next, Spin, Switch, Sleep, Wake, Unlock, vars

(* What AbsLock sees: the locks that are not nested, and the threads on    *)
(* their way into them.                                                    *)
Holder == [l \in Apart |-> lock[l]]

Waiting == [l \in Apart |-> {t \in Threads : pc[t] # "run" /\ want[t] = l}]

LEMMA InitRefinesLock == Init => Abs!Init
<1> SUFFICES ASSUME Init PROVE Abs!Init
    OBVIOUS
<1>1. Holder = [l \in Apart |-> NoThread]
    BY SpinlockAssumption DEF Init, Holder
<1>2. Waiting = [l \in Apart |-> {}]
    BY DEF Init, Waiting
<1> QED BY <1>1, <1>2 DEF Abs!Init, Holder, Waiting

LEMMA NextRefinesLock ==
    ASSUME RInv, [Next]_vars
    PROVE  [Abs!Next]_(Abs!vars)
<1>1. TypeOK /\ OwnerInside /\ EaxFree /\ Apart \subseteq Locks
    BY SpinlockAssumption DEF RInv, Flat
<1>2. CASE Holder' = Holder /\ Waiting' = Waiting
    BY <1>2 DEF Abs!vars, Holder, Waiting
<1>3. CASE UNCHANGED <<lock, want>> /\ \A t \in Threads : pc'[t] = "run" <=> pc[t] = "run"
    <2>1. Waiting' = Waiting
        BY <1>3 DEF Waiting
    <2> QED BY <1>2, <1>3, <2>1 DEF Holder
<1>4. ASSUME NEW t \in Threads, NEW l \in Locks, Lock(t, l)
      PROVE  [Abs!Next]_(Abs!vars)
    <2>1. /\ pc' = [pc EXCEPT ![t] = "spin_lock"] /\ want' = [want EXCEPT ![t] = l]
          /\ pc[t] = "run" /\ lock' = lock
        BY <1>4 DEF Lock
    <2>2. Holder' = Holder
        BY <2>1 DEF Holder
    <2>3. ASSUME NEW k \in Apart
          PROVE  Waiting'[k] = IF k = l THEN Waiting[k] \cup {t} ELSE Waiting[k]
        BY <1>1, <2>1 DEF Waiting, TypeOK
    <2>4. CASE l \in Apart
        <3>1. held[t] = <<>>
            BY <1>4, <2>4 DEF Lock, MayNest
        <3>2. t # Holder[l]
            BY <1>1, <2>4, <3>1, SpinlockAssumption DEF OwnerInside, IsInside, Holder
        <3>3. Waiting' = [Waiting EXCEPT ![l] = @ \cup {t}]
            BY <2>3 DEF Waiting
        <3>4. Abs!Request(t, l)
            BY <2>2, <3>2, <3>3 DEF Abs!Request, Holder, Waiting
        <3> QED BY <2>4, <3>4 DEF Abs!Next
    <2>5. CASE l \notin Apart
        <3>1. Waiting' = Waiting
            BY <2>3, <2>5 DEF Waiting
        <3> QED BY <1>2, <2>2, <3>1
    <2> QED BY <2>4, <2>5
<1>5. ASSUME NEW t \in Threads, Test(t) PROVE [Abs!Next]_(Abs!vars)
    BY <1>1, <1>3, <1>5 DEF Test, TypeOK
<1>6. ASSUME NEW t \in Threads, NEW l \in Locks, l = want[t], Enter(t), pc[t] # "run"
      PROVE  \A k \in Apart :
                Waiting'[k] = IF k = l THEN Waiting[k] \ {t} ELSE Waiting[k]
    <2>1. /\ pc' = [pc EXCEPT ![t] = "run"]
          /\ want' = [want EXCEPT ![t] = NoLock]
        BY <1>6 DEF Enter
    <2> QED BY <1>1, <1>6, <2>1 DEF Waiting, TypeOK
<1>7. ASSUME NEW t \in Threads, SpinAgain(t), lock' = lock, pc[t] # "run"
      PROVE  [Abs!Next]_(Abs!vars)
    BY <1>1, <1>3, <1>7 DEF SpinAgain, TypeOK
<1>8. ASSUME NEW t \in Threads, Look(t) PROVE [Abs!Next]_(Abs!vars)
    <2>1. PICK l \in Locks : l = want[t]
        BY <1>1, <1>8 DEF Look, TypeOK
    <2>2. CASE Enter(t) /\ lock[l] = t
        <3>1. l \notin Apart
            BY <1>8, <2>2, AllFree, SpinlockAssumption DEF Look
        <3>2. Waiting' = Waiting
            BY <1>6, <1>8, <2>1, <2>2, <3>1 DEF Look, Waiting
        <3>3. Holder' = Holder
            BY <1>8 DEF Look, Holder
        <3> QED BY <1>2, <3>2, <3>3
    <2> QED BY <1>7, <1>8, <2>1, <2>2 DEF Look
<1>9. ASSUME NEW t \in Threads, Get(t) PROVE [Abs!Next]_(Abs!vars)
    <2>1. PICK l \in Locks : l = want[t]
        BY <1>1, <1>9 DEF Get, TypeOK
    <2>2. CASE Enter(t) /\ lock' = [lock EXCEPT ![l] = t]
        <3>1. \A k \in Apart : Waiting'[k] = IF k = l THEN Waiting[k] \ {t} ELSE Waiting[k]
            BY <1>6, <1>9, <2>1, <2>2 DEF Get
        <3>2. CASE l \in Apart
            <4>1. Holder[l] = NoThread
                BY <1>9, <3>2, AllFree DEF Get, Holder
            <4>2. t \in Waiting[l]
                BY <1>9, <2>1, <3>2 DEF Get, Waiting
            <4>3. Holder' = [Holder EXCEPT ![l] = t]
                BY <1>1, <2>2 DEF Holder, TypeOK
            <4>4. Waiting' = [Waiting EXCEPT ![l] = @ \ {t}]
                BY <3>1 DEF Waiting
            <4>5. Abs!Acquire(t, l)
                BY <4>1, <4>2, <4>3, <4>4 DEF Abs!Acquire, Holder, Waiting
            <4> QED BY <3>2, <4>5 DEF Abs!Next
        <3>3. CASE l \notin Apart
            <4>1. Waiting' = Waiting
                BY <3>1, <3>3 DEF Waiting
            <4>2. Holder' = Holder
                BY <1>1, <2>2, <3>3 DEF Holder, TypeOK
            <4> QED BY <1>2, <4>1, <4>2
        <3> QED BY <3>2, <3>3
    <2> QED BY <1>7, <1>9, <2>1, <2>2 DEF Get
<1>10. ASSUME NEW t \in Threads, Unlock(t) PROVE [Abs!Next]_(Abs!vars)
    <2>1. PICK l \in Locks : l = held[t][Len(held[t])]
        BY <1>1, <1>10, LeaveInside
    <2>2. Waiting' = Waiting
        BY <1>10 DEF Unlock, Waiting
    <2>3. CASE lock[l] = t /\ lock' = [lock EXCEPT ![l] = NoThread]
        <3>1. CASE l \in Apart
            <4>1. Holder' = [Holder EXCEPT ![l] = NoThread] /\ Holder[l] = t
                BY <1>1, <2>3, <3>1 DEF Holder, TypeOK
            <4>2. Abs!Release(t, l)
                BY <2>2, <4>1 DEF Abs!Release, Holder, Waiting
            <4> QED BY <3>1, <4>2 DEF Abs!Next
        <3>2. CASE l \notin Apart
            <4>1. Holder' = Holder
                BY <1>1, <2>3, <3>2 DEF Holder, TypeOK
            <4> QED BY <1>2, <2>2, <4>1
        <3> QED BY <3>1, <3>2
    <2>4. CASE lock' = lock
        BY <1>2, <2>2, <2>4 DEF Holder
    <2> QED BY <1>10, <2>1, <2>3, <2>4 DEF Unlock
<1>11. CASE UNCHANGED vars \/ \E t \in Threads : Switch(t) \/ Sleep(t) \/ Wake(t)
    BY <1>3, <1>11 DEF vars, Switch, Sleep, Wake
<1> QED BY <1>4, <1>5, <1>8, <1>9, <1>10, <1>11 DEF Next, Spin

(* A Lockable that is not nested with others is the lock it promises to    *)
(* be: it goes from thread to thread only by an Unlock of the thread that  *)
(* holds it and a Lock of one that waits for it.                           *)
THEOREM SpinlockImplementsAbs == Spec => ImplementsAbs
<1>1. Init => RInv
    BY InitFlat DEF Init, RInv, OwnerInside, EaxFree
<1>2. RInv /\ [Next]_vars => RInv'
    BY EaxFreeNext, FlatNext, OwnerNext, TypeNext DEF RInv, Flat, Owned
<1>3. RInv /\ [Next]_vars => [Abs!Next]_(Abs!vars)
    BY NextRefinesLock
<1> QED BY <1>1, <1>2, <1>3, InitRefinesLock, PTL DEF Spec, ImplementsAbs, Abs!Spec
=============================================================================
