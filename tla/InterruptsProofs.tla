-------------------------- MODULE InterruptsProofs --------------------------
(***************************************************************************)
(* Proofs about Interrupts for every set of threads, every heap and every  *)
(* depth of the stacks.                                                    *)
(***************************************************************************)
EXTENDS Interrupts, SequenceTheorems, FiniteSetTheorems, TLAPS

Owners == Threads \cup {Startup}

BootCode  == {"Init", "InitDevices", "Constructor", "Create", "EnableAll", "AddGate", "Enable"}
FaultCode == {"page_fault", "alloc", "resolved"}
TickCode  == {"pit_stub", "TimerTick"}
WayOut    == {"unwind", "perform_iret"}
MayFault  == {"InitDevices", "Create", "section", "TimerTick"}

Places == BootCode \cup FaultCode \cup TickCode \cup WayOut \cup {"code", "section", "none"}
Codes == [who : Owners, pc : Places, page : HeapPages \cup {0}]

(* What the processor is at, page faults aside.                            *)
InFault == cpu.pc \in FaultCode
Current == activities[CurrentThread]
Doing   == IF InFault THEN Current[Len(Current)].pc ELSE cpu.pc

(* The types of everything, those TypeOK leaves open included.             *)
Types ==
    /\ TypeOK
    /\ cpu \in Codes
    /\ imr \in [master : SUBSET (0 .. 7), slave : SUBSET (8 .. 15)]
    /\ idt \in [Vectors -> {"none", "trap", "interrupt"}]
    /\ mem \in [Owners -> [1 .. MaxFrames -> [code : Codes, flag : BOOLEAN]]]
    /\ activities \in [Owners -> Seq(Codes)]

(* What a thread is in the middle of: its own code, around that handlers   *)
(* on their way out, and nothing else, but for the code a page fault       *)
(* interrupted.  So only the current thread can be inside the lists.       *)
Shape ==
    /\ \A t \in Owners : \A i \in 1 .. Len(activities[t]) :
          /\ activities[t][i].who = t
          /\ ~ (InFault /\ t = CurrentThread /\ i = Len(activities[t]))
                => activities[t][i].pc \in IF i = 1 THEN {"code"} ELSE WayOut
    /\ cpu.pc \in IF Current = <<>> THEN BootCode \cup {"code", "section"}
                                    ELSE TickCode \cup WayOut \cup FaultCode
    /\ InFault => /\ Doing \in MayFault
                  /\ (Doing = "TimerTick" <=> Len(Current) > 1)

(* Where the stack pointers of the threads that do not run point: past the *)
(* frame of do_switch, which lies on the frame of an interrupt.            *)
Suspended ==
    \A t \in Threads :
        /\ esp0[t].stack = t
        /\ t # CurrentThread =>
              IF Doing \in {"Init", "InitDevices", "Constructor", "Create"} THEN Len(activities[t]) = 0
                                                                            ELSE Len(activities[t]) > 1

(* kmain runs in its own thread, and nothing interrupts it before it has   *)
(* enabled the timer, which is then the only line that is open.            *)
Booting ==
    /\ Doing \in BootCode => CurrentThread = Startup
    /\ imr.master = CASE Doing = "Constructor" -> {}
                      [] Doing \in BootCode \ {"Constructor"} -> 0 .. 7
                      [] OTHER -> 1 .. 7
    /\ idt[PageFault] = "none" <=> Doing = "Init"
    /\ \A irq \in Lines :
          idt[RemapBase + irq] = "none" <=> irq # Timer \/ Doing \in BootCode \ {"Enable"}

(* Once kmain has left its boot code, the lists are worked on with         *)
(* interrupts disabled, and a page fault inside returns to that.           *)
Masked ==
    Doing \in TickCode \cup {"section"} =>
        /\ ~ IFlag
        /\ InFault => ~ mem[esp.stack][esp.depth].flag

(* Page 0 of the heap is the only one the handler allocates, and it does   *)
(* so for the first allocation of kmain.                                   *)
FirstPage ==
    /\ 0 \notin mapped => Doing \in {"Init", "InitDevices"}
    /\ cpu.pc \in {"page_fault", "alloc"} =>
          /\ cpu.page \in HeapPages
          /\ cpu.page = 0 => Doing = "InitDevices"
    /\ cpu.pc = "alloc" => cpu.page = 0

(* The room the guards of Deliver and Fault leave.                         *)
Room ==
    Doing \in TickCode => esp.depth + (IF InFault THEN 1 ELSE 2) <= MaxFrames

(* A thread of a user process is interrupted on its own kernel stack.      *)
KernelStack == CurrentThread \in UserThreads => tssEsp0 = CurrentThread

IInv == /\ Types /\ StacksKeepContext /\ StrayOnlyInConstructor
        /\ Shape /\ Suspended /\ Booting /\ Masked /\ FirstPage /\ Room /\ KernelStack

-----------------------------------------------------------------------------
LEMMA ButLast ==
    ASSUME NEW S, NEW s \in Seq(S), Len(s) > 0
    PROVE  /\ SubSeq(s, 1, Len(s) - 1) \in Seq(S)
           /\ Len(SubSeq(s, 1, Len(s) - 1)) = Len(s) - 1
           /\ \A i \in 1 .. Len(s) - 1 : SubSeq(s, 1, Len(s) - 1)[i] = s[i]
<1>1. PICK n \in Nat : n = Len(s) - 1 /\ Len(s) = n + 1
    BY LenProperties
<1>2. \A i \in 1 .. n : s[i] \in S
    BY <1>1, ElementOfSeq
<1> DEFINE r == SubSeq(s, 1, n)
<1>3. /\ r \in Seq(S)
      /\ Len(r) = IF 1 <= n THEN n - 1 + 1 ELSE 0
      /\ \A i \in 1 .. n - 1 + 1 : r[i] = s[1 + i - 1]
    BY <1>2, SubSeqProperties
<1> HIDE DEF r
<1>4. Len(r) = n /\ \A i \in 1 .. n : r[i] = s[i]
    BY <1>3
<1> QED BY <1>1, <1>3, <1>4 DEF r

(* What the invariant says of the current thread's stack.                  *)
LEMMA CurrentFacts ==
    ASSUME IInv
    PROVE  /\ CurrentThread \in Owners /\ cpu.who = CurrentThread
           /\ cpu \in Codes /\ IFlag \in BOOLEAN
           /\ Current \in Seq(Codes) /\ Len(Current) \in Nat
           /\ Current = <<>> <=> Len(Current) = 0
           /\ esp \in [stack : Owners, depth : 0 .. MaxFrames]
           /\ ~ InUserMode => esp.stack = CurrentThread /\ esp.depth = Len(Current)
           /\ InUserMode => /\ Len(Current) = 0 /\ ~ InFault
                            /\ CurrentThread \in UserThreads /\ tssEsp0 = CurrentThread
           /\ Len(Current) <= MaxFrames
           /\ \A i \in 1 .. Len(Current) : mem[CurrentThread][i].code = Current[i]
           /\ MaxFrames \in Nat /\ MaxFrames >= 2
<1>1. /\ CurrentThread \in Owners /\ cpu.who = CurrentThread
      /\ cpu \in Codes /\ IFlag \in BOOLEAN
      /\ esp \in [stack : Owners, depth : 0 .. MaxFrames]
      /\ MaxFrames \in Nat /\ MaxFrames >= 2
    BY InterruptsAssumption DEF IInv, Types, TypeOK, StacksKeepContext, Owners
<1>2. Current \in Seq(Codes)
    BY <1>1 DEF IInv, Types, Current
<1>3. Len(Current) \in Nat /\ (Current = <<>> <=> Len(Current) = 0)
    BY <1>2, EmptySeq
<1>4. /\ Depth(CurrentThread) = Len(Current)
      /\ \A i \in 1 .. Len(Current) : mem[CurrentThread][i].code = Current[i]
      /\ ~ InUserMode => esp.stack = CurrentThread
    BY DEF IInv, StacksKeepContext, Current
<1>5. InUserMode => /\ Len(Current) = 0 /\ ~ InFault
                    /\ CurrentThread \in UserThreads /\ tssEsp0 = CurrentThread
    BY <1>1, <1>4 DEF IInv, KernelStack, InUserMode, Depth, InFault, FaultCode
<1>6. ~ InUserMode => esp.depth = Len(Current)
    BY <1>4 DEF Depth
<1> QED BY <1>1, <1>2, <1>3, <1>4, <1>5, <1>6

LEMMA CurrentShape ==
    ASSUME IInv
    PROVE  \A i \in 1 .. Len(Current) :
              /\ Current[i].who = CurrentThread
              /\ ~ (InFault /\ i = Len(Current))
                    => Current[i].pc \in IF i = 1 THEN {"code"} ELSE WayOut
BY CurrentFacts DEF IInv, Shape, Current

(* An interrupt or exception through a gate pushes the frame of what it    *)
(* interrupts on the current thread's stack.                               *)
LEMMA EnterContext ==
    ASSUME IInv, NEW vector, NEW code \in Codes, Enter(vector, code),
           code.who = CurrentThread, code.pc # "code",
           idt[vector] # "none", esp.depth + 2 <= MaxFrames,
           UNCHANGED <<esp0, CurrentThread>>
    PROVE  /\ esp' = [stack |-> CurrentThread, depth |-> Len(Current) + 1]
           /\ Len(Current) + 1 <= MaxFrames /\ Len(Current) <= esp.depth
           /\ activities' = [activities EXCEPT ![CurrentThread] = Append(Current, cpu)]
           /\ mem' = [mem EXCEPT ![CurrentThread][Len(Current) + 1] = Frame(cpu, IFlag)]
           /\ cpu' = code
           /\ IFlag' = (IFlag /\ idt[vector] = "trap")
           /\ UNCHANGED halted
           /\ StacksKeepContext'
<1> DEFINE n == Len(Current)
<1>1. EntryStack.stack = CurrentThread /\ EntryStack.depth = n /\ n <= esp.depth
      /\ EntryStack \in [stack : Owners, depth : Nat]
    BY CurrentFacts DEF EntryStack
<1>2. /\ PushAt(EntryStack, Frame(cpu, IFlag))
      /\ Begun(cpu.who, cpu)
      /\ cpu' = code
      /\ IFlag' = (IFlag /\ idt[vector] = "trap")
      /\ UNCHANGED halted
    BY DEF Enter
<1>3. esp' = [stack |-> CurrentThread, depth |-> n + 1]
    BY <1>1, <1>2 DEF PushAt
<1>4. mem' = [mem EXCEPT ![CurrentThread][n + 1] = Frame(cpu, IFlag)]
    BY <1>1, <1>2 DEF PushAt
<1>5. activities' = [activities EXCEPT ![CurrentThread] = Append(Current, cpu)]
    BY <1>2, CurrentFacts DEF Begun, Current
<1>6. n \in Nat /\ n + 1 <= MaxFrames
    BY <1>1, CurrentFacts
<1>7. StacksKeepContext'
    <2>1. cpu'.who = CurrentThread' /\ ~ InUserMode'
        BY <1>2 DEF InUserMode
    <2>2. ASSUME NEW t \in Threads \cup {CurrentThread}, t # CurrentThread
          PROVE  /\ Depth(t)' = Len(activities'[t])
                 /\ \A d \in 1 .. Depth(t)' : mem'[t][d].code = activities'[t][d]
        <3>1. /\ Depth(t) = Len(activities[t])
              /\ \A d \in 1 .. Depth(t) : mem[t][d].code = activities[t][d]
            BY DEF IInv, StacksKeepContext
        <3>2. Depth(t)' = Depth(t) /\ activities'[t] = activities[t] /\ mem'[t] = mem[t]
            BY <1>4, <1>5, <2>2, CurrentFacts DEF Depth, IInv, Types, Owners
        <3> QED BY <3>1, <3>2
    <2>3. /\ Depth(CurrentThread)' = Len(activities'[CurrentThread])
          /\ \A d \in 1 .. Depth(CurrentThread)' :
                mem'[CurrentThread][d].code = activities'[CurrentThread][d]
        <3>1. activities'[CurrentThread] = Append(Current, cpu)
            BY <1>5, CurrentFacts DEF IInv, Types
        <3>2. Depth(CurrentThread)' = n + 1
            BY <1>3, <2>1 DEF Depth
        <3>3. /\ Len(Append(Current, cpu)) = n + 1
              /\ \A d \in 1 .. n : Append(Current, cpu)[d] = Current[d]
              /\ Append(Current, cpu)[n + 1] = cpu
            BY CurrentFacts, AppendProperties
        <3>4. mem'[CurrentThread][n + 1].code = cpu
            BY <1>4, <1>6, CurrentFacts DEF IInv, Types, Frame
        <3>5. \A d \in 1 .. n : mem'[CurrentThread][d].code = Current[d]
            BY <1>4, <1>6, CurrentFacts DEF IInv, Types
        <3> QED BY <1>6, <3>1, <3>2, <3>3, <3>4, <3>5
    <2> QED BY <1>3, <2>1, <2>2, <2>3 DEF StacksKeepContext
<1> QED BY <1>1, <1>2, <1>3, <1>4, <1>5, <1>6, <1>7

(* The return from a handler pops the frame it finds on top, which is that *)
(* of what the current thread was in the middle of.                        *)
LEMMA IretContext ==
    ASSUME IInv, NEW pc \in WayOut \cup {"resolved"}, Iret(pc)
    PROVE  /\ Len(Current) >= 1 /\ Current[Len(Current)] \in Codes
           /\ esp.stack = CurrentThread /\ esp.depth = Len(Current)
           /\ cpu' = Current[Len(Current)]
           /\ IFlag' = mem[esp.stack][esp.depth].flag
           /\ esp' = [stack |-> CurrentThread, depth |-> Len(Current) - 1]
           /\ activities' = [activities EXCEPT
                               ![CurrentThread] = SubSeq(Current, 1, Len(Current) - 1)]
           /\ mem' = [mem EXCEPT ![CurrentThread][Len(Current)] = NoFrame]
           /\ UNCHANGED <<switchVars, picVars, idt, mapped, halted>>
           /\ StacksKeepContext'
<1> DEFINE n == Len(Current)
<1>1. cpu.pc = pc /\ ~ InUserMode /\ cpu.pc \notin BootCode \cup {"code", "section"}
    BY DEF Iret, At, InUserMode, WayOut, BootCode
<1>2. n \in Nat /\ n >= 1 /\ n <= MaxFrames /\ Current[n] \in Codes
    <2>1. Current # <<>>
        BY <1>1 DEF IInv, Shape
    <2> QED BY <2>1, CurrentFacts, ElementOfSeq
<1>3. esp.stack = CurrentThread /\ esp.depth = n
    BY <1>1, CurrentFacts
<1>4. /\ cpu' = Current[n]
      /\ IFlag' = mem[esp.stack][esp.depth].flag
      /\ esp' = [stack |-> CurrentThread, depth |-> n - 1]
      /\ mem' = [mem EXCEPT ![CurrentThread][n] = NoFrame]
      /\ UNCHANGED <<switchVars, picVars, idt, mapped, halted>>
    <2>1. Top = mem[CurrentThread][n] /\ mem[CurrentThread][n].code = Current[n]
        BY <1>2, <1>3, CurrentFacts DEF Top
    <2> QED BY <1>3, <2>1, CurrentFacts DEF Iret, PoppedAt, Top
<1>5. activities' = [activities EXCEPT ![CurrentThread] = SubSeq(Current, 1, n - 1)]
    BY CurrentFacts DEF Iret, Ended, Current
<1>6. /\ Len(SubSeq(Current, 1, n - 1)) = n - 1
      /\ \A i \in 1 .. n - 1 : SubSeq(Current, 1, n - 1)[i] = Current[i]
    BY <1>2, CurrentFacts, ButLast
<1>7. cpu'.pc = "code" => n = 1
    <2> HIDE DEF n
    <2>1. Current[n].pc = "code" => ~ InFault
        BY DEF IInv, Shape, Doing, MayFault, n
    <2>2. ~ InFault => Current[n].pc \in IF n = 1 THEN {"code"} ELSE WayOut
        <3>1. n \in 1 .. Len(Current)
            BY <1>2 DEF n
        <3> QED BY <3>1, CurrentShape
    <2> QED BY <1>4, <2>1, <2>2 DEF WayOut
<1>8. cpu'.who = CurrentThread
    BY <1>2, <1>4, CurrentShape
<1>9. StacksKeepContext'
    <2>1. CurrentThread' = CurrentThread /\ esp0' = esp0
        BY <1>4 DEF switchVars
    <2>2. ASSUME NEW t \in Threads \cup {CurrentThread}, t # CurrentThread
          PROVE  /\ Depth(t)' = Len(activities'[t])
                 /\ \A d \in 1 .. Depth(t)' : mem'[t][d].code = activities'[t][d]
        <3>1. /\ Depth(t) = Len(activities[t])
              /\ \A d \in 1 .. Depth(t) : mem[t][d].code = activities[t][d]
            BY DEF IInv, StacksKeepContext
        <3>2. Depth(t)' = Depth(t) /\ activities'[t] = activities[t] /\ mem'[t] = mem[t]
            BY <1>4, <1>5, <2>1, <2>2, CurrentFacts DEF Depth, IInv, Types, Owners
        <3> QED BY <3>1, <3>2
    <2>3. /\ Depth(CurrentThread)' = Len(activities'[CurrentThread])
          /\ \A d \in 1 .. Depth(CurrentThread)' :
                mem'[CurrentThread][d].code = activities'[CurrentThread][d]
        <3>1. activities'[CurrentThread] = SubSeq(Current, 1, n - 1)
            BY <1>5, CurrentFacts DEF IInv, Types
        <3>2. Depth(CurrentThread)' = n - 1
            BY <1>2, <1>4, <1>7, <2>1 DEF Depth, InUserMode
        <3>3. \A d \in 1 .. n - 1 : mem'[CurrentThread][d].code = Current[d]
            BY <1>2, <1>4, CurrentFacts DEF IInv, Types
        <3> QED BY <1>2, <1>6, <3>1, <3>2, <3>3
    <2> QED BY <1>4, <1>8, <2>1, <2>2, <2>3 DEF StacksKeepContext
<1> QED BY <1>2, <1>3, <1>4, <1>5, <1>9

(* A step within the same stacks.                                          *)
LEMMA GotoKeeps ==
    ASSUME IInv, NEW pc, Goto(pc), ~ InUserMode,
           pc \in FaultCode <=> InFault,
           pc \in IF Current = <<>> THEN BootCode \cup {"code", "section"}
                                   ELSE TickCode \cup WayOut \cup FaultCode,
           UNCHANGED <<esp, mem, activities, switchVars>>
    PROVE  /\ cpu' \in Codes /\ cpu'.pc = pc /\ cpu'.who = CurrentThread /\ cpu'.page = cpu.page
           /\ InFault' = InFault /\ Current' = Current
           /\ Doing' = IF InFault THEN Doing ELSE pc
           /\ CurrentThread' = CurrentThread /\ tssEsp0' = tssEsp0 /\ esp0' = esp0
           /\ StacksKeepContext' /\ Shape' /\ KernelStack'
<1>1. /\ cpu' \in Codes /\ cpu'.pc = pc /\ cpu'.who = CurrentThread /\ cpu'.page = cpu.page
      /\ CurrentThread' = CurrentThread /\ tssEsp0' = tssEsp0 /\ esp0' = esp0
    BY CurrentFacts DEF Goto, switchVars, Codes, Places
<1>2. InFault' = InFault /\ Current' = Current
    BY <1>1 DEF InFault, Current
<1>3. Doing' = IF InFault THEN Doing ELSE pc
    BY <1>1, <1>2 DEF Doing
<1>4. StacksKeepContext'
    <2>1. pc = "code" => Len(Current) = 0
        BY CurrentFacts DEF TickCode, WayOut, FaultCode
    <2>2. ASSUME NEW t \in Threads \cup {CurrentThread}
          PROVE  Depth(t)' = Depth(t)
        <3>1. CASE t # CurrentThread
            BY <1>1, <3>1 DEF Depth
        <3>2. CASE t = CurrentThread
            BY <1>1, <2>1, <3>2, CurrentFacts DEF Depth, InUserMode
        <3> QED BY <3>1, <3>2
    <2> QED BY <1>1, <2>2, CurrentFacts DEF IInv, StacksKeepContext
<1>5. Shape'
    <2>1. \A t \in Owners : \A i \in 1 .. Len(activities'[t]) :
             /\ activities'[t][i].who = t
             /\ ~ (InFault' /\ t = CurrentThread' /\ i = Len(activities'[t]))
                   => activities'[t][i].pc \in IF i = 1 THEN {"code"} ELSE WayOut
        BY <1>1, <1>2 DEF IInv, Shape
    <2>2. cpu'.pc \in IF Current' = <<>> THEN BootCode \cup {"code", "section"}
                                        ELSE TickCode \cup WayOut \cup FaultCode
        BY <1>1, <1>2
    <2>3. InFault' => /\ Doing' \in MayFault
                      /\ (Doing' = "TimerTick" <=> Len(Current') > 1)
        BY <1>2, <1>3 DEF IInv, Shape
    <2> QED BY <2>1, <2>2, <2>3 DEF Shape
<1>6. KernelStack'
    BY <1>1 DEF IInv, KernelStack
<1> QED BY <1>1, <1>2, <1>3, <1>4, <1>5, <1>6

(* Outside page faults, Doing is where the processor is.                   *)
LEMMA AtFacts ==
    ASSUME IInv, NEW pc, At(pc)
    PROVE  /\ ~ halted /\ cpu.pc = pc
           /\ InFault <=> pc \in FaultCode
           /\ ~ InFault => Doing = pc
           /\ pc # "code" => ~ InUserMode
           /\ pc \in BootCode \cup {"code", "section"} => Current = <<>>
           /\ pc \in TickCode \cup WayOut \cup FaultCode => Current # <<>>
<1>1. /\ ~ halted /\ cpu.pc = pc
      /\ InFault <=> pc \in FaultCode
      /\ ~ InFault => Doing = pc
      /\ pc # "code" => ~ InUserMode
    BY DEF At, InFault, Doing, InUserMode
<1>2. cpu.pc \in IF Current = <<>> THEN BootCode \cup {"code", "section"}
                                  ELSE TickCode \cup WayOut \cup FaultCode
    BY DEF IInv, Shape
<1> QED BY <1>1, <1>2 DEF BootCode, TickCode, WayOut, FaultCode

-----------------------------------------------------------------------------
LEMMA InitGatesIInv == ASSUME IInv, InitGates PROVE IInv'
<1>1. /\ ~ halted /\ ~ InFault /\ Doing = "Init" /\ Current = <<>> /\ ~ InUserMode
      /\ Goto("InitDevices")
      /\ idt' = [idt EXCEPT ![PageFault] = "trap", ![GpFault] = "interrupt"]
      /\ IFlag' = TRUE
      /\ UNCHANGED <<esp, mem, activities, switchVars, picVars, mapped, halted>>
    BY AtFacts DEF InitGates, FaultCode, BootCode
<1>2. /\ cpu' \in Codes /\ cpu'.pc = "InitDevices" /\ cpu'.who = CurrentThread
      /\ ~ InFault' /\ Current' = Current /\ Doing' = "InitDevices"
      /\ CurrentThread' = CurrentThread /\ tssEsp0' = tssEsp0 /\ esp0' = esp0
      /\ StacksKeepContext' /\ Shape' /\ KernelStack'
    BY <1>1, GotoKeeps DEF FaultCode, BootCode
<1>3. Types'
    <2>1. idt' \in [Vectors -> {"none", "trap", "interrupt"}]
        BY <1>1 DEF IInv, Types, Vectors
    <2>2. \A v \in Vectors : idt'[v] \in {"none", IF v = PageFault THEN "trap" ELSE "interrupt"}
        BY <1>1 DEF IInv, Types, TypeOK, Vectors, PageFault, GpFault
    <2> QED BY <1>1, <1>2, <2>1, <2>2 DEF IInv, Types, TypeOK, picVars, Codes, Owners
<1>4. StrayOnlyInConstructor'
    BY <1>1 DEF StrayOnlyInConstructor
<1>5. Suspended'
    BY <1>1, <1>2 DEF IInv, Suspended
<1>6. Booting'
    <2>1. /\ idt'[PageFault] = "trap"
          /\ \A irq \in Lines : idt'[RemapBase + irq] = idt[RemapBase + irq]
        BY <1>1 DEF IInv, Types, PageFault, GpFault, RemapBase, Lines, Vectors, Timer
    <2> QED BY <1>1, <1>2, <2>1 DEF IInv, Booting, BootCode, picVars
<1>7. Masked' /\ FirstPage' /\ Room'
    BY <1>1, <1>2 DEF IInv, Masked, FirstPage, Room, TickCode
<1> QED BY <1>2, <1>3, <1>4, <1>5, <1>6, <1>7 DEF IInv

LEMMA InitPicIInv == ASSUME IInv, InitPic PROVE IInv'
<1>1. /\ ~ halted /\ ~ InFault /\ Doing = "InitDevices" /\ Current = <<>> /\ ~ InUserMode
      /\ Goto("Constructor") /\ 0 \in mapped
      /\ imr' = [master |-> {}, slave |-> {}] /\ irr' = {} /\ isr' = {}
      /\ UNCHANGED <<IFlag, esp, mem, activities, switchVars, idt, mapped, halted>>
    BY AtFacts DEF InitPic, FaultCode, BootCode
<1>2. /\ cpu' \in Codes /\ cpu'.pc = "Constructor" /\ cpu'.who = CurrentThread
      /\ ~ InFault' /\ Current' = Current /\ Doing' = "Constructor"
      /\ CurrentThread' = CurrentThread /\ tssEsp0' = tssEsp0 /\ esp0' = esp0
      /\ StacksKeepContext' /\ Shape' /\ KernelStack'
    BY <1>1, GotoKeeps DEF FaultCode, BootCode
<1>3. Types'
    BY <1>1, <1>2 DEF IInv, Types, TypeOK, Codes, Owners
<1>4. StrayOnlyInConstructor'
    BY <1>1 DEF StrayOnlyInConstructor
<1>5. Suspended'
    BY <1>1, <1>2 DEF IInv, Suspended
<1>6. Booting'
    BY <1>1, <1>2 DEF IInv, Booting, BootCode
<1>7. Masked' /\ FirstPage' /\ Room'
    BY <1>1, <1>2 DEF IInv, Masked, FirstPage, Room, TickCode
<1> QED BY <1>2, <1>3, <1>4, <1>5, <1>6, <1>7 DEF IInv

LEMMA MaskMasterIInv == ASSUME IInv, MaskMaster PROVE IInv'
<1>1. /\ ~ halted /\ ~ InFault /\ Doing = "Constructor" /\ Current = <<>> /\ ~ InUserMode
      /\ cpu.pc = "Constructor" /\ Goto("Create")
      /\ imr' = [imr EXCEPT !.master = 0 .. 7]
      /\ UNCHANGED <<IFlag, esp, mem, activities, switchVars, irr, isr, idt, mapped, halted>>
    BY AtFacts DEF MaskMaster, FaultCode, BootCode, TickCode, WayOut
<1>2. /\ cpu' \in Codes /\ cpu'.pc = "Create" /\ cpu'.who = CurrentThread /\ cpu'.page = cpu.page
      /\ ~ InFault' /\ Current' = Current /\ Doing' = "Create"
      /\ CurrentThread' = CurrentThread /\ tssEsp0' = tssEsp0 /\ esp0' = esp0
      /\ StacksKeepContext' /\ Shape' /\ KernelStack'
    BY <1>1, GotoKeeps DEF FaultCode, BootCode, TickCode, WayOut
<1>3. Types'
    BY <1>1, <1>2 DEF IInv, Types, TypeOK, picVars, Codes, Owners
<1>4. StrayOnlyInConstructor'
    BY <1>1 DEF StrayOnlyInConstructor
<1>5. Suspended'
    BY <1>1, <1>2 DEF IInv, Suspended
<1>6. Booting'
    BY <1>1, <1>2 DEF IInv, Booting, BootCode, Types
<1>7. Masked' /\ FirstPage' /\ Room'
    BY <1>1, <1>2 DEF IInv, Masked, FirstPage, Room, TickCode
<1> QED BY <1>2, <1>3, <1>4, <1>5, <1>6, <1>7 DEF IInv

LEMMA EnableAllIInv == ASSUME IInv, EnableAll PROVE IInv'
<1>1. /\ ~ halted /\ ~ InFault /\ Doing = "EnableAll" /\ Current = <<>> /\ ~ InUserMode
      /\ cpu.pc = "EnableAll" /\ Goto("AddGate")
      /\ IFlag' = TRUE
      /\ UNCHANGED <<esp, mem, activities, switchVars, picVars, idt, mapped, halted>>
    BY AtFacts DEF EnableAll, FaultCode, BootCode, TickCode, WayOut
<1>2. /\ cpu' \in Codes /\ cpu'.pc = "AddGate" /\ cpu'.who = CurrentThread /\ cpu'.page = cpu.page
      /\ ~ InFault' /\ Current' = Current /\ Doing' = "AddGate"
      /\ CurrentThread' = CurrentThread /\ tssEsp0' = tssEsp0 /\ esp0' = esp0
      /\ StacksKeepContext' /\ Shape' /\ KernelStack'
    BY <1>1, GotoKeeps DEF FaultCode, BootCode, TickCode, WayOut
<1>3. Types'
    BY <1>1, <1>2 DEF IInv, Types, TypeOK, picVars, Codes, Owners
<1>4. StrayOnlyInConstructor'
    BY <1>1 DEF StrayOnlyInConstructor
<1>5. Suspended'
    BY <1>1, <1>2 DEF IInv, Suspended
<1>6. Booting'
    BY <1>1, <1>2 DEF IInv, Booting, BootCode, picVars
<1>7. Masked' /\ FirstPage' /\ Room'
    BY <1>1, <1>2 DEF IInv, Masked, FirstPage, Room, TickCode
<1> QED BY <1>2, <1>3, <1>4, <1>5, <1>6, <1>7 DEF IInv

LEMMA AddTimerGateIInv == ASSUME IInv, AddTimerGate PROVE IInv'
<1>1. /\ ~ halted /\ ~ InFault /\ Doing = "AddGate" /\ Current = <<>> /\ ~ InUserMode
      /\ cpu.pc = "AddGate" /\ Goto("Enable")
      /\ idt' = [idt EXCEPT ![RemapBase + Timer] = "interrupt"] /\ IFlag' = TRUE
      /\ UNCHANGED <<esp, mem, activities, switchVars, picVars, mapped, halted>>
    BY AtFacts DEF AddTimerGate, AddGate, FaultCode, BootCode, TickCode, WayOut
<1>2. /\ cpu' \in Codes /\ cpu'.pc = "Enable" /\ cpu'.who = CurrentThread /\ cpu'.page = cpu.page
      /\ ~ InFault' /\ Current' = Current /\ Doing' = "Enable"
      /\ CurrentThread' = CurrentThread /\ tssEsp0' = tssEsp0 /\ esp0' = esp0
      /\ StacksKeepContext' /\ Shape' /\ KernelStack'
    BY <1>1, GotoKeeps DEF FaultCode, BootCode, TickCode, WayOut
<1>3. Types'
    <2>1. idt' \in [Vectors -> {"none", "trap", "interrupt"}]
        BY <1>1 DEF IInv, Types, Vectors
    <2>2. \A v \in Vectors : idt'[v] \in {"none", IF v = PageFault THEN "trap" ELSE "interrupt"}
        BY <1>1 DEF IInv, Types, TypeOK, Vectors, PageFault, RemapBase, Timer
    <2> QED BY <1>1, <1>2, <2>1, <2>2 DEF IInv, Types, TypeOK, picVars, Codes, Owners
<1>4. StrayOnlyInConstructor'
    BY <1>1 DEF StrayOnlyInConstructor
<1>5. Suspended'
    BY <1>1, <1>2 DEF IInv, Suspended
<1>6. Booting'
    BY <1>1, <1>2 DEF IInv, Booting, BootCode, picVars, Types, Lines, Timer, RemapBase, Vectors, PageFault
<1>7. Masked' /\ FirstPage' /\ Room'
    BY <1>1, <1>2 DEF IInv, Masked, FirstPage, Room, TickCode
<1> QED BY <1>2, <1>3, <1>4, <1>5, <1>6, <1>7 DEF IInv

LEMMA EnableTimerIInv == ASSUME IInv, EnableTimer PROVE IInv'
<1>1. /\ ~ halted /\ ~ InFault /\ Doing = "Enable" /\ Current = <<>> /\ ~ InUserMode
      /\ cpu.pc = "Enable" /\ Goto("code")
      /\ imr' = [imr EXCEPT !.master = @ \ {Timer}]
      /\ UNCHANGED <<IFlag, esp, mem, activities, switchVars, irr, isr, idt, mapped, halted>>
    BY AtFacts DEF EnableTimer, _enable, OnMaster, Timer, FaultCode, BootCode, TickCode, WayOut
<1>2. /\ cpu' \in Codes /\ cpu'.pc = "code" /\ cpu'.who = CurrentThread /\ cpu'.page = cpu.page
      /\ ~ InFault' /\ Current' = Current /\ Doing' = "code"
      /\ CurrentThread' = CurrentThread /\ tssEsp0' = tssEsp0 /\ esp0' = esp0
      /\ StacksKeepContext' /\ Shape' /\ KernelStack'
    BY <1>1, GotoKeeps DEF FaultCode, BootCode, TickCode, WayOut
<1>3. Types'
    BY <1>1, <1>2 DEF IInv, Types, TypeOK, picVars, Codes, Owners
<1>4. StrayOnlyInConstructor'
    BY <1>1 DEF StrayOnlyInConstructor
<1>5. Suspended'
    BY <1>1, <1>2 DEF IInv, Suspended
<1>6. Booting'
    BY <1>1, <1>2 DEF IInv, Booting, BootCode, Types, Timer
<1>7. Masked' /\ FirstPage' /\ Room'
    BY <1>1, <1>2 DEF IInv, Masked, FirstPage, Room, TickCode
<1> QED BY <1>2, <1>3, <1>4, <1>5, <1>6, <1>7 DEF IInv

LEMMA EnterSectionIInv == ASSUME IInv, EnterSection PROVE IInv'
<1>1. /\ ~ halted /\ ~ InFault /\ Doing = "code" /\ Current = <<>> /\ ~ InUserMode
      /\ cpu.pc = "code" /\ Goto("section")
      /\ IFlag' = FALSE
      /\ UNCHANGED <<esp, mem, activities, switchVars, picVars, idt, mapped, halted>>
    BY AtFacts DEF EnterSection, FaultCode, BootCode, TickCode, WayOut, InUserMode
<1>2. /\ cpu' \in Codes /\ cpu'.pc = "section" /\ cpu'.who = CurrentThread /\ cpu'.page = cpu.page
      /\ ~ InFault' /\ Current' = Current /\ Doing' = "section"
      /\ CurrentThread' = CurrentThread /\ tssEsp0' = tssEsp0 /\ esp0' = esp0
      /\ StacksKeepContext' /\ Shape' /\ KernelStack'
    BY <1>1, GotoKeeps DEF FaultCode, BootCode, TickCode, WayOut
<1>3. Types'
    BY <1>1, <1>2 DEF IInv, Types, TypeOK, picVars, Codes, Owners
<1>4. StrayOnlyInConstructor'
    BY <1>1 DEF StrayOnlyInConstructor
<1>5. Suspended'
    BY <1>1, <1>2 DEF IInv, Suspended
<1>6. Booting'
    BY <1>1, <1>2 DEF IInv, Booting, BootCode, picVars
<1>7. Masked' /\ FirstPage' /\ Room'
    BY <1>1, <1>2 DEF IInv, Masked, FirstPage, Room, TickCode
<1> QED BY <1>2, <1>3, <1>4, <1>5, <1>6, <1>7 DEF IInv

LEMMA LeaveSectionIInv == ASSUME IInv, LeaveSection PROVE IInv'
<1>1. /\ ~ halted /\ ~ InFault /\ Doing = "section" /\ Current = <<>> /\ ~ InUserMode
      /\ cpu.pc = "section" /\ Goto("code")
      /\ IFlag' = TRUE
      /\ UNCHANGED <<esp, mem, activities, switchVars, picVars, idt, mapped, halted>>
    BY AtFacts DEF LeaveSection, FaultCode, BootCode, TickCode, WayOut
<1>2. /\ cpu' \in Codes /\ cpu'.pc = "code" /\ cpu'.who = CurrentThread /\ cpu'.page = cpu.page
      /\ ~ InFault' /\ Current' = Current /\ Doing' = "code"
      /\ CurrentThread' = CurrentThread /\ tssEsp0' = tssEsp0 /\ esp0' = esp0
      /\ StacksKeepContext' /\ Shape' /\ KernelStack'
    BY <1>1, GotoKeeps DEF FaultCode, BootCode, TickCode, WayOut
<1>3. Types'
    BY <1>1, <1>2 DEF IInv, Types, TypeOK, picVars, Codes, Owners
<1>4. StrayOnlyInConstructor'
    BY <1>1 DEF StrayOnlyInConstructor
<1>5. Suspended'
    BY <1>1, <1>2 DEF IInv, Suspended
<1>6. Booting'
    BY <1>1, <1>2 DEF IInv, Booting, BootCode, picVars
<1>7. Masked' /\ FirstPage' /\ Room'
    BY <1>1, <1>2 DEF IInv, Masked, FirstPage, Room, TickCode
<1> QED BY <1>2, <1>3, <1>4, <1>5, <1>6, <1>7 DEF IInv

LEMMA PitStubIInv == ASSUME IInv, PitStub PROVE IInv'
<1>1. /\ ~ halted /\ ~ InFault /\ Doing = "pit_stub" /\ Current # <<>> /\ ~ InUserMode
      /\ cpu.pc = "pit_stub" /\ Goto("TimerTick")
      /\ isr' \subseteq isr
      /\ UNCHANGED <<IFlag, esp, mem, activities, switchVars, imr, irr, idt, mapped, halted>>
    BY AtFacts DEF PitStub, EndInterrupt, FaultCode, BootCode, TickCode, WayOut
<1>2. /\ cpu' \in Codes /\ cpu'.pc = "TimerTick" /\ cpu'.who = CurrentThread /\ cpu'.page = cpu.page
      /\ ~ InFault' /\ Current' = Current /\ Doing' = "TimerTick"
      /\ CurrentThread' = CurrentThread /\ tssEsp0' = tssEsp0 /\ esp0' = esp0
      /\ StacksKeepContext' /\ Shape' /\ KernelStack'
    BY <1>1, GotoKeeps DEF FaultCode, BootCode, TickCode, WayOut
<1>3. Types'
    BY <1>1, <1>2 DEF IInv, Types, TypeOK, picVars, Codes, Owners
<1>4. StrayOnlyInConstructor'
    BY <1>1 DEF StrayOnlyInConstructor
<1>5. Suspended'
    BY <1>1, <1>2 DEF IInv, Suspended
<1>6. Booting'
    BY <1>1, <1>2 DEF IInv, Booting, BootCode, picVars
<1>7. Masked' /\ FirstPage' /\ Room'
    BY <1>1, <1>2 DEF IInv, Masked, FirstPage, Room, TickCode
<1> QED BY <1>2, <1>3, <1>4, <1>5, <1>6, <1>7 DEF IInv

LEMMA StayIInv == ASSUME IInv, Stay PROVE IInv'
<1>1. /\ ~ halted /\ ~ InFault /\ Doing = "TimerTick" /\ Current # <<>> /\ ~ InUserMode
      /\ cpu.pc = "TimerTick" /\ Goto("unwind")
      /\ UNCHANGED <<IFlag, esp, mem, activities, switchVars, picVars, idt, mapped, halted>>
    BY AtFacts DEF Stay, FaultCode, BootCode, TickCode, WayOut
<1>2. /\ cpu' \in Codes /\ cpu'.pc = "unwind" /\ cpu'.who = CurrentThread /\ cpu'.page = cpu.page
      /\ ~ InFault' /\ Current' = Current /\ Doing' = "unwind"
      /\ CurrentThread' = CurrentThread /\ tssEsp0' = tssEsp0 /\ esp0' = esp0
      /\ StacksKeepContext' /\ Shape' /\ KernelStack'
    BY <1>1, GotoKeeps DEF FaultCode, BootCode, TickCode, WayOut
<1>3. Types'
    BY <1>1, <1>2 DEF IInv, Types, TypeOK, picVars, Codes, Owners
<1>4. StrayOnlyInConstructor'
    BY <1>1 DEF StrayOnlyInConstructor
<1>5. Suspended'
    BY <1>1, <1>2 DEF IInv, Suspended
<1>6. Booting'
    BY <1>1, <1>2 DEF IInv, Booting, BootCode, picVars
<1>7. Masked' /\ FirstPage' /\ Room'
    BY <1>1, <1>2 DEF IInv, Masked, FirstPage, Room, TickCode
<1> QED BY <1>2, <1>3, <1>4, <1>5, <1>6, <1>7 DEF IInv

LEMMA MapDirectlyIInv == ASSUME IInv, MapDirectly PROVE IInv'
<1>1. /\ ~ halted /\ InFault /\ Current # <<>> /\ ~ InUserMode
      /\ cpu.pc = "page_fault" /\ Goto("resolved")
      /\ mapped' = mapped \cup {cpu.page} /\ cpu.page # 0
      /\ UNCHANGED <<IFlag, esp, mem, activities, switchVars, picVars, idt, halted>>
    BY AtFacts DEF MapDirectly, Allocates, FaultCode, BootCode, TickCode, WayOut
<1>2. /\ cpu' \in Codes /\ cpu'.pc = "resolved" /\ cpu'.who = CurrentThread /\ cpu'.page = cpu.page
      /\ InFault' /\ Current' = Current /\ Doing' = Doing
      /\ CurrentThread' = CurrentThread /\ tssEsp0' = tssEsp0 /\ esp0' = esp0
      /\ StacksKeepContext' /\ Shape' /\ KernelStack'
    BY <1>1, GotoKeeps DEF FaultCode, BootCode, TickCode, WayOut
<1>3. Types'
    BY <1>1, <1>2 DEF IInv, Types, TypeOK, picVars, Codes, Owners
<1>4. StrayOnlyInConstructor'
    BY <1>1 DEF StrayOnlyInConstructor
<1>5. Suspended'
    BY <1>1, <1>2 DEF IInv, Suspended
<1>6. Booting'
    BY <1>1, <1>2 DEF IInv, Booting, BootCode, picVars
<1>7. Masked' /\ FirstPage' /\ Room'
    BY <1>1, <1>2 DEF IInv, Masked, FirstPage, Room, TickCode
<1> QED BY <1>2, <1>3, <1>4, <1>5, <1>6, <1>7 DEF IInv

LEMMA BeginAllocIInv == ASSUME IInv, BeginAlloc PROVE IInv'
<1>1. /\ ~ halted /\ InFault /\ Current # <<>> /\ ~ InUserMode
      /\ cpu.pc = "page_fault" /\ Goto("alloc")
      /\ IFlag' = FALSE /\ cpu.page = 0
      /\ UNCHANGED <<esp, mem, activities, switchVars, picVars, idt, mapped, halted>>
    BY AtFacts DEF BeginAlloc, Allocates, FaultCode, BootCode, TickCode, WayOut
<1>2. /\ cpu' \in Codes /\ cpu'.pc = "alloc" /\ cpu'.who = CurrentThread /\ cpu'.page = cpu.page
      /\ InFault' /\ Current' = Current /\ Doing' = Doing
      /\ CurrentThread' = CurrentThread /\ tssEsp0' = tssEsp0 /\ esp0' = esp0
      /\ StacksKeepContext' /\ Shape' /\ KernelStack'
    BY <1>1, GotoKeeps DEF FaultCode, BootCode, TickCode, WayOut
<1>3. Types'
    BY <1>1, <1>2 DEF IInv, Types, TypeOK, picVars, Codes, Owners
<1>4. StrayOnlyInConstructor'
    BY <1>1 DEF StrayOnlyInConstructor
<1>5. Suspended'
    BY <1>1, <1>2 DEF IInv, Suspended
<1>6. Booting'
    BY <1>1, <1>2 DEF IInv, Booting, BootCode, picVars
<1>7. Masked' /\ FirstPage' /\ Room'
    BY <1>1, <1>2 DEF IInv, Masked, FirstPage, Room, TickCode
<1> QED BY <1>2, <1>3, <1>4, <1>5, <1>6, <1>7 DEF IInv

LEMMA EndAllocIInv == ASSUME IInv, EndAlloc PROVE IInv'
<1>1. /\ ~ halted /\ InFault /\ Current # <<>> /\ ~ InUserMode
      /\ cpu.pc = "alloc" /\ Goto("resolved")
      /\ mapped' = mapped \cup {cpu.page} /\ IFlag' = TRUE
      /\ UNCHANGED <<esp, mem, activities, switchVars, picVars, idt, halted>>
    BY AtFacts DEF EndAlloc, FaultCode, BootCode, TickCode, WayOut
<1>2. /\ cpu' \in Codes /\ cpu'.pc = "resolved" /\ cpu'.who = CurrentThread /\ cpu'.page = cpu.page
      /\ InFault' /\ Current' = Current /\ Doing' = Doing
      /\ CurrentThread' = CurrentThread /\ tssEsp0' = tssEsp0 /\ esp0' = esp0
      /\ StacksKeepContext' /\ Shape' /\ KernelStack'
    BY <1>1, GotoKeeps DEF FaultCode, BootCode, TickCode, WayOut
<1>3. Types'
    BY <1>1, <1>2 DEF IInv, Types, TypeOK, FirstPage, picVars, Codes, Owners
<1>4. StrayOnlyInConstructor'
    BY <1>1 DEF StrayOnlyInConstructor
<1>5. Suspended'
    BY <1>1, <1>2 DEF IInv, Suspended
<1>6. Booting'
    BY <1>1, <1>2 DEF IInv, Booting, BootCode, picVars
<1>7. Masked' /\ FirstPage' /\ Room'
    BY <1>1, <1>2 DEF IInv, Masked, FirstPage, Room, TickCode
<1> QED BY <1>2, <1>3, <1>4, <1>5, <1>6, <1>7 DEF IInv

-----------------------------------------------------------------------------
(* A request changes nothing the invariant is about; nor does one that     *)
(* finds no gate in the constructor.                                       *)
LEMMA QuietIInv ==
    ASSUME IInv, UNCHANGED <<cpuVars, switchVars, imr, idt, mapped>>,
           irr' \subseteq Lines, isr' \subseteq Lines, halted' \in BOOLEAN,
           halted' => cpu.pc = "Constructor"
    PROVE  IInv'
<1>1. /\ cpu' = cpu /\ IFlag' = IFlag /\ esp' = esp /\ mem' = mem /\ activities' = activities
      /\ esp0' = esp0 /\ tssEsp0' = tssEsp0 /\ CurrentThread' = CurrentThread
      /\ imr' = imr /\ idt' = idt /\ mapped' = mapped
    BY DEF cpuVars, switchVars
<1>2. InFault' = InFault /\ Current' = Current /\ Doing' = Doing /\ InUserMode' = InUserMode
    BY <1>1 DEF InFault, Current, Doing, InUserMode
<1>3. Types'
    BY <1>1 DEF IInv, Types, TypeOK
<1>4. StacksKeepContext'
    BY <1>1, <1>2 DEF IInv, StacksKeepContext, Depth
<1>5. StrayOnlyInConstructor'
    BY <1>1 DEF StrayOnlyInConstructor
<1>6. Shape' /\ Suspended'
    BY <1>1, <1>2 DEF IInv, Shape, Suspended
<1>7. Booting' /\ Masked' /\ FirstPage' /\ Room' /\ KernelStack'
    BY <1>1, <1>2 DEF IInv, Booting, Masked, FirstPage, Room, KernelStack
<1> QED BY <1>3, <1>4, <1>5, <1>6, <1>7 DEF IInv

LEMMA EdgeIInv == ASSUME IInv, NEW irq \in Lines, Edge(irq) PROVE IInv'
BY QuietIInv DEF Edge, IInv, Types, TypeOK, StrayOnlyInConstructor

(* What was interrupted joins what the current thread is in the middle of. *)
LEMMA PushActivity ==
    ASSUME IInv, ~ InFault, UNCHANGED CurrentThread,
           activities' = [activities EXCEPT ![CurrentThread] = Append(Current, cpu)]
    PROVE  /\ activities' \in [Owners -> Seq(Codes)]
           /\ Len(Current') = Len(Current) + 1 /\ Current' # <<>>
           /\ Current'[Len(Current')] = cpu
           /\ \A t \in Owners \ {CurrentThread} : activities'[t] = activities[t]
           /\ \A t \in Owners : \A i \in 1 .. Len(activities'[t]) :
                 /\ activities'[t][i].who = t
                 /\ ~ (t = CurrentThread /\ i = Len(activities'[t]))
                       => activities'[t][i].pc \in IF i = 1 THEN {"code"} ELSE WayOut
<1> DEFINE new == Append(Current, cpu)
<1>1. new \in Seq(Codes)
    BY CurrentFacts
<1>2. /\ Len(new) = Len(Current) + 1 /\ new # <<>> /\ new[Len(new)] = cpu
      /\ \A i \in 1 .. Len(Current) : new[i] = Current[i]
    BY CurrentFacts, AppendProperties
<1> HIDE DEF new
<1>3. activities' \in [Owners -> Seq(Codes)]
    BY <1>1, CurrentFacts DEF IInv, Types, new
<1>4. Current' = new /\ activities'[CurrentThread] = new
    BY CurrentFacts DEF IInv, Types, Current, new
<1>5. \A t \in Owners \ {CurrentThread} : activities'[t] = activities[t]
    BY DEF IInv, Types
<1>6. ASSUME NEW t \in Owners, NEW i \in 1 .. Len(activities'[t])
      PROVE  /\ activities'[t][i].who = t
             /\ ~ (t = CurrentThread /\ i = Len(activities'[t]))
                   => activities'[t][i].pc \in IF i = 1 THEN {"code"} ELSE WayOut
    <2>1. CASE t # CurrentThread
        BY <1>5, <2>1 DEF IInv, Shape
    <2>2. CASE t = CurrentThread /\ i = Len(new)
        BY <1>2, <1>4, <2>2, CurrentFacts
    <2>3. CASE t = CurrentThread /\ i # Len(new)
        <3>1. i \in 1 .. Len(Current)
            BY <1>2, <1>4, <2>3, CurrentFacts
        <3> QED BY <1>2, <1>4, <2>3, <3>1, CurrentShape
    <2> QED BY <2>1, <2>2, <2>3
<1> QED BY <1>2, <1>3, <1>4, <1>5, <1>6

LEMMA DeliverIInv == ASSUME IInv, NEW irq \in Lines, Deliver(irq) PROVE IInv'
<1> DEFINE vector == RemapBase + irq
           code == Code(cpu.who, "pit_stub")
<1>1. /\ ~ halted /\ IFlag /\ Unmasked(irq) /\ esp.depth + 3 <= MaxFrames
      /\ irr' = irr \ {irq} /\ isr' = isr \cup {irq}
      /\ Enter(vector, code)
      /\ UNCHANGED <<switchVars, imr, idt, mapped>>
    BY DEF Deliver, Raised
<1>2. irr' \subseteq Lines /\ isr' \subseteq Lines
    BY <1>1 DEF IInv, Types, TypeOK
<1>3. CASE Doing = "Constructor"
    <2>1. cpu.pc = "Constructor"
        BY <1>3 DEF IInv, Shape, Doing, MayFault
    <2>2. idt[vector] = "none"
        BY <1>3 DEF IInv, Booting, BootCode
    <2>3. halted' = TRUE /\ UNCHANGED cpuVars
        BY <1>1, <2>2 DEF Enter
    <2> QED BY <1>1, <1>2, <2>1, <2>3, QuietIInv
<1>4. CASE Doing # "Constructor"
    <2>1. irq = Timer /\ Doing \notin BootCode
        <3>1. MasterLine(irq) \in 0 .. 7 /\ MasterLine(irq) \notin imr.master
            BY <1>1 DEF Unmasked, MasterLine, OnMaster, Lines, Timer, CascadeLine
        <3>2. Doing \notin BootCode /\ imr.master = 1 .. 7
            BY <1>4, <3>1 DEF IInv, Booting, BootCode
        <3> QED BY <3>1, <3>2 DEF MasterLine, OnMaster, Lines, Timer, CascadeLine
    <2>2. idt[vector] = "interrupt"
        <3>1. vector \in Vectors /\ vector # PageFault
            BY <2>1 DEF Vectors, Lines, RemapBase, Timer, PageFault
        <3>2. idt[vector] # "none"
            BY <2>1 DEF IInv, Booting, Lines, Timer
        <3> QED BY <3>1, <3>2 DEF IInv, Types, TypeOK
    <2>3. ~ InFault /\ Doing = cpu.pc /\ cpu.pc \notin BootCode \cup TickCode \cup {"section"}
        BY <1>1, <2>1 DEF IInv, Masked, Shape, MayFault, BootCode, TickCode, Doing
    <2>4. code \in Codes /\ code.who = CurrentThread /\ code.pc = "pit_stub" /\ esp.depth + 2 <= MaxFrames
        BY <1>1, CurrentFacts DEF Code, Codes, Places, TickCode
    <2>5. /\ CurrentThread' = CurrentThread /\ esp0' = esp0 /\ tssEsp0' = tssEsp0
          /\ imr' = imr /\ idt' = idt /\ mapped' = mapped
        BY <1>1 DEF switchVars
    <2> HIDE DEF vector, code
    <2>6. /\ esp' = [stack |-> CurrentThread, depth |-> Len(Current) + 1]
          /\ Len(Current) + 1 <= MaxFrames /\ Len(Current) <= esp.depth
          /\ activities' = [activities EXCEPT ![CurrentThread] = Append(Current, cpu)]
          /\ mem' = [mem EXCEPT ![CurrentThread][Len(Current) + 1] = Frame(cpu, IFlag)]
          /\ cpu' = code /\ ~ IFlag' /\ IFlag' \in BOOLEAN /\ UNCHANGED halted
          /\ StacksKeepContext'
        BY <1>1, <2>2, <2>4, <2>5, EnterContext
    <2>7. /\ ~ InFault' /\ Doing' = "pit_stub" /\ cpu'.pc = "pit_stub"
        BY <2>4, <2>6 DEF InFault, FaultCode, Doing
    <2>8. /\ activities' \in [Owners -> Seq(Codes)]
          /\ Len(Current') = Len(Current) + 1 /\ Current' # <<>>
          /\ Current'[Len(Current')] = cpu
          /\ \A t \in Owners \ {CurrentThread} : activities'[t] = activities[t]
          /\ \A t \in Owners : \A i \in 1 .. Len(activities'[t]) :
                /\ activities'[t][i].who = t
                /\ ~ (t = CurrentThread /\ i = Len(activities'[t]))
                      => activities'[t][i].pc \in IF i = 1 THEN {"code"} ELSE WayOut
        BY <2>3, <2>5, <2>6, PushActivity
    <2>9. Types'
        <3>1. mem' \in [Owners -> [1 .. MaxFrames -> [code : Codes, flag : BOOLEAN]]]
            BY <2>6, CurrentFacts DEF IInv, Types, Frame
        <3>2. esp' \in [stack : Owners, depth : 0 .. MaxFrames]
            BY <2>6, CurrentFacts
        <3> QED BY <1>2, <2>4, <2>5, <2>6, <2>8, <3>1, <3>2, CurrentFacts DEF IInv, Types, TypeOK, Owners
    <2>10. Shape'
        <3>1. cpu.pc \in IF Len(Current') = 1 THEN {"code"} ELSE WayOut
            BY <2>3, <2>8, CurrentFacts DEF IInv, Shape, InFault
        <3>2. \A t \in Owners : \A i \in 1 .. Len(activities'[t]) :
                 activities'[t][i].pc \in IF i = 1 THEN {"code"} ELSE WayOut
            BY <2>5, <2>8, <3>1 DEF Current
        <3> QED BY <2>7, <2>8, <3>2 DEF Shape, TickCode
    <2>11. Suspended'
        BY <2>1, <2>5, <2>7, <2>8 DEF IInv, Suspended, BootCode, Owners
    <2>12. Booting'
        <3>1. imr.master = 1 .. 7
            BY <2>1 DEF IInv, Booting, BootCode
        <3> QED BY <2>1, <2>5, <2>7, <3>1 DEF IInv, Booting, BootCode
    <2>13. FirstPage' /\ KernelStack'
        <3>1. 0 \in mapped
            BY <2>1 DEF IInv, FirstPage, BootCode
        <3> QED BY <2>5, <2>7, <3>1 DEF IInv, FirstPage, KernelStack
    <2>14. StrayOnlyInConstructor' /\ Masked'
        BY <1>1, <2>6, <2>7 DEF StrayOnlyInConstructor, Masked
    <2>15. Room'
        <3>1. esp'.depth = Len(Current) + 1 /\ ~ InFault'
            BY <2>6, <2>7
        <3>2. esp.depth \in Nat /\ Len(Current) \in Nat /\ MaxFrames \in Nat
            BY CurrentFacts
        <3> QED BY <1>1, <2>6, <3>1, <3>2 DEF Room
    <2> QED BY <2>6, <2>9, <2>10, <2>11, <2>12, <2>13, <2>14, <2>15 DEF IInv
<1> QED BY <1>3, <1>4

LEMMA FaultIInv == ASSUME IInv, NEW page \in HeapPages, Fault(page) PROVE IInv'
<1> DEFINE code == [who |-> cpu.who, pc |-> "page_fault", page |-> page]
<1>1. /\ ~ halted /\ page \notin mapped /\ esp.depth + 2 <= MaxFrames
      /\ Enter(PageFault, code)
      /\ UNCHANGED <<switchVars, picVars, idt, mapped>>
    BY DEF Fault, At
<1>2. /\ cpu.pc \in MayFault /\ ~ InFault /\ Doing = cpu.pc /\ ~ InUserMode
      /\ (cpu.pc = "TimerTick" <=> Len(Current) > 0)
    <2>1. cpu.pc \in MayFault
        BY DEF Fault, At, MayFault
    <2>2. ~ InFault /\ Doing = cpu.pc /\ ~ InUserMode
        BY <2>1 DEF InFault, Doing, FaultCode, MayFault, InUserMode
    <2>3. cpu.pc \in IF Len(Current) = 0 THEN BootCode \cup {"code", "section"}
                                        ELSE TickCode \cup WayOut \cup FaultCode
        BY CurrentFacts DEF IInv, Shape
    <2> QED BY <2>1, <2>2, <2>3, CurrentFacts DEF MayFault, BootCode, TickCode, WayOut, FaultCode
<1>3. idt[PageFault] = "trap"
    BY <1>2 DEF IInv, Types, TypeOK, Booting, MayFault, Vectors
<1>4. /\ code \in Codes /\ code.who = CurrentThread
      /\ code.pc = "page_fault" /\ code.page = page
    BY CurrentFacts DEF Codes, Places, FaultCode
<1>5. /\ CurrentThread' = CurrentThread /\ esp0' = esp0 /\ tssEsp0' = tssEsp0
      /\ imr' = imr /\ irr' = irr /\ isr' = isr /\ idt' = idt /\ mapped' = mapped
    BY <1>1 DEF switchVars, picVars
<1> HIDE DEF code
<1>6. /\ esp' = [stack |-> CurrentThread, depth |-> Len(Current) + 1]
      /\ Len(Current) + 1 <= MaxFrames /\ Len(Current) = esp.depth
      /\ activities' = [activities EXCEPT ![CurrentThread] = Append(Current, cpu)]
      /\ mem' = [mem EXCEPT ![CurrentThread][Len(Current) + 1] = Frame(cpu, IFlag)]
      /\ cpu' = code /\ IFlag' = IFlag /\ UNCHANGED halted
      /\ StacksKeepContext'
    BY <1>1, <1>2, <1>3, <1>4, <1>5, EnterContext, CurrentFacts
<1>7. /\ activities' \in [Owners -> Seq(Codes)]
      /\ Len(Current') = Len(Current) + 1 /\ Current' # <<>>
      /\ Current'[Len(Current')] = cpu
      /\ \A t \in Owners \ {CurrentThread} : activities'[t] = activities[t]
      /\ \A t \in Owners : \A i \in 1 .. Len(activities'[t]) :
            /\ activities'[t][i].who = t
            /\ ~ (t = CurrentThread /\ i = Len(activities'[t]))
                  => activities'[t][i].pc \in IF i = 1 THEN {"code"} ELSE WayOut
    BY <1>2, <1>5, <1>6, PushActivity
<1>8. InFault' /\ Doing' = Doing /\ cpu'.pc = "page_fault" /\ cpu'.page = page
    BY <1>2, <1>4, <1>6, <1>7 DEF InFault, FaultCode, Doing
<1>9. Types'
    <2>1. mem' \in [Owners -> [1 .. MaxFrames -> [code : Codes, flag : BOOLEAN]]]
        BY <1>6, CurrentFacts DEF IInv, Types, Frame
    <2>2. esp' \in [stack : Owners, depth : 0 .. MaxFrames]
        BY <1>6, CurrentFacts
    <2> QED BY <1>4, <1>5, <1>6, <1>7, <2>1, <2>2, CurrentFacts DEF IInv, Types, TypeOK, Owners
<1>10. Shape'
    <2>1. Doing' \in MayFault /\ (Doing' = "TimerTick" <=> Len(Current') > 1)
        BY <1>2, <1>7, <1>8, CurrentFacts
    <2>2. \A t \in Owners : \A i \in 1 .. Len(activities'[t]) :
             /\ activities'[t][i].who = t
             /\ ~ (InFault' /\ t = CurrentThread' /\ i = Len(activities'[t]))
                   => activities'[t][i].pc \in IF i = 1 THEN {"code"} ELSE WayOut
        BY <1>5, <1>7, <1>8
    <2> QED BY <1>7, <1>8, <2>1, <2>2 DEF Shape, FaultCode
<1>11. Suspended'
    BY <1>5, <1>7, <1>8 DEF IInv, Suspended, Owners
<1>12. Booting' /\ KernelStack'
    BY <1>5, <1>8 DEF IInv, Booting, KernelStack
<1>13. FirstPage'
    BY <1>1, <1>2, <1>5, <1>8 DEF IInv, FirstPage, MayFault
<1>14. Masked'
    <2>1. mem'[esp'.stack][esp'.depth].flag = IFlag
        BY <1>6, CurrentFacts DEF IInv, Types, Frame
    <2> QED BY <1>6, <1>8, <2>1 DEF IInv, Masked
<1>15. Room'
    BY <1>2, <1>6, <1>8, CurrentFacts DEF IInv, Room
<1>16. StrayOnlyInConstructor'
    BY <1>1, <1>6 DEF StrayOnlyInConstructor
<1> QED BY <1>6, <1>9, <1>10, <1>11, <1>12, <1>13, <1>14, <1>15, <1>16 DEF IInv

(* What the current thread returns to leaves what it is in the middle of.  *)
LEMMA PopActivity ==
    ASSUME IInv, Len(Current) >= 1, UNCHANGED CurrentThread,
           activities' = [activities EXCEPT
                             ![CurrentThread] = SubSeq(Current, 1, Len(Current) - 1)]
    PROVE  /\ activities' \in [Owners -> Seq(Codes)]
           /\ Len(Current') = Len(Current) - 1 /\ (Current' = <<>> <=> Len(Current) = 1)
           /\ \A t \in Owners \ {CurrentThread} : activities'[t] = activities[t]
           /\ \A t \in Owners : \A i \in 1 .. Len(activities'[t]) :
                 /\ activities'[t][i].who = t
                 /\ activities'[t][i].pc \in IF i = 1 THEN {"code"} ELSE WayOut
<1> DEFINE new == SubSeq(Current, 1, Len(Current) - 1)
<1>1. /\ new \in Seq(Codes) /\ Len(new) = Len(Current) - 1
      /\ \A i \in 1 .. Len(Current) - 1 : new[i] = Current[i]
    BY CurrentFacts, ButLast
<1> HIDE DEF new
<1>2. Current' = new /\ activities'[CurrentThread] = new /\ activities' \in [Owners -> Seq(Codes)]
    BY <1>1, CurrentFacts DEF IInv, Types, Current, new
<1>3. \A t \in Owners \ {CurrentThread} : activities'[t] = activities[t]
    BY DEF IInv, Types
<1>4. Current' = <<>> <=> Len(Current) = 1
    BY <1>1, <1>2, EmptySeq, CurrentFacts
<1>5. ASSUME NEW t \in Owners, NEW i \in 1 .. Len(activities'[t])
      PROVE  /\ activities'[t][i].who = t
             /\ activities'[t][i].pc \in IF i = 1 THEN {"code"} ELSE WayOut
    <2>1. CASE t # CurrentThread
        BY <1>3, <2>1 DEF IInv, Shape
    <2>2. CASE t = CurrentThread
        <3>1. i \in 1 .. Len(Current) /\ i # Len(Current) /\ i \in 1 .. Len(Current) - 1
            BY <1>1, <1>2, <2>2, CurrentFacts
        <3> QED BY <1>1, <1>2, <2>2, <3>1, CurrentShape
    <2> QED BY <2>1, <2>2
<1> QED BY <1>1, <1>2, <1>3, <1>4, <1>5

LEMMA IretIInv == ASSUME IInv, Unwind \/ PerformIret \/ Resolved PROVE IInv'
<1> DEFINE n == Len(Current)
           back == Current[n]
<1>1. PICK pc \in WayOut \cup {"resolved"} : Iret(pc)
    BY DEF Unwind, PerformIret, Resolved, WayOut
<1>2. /\ n \in Nat /\ n >= 1 /\ n <= MaxFrames /\ back \in Codes
      /\ esp.stack = CurrentThread /\ esp.depth = n
      /\ cpu' = back /\ IFlag' = mem[CurrentThread][n].flag
      /\ esp' = [stack |-> CurrentThread, depth |-> n - 1]
      /\ activities' = [activities EXCEPT ![CurrentThread] = SubSeq(Current, 1, n - 1)]
      /\ mem' = [mem EXCEPT ![CurrentThread][n] = NoFrame]
      /\ UNCHANGED <<switchVars, picVars, idt, mapped, halted>>
      /\ StacksKeepContext'
    BY <1>1, IretContext, CurrentFacts
<1>3. /\ CurrentThread' = CurrentThread /\ esp0' = esp0 /\ tssEsp0' = tssEsp0
      /\ imr' = imr /\ irr' = irr /\ isr' = isr /\ idt' = idt /\ mapped' = mapped /\ halted' = halted
    BY <1>2 DEF switchVars, picVars
<1>4. ~ halted /\ cpu.pc \in WayOut \cup {"resolved"}
    BY <1>1 DEF Iret, At
<1> HIDE DEF n
<1>5. /\ activities' \in [Owners -> Seq(Codes)]
      /\ Len(Current') = n - 1 /\ (Current' = <<>> <=> n = 1)
      /\ \A t \in Owners \ {CurrentThread} : activities'[t] = activities[t]
      /\ \A t \in Owners : \A i \in 1 .. Len(activities'[t]) :
            /\ activities'[t][i].who = t
            /\ activities'[t][i].pc \in IF i = 1 THEN {"code"} ELSE WayOut
    BY <1>2, <1>3, PopActivity DEF n
<1>6. /\ back.pc \notin FaultCode
      /\ back.pc \in IF n = 1 THEN BootCode \cup {"code", "section"} ELSE {"TimerTick"} \cup WayOut
      /\ IF InFault THEN back.pc = Doing ELSE back.pc \in {"code"} \cup WayOut
    <2>1. CASE InFault
        <3>1. back.pc = Doing
            BY <2>1 DEF Doing, n
        <3>2. Doing \in MayFault /\ (Doing = "TimerTick" <=> n > 1)
            BY <2>1 DEF IInv, Shape, n
        <3> QED BY <1>2, <2>1, <3>1, <3>2 DEF MayFault, FaultCode, BootCode
    <2>2. CASE ~ InFault
        <3>1. n \in 1 .. Len(Current)
            BY <1>2 DEF n
        <3> QED BY <2>2, <3>1, CurrentShape DEF FaultCode, BootCode, WayOut
    <2> QED BY <2>1, <2>2
<1> HIDE DEF back
<1>7. ~ InFault' /\ Doing' = back.pc
    BY <1>2, <1>6 DEF InFault, Doing
<1>8. ~ InFault => Doing \in WayOut
    BY <1>4 DEF InFault, FaultCode, Doing
<1>9. Types'
    <2>1. mem' \in [Owners -> [1 .. MaxFrames -> [code : Codes, flag : BOOLEAN]]]
        <3>1. NoFrame \in [code : Codes, flag : BOOLEAN]
            BY DEF NoFrame, Frame, Code, Codes, Places, Owners
        <3> QED BY <1>2, <3>1, CurrentFacts DEF IInv, Types
    <2>2. esp' \in [stack : Owners, depth : 0 .. MaxFrames]
        BY <1>2, CurrentFacts
    <2>3. IFlag' \in BOOLEAN
        <3>1. n \in 1 .. MaxFrames /\ CurrentThread \in Owners
            BY <1>2, CurrentFacts
        <3>2. mem[CurrentThread][n] \in [code : Codes, flag : BOOLEAN]
            <4>1. mem \in [Owners -> [1 .. MaxFrames -> [code : Codes, flag : BOOLEAN]]]
                BY DEF IInv, Types
            <4> QED BY <3>1, <4>1
        <3> QED BY <1>2, <3>2
    <2>4. cpu' \in Codes /\ cpu'.who \in Owners
        BY <1>2 DEF Codes
    <2> QED BY <1>3, <1>5, <2>1, <2>2, <2>3, <2>4, CurrentFacts DEF IInv, Types, TypeOK, Owners
<1>10. Shape'
    <2>1. cpu'.pc \in IF Current' = <<>> THEN BootCode \cup {"code", "section"}
                                        ELSE TickCode \cup WayOut \cup FaultCode
        BY <1>2, <1>5, <1>6 DEF TickCode
    <2> QED BY <1>5, <1>7, <2>1 DEF Shape
<1>11. Suspended'
    BY <1>3, <1>5, <1>6, <1>7, <1>8 DEF IInv, Suspended, Owners, WayOut
<1>12. Booting'
    BY <1>3, <1>6, <1>7, <1>8 DEF IInv, Booting, BootCode, WayOut
<1>13. FirstPage' /\ KernelStack'
    BY <1>2, <1>3, <1>6, <1>7, <1>8 DEF IInv, FirstPage, KernelStack, FaultCode, WayOut
<1>14. Masked' /\ Room'
    <2>1. CASE InFault
        BY <1>2, <1>6, <1>7, <2>1 DEF IInv, Masked, Room
    <2>2. CASE ~ InFault
        BY <1>6, <1>7, <2>2 DEF Masked, Room, TickCode, WayOut
    <2> QED BY <2>1, <2>2
<1>15. StrayOnlyInConstructor'
    BY <1>3, <1>4 DEF StrayOnlyInConstructor
<1> QED BY <1>2, <1>9, <1>10, <1>11, <1>12, <1>13, <1>14, <1>15 DEF IInv

(* Switch leaves the old thread in do_switch on its own stack, and is in   *)
(* the middle of what the new one was left in.                             *)
LEMMA SwitchIInv == ASSUME IInv, NEW t \in Threads, Switch(t) PROVE IInv'
<1> DEFINE o == CurrentThread
           n == Len(Current)
           m == Len(activities[t])
           here == [cpu EXCEPT !.pc = "unwind"]
           pushed == [esp EXCEPT !.depth = @ + 1]
           left == [mem EXCEPT ![esp.stack][esp.depth + 1] = Frame(here, FALSE)]
           new == esp0[t]
           back == activities[t][m]
           kept == SubSeq(activities[t], 1, m - 1)
<1>1. /\ ~ halted /\ ~ InFault /\ Doing = "TimerTick" /\ Current # <<>> /\ ~ InUserMode
      /\ t # o /\ o \in Owners /\ t \in Owners
    BY AtFacts, CurrentFacts DEF Switch, FaultCode, TickCode, Owners
<1>2. n \in Nat /\ n >= 1 /\ n + 2 <= MaxFrames /\ esp.stack = o /\ esp.depth = n
    BY <1>1, CurrentFacts DEF IInv, Room, TickCode
<1>3. m \in Nat /\ m > 1 /\ m <= MaxFrames /\ new.stack = t /\ new.depth = m
      /\ new \in [stack : Threads, depth : 0 .. MaxFrames]
      /\ activities[t] \in Seq(Codes)
      /\ \A d \in 1 .. m : mem[t][d].code = activities[t][d]
    <2>1. activities[t] \in Seq(Codes) /\ m \in Nat
        BY <1>1 DEF IInv, Types
    <2>2. new \in [stack : Threads, depth : 0 .. MaxFrames]
        BY DEF IInv, Types, TypeOK
    <2>3. new.stack = t /\ m > 1
        BY <1>1 DEF IInv, Suspended
    <2>4. new.depth = m /\ \A d \in 1 .. m : mem[t][d].code = activities[t][d]
        BY <1>1 DEF IInv, StacksKeepContext, Depth
    <2> QED BY <2>1, <2>2, <2>3, <2>4
<1>4. back \in Codes /\ back.who = t /\ back.pc \in WayOut
    BY <1>1, <1>3, ElementOfSeq DEF IInv, Shape
<1>5. here \in Codes /\ here.who = o /\ here.pc = "unwind"
    BY CurrentFacts DEF Codes, Places, WayOut
<1>6. /\ left = [mem EXCEPT ![o][n + 1] = Frame(here, FALSE)]
      /\ left \in [Owners -> [1 .. MaxFrames -> [code : Codes, flag : BOOLEAN]]]
      /\ left[t] = mem[t]
      /\ left[o][n + 1].code = here
      /\ \A d \in 1 .. n : left[o][d] = mem[o][d]
      /\ \A u \in Owners \ {o} : left[u] = mem[u]
    <2>1. left = [mem EXCEPT ![o][n + 1] = Frame(here, FALSE)]
        BY <1>2
    <2>2. Frame(here, FALSE) \in [code : Codes, flag : BOOLEAN] /\ Frame(here, FALSE).code = here
        BY <1>5 DEF Frame
    <2>3. n + 1 \in 1 .. MaxFrames
        BY <1>2, CurrentFacts
    <2> HIDE DEF left, here
    <2>4. mem \in [Owners -> [1 .. MaxFrames -> [code : Codes, flag : BOOLEAN]]]
        BY DEF IInv, Types
    <2>5. left \in [Owners -> [1 .. MaxFrames -> [code : Codes, flag : BOOLEAN]]]
        BY <2>1, <2>2, <2>4
    <2>6. left[o] = [mem[o] EXCEPT ![n + 1] = Frame(here, FALSE)]
          /\ (\A u \in Owners \ {o} : left[u] = mem[u])
        BY <1>1, <2>1, <2>4
    <2>7. left[o][n + 1].code = here
        BY <1>1, <2>2, <2>3, <2>4, <2>6
    <2>8. \A d \in 1 .. n : left[o][d] = mem[o][d]
        <3>1. MaxFrames \in Nat
            BY CurrentFacts
        <3>2. \A d \in 1 .. n : d \in 1 .. MaxFrames /\ d # n + 1
            BY <1>2, <3>1
        <3>3. mem[o] \in [1 .. MaxFrames -> [code : Codes, flag : BOOLEAN]]
            BY <1>1, <2>4
        <3> QED BY <2>6, <3>2, <3>3
    <2> QED BY <1>1, <2>1, <2>5, <2>6, <2>7, <2>8
<1>7. /\ mem' = PoppedAt(left, new)
      /\ esp0' = IF o = Startup THEN esp0 ELSE [esp0 EXCEPT ![o] = pushed]
      /\ cpu' = left[new.stack][new.depth].code
      /\ esp' = [new EXCEPT !.depth = @ - 1]
      /\ tssEsp0' = KernelStackOf(t)
      /\ CurrentThread' = t
      /\ IFlag' = TRUE
      /\ activities' = [activities EXCEPT ![cpu.who] = Append(@, here),
                                          ![t] = SubSeq(@, 1, Len(@) - 1)]
      /\ UNCHANGED <<picVars, idt, mapped, halted>>
    BY DEF Switch
<1> HIDE DEF here, left
<1>8. /\ mem' = [left EXCEPT ![t][m] = NoFrame]
      /\ cpu' = back
      /\ esp' = [stack |-> t, depth |-> m - 1]
      /\ pushed = [stack |-> o, depth |-> n + 1]
    <2>1. mem' = [left EXCEPT ![t][m] = NoFrame]
        BY <1>3, <1>7 DEF PoppedAt
    <2>2. cpu' = mem[t][m].code
        BY <1>3, <1>6, <1>7
    <2>3. cpu' = back
        BY <1>3, <2>2
    <2>4. esp' = [stack |-> t, depth |-> m - 1]
        BY <1>3, <1>7
    <2>5. pushed = [stack |-> o, depth |-> n + 1]
        BY <1>2, CurrentFacts
    <2> QED BY <2>1, <2>3, <2>4, <2>5
<1> HIDE DEF pushed, new
<1>9. /\ activities' \in [Owners -> Seq(Codes)]
      /\ activities'[o] = Append(Current, here)
      /\ activities'[t] = kept
      /\ \A u \in Owners \ {o, t} : activities'[u] = activities[u]
    <2>1. activities' = [activities EXCEPT ![o] = Append(Current, here), ![t] = kept]
        BY <1>1, <1>7, CurrentFacts DEF IInv, Types, Current
    <2>2. Append(Current, here) \in Seq(Codes) /\ kept \in Seq(Codes)
        BY <1>3, <1>5, CurrentFacts, ButLast
    <2> HIDE DEF kept
    <2> QED BY <1>1, <2>1, <2>2 DEF IInv, Types
<1>10. /\ Len(activities'[o]) = n + 1 /\ activities'[o][n + 1] = here
       /\ \A i \in 1 .. n : activities'[o][i] = Current[i]
    BY <1>5, <1>9, CurrentFacts, AppendProperties
<1>11. /\ Len(activities'[t]) = m - 1
       /\ \A i \in 1 .. m - 1 : activities'[t][i] = activities[t][i]
    BY <1>3, <1>9, ButLast
<1> HIDE DEF back, kept
<1>12. /\ cpu' \in Codes /\ cpu'.who = t /\ cpu'.pc \in WayOut
       /\ ~ InFault' /\ ~ InUserMode' /\ Doing' \in WayOut /\ Current' = activities'[t]
    BY <1>4, <1>7, <1>8 DEF InFault, InUserMode, Doing, Current, WayOut, FaultCode
<1>13. /\ imr' = imr /\ irr' = irr /\ isr' = isr /\ idt' = idt /\ mapped' = mapped /\ halted' = halted
    BY <1>7 DEF picVars
<1> HIDE DEF n, m
<1>14. /\ esp0' \in [Threads -> [stack : Threads, depth : 0 .. MaxFrames]]
       /\ o \in Threads => esp0'[o] = [stack |-> o, depth |-> n + 1]
       /\ \A u \in Threads \ {o} : esp0'[u] = esp0[u]
    <2>1. esp0 \in [Threads -> [stack : Threads, depth : 0 .. MaxFrames]]
        BY DEF IInv, Types, TypeOK
    <2>2. CASE o = Startup
        BY <1>7, <2>1, <2>2, InterruptsAssumption
    <2>3. CASE o # Startup
        <3>1. o \in Threads
            BY <1>1, <2>3 DEF Owners
        <3>2. pushed \in [stack : Threads, depth : 0 .. MaxFrames]
            BY <1>2, <1>8, <3>1, CurrentFacts
        <3> QED BY <1>7, <1>8, <2>1, <2>3, <3>1, <3>2
    <2> QED BY <2>2, <2>3
<1>15. mem' \in [Owners -> [1 .. MaxFrames -> [code : Codes, flag : BOOLEAN]]]
       /\ (\A u \in Owners \ {t} : mem'[u] = left[u])
       /\ (\A d \in 1 .. m - 1 : mem'[t][d] = mem[t][d])
    <2>1. NoFrame \in [code : Codes, flag : BOOLEAN]
        BY DEF NoFrame, Frame, Code, Codes, Places, Owners
    <2>2. m \in 1 .. MaxFrames
        BY <1>3, CurrentFacts
    <2>3. mem' \in [Owners -> [1 .. MaxFrames -> [code : Codes, flag : BOOLEAN]]]
        BY <1>6, <1>8, <2>1
    <2>4. mem'[t] = [mem[t] EXCEPT ![m] = NoFrame] /\ (\A u \in Owners \ {t} : mem'[u] = left[u])
        BY <1>1, <1>6, <1>8
    <2>5. mem[t] \in [1 .. MaxFrames -> [code : Codes, flag : BOOLEAN]]
        BY <1>1, <1>6
    <2>6. \A d \in 1 .. m - 1 : mem'[t][d] = mem[t][d]
        BY <1>3, <2>4, <2>5, CurrentFacts
    <2> QED BY <2>3, <2>4, <2>6
<1>16. Types'
    <2>1. esp' \in [stack : Owners, depth : 0 .. MaxFrames]
        BY <1>1, <1>3, <1>8, CurrentFacts
    <2>2. cpu'.who \in Owners /\ IFlag' \in BOOLEAN /\ CurrentThread' \in Owners
        BY <1>1, <1>7, <1>12
    <2> QED BY <1>9, <1>12, <1>13, <1>14, <1>15, <2>1, <2>2 DEF IInv, Types, TypeOK, Owners
<1>17. StacksKeepContext'
    <2>1. cpu'.who = CurrentThread' /\ esp'.stack = CurrentThread'
        BY <1>7, <1>8, <1>12
    <2>2. ASSUME NEW u \in Threads \cup {t}
          PROVE  /\ Depth(u)' = Len(activities'[u])
                 /\ \A d \in 1 .. Depth(u)' : mem'[u][d].code = activities'[u][d]
        <3>1. CASE u = t
            <4>1. Depth(u)' = m - 1
                BY <1>7, <1>8, <1>12, <3>1 DEF Depth
            <4>2. \A d \in 1 .. m - 1 : mem'[t][d].code = activities[t][d]
                <5>1. \A d \in 1 .. m - 1 : d \in 1 .. m
                    BY <1>3 DEF m
                <5> QED BY <1>3, <1>15, <5>1 DEF m
            <4> QED BY <1>11, <3>1, <4>1, <4>2
        <3>2. CASE u = o
            <4>1. u \in Threads /\ Depth(u)' = n + 1
                BY <1>1, <1>7, <1>14, <3>2 DEF Depth
            <4>2. mem'[o] = left[o]
                BY <1>1, <1>15
            <4>3. \A d \in 1 .. n : left[o][d].code = Current[d]
                BY <1>6, CurrentFacts DEF n
            <4>4. \A d \in 1 .. n + 1 : d \in 1 .. n \/ d = n + 1
                BY <1>2
            <4>5. \A d \in 1 .. n + 1 : mem'[o][d].code = activities'[o][d]
                BY <1>6, <1>10, <4>2, <4>3, <4>4
            <4> QED BY <1>10, <3>2, <4>1, <4>5
        <3>3. CASE u # o /\ u # t
            <4>1. /\ Depth(u) = Len(activities[u])
                  /\ \A d \in 1 .. Depth(u) : mem[u][d].code = activities[u][d]
                BY <3>3 DEF IInv, StacksKeepContext
            <4>2. Depth(u)' = Depth(u) /\ activities'[u] = activities[u] /\ mem'[u] = mem[u]
                BY <1>6, <1>7, <1>9, <1>14, <1>15, <3>3 DEF Depth, Owners
            <4> QED BY <4>1, <4>2
        <3> QED BY <3>1, <3>2, <3>3
    <2> QED BY <1>7, <2>1, <2>2 DEF StacksKeepContext
<1>18. Shape'
    <2>1. ASSUME NEW u \in Owners, NEW i \in 1 .. Len(activities'[u])
          PROVE  /\ activities'[u][i].who = u
                 /\ activities'[u][i].pc \in IF i = 1 THEN {"code"} ELSE WayOut
        <3>1. CASE u = t
            <4>1. i \in 1 .. Len(activities[t]) /\ i \in 1 .. m - 1
                BY <1>3, <1>11, <3>1 DEF m
            <4> QED BY <1>1, <1>11, <3>1, <4>1 DEF IInv, Shape
        <3>2. CASE u = o /\ i = n + 1
            BY <1>2, <1>5, <1>10, <3>2 DEF WayOut
        <3>3. CASE u = o /\ i # n + 1
            <4>1. i \in 1 .. n
                BY <1>2, <1>10, <3>3
            <4> QED BY <1>1, <1>10, <3>3, <4>1, CurrentShape DEF n
        <3>4. CASE u # o /\ u # t
            BY <1>9, <3>4 DEF IInv, Shape
        <3> QED BY <3>1, <3>2, <3>3, <3>4
    <2>2. Current' # <<>>
        BY <1>3, <1>11, <1>12, EmptySeq
    <2> QED BY <1>12, <2>1, <2>2 DEF Shape
<1>19. Suspended'
    <2>1. Doing' \notin {"Init", "InitDevices", "Constructor", "Create"}
        BY <1>12 DEF WayOut
    <2>2. ASSUME NEW u \in Threads
          PROVE  esp0'[u].stack = u /\ (u # t => Len(activities'[u]) > 1)
        <3>1. CASE u = o
            BY <1>2, <1>10, <1>14, <3>1
        <3>2. CASE u # o
            BY <1>1, <1>9, <1>14, <3>2 DEF IInv, Suspended, Owners
        <3> QED BY <3>1, <3>2
    <2> QED BY <1>7, <2>1, <2>2 DEF Suspended
<1>20. Booting'
    BY <1>1, <1>12, <1>13 DEF IInv, Booting, BootCode, WayOut
<1>21. FirstPage' /\ Masked' /\ Room'
    BY <1>1, <1>12, <1>13 DEF IInv, FirstPage, Masked, Room, TickCode, WayOut
<1>22. KernelStack' /\ StrayOnlyInConstructor'
    BY <1>1, <1>7, <1>13 DEF KernelStack, KernelStackOf, StrayOnlyInConstructor
<1> QED BY <1>16, <1>17, <1>18, <1>19, <1>20, <1>21, <1>22 DEF IInv

LEMMA CreateIInv == ASSUME IInv, Create PROVE IInv'
<1> DEFINE begun(t) == <<Code(t, "code"), Code(t, "perform_iret")>>
<1>1. /\ ~ halted /\ ~ InFault /\ Doing = "Create" /\ Current = <<>> /\ ~ InUserMode
      /\ CurrentThread = Startup /\ Startup \notin Threads
    BY AtFacts, InterruptsAssumption DEF Create, FaultCode, BootCode, IInv, Booting
<1>2. /\ mem' = [t \in Owners |-> IF t \in Threads THEN NewFrames(t) ELSE mem[t]]
      /\ esp0' = [t \in Threads |-> [stack |-> t, depth |-> 2]]
      /\ activities' = [t \in Owners |-> IF t \in Threads THEN begun(t) ELSE <<>>]
      /\ Goto("EnableAll")
      /\ UNCHANGED <<IFlag, esp, tssEsp0, CurrentThread, picVars, idt, mapped, halted>>
    <2>1. DOMAIN mem = Owners /\ DOMAIN activities = Owners
        BY DEF IInv, Types
    <2> QED BY <2>1 DEF Create
<1>3. /\ cpu' \in Codes /\ cpu'.pc = "EnableAll" /\ cpu'.who = Startup
      /\ ~ InFault' /\ Doing' = "EnableAll" /\ ~ InUserMode'
    BY <1>1, <1>2, CurrentFacts DEF Goto, Codes, Places, BootCode, InFault, FaultCode, Doing, InUserMode
<1>4. /\ \A t \in Threads : activities'[t] = begun(t) /\ mem'[t] = NewFrames(t)
      /\ activities'[Startup] = <<>> /\ Current' = <<>>
    BY <1>1, <1>2 DEF Owners, Current
<1>5. ASSUME NEW t \in Threads
      PROVE  /\ begun(t) \in Seq(Codes) /\ Len(begun(t)) = 2
             /\ begun(t)[1] = Code(t, "code") /\ begun(t)[2] = Code(t, "perform_iret")
             /\ Code(t, "code").who = t /\ Code(t, "code").pc = "code"
             /\ Code(t, "perform_iret").who = t /\ Code(t, "perform_iret").pc = "perform_iret"
    <2>1. Code(t, "code") \in Codes /\ Code(t, "perform_iret") \in Codes
        BY DEF Code, Codes, Places, Owners, WayOut
    <2> QED BY <2>1 DEF Code
<1>6. ASSUME NEW t \in Threads
      PROVE  /\ NewFrames(t) \in [1 .. MaxFrames -> [code : Codes, flag : BOOLEAN]]
             /\ NewFrames(t)[1].code = Code(t, "code")
             /\ NewFrames(t)[2].code = Code(t, "perform_iret")
    <2>1. /\ Frame(Code(t, "code"), TRUE) \in [code : Codes, flag : BOOLEAN]
          /\ Frame(Code(t, "perform_iret"), FALSE) \in [code : Codes, flag : BOOLEAN]
          /\ NoFrame \in [code : Codes, flag : BOOLEAN]
        BY DEF Frame, NoFrame, Code, Codes, Places, Owners, WayOut
    <2>2. 1 \in 1 .. MaxFrames /\ 2 \in 1 .. MaxFrames
        BY InterruptsAssumption
    <2>3. /\ NewFrames(t)[1] = Frame(Code(t, "code"), TRUE)
          /\ NewFrames(t)[2] = Frame(Code(t, "perform_iret"), FALSE)
        BY <2>2 DEF NewFrames
    <2>4. NewFrames(t) \in [1 .. MaxFrames -> [code : Codes, flag : BOOLEAN]]
        BY <2>1 DEF NewFrames
    <2> QED BY <2>3, <2>4 DEF Frame
<1>7. Types'
    <2>1. mem' \in [Owners -> [1 .. MaxFrames -> [code : Codes, flag : BOOLEAN]]]
        BY <1>2, <1>6 DEF IInv, Types
    <2>2. activities' \in [Owners -> Seq(Codes)]
        <3>1. \A t \in Owners : (IF t \in Threads THEN begun(t) ELSE <<>>) \in Seq(Codes)
            BY <1>5
        <3> HIDE DEF begun
        <3> QED BY <1>2, <3>1
    <2>3. esp0' \in [Threads -> [stack : Threads, depth : 0 .. MaxFrames]]
        BY <1>2, InterruptsAssumption
    <2> QED BY <1>2, <1>3, <2>1, <2>2, <2>3 DEF IInv, Types, TypeOK, picVars, Owners
<1> HIDE DEF begun
<1>8. StacksKeepContext'
    <2>1. ASSUME NEW t \in Threads
          PROVE  /\ Depth(t)' = Len(activities'[t])
                 /\ \A d \in 1 .. Depth(t)' : mem'[t][d].code = activities'[t][d]
        <3>1. Depth(t)' = 2
            BY <1>1, <1>2 DEF Depth
        <3>2. \A d \in 1 .. 2 : d = 1 \/ d = 2
            OBVIOUS
        <3> QED BY <1>4, <1>5, <1>6, <3>1, <3>2
    <2>2. Depth(Startup)' = 0 /\ Len(activities'[Startup]) = 0
        <3>1. esp.depth = 0 /\ esp.stack = Startup
            BY <1>1, CurrentFacts
        <3> QED BY <1>1, <1>2, <1>3, <1>4, <3>1 DEF Depth
    <2>3. esp'.stack = Startup /\ CurrentThread' = Startup
        BY <1>1, <1>2, CurrentFacts
    <2> QED BY <1>3, <2>1, <2>2, <2>3 DEF StacksKeepContext
<1>9. Shape'
    <2>1. ASSUME NEW t \in Owners, NEW i \in 1 .. Len(activities'[t])
          PROVE  /\ activities'[t][i].who = t
                 /\ activities'[t][i].pc \in IF i = 1 THEN {"code"} ELSE WayOut
        <3>1. CASE t \in Threads
            <4>1. i = 1 \/ i = 2
                <5>1. Len(activities'[t]) = 2
                    BY <1>4, <1>5, <3>1
                <5> QED BY <5>1
            <4> QED BY <1>4, <1>5, <3>1, <4>1 DEF WayOut
        <3>2. CASE t \notin Threads
            BY <1>4, <3>2 DEF Owners
        <3> QED BY <3>1, <3>2
    <2> QED BY <1>3, <1>4, <2>1 DEF Shape, BootCode
<1>10. Suspended'
    <2>1. \A t \in Threads : Len(activities'[t]) > 1 /\ esp0'[t].stack = t
        <3>1. \A t \in Threads : Len(activities'[t]) = 2
            BY <1>4, <1>5
        <3>2. \A t \in Threads : esp0'[t].stack = t
            BY <1>2
        <3> QED BY <3>1, <3>2
    <2> QED BY <1>3, <2>1 DEF Suspended
<1>11. Booting'
    BY <1>1, <1>2, <1>3 DEF IInv, Booting, BootCode, picVars
<1>12. FirstPage' /\ Masked' /\ Room'
    BY <1>1, <1>2, <1>3 DEF IInv, FirstPage, Masked, Room, TickCode
<1>13. KernelStack' /\ StrayOnlyInConstructor'
    BY <1>1, <1>2 DEF IInv, KernelStack, StrayOnlyInConstructor
<1> QED BY <1>7, <1>8, <1>9, <1>10, <1>11, <1>12, <1>13 DEF IInv

-----------------------------------------------------------------------------
LEMMA InitIInv == Init => IInv
<1> SUFFICES ASSUME Init PROVE IInv
    OBVIOUS
<1>1. /\ cpu = Code(Startup, "Init") /\ CurrentThread = Startup /\ Startup \notin Threads
      /\ activities = [t \in Owners |-> <<>>] /\ Current = <<>>
      /\ ~ InFault /\ Doing = "Init" /\ ~ InUserMode
      /\ cpu.who = Startup /\ cpu.pc = "Init" /\ cpu.page = 0
    BY InterruptsAssumption DEF Init, Code, Owners, Current, InFault, Doing, FaultCode, InUserMode
<1>2. Types
    <2>1. mem \in [Owners -> [1 .. MaxFrames -> [code : Codes, flag : BOOLEAN]]]
        BY DEF Init, NoFrame, Frame, Code, Codes, Places, Owners
    <2>2. cpu \in Codes
        BY <1>1 DEF Code, Codes, Places, BootCode, Owners
    <2>3. activities \in [Owners -> Seq(Codes)]
        BY <1>1, EmptySeq
    <2>4. TypeOK
        <3>1. 0 \in 0 .. MaxFrames
            BY InterruptsAssumption
        <3>2. /\ esp \in [stack : Threads \cup {Startup}, depth : 0 .. MaxFrames]
              /\ esp0 \in [Threads -> [stack : Threads, depth : 0 .. MaxFrames]]
            BY <3>1 DEF Init
        <3>3. \A v \in Vectors : idt[v] \in {"none", IF v = PageFault THEN "trap" ELSE "interrupt"}
            BY DEF Init
        <3>4. imr.master \subseteq 0 .. 7 /\ imr.slave \subseteq 8 .. 15
            BY DEF Init
        <3> QED BY <1>1, <3>2, <3>3, <3>4 DEF Init, TypeOK
    <2> QED BY <2>1, <2>2, <2>3, <2>4 DEF Init, Types
<1>3. StacksKeepContext
    BY <1>1 DEF Init, StacksKeepContext, Depth, Owners
<1>4. Shape /\ Suspended
    BY <1>1 DEF Init, Shape, Suspended, BootCode, Owners
<1>5. Booting
    BY <1>1 DEF Init, Booting, BootCode, Vectors, Lines
<1>6. Masked /\ FirstPage /\ Room
    BY <1>1 DEF Init, Masked, FirstPage, Room, TickCode
<1>7. KernelStack /\ StrayOnlyInConstructor
    BY <1>1, InterruptsAssumption DEF Init, KernelStack, StrayOnlyInConstructor
<1> QED BY <1>2, <1>3, <1>4, <1>5, <1>6, <1>7 DEF IInv

LEMMA NextIInv == IInv /\ [Next]_vars => IInv'
<1> SUFFICES ASSUME IInv, [Next]_vars PROVE IInv'
    OBVIOUS
<1>1. CASE Boot
    BY <1>1, InitGatesIInv, InitPicIInv, MaskMasterIInv, CreateIInv, EnableAllIInv,
       AddTimerGateIInv, EnableTimerIInv DEF Boot
<1>2. CASE EnterSection \/ LeaveSection
    BY <1>2, EnterSectionIInv, LeaveSectionIInv
<1>3. CASE \E irq \in Lines : Edge(irq) \/ Deliver(irq)
    BY <1>3, EdgeIInv, DeliverIInv
<1>4. CASE Handler
    BY <1>4, PitStubIInv, StayIInv, SwitchIInv, IretIInv DEF Handler
<1>5. CASE \E page \in HeapPages : Fault(page)
    BY <1>5, FaultIInv
<1>6. CASE FaultHandler
    BY <1>6, MapDirectlyIInv, BeginAllocIInv, EndAllocIInv, IretIInv DEF FaultHandler
<1>7. CASE UNCHANGED vars
    BY <1>7, QuietIInv DEF vars, picVars, IInv, Types, TypeOK, StrayOnlyInConstructor
<1> QED BY <1>1, <1>2, <1>3, <1>4, <1>5, <1>6, <1>7 DEF Next

-----------------------------------------------------------------------------
(* The stack pointer stays within the stacks, the masks, requests and      *)
(* gates are what the controllers and the processor can hold.              *)
THEOREM InterruptsTypeCorrect == Spec => []TypeOK
<1>1. IInv => TypeOK
    BY DEF IInv, Types
<1> QED BY <1>1, InitIInv, NextIInv, PTL DEF Spec

(* However deep ticks nest and whichever threads the scheduler picks, each *)
(* thread's frames are complete and unharmed on its own stack.             *)
THEOREM InterruptsStacksKeepContext == Spec => []StacksKeepContext
<1>1. IInv => StacksKeepContext
    BY DEF IInv
<1> QED BY <1>1, InitIInv, NextIInv, PTL DEF Spec

(* No interrupt finds a gate missing but in the constructor of the         *)
(* interrupt controllers.                                                  *)
THEOREM InterruptsStrayOnlyInConstructor == Spec => []StrayOnlyInConstructor
<1>1. IInv => StrayOnlyInConstructor
    BY DEF IInv
<1> QED BY <1>1, InitIInv, NextIInv, PTL DEF Spec

LEMMA AloneByShape == IInv => SchedulerAlone
<1> SUFFICES ASSUME IInv PROVE SchedulerAlone
    OBVIOUS
<1> DEFINE inner == <<CurrentThread, Len(Current)>>
<1>1. ASSUME NEW at \in InLists
      PROVE  InFault /\ at = inner
    <2>1. /\ at = <<at[1], at[2]>> /\ at[1] \in Owners
          /\ at[2] \in 1 .. Len(activities[at[1]])
          /\ activities[at[1]][at[2]].pc \in ListCode
        BY LenProperties DEF InLists, IInv, Types
    <2>2. activities[at[1]][at[2]].pc \notin {"code"} \cup WayOut
        BY <2>1 DEF ListCode, WayOut
    <2>3. InFault /\ at[1] = CurrentThread /\ at[2] = Len(activities[at[1]])
        BY <2>1, <2>2 DEF IInv, Shape
    <2> QED BY <2>1, <2>3 DEF Current
<1>2. CASE InLists = {}
    <2>1. Cardinality(InLists) = 0
        BY <1>2, FS_EmptySet
    <2> QED BY <2>1 DEF SchedulerAlone
<1>3. CASE InLists # {}
    <2>1. InFault /\ InLists = {inner}
        BY <1>1, <1>3
    <2>2. Cardinality(InLists) = 1
        BY <2>1, FS_Singleton
    <2>3. cpu.pc \notin ListCode
        BY <2>1 DEF InFault, FaultCode, ListCode
    <2> QED BY <2>2, <2>3 DEF SchedulerAlone
<1> QED BY <1>2, <1>3

(* At most one activity is inside the lists and the heap, though the       *)
(* handler takes no lock: only the current thread can be, and only under   *)
(* page faults, which keep interrupts disabled once page 0 is mapped.      *)
THEOREM InterruptsSchedulerAlone == Spec => []SchedulerAlone
BY AloneByShape, InitIInv, NextIInv, PTL DEF Spec
=============================================================================
