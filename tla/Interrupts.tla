----------------------------- MODULE Interrupts -----------------------------
(***************************************************************************)
(* From a timer edge to the thread that runs next: the interrupt           *)
(* controllers (pic_8259a.cpp), the gates (i386_interrupt.cpp), the timer  *)
(* handler (pit_8253_asm.asm, pit_8253.cpp), the switch of stacks          *)
(* (i386_task.cpp, i386_switcher.asm) and the page faults the handler's    *)
(* own list code may take on the heap (int_stub.asm, vmem.cpp), from the   *)
(* start of kmain on.  Which thread the scheduler picks is left open: that *)
(* is Scheduler.tla.  One processor.                                       *)
(*                                                                         *)
(* A stack is a function from depths to frames, the processor's stack      *)
(* pointer is a stack and a depth, so that a frame pushed at the wrong     *)
(* place overwrites what was there.                                        *)
(***************************************************************************)
EXTENDS Naturals, Sequences, FiniteSets, FiniteSetsExt

CONSTANTS Threads,      \* threads the kernel creates
          UserThreads,  \* those of a user process, for which Create provides a kernel stack
          Startup,      \* the thread kmain runs in; its tsi is NULL
          HeapPages,    \* pages of the heap, 0 first
          MaxFrames     \* bound on the frames of one stack

ASSUME InterruptsAssumption ==
    /\ Startup \notin Threads /\ UserThreads \subseteq Threads
    /\ HeapPages = 0 .. Cardinality(HeapPages) - 1
    /\ MaxFrames \in Nat /\ MaxFrames >= 2    \* what a new thread has

VARIABLES cpu,      \* the code in execution: whose, where, for a fault on which page
          IFlag,    \* EFLAGS.IF
          esp,      \* stack pointer: whose stack, and how deep
          mem,      \* the frames of every stack
          esp0,     \* per thread: tsi->esp0
          tssEsp0,  \* tss.esp0: the thread whose kernel stack an interrupt of user code uses
          CurrentThread,
          imr,      \* masked lines of the master and of the slave
          irr, isr, \* lines requesting, lines in service
          idt,      \* the kind of gate of every vector
          mapped,   \* heap pages that are mapped
          halted,    \* a vector without a gate was used, and the kernel has halted
          activities \* per thread: what it is in the middle of, outermost first (history)

cpuVars == <<cpu, IFlag, esp, mem, activities>>
switchVars == <<esp0, tssEsp0, CurrentThread>>
picVars == <<imr, irr, isr>>
vars == <<cpuVars, switchVars, picVars, idt, mapped, halted>>

-----------------------------------------------------------------------------
(* Lines: the timer, a device of the master and one of the slave that no   *)
(* driver handles.                                                         *)
Timer == 0
Lines == {Timer, 1, 8}
OnMaster(irq) == irq < 8
CascadeLine == 2
RemapBase == 32
PageFault == 14
GpFault == 13
Vectors == {PageFault, GpFault} \cup {RemapBase + irq : irq \in Lines}

(* The line of the master through which a line interrupts.                 *)
MasterLine(irq) == IF OnMaster(irq) THEN irq ELSE CascadeLine

Unmasked(irq) ==
    /\ MasterLine(irq) \notin imr.master
    /\ OnMaster(irq) \/ irq \notin imr.slave

(* A request reaches the processor when nothing of its own or a higher     *)
(* priority is in service or requesting.                                   *)
Raised(irq) ==
    /\ irq \in irr /\ Unmasked(irq)
    /\ \A other \in isr : MasterLine(irq) < MasterLine(other)
    /\ \A other \in irr : Unmasked(other) => MasterLine(irq) <= MasterLine(other)

(* Unspecific end of interrupt: the line of the highest priority leaves    *)
(* service.                                                                *)
EndInterrupt(irq) ==
    isr' = {other \in isr : \E higher \in isr : MasterLine(higher) < MasterLine(other)}

(* What _enable makes of the masks.                                        *)
_enable(irq) ==
    imr' = IF OnMaster(irq) THEN [imr EXCEPT !.master = @ \ {irq}]
           ELSE [imr EXCEPT !.master = @ \ {CascadeLine}, !.slave = @ \ {irq}]

(* Mutant: the flag that makes a trap gate is inverted.                    *)
MutAddGate(vector, trap_gate) ==
    /\ idt' = [idt EXCEPT ![vector] = IF trap_gate THEN "interrupt" ELSE "trap"]
    /\ IFlag' = TRUE

(* AddGate: cli, the entry, sti.                                           *)
AddGate(vector, trap_gate) ==
    /\ idt' = [idt EXCEPT ![vector] = IF trap_gate THEN "trap" ELSE "interrupt"]
    /\ IFlag' = TRUE

-----------------------------------------------------------------------------
(* Stacks.                                                                 *)

Code(who, pc) == [who |-> who, pc |-> pc, page |-> 0]
InUserMode == cpu.who \in UserThreads /\ cpu.pc = "code"

(* Where the processor pushes when it is interrupted: on the stack in use, *)
(* or, out of user code, on the one tss.esp0 points to the top of.         *)
EntryStack == IF InUserMode THEN [stack |-> tssEsp0, depth |-> 0] ELSE esp

Frame(code, flag) == [code |-> code, flag |-> flag]
NoFrame == Frame(Code(Startup, "none"), FALSE)

PushAt(p, f) ==
    /\ mem' = [mem EXCEPT ![p.stack][p.depth + 1] = f]
    /\ esp' = [p EXCEPT !.depth = @ + 1]
Top == mem[esp.stack][esp.depth]
(* Nobody reads above the stack pointer: the model forgets what is there.  *)
PoppedAt(m, p) == [m EXCEPT ![p.stack][p.depth] = NoFrame]

Begun(t, code) == activities' = [activities EXCEPT ![t] = Append(@, code)]
Ended(t) == activities' = [activities EXCEPT ![t] = SubSeq(@, 1, Len(@) - 1)]

Goto(pc) == cpu' = [cpu EXCEPT !.pc = pc]
At(pc) == ~ halted /\ cpu.pc = pc

(* An interrupt or exception through a gate of the idt; without one it is  *)
(* a general protection fault, whose gate panics and halts.                *)
Enter(vector, code) ==
    IF idt[vector] = "none" THEN /\ halted' = TRUE
                                 /\ UNCHANGED <<cpuVars>>
    ELSE /\ PushAt(EntryStack, Frame(cpu, IFlag))
         /\ Begun(cpu.who, cpu)
         /\ cpu' = code
         /\ IFlag' = (IFlag /\ idt[vector] = "trap")
         /\ UNCHANGED halted

(* popad; iret: back to what the frame on top says.                        *)
Iret(pc) ==
    /\ At(pc)
    /\ cpu' = Top.code
    /\ IFlag' = Top.flag
    /\ esp' = [esp EXCEPT !.depth = @ - 1]
    /\ mem' = PoppedAt(mem, esp)
    /\ Ended(cpu.who)
    /\ UNCHANGED <<switchVars, picVars, idt, mapped, halted>>

-----------------------------------------------------------------------------
(* kmain up to its endless loop.                                           *)

Init ==
    /\ cpu = Code(Startup, "Init")
    /\ IFlag = FALSE
    /\ esp = [stack |-> Startup, depth |-> 0]
    /\ mem = [t \in Threads \cup {Startup} |-> [d \in 1 .. MaxFrames |-> NoFrame]]
    /\ esp0 = [t \in Threads |-> [stack |-> t, depth |-> 0]]
    /\ tssEsp0 = Startup
    /\ CurrentThread = Startup
    /\ imr = [master |-> 0 .. 7, slave |-> 8 .. 15]
    /\ irr \in SUBSET Lines
    /\ isr = {}
    /\ idt = [v \in Vectors |-> "none"]
    /\ mapped = {}
    /\ halted = FALSE
    /\ activities = [t \in Threads \cup {Startup} |-> <<>>]

(* a.Init: the gates of the exceptions.                                    *)
InitGates ==
    /\ At("Init")
    /\ idt' = [idt EXCEPT ![PageFault] = "trap", ![GpFault] = "interrupt"]
    /\ IFlag' = TRUE
    /\ Goto("InitDevices")
    /\ UNCHANGED <<esp, mem, activities, switchVars, picVars, mapped, halted>>

(* ConvertToLinkedList and new Pic_8259a allocate; the constructor sends   *)
(* the initialisation words, which clear the masks and the requests of     *)
(* both controllers.                                                       *)
InitPic ==
    /\ At("InitDevices") /\ 0 \in mapped
    /\ imr' = [master |-> {}, slave |-> {}]
    /\ irr' = {} /\ isr' = {}
    /\ Goto("Constructor")
    /\ UNCHANGED <<IFlag, esp, mem, activities, switchVars, idt, mapped, halted>>

(* The end of the constructor masks the master again.                      *)
MaskMaster ==
    /\ At("Constructor")
    /\ imr' = [imr EXCEPT !.master = 0 .. 7]
    /\ Goto("Create")
    /\ UNCHANGED <<IFlag, esp, mem, activities, switchVars, irr, isr, idt, mapped, halted>>

(* What i386_TaskSwitchInfo::Init leaves on the stack of a new thread: a   *)
(* frame of an interrupt that returns to its entry point, and a frame of   *)
(* do_switch that returns to perform_iret.                                 *)
NewFrames(t) ==
    [d \in 1 .. MaxFrames |->
        CASE d = 1 -> Frame(Code(t, "code"), TRUE)
          [] d = 2 -> Frame(Code(t, "perform_iret"), FALSE)
          [] OTHER -> NoFrame]

Create ==
    /\ At("Create")
    /\ mem' = [t \in DOMAIN mem |-> IF t \in Threads THEN NewFrames(t) ELSE mem[t]]
    /\ esp0' = [t \in Threads |-> [stack |-> t, depth |-> 2]]
    /\ activities' = [t \in DOMAIN activities |->
                        IF t \in Threads THEN <<Code(t, "code"), Code(t, "perform_iret")>> ELSE <<>>]
    /\ Goto("EnableAll")
    /\ UNCHANGED <<IFlag, esp, tssEsp0, CurrentThread, picVars, idt, mapped, halted>>

EnableAll ==
    /\ At("EnableAll")
    /\ IFlag' = TRUE
    /\ Goto("AddGate")
    /\ UNCHANGED <<esp, mem, activities, switchVars, picVars, idt, mapped, halted>>

(* timer->Enable: first the gate, an interrupt gate, ...                   *)
AddTimerGate ==
    /\ At("AddGate")
    /\ AddGate(RemapBase + Timer, FALSE)
    /\ Goto("Enable")
    /\ UNCHANGED <<esp, mem, activities, switchVars, picVars, mapped, halted>>

(* Mutant: every line of the master is enabled with the timer's.           *)
EnableEvery ==
    /\ At("Enable")
    /\ imr' = [imr EXCEPT !.master = {}]
    /\ Goto("code")
    /\ UNCHANGED <<IFlag, esp, mem, activities, switchVars, irr, isr, idt, mapped, halted>>

(* ... then the line; and kmain loops.                                     *)
EnableTimer ==
    /\ At("Enable")
    /\ _enable(Timer)
    /\ Goto("code")
    /\ UNCHANGED <<IFlag, esp, mem, activities, switchVars, irr, isr, idt, mapped, halted>>

Boot == InitGates \/ InitPic \/ MaskMaster \/ Create \/ EnableAll \/ AddTimerGate \/ EnableTimer

-----------------------------------------------------------------------------
(* Threads: they may call the scheduler, whose Lock disables interrupts.   *)

EnterSection ==
    /\ At("code") /\ cpu.who \in Threads \ UserThreads
    /\ IFlag' = FALSE
    /\ Goto("section")
    /\ UNCHANGED <<esp, mem, activities, switchVars, picVars, idt, mapped, halted>>

LeaveSection ==
    /\ At("section")
    /\ IFlag' = TRUE
    /\ Goto("code")
    /\ UNCHANGED <<esp, mem, activities, switchVars, picVars, idt, mapped, halted>>

(* Interrupt requests, and their delivery between two instructions.  That  *)
(* a stack never holds MaxFrames frames is the bound of the model.         *)
Edge(irq) ==
    /\ ~ halted /\ irq \notin irr
    /\ irr' = irr \cup {irq}
    /\ UNCHANGED <<cpuVars, switchVars, imr, isr, idt, mapped, halted>>

Deliver(irq) ==
    /\ ~ halted /\ IFlag /\ Raised(irq)
    /\ esp.depth + 3 <= MaxFrames
    /\ irr' = irr \ {irq}
    /\ isr' = isr \cup {irq}
    /\ Enter(RemapBase + irq, Code(cpu.who, "pit_stub"))
    /\ UNCHANGED <<switchVars, imr, idt, mapped>>

-----------------------------------------------------------------------------
(* The timer's handler.                                                    *)

(* Mutant: the controller is never told the end of the interrupt.          *)
PitStubSilent ==
    /\ At("pit_stub")
    /\ Goto("TimerTick")
    /\ UNCHANGED <<IFlag, esp, mem, activities, switchVars, picVars, idt, mapped, halted>>

(* pit_stub counts the time and ends the interrupt before TimerTick.       *)
PitStub ==
    /\ At("pit_stub")
    /\ EndInterrupt(Timer)
    /\ Goto("TimerTick")
    /\ UNCHANGED <<IFlag, esp, mem, activities, switchVars, imr, irr, idt, mapped, halted>>

(* TimerTick has worked on the lists; the thread to run is the current one *)
(* (or there is none), and the handler returns, ...                        *)
Stay ==
    /\ At("TimerTick")
    /\ Goto("unwind")
    /\ UNCHANGED <<IFlag, esp, mem, activities, switchVars, picVars, idt, mapped, halted>>

(* Mutant: tss.esp0 stays what it was.                                     *)
KernelStackOfOld(t) == tssEsp0

(* Only a thread with a kernel stack has its esp0_top set; for the others  *)
(* the field is never used, and the model leaves tss.esp0 alone.           *)
KernelStackOf(t) == IF t \in UserThreads THEN t ELSE tssEsp0

(* ... or Switch: all registers are pushed and the stack pointer is saved, *)
(* unless the old thread has no tsi; the new thread's is loaded, its       *)
(* registers are popped, and interrupts are enabled before the return.     *)
Switch(t) ==
    /\ At("TimerTick") /\ t # CurrentThread
    /\ LET pushed == [esp EXCEPT !.depth = @ + 1]
           left == [mem EXCEPT ![esp.stack][esp.depth + 1] = Frame([cpu EXCEPT !.pc = "unwind"], FALSE)]
           new == esp0[t]
       IN  /\ mem' = PoppedAt(left, new)
           /\ esp0' = IF CurrentThread = Startup THEN esp0 ELSE [esp0 EXCEPT ![CurrentThread] = pushed]
           /\ cpu' = left[new.stack][new.depth].code
           /\ esp' = [new EXCEPT !.depth = @ - 1]
    /\ tssEsp0' = KernelStackOf(t)
    /\ CurrentThread' = t
    /\ IFlag' = TRUE
    /\ activities' = [activities EXCEPT
                        ![cpu.who] = Append(@, [cpu EXCEPT !.pc = "unwind"]),
                        ![t] = SubSeq(@, 1, Len(@) - 1)]
    /\ UNCHANGED <<picVars, idt, mapped, halted>>

(* The way out of the handler, and the first entry of a thread.            *)
Unwind == Iret("unwind")
PerformIret == Iret("perform_iret")

-----------------------------------------------------------------------------
(* Page faults of list code: a new node lies on a heap page nobody has     *)
(* touched.  The allocator starts with page 0.                             *)

Fault(page) ==
    /\ At("TimerTick") \/ At("section") \/ At("InitDevices") \/ At("Create")
    /\ page \notin mapped /\ (page = 0 \/ 0 \in mapped)
    /\ esp.depth + 2 <= MaxFrames
    /\ Enter(PageFault, [who |-> cpu.who, pc |-> "page_fault", page |-> page])
    /\ UNCHANGED <<switchVars, picVars, idt, mapped>>

(* Mutant: as the comment in MapPage wants it, every page is allocated.    *)
AllocatesAlways(page) == TRUE

(* ResolvePageFault passes the offset in the section as the physical       *)
(* address: MapPage allocates a page only when that is 0.                  *)
Allocates(page) == page = 0

MapDirectly ==
    /\ At("page_fault") /\ ~ Allocates(cpu.page)
    /\ mapped' = mapped \cup {cpu.page}
    /\ Goto("resolved")
    /\ UNCHANGED <<IFlag, esp, mem, activities, switchVars, picVars, idt, halted>>

(* BeginAlloc locks the stack of pages, EndAlloc unlocks it: cli and sti.  *)
BeginAlloc ==
    /\ At("page_fault") /\ Allocates(cpu.page)
    /\ IFlag' = FALSE
    /\ Goto("alloc")
    /\ UNCHANGED <<esp, mem, activities, switchVars, picVars, idt, mapped, halted>>
EndAlloc ==
    /\ At("alloc")
    /\ mapped' = mapped \cup {cpu.page}
    /\ IFlag' = TRUE
    /\ Goto("resolved")
    /\ UNCHANGED <<esp, mem, activities, switchVars, picVars, idt, halted>>

Resolved == Iret("resolved")

-----------------------------------------------------------------------------
Handler == PitStub \/ Stay \/ (\E t \in Threads : Switch(t)) \/ Unwind \/ PerformIret
FaultHandler == MapDirectly \/ BeginAlloc \/ EndAlloc \/ Resolved

Next ==
    \/ Boot
    \/ EnterSection \/ LeaveSection
    \/ \E irq \in Lines : Edge(irq) \/ Deliver(irq)
    \/ Handler
    \/ \E page \in HeapPages : Fault(page)
    \/ FaultHandler

(* The processor goes on, the timer counts, and a request that is raised   *)
(* again and again while interrupts are enabled is taken.                  *)
Spec ==
    /\ Init /\ [][Next]_vars
    /\ WF_vars(Boot \/ LeaveSection \/ Handler \/ FaultHandler) /\ WF_vars(Fault(0) /\ At("InitDevices"))
    /\ WF_vars(Edge(Timer)) /\ SF_vars(Deliver(Timer))

-----------------------------------------------------------------------------
(* Properties.                                                             *)

(* The processor runs code of some thread, on a stack within its bounds;   *)
(* only page faults come through a trap gate, which leaves IF alone.       *)
TypeOK ==
    /\ cpu.who \in Threads \cup {Startup} /\ CurrentThread \in Threads \cup {Startup}
    /\ IFlag \in BOOLEAN /\ halted \in BOOLEAN
    /\ esp \in [stack : Threads \cup {Startup}, depth : 0 .. MaxFrames]
    /\ esp0 \in [Threads -> [stack : Threads, depth : 0 .. MaxFrames]]
    /\ imr.master \subseteq 0 .. 7 /\ imr.slave \subseteq 8 .. 15
    /\ irr \subseteq Lines /\ isr \subseteq Lines
    /\ \A v \in Vectors : idt[v] \in {"none", IF v = PageFault THEN "trap" ELSE "interrupt"}
    /\ mapped \subseteq HeapPages

(* However ticks nest, every thread finds on the way out exactly what it   *)
(* was in the middle of: its frames are on its own stack, complete, in     *)
(* order and not overwritten, and the registers are CurrentThread's.       *)
Depth(t) == IF t # CurrentThread THEN esp0[t].depth ELSE IF InUserMode THEN 0 ELSE esp.depth
StacksKeepContext ==
    /\ cpu.who = CurrentThread
    /\ \A t \in Threads \cup {CurrentThread} :
         /\ Depth(t) = Len(activities[t])
         /\ \A d \in 1 .. Depth(t) : mem[t][d].code = activities[t][d]
    /\ ~ InUserMode => esp.stack = CurrentThread

(* Two activities are never inside the lists and the heap at once, though  *)
(* TimerTick takes no lock (NO_LOCK_TIMER_TICK) and its page faults run    *)
(* the lock of the physical allocator, which ends with sti.                *)
ListCode == {"TimerTick", "section", "Create"}
InLists ==
    {at \in (DOMAIN activities) \X (1 .. MaxFrames) :
        at[2] \in DOMAIN activities[at[1]] /\ activities[at[1]][at[2]].pc \in ListCode}
SchedulerAlone == Cardinality(InLists) + (IF cpu.pc \in ListCode THEN 1 ELSE 0) <= 1

(* "Start timer": no interrupt arrives for which there is no gate, but for *)
(* one place: the constructor of the controllers unmasks all lines before  *)
(* it masks the master again, with interrupts enabled.                     *)
StrayOnlyInConstructor == halted => cpu.pc = "Constructor"

(* The timer is served again and again: a tick that switches to a thread   *)
(* which has never run, or that has not returned, does not keep the next   *)
(* one from coming.                                                        *)
TicksKeepComing == <>halted \/ ([]<>(Timer \in isr) /\ []<>(Timer \notin isr))
=============================================================================
