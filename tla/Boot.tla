-------------------------------- MODULE Boot --------------------------------
(***************************************************************************)
(* The boot thread of src/kernel/mainInitScript.c against the timer        *)
(* interrupt.  timer_init executes sti as the third of seventeen steps,    *)
(* so from there on every instruction of the boot thread may be followed   *)
(* by schedule(): before current points at anything, before the TSS is     *)
(* set up, and between the two stores of pqueue_push.                      *)
(*                                                                         *)
(* Before scheduler_init the boot stack has no owner and is written NULL.  *)
(***************************************************************************)
EXTENDS Scheduler

VARIABLES
    pc,             \* the next step of mainInitScript
    interrupts,     \* sti has been executed
    newp            \* create_user_process's local p

bootvars == <<pc, interrupts, newp>>
allvars == <<vars, bootvars>>

BootInit ==
    /\ current = NULL
    /\ pq = EmptyQueue
    /\ allocated = {}
    /\ leaked = {}
    /\ ring3 = {}
    /\ esp = [p \in Any |-> NULL]
    /\ tss_esp0 = NULL
    /\ cpu_esp = NULL
    /\ user_mapped = FALSE
    /\ halted = FALSE
    /\ pc = "timer_init"
    /\ interrupts = FALSE
    /\ newp = NULL

\* The boot thread executes its next instruction and goes on to the next step.
At(here, there) ==
    /\ ~halted
    /\ current \in {NULL, Idle}
    /\ pc = here
    /\ pc' = there

TimerInit_SchedulerForgotten ==
    /\ At("timer_init", "tss_init")
    /\ interrupts' = TRUE
    /\ UNCHANGED <<vars, newp>>

TimerInit ==
    /\ At("timer_init", "scheduler_init")
    /\ interrupts' = TRUE
    /\ UNCHANGED <<vars, newp>>

SchedulerInit ==
    /\ At("scheduler_init", "tss_init")
    /\ current' = Idle
    /\ allocated' = {Idle}
    /\ UNCHANGED <<pq, leaked, ring3, esp, tss_esp0, cpu_esp, user_mapped,
                   halted, interrupts, newp>>

TssInit ==
    /\ At("tss_init", "userland_init")
    /\ tss_esp0' = Idle
    /\ UNCHANGED <<current, pq, allocated, leaked, ring3, esp, cpu_esp,
                   user_mapped, halted, interrupts, newp>>

\* The steps before scheduler_init and before tss_init find hardware or disks
\* they cannot use (fb_init, ata_init, block_init), or scheduler_init gets no
\* memory and writes to page 0; the boot thread stops for good.
BootPanic ==
    /\ At("scheduler_init", "panic") \/ At("tss_init", "panic")
    /\ halted' = TRUE
    /\ UNCHANGED <<current, pq, allocated, leaked, ring3, esp, tss_esp0,
                   cpu_esp, user_mapped, interrupts, newp>>

\* userland_init maps the user pages and copies the shell there.  Without a
\* frame for the code or the stack it returns and the kernel idles; when
\* map_misc_pages has none for the rest of the program, it gives up silently and
\* the copy faults.
UserlandInit ==
    /\ \/ At("userland_init", "create") /\ user_mapped' = TRUE /\ UNCHANGED halted
       \/ At("userland_init", "idle") /\ UNCHANGED <<user_mapped, halted>>
       \/ At("userland_init", "panic") /\ halted' = TRUE /\ UNCHANGED user_mapped
    /\ UNCHANGED <<current, pq, allocated, leaked, ring3, esp, tss_esp0,
                   cpu_esp, interrupts, newp>>

\* create_proc_no_forgery and the forged frame; nothing else can see them yet.
ForgeProcess_WithoutFrame(p) ==
    /\ At("create", "push_store")
    /\ p \in Process \ allocated
    /\ newp' = p
    /\ ring3' = ring3 \cup {p}
    /\ UNCHANGED <<current, pq, allocated, leaked, esp, tss_esp0, cpu_esp,
                   user_mapped, halted, interrupts>>

ForgeProcess(p) ==
    /\ At("create", "push_store")
    /\ p \in Process \ allocated
    /\ newp' = p
    /\ esp' = [esp EXCEPT ![p] = p]
    /\ ring3' = ring3 \cup {p}
    /\ UNCHANGED <<current, pq, allocated, leaked, tss_esp0, cpu_esp,
                   user_mapped, halted, interrupts>>

\* The kmalloc of the stack fails after that of the structure.
ForgeFails(p) ==
    /\ At("create", "idle")
    /\ CreateFails(p)
    /\ UNCHANGED <<interrupts, newp>>

\* pqueue_push: queue[head] = p ...
PushStore ==
    /\ At("push_store", "push_head")
    /\ pq' = [pq EXCEPT !.queue = [pq.queue EXCEPT ![pq.head] = newp]]
    /\ UNCHANGED <<current, allocated, leaked, ring3, esp, tss_esp0, cpu_esp,
                   user_mapped, halted, interrupts, newp>>

\* ... and head = next.  The structure now belongs to the scheduler.
PushHead ==
    /\ At("push_head", "idle")
    /\ pq' = [pq EXCEPT !.head = NextSlot(pq.head)]
    /\ allocated' = allocated \cup {newp}
    /\ newp' = NULL
    /\ UNCHANGED <<current, leaked, ring3, esp, tss_esp0, cpu_esp,
                   user_mapped, halted, interrupts>>

\* irq0: with current still NULL, current->esp = esp writes to the unmapped
\* page 0 and the page fault in ring 0 halts the kernel.
Irq0_CountsOnly ==
    /\ interrupts
    /\ ~halted
    /\ UNCHANGED allvars

Irq0 ==
    /\ interrupts
    /\ ~halted
    /\ IF current = NULL /\ ~ pqueue_is_empty(pq)
       THEN halted' = TRUE /\ UNCHANGED <<current, pq, esp, tss_esp0, cpu_esp>>
       ELSE schedule(EntryStack) /\ UNCHANGED halted
    /\ UNCHANGED <<allocated, leaked, ring3, user_mapped, bootvars>>

BootThread ==
    \/ TimerInit
    \/ SchedulerInit
    \/ TssInit
    \/ BootPanic
    \/ UserlandInit
    \/ \E p \in Process : ForgeProcess(p) \/ ForgeFails(p)
    \/ PushStore
    \/ PushHead

UserStep ==
    /\ SysYield \/ SysExitCurr \/ UserException
    /\ UNCHANGED bootvars

BootNext == BootThread \/ Irq0 \/ UserStep

\* The boot thread executes whenever it is scheduled; the timer keeps ticking.
BootSpec ==
    BootInit /\ [][BootNext]_allvars /\ WF_allvars(BootThread) /\ WF_allvars(Irq0)

-----------------------------------------------------------------------------
\* Only the panics of the boot thread itself stop the kernel: no interrupt
\* arriving during boot dereferences the null current pointer, and no exit of
\* the shell finds an empty queue.
OnlyBootPanics == halted => pc = "panic"

\* The boot thread as seen by the scheduler: until scheduler_init it is Idle
\* already, and a process appears complete when head is stored.
Owner(s) == IF s = NULL THEN Idle ELSE s

Sched == INSTANCE Scheduler WITH
    current     <- Owner(current),
    pq          <- IF newp = NULL THEN pq
                   ELSE [pq EXCEPT !.queue = [pq.queue EXCEPT ![pq.head] = NULL]],
    allocated   <- allocated \cup {Idle},
    ring3       <- ring3 \ {newp},
    esp         <- [p \in Any |-> IF p = newp THEN NULL ELSE esp[p]],
    tss_esp0    <- Owner(tss_esp0),
    cpu_esp     <- Owner(cpu_esp),
    user_mapped <- user_mapped \/ ring3 = {}

\* The boot thread and the interrupts together take only steps of the
\* scheduler in which creation is atomic: the early sti is harmless.
BootImplementsScheduler == Sched!Init /\ [][Sched!Next]_(Sched!vars)

\* Once the shell has been created it runs.
ShellStarts == (pc = "push_store") ~> (current \in Process)
=============================================================================
