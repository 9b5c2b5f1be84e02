------------------------------ MODULE Scheduler ------------------------------
(***************************************************************************)
(* The scheduler of src/kernel/process/scheduler/scheduler.c with the      *)
(* entry points that reach it: the timer interrupt, the yield and exit     *)
(* system calls and the exception handler.                                 *)
(*                                                                         *)
(* Every one of them is entered through an interrupt gate, so each handler *)
(* runs to its iret with interrupts disabled and is one action here.       *)
(* Creation is one action too; Boot.tla takes pqueue_push apart for the    *)
(* one caller the kernel has, which runs with interrupts enabled.          *)
(*                                                                         *)
(* A stack pointer is represented by the process whose kernel stack it     *)
(* points into; the boot stack belongs to Idle.                            *)
(***************************************************************************)
EXTENDS ProcessQueue

CONSTANTS
    Process,        \* the Process structures kmalloc can hand out
    Idle,           \* the structure scheduler_init makes for the boot thread
    SYSCALL_ERROR   \* what kill_current returns instead of a stack pointer

ASSUME ProcessAssumption ==
    /\ NULL \notin Process \cup {Idle}
    /\ SYSCALL_ERROR \notin Process \cup {Idle, NULL}
    /\ Idle \notin Process

\* The processes besides Idle are fewer than the ring can hold, which keeps one
\* slot free: whatever fills it holds one of them twice.  pqueue_push's refusal
\* is ignored by its callers.
ASSUME CapacityAssumption ==
    \A f \in [1 .. PQUEUE_SIZE_ELEMENTS - 1 -> Process] :
        \E i, j \in DOMAIN f : i # j /\ f[i] = f[j]

VARIABLES
    current,        \* the running process
    pq,             \* the ready queue
    allocated,      \* Process structures kmalloc'ed and not freed
    leaked,         \* structures a failed creation left behind
    ring3,          \* processes whose forged frame has a user code segment
    esp,            \* the esp field of each structure
    tss_esp0,       \* info.esp0: the stack an interrupt from ring 3 lands on
    cpu_esp,        \* what the last handler returned for the stub to load
    user_mapped,    \* the user pages of userland_init are still mapped
    halted          \* some handler is in for (;;) hlt, interrupts disabled

vars == <<current, pq, allocated, leaked, ring3, esp, tss_esp0, cpu_esp,
          user_mapped, halted>>

Any == Process \cup {Idle}
Stack == Any \cup {NULL}

\* scheduler_init: the boot thread becomes a process with malloc_addr = 0; its
\* esp field is whatever the heap held.  tss_init pointed esp0 at the boot
\* stack before the first user process exists.
Init ==
    /\ current = Idle
    /\ pq = EmptyQueue
    /\ allocated = {Idle}
    /\ leaked = {}
    /\ ring3 = {}
    /\ esp = [p \in Any |-> NULL]
    /\ tss_esp0 = Idle
    /\ cpu_esp = Idle
    /\ user_mapped = TRUE
    /\ halted = FALSE

\* Where the processor puts the interrupt frame: coming from ring 3 it first
\* switches to the stack the TSS names.
EntryStack == IF current \in ring3 THEN tss_esp0 ELSE current

\* if (current->malloc_addr != 0) tss_set_esp(...).
tss_set_esp_Skipped(p) == UNCHANGED tss_esp0

tss_set_esp(p) == tss_esp0' = IF p # Idle THEN p ELSE tss_esp0

\* schedule(esp): rotate, unless nobody else is ready.
schedule_WithoutPush(frame) ==
    IF pqueue_is_empty(pq)
    THEN /\ cpu_esp' = frame
         /\ UNCHANGED <<current, pq, esp, tss_esp0>>
    ELSE LET next == pqueue_peek(pq)
         IN /\ esp' = [esp EXCEPT ![current] = frame]
            /\ pq' = pqueue_pop(pq)
            /\ current' = next
            /\ tss_set_esp(next)
            /\ cpu_esp' = esp'[next]

schedule(frame) ==
    IF pqueue_is_empty(pq)
    THEN /\ cpu_esp' = frame
         /\ UNCHANGED <<current, pq, esp, tss_esp0>>
    ELSE LET pushed == pqueue_push(pq, current)
             next   == pqueue_peek(pushed)
         IN /\ esp' = [esp EXCEPT ![current] = frame]
            /\ pq' = pqueue_pop(pushed)
            /\ current' = next
            /\ tss_set_esp(next)
            /\ cpu_esp' = esp'[next]

\* kill_current(): the victim's stack and structure are freed while the
\* handler still stands on that stack.
kill_current_WithoutFree ==
    IF pqueue_is_empty(pq)
    THEN /\ cpu_esp' = SYSCALL_ERROR
         /\ UNCHANGED <<current, pq, allocated, tss_esp0, user_mapped>>
    ELSE LET next == pqueue_peek(pq)
         IN /\ pq' = pqueue_pop(pq)
            /\ current' = next
            /\ tss_set_esp(next)
            /\ user_mapped' = FALSE
            /\ UNCHANGED allocated
            /\ cpu_esp' = esp[next]

kill_current ==
    IF pqueue_is_empty(pq)
    THEN /\ cpu_esp' = SYSCALL_ERROR
         /\ UNCHANGED <<current, pq, allocated, tss_esp0, user_mapped>>
    ELSE LET next == pqueue_peek(pq)
         IN /\ pq' = pqueue_pop(pq)
            /\ current' = next
            /\ tss_set_esp(next)
            /\ user_mapped' = FALSE
            /\ allocated' = allocated \ {current}
            /\ cpu_esp' = esp[next]

-----------------------------------------------------------------------------
\* irq0_stub, timer_irq_handler.
TimerIrq_FromKernelOnly ==
    /\ ~halted
    /\ current \notin ring3
    /\ schedule(EntryStack)
    /\ UNCHANGED <<allocated, leaked, ring3, user_mapped, halted>>

TimerIrq ==
    /\ ~halted
    /\ schedule(EntryStack)
    /\ UNCHANGED <<allocated, leaked, ring3, user_mapped, halted>>

\* System calls come from user code, which runs only while it is mapped.
InUserCode == ~halted /\ current \in ring3 /\ user_mapped

\* sys_yield.
SysYield ==
    /\ InUserCode
    /\ schedule(EntryStack)
    /\ UNCHANGED <<allocated, leaked, ring3, user_mapped, halted>>

\* sys_exit_curr: a failed kill_current is a kernel panic.
SysExitCurr ==
    /\ InUserCode
    /\ kill_current
    /\ halted' = pqueue_is_empty(pq)
    /\ UNCHANGED <<leaked, ring3, esp>>

\* exception_handler, fault in ring 3: the result of kill_current is loaded as
\* the next stack pointer whatever it is.
UserException ==
    /\ ~halted
    /\ current \in ring3
    /\ kill_current
    /\ UNCHANGED <<leaked, ring3, esp, halted>>

\* exception_handler, fault in ring 0.
KernelException ==
    /\ ~halted
    /\ current \notin ring3
    /\ halted' = TRUE
    /\ UNCHANGED <<current, pq, allocated, leaked, ring3, esp, tss_esp0,
                   cpu_esp, user_mapped>>

-----------------------------------------------------------------------------
\* create_proc_no_forgery with its second kmalloc failing: the structure stays
\* allocated and nobody refers to it.  (A first kmalloc that fails changes
\* nothing.)
CreateFails(p) ==
    /\ ~halted
    /\ p \in Process \ allocated
    /\ allocated' = allocated \cup {p}
    /\ leaked' = leaked \cup {p}
    /\ UNCHANGED <<current, pq, ring3, esp, tss_esp0, cpu_esp, user_mapped,
                   halted>>

\* Both allocations succeed; the frame is forged at the top of p's own stack
\* and p is pushed, whether or not there is room.
CreateWith(p, users) ==
    /\ ~halted
    /\ p \in Process \ allocated
    /\ allocated' = allocated \cup {p}
    /\ ring3' = users
    /\ esp' = [esp EXCEPT ![p] = p]
    /\ pq' = pqueue_push(pq, p)
    /\ UNCHANGED <<current, leaked, tss_esp0, cpu_esp, user_mapped, halted>>

create_process(p) == CreateWith(p, ring3 \ {p})

create_user_process(p) == CreateWith(p, ring3 \cup {p})

Next ==
    \/ TimerIrq
    \/ SysYield
    \/ SysExitCurr
    \/ UserException
    \/ KernelException
    \/ \E p \in Process : \/ CreateFails(p)
                          \/ create_process(p)
                          \/ create_user_process(p)

\* The interval timer keeps interrupting user code, kernel processes and the
\* idle loop, all of which run with interrupts enabled.
Spec == Init /\ [][Next]_vars /\ WF_vars(TimerIrq)
-----------------------------------------------------------------------------
TypeOK ==
    /\ current \in Any
    /\ pq \in [queue : [Slots -> Stack], head : Slots, tail : Slots]
    /\ allocated \subseteq Any
    /\ leaked \subseteq Process
    /\ ring3 \subseteq Process
    /\ esp \in [Any -> Stack]
    /\ tss_esp0 \in Any
    /\ cpu_esp \in Stack \cup {SYSCALL_ERROR}
    /\ user_mapped \in BOOLEAN
    /\ halted \in BOOLEAN

NoDuplicates ==
    /\ current \notin Queued(pq)
    /\ Distinct(pq)

Accounted == allocated = Queued(pq) \cup {current} \cup leaked

\* A process is in one place at a time: schedule() and kill_current() never
\* leave it running and queued, or queued twice, so no frame is resumed twice.
\* Every structure in the heap is running, queued, or was abandoned by a
\* creation that ran out of memory: although every caller ignores the result
\* of pqueue_push, no runnable process drops out, and none that
\* kill_current() freed is still reachable from the queue.
NoProcessLost == TypeOK /\ NoDuplicates /\ Accounted

\* The frame a stub resumes is the running process's own, interrupts taken in
\* ring 3 land on the running process's kernel stack, and a waiting process
\* finds its registers on its own stack, although tss_set_esp() is skipped
\* for the idle process and leaves esp0 pointing at a freed stack.
OwnStacks ==
    /\ cpu_esp = current
    /\ current \in ring3 => tss_esp0 = current
    /\ \A p \in Queued(pq) : esp[p] = p

\* The branch of kill_current() that returns SYSCALL_ERROR "prolly wont
\* happen": while a user process runs, the queue is not empty.
KillFindsSuccessor == current \in ring3 => ~ pqueue_is_empty(pq)

\* Round robin: a queued process gets the processor again, unless the kernel
\* halts.
EventuallyRuns ==
    \A p \in Any : p \in Queued(pq) ~> (current = p \/ halted)

\* The scheduler implements a plain first-in first-out rotation; the ring,
\* its wrapping indices and its stale slots do not show.
RR == INSTANCE RoundRobin WITH running <- current, ready <- Contents(pq)

RotatesInOrder == RR!Spec
=============================================================================
