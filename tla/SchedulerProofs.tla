--------------------------- MODULE SchedulerProofs ---------------------------
(***************************************************************************)
(* Proofs about the scheduler for every number of queue slots and every    *)
(* set of processes that fits: the process table partition, the stack      *)
(* discipline, the unreachability of kill_current's error branch, and the  *)
(* refinement of RoundRobin, by which the ring of processQueue.c is a      *)
(* sequence and schedule(), kill_current() and the creations are its       *)
(* rotation, retirement and admission.                                     *)
(*                                                                         *)
(* At the end, Boot: the early sti is harmless, for every queue size and   *)
(* every process create_user_process may get.  The boot thread and the     *)
(* interrupts take only steps of the scheduler, and only the boot thread   *)
(* itself panics.                                                          *)
(***************************************************************************)
EXTENDS Boot, TLAPS

\* Leaves are tried with the SMT solver and then with Zenon, within 30 seconds.
USE SMTT(30), ZenonT(30)

QueueType == [queue : [Slots -> Stack], head : Slots, tail : Slots]

-----------------------------------------------------------------------------
\* pqueue_push on a ring with room adds its argument and nothing else.
LEMMA PushAdds ==
    ASSUME NEW q \in QueueType, NEW p \in Any,
           ~ pqueue_is_full(q), Distinct(q), p \notin Queued(q)
    PROVE  /\ pqueue_push(q, p) \in QueueType
           /\ ~ pqueue_is_empty(pqueue_push(q, p))
           /\ Queued(pqueue_push(q, p)) = Queued(q) \cup {p}
           /\ Distinct(pqueue_push(q, p))
<1> DEFINE r == pqueue_push(q, p)
<1>1. r = [queue |-> [q.queue EXCEPT ![q.head] = p],
           head |-> NextSlot(q.head), tail |-> q.tail]
  BY ZenonT(30) DEF pqueue_push, QueueType
<1>2. r \in QueueType
  BY <1>1, QueueSizeAssumption DEF QueueType, Slots, NextSlot, Stack
<1>3. ~ pqueue_is_empty(r)
  BY <1>1 DEF pqueue_is_empty, pqueue_is_full
<1>4. q.head \notin Occupied(q) /\ Occupied(q) \subseteq Slots
  BY DEF Occupied, QueueType, Slots
<1>5. Occupied(r) = Occupied(q) \cup {q.head}
  BY <1>1, QueueSizeAssumption
     DEF Occupied, QueueType, Slots, NextSlot, pqueue_is_full
<1>6. r.queue[q.head] = p /\ \A i \in Occupied(q) : r.queue[i] = q.queue[i]
  BY <1>1, <1>4 DEF QueueType
<1>7. Queued(r) = Queued(q) \cup {p}
  BY <1>5, <1>6 DEF Queued
<1>8. Distinct(r)
  BY <1>4, <1>5, <1>6 DEF Distinct, Queued
<1> QED BY <1>2, <1>3, <1>7, <1>8

\* pqueue_pop on a ring that is not empty removes what it returns and nothing
\* else.
LEMMA PopRemoves ==
    ASSUME NEW q \in QueueType, ~ pqueue_is_empty(q), Distinct(q)
    PROVE  /\ pqueue_pop(q) \in QueueType
           /\ pqueue_peek(q) \in Queued(q)
           /\ Queued(pqueue_pop(q)) = Queued(q) \ {pqueue_peek(q)}
           /\ Distinct(pqueue_pop(q))
<1> DEFINE r == pqueue_pop(q)
<1>1. r = [queue |-> q.queue, head |-> q.head, tail |-> NextSlot(q.tail)]
  BY DEF pqueue_pop, QueueType
<1>2. r \in QueueType
  BY <1>1, QueueSizeAssumption DEF QueueType, Slots, NextSlot
<1>3. q.tail \in Occupied(q)
  BY DEF Occupied, QueueType, Slots, pqueue_is_empty
<1>4. pqueue_peek(q) = q.queue[q.tail]
  BY DEF pqueue_peek
<1>5. Occupied(r) = Occupied(q) \ {q.tail}
  BY <1>1, QueueSizeAssumption
     DEF Occupied, QueueType, Slots, NextSlot, pqueue_is_empty
<1>6. pqueue_peek(q) \in Queued(q)
  BY <1>3, <1>4 DEF Queued
<1>7. Queued(r) = Queued(q) \ {pqueue_peek(q)}
  BY <1>1, <1>3, <1>4, <1>5 DEF Queued, Distinct
<1>8. Distinct(r)
  BY <1>1, <1>5 DEF Distinct
<1> QED BY <1>2, <1>6, <1>7, <1>8

\* A queue that does not hold some process c has room for it: a full ring
\* would need more processes than there are.
LEMMA RoomForOneMore ==
    ASSUME NEW q \in QueueType, NEW c \in Any,
           Distinct(q), Queued(q) \subseteq Any, c \notin Queued(q)
    PROVE  ~ pqueue_is_full(q)
<1> SUFFICES ASSUME pqueue_is_full(q) PROVE FALSE
  OBVIOUS
<1> DEFINE slot(i) == IF i <= q.head THEN i - 1 ELSE i
           other(p) == IF p = Idle THEN c ELSE p
           f == [i \in 1 .. PQUEUE_SIZE_ELEMENTS - 1 |-> other(q.queue[slot(i)])]
<1>1. Occupied(q) = Slots \ {q.head} /\ q.head \in Slots
  BY QueueSizeAssumption
     DEF Occupied, QueueType, Slots, NextSlot, pqueue_is_full
<1>2. \A i \in 1 .. PQUEUE_SIZE_ELEMENTS - 1 : slot(i) \in Occupied(q)
  BY <1>1, QueueSizeAssumption DEF Slots
<1>3. \A i, j \in 1 .. PQUEUE_SIZE_ELEMENTS - 1 : slot(i) = slot(j) => i = j
  BY <1>1, QueueSizeAssumption DEF Slots
<1>4. \A p \in Queued(q) : p # c /\ other(p) \in Process
  BY DEF Any
<1>5. \A p, r \in Queued(q) : other(p) = other(r) => p = r
  BY <1>4
<1> HIDE DEF slot, other
<1>6. \A i \in 1 .. PQUEUE_SIZE_ELEMENTS - 1 : q.queue[slot(i)] \in Queued(q)
  BY <1>2 DEF Queued
<1>7. f \in [1 .. PQUEUE_SIZE_ELEMENTS - 1 -> Process]
  BY <1>4, <1>6
<1>8. PICK i, j \in DOMAIN f : i # j /\ f[i] = f[j]
  BY ZenonT(30), <1>7, CapacityAssumption
<1>9. other(q.queue[slot(i)]) = other(q.queue[slot(j)])
  BY <1>8
<1>10. slot(i) = slot(j)
  BY <1>2, <1>5, <1>6, <1>9 DEF Distinct
<1> QED BY <1>3, <1>8, <1>10

-----------------------------------------------------------------------------
\* The inductive invariant.  Accounted alone is not inductive: that the
\* push of schedule() finds room needs NoDuplicates, that kill_current()
\* frees nobody else needs the leaked structures apart from the runnable
\* ones, and that the frame saved is the process's own needs OwnStacks.  Core
\* leaves out what the last handler returned, which no handler reads.
Core ==
    /\ TypeOK
    /\ NoDuplicates
    /\ Accounted
    /\ current \in ring3 => tss_esp0 = current
    /\ \A p \in Queued(pq) : esp[p] = p
    /\ leaked \cap (Queued(pq) \cup {current}) = {}

IInv == Core /\ OwnStacks

\* scheduler_init() establishes the invariant.
LEMMA InitIInv == Init => IInv
<1> SUFFICES ASSUME Init PROVE IInv
  OBVIOUS
<1>1. pq.head = 0 /\ pq.tail = 0 /\ pq \in QueueType
  BY QueueSizeAssumption DEF Init, EmptyQueue, QueueType, Slots, Stack
<1>2. Occupied(pq) = {} /\ Queued(pq) = {}
  BY <1>1 DEF Occupied, Queued, Slots
<1>3. TypeOK
  BY <1>1, ZenonT(30) DEF Init, TypeOK, Any, Stack, QueueType
<1> QED
  BY <1>2, <1>3 DEF Init, IInv, Core, NoDuplicates, Accounted, OwnStacks, Distinct

\* What the invariant says of the queue, in the form the lemmas above need.
LEMMA QueueFacts ==
    ASSUME Core
    PROVE  /\ pq \in QueueType /\ Distinct(pq)
           /\ Queued(pq) \subseteq Any
           /\ current \in Any /\ current \notin Queued(pq)
           /\ Idle \notin ring3
           /\ EntryStack = current
  BY ProcessAssumption
     DEF Core, TypeOK, QueueType, NoDuplicates, Accounted, OwnStacks, EntryStack

\* schedule() preserves the invariant: the running process changes places
\* with the oldest queued one.
LEMMA SchedulePreserves ==
    ASSUME Core, schedule(EntryStack),
           UNCHANGED <<allocated, leaked, ring3, user_mapped>>,
           halted' \in BOOLEAN
    PROVE  IInv'
<1>1. CASE pqueue_is_empty(pq)
  <2>1. cpu_esp' = current /\ UNCHANGED <<current, pq, esp, tss_esp0>>
    BY <1>1, QueueFacts DEF schedule
  <2> QED
    BY <2>1 DEF Core, IInv, TypeOK, NoDuplicates, Accounted, OwnStacks, Stack
<1>2. CASE ~ pqueue_is_empty(pq)
  <2> DEFINE pushed == pqueue_push(pq, current)
             next == pqueue_peek(pushed)
  <2>1. /\ esp' = [esp EXCEPT ![current] = current]
        /\ pq' = pqueue_pop(pushed)
        /\ current' = next
        /\ tss_esp0' = IF next # Idle THEN next ELSE tss_esp0
        /\ cpu_esp' = esp'[next]
    BY <1>2, QueueFacts DEF schedule, tss_set_esp
  <2>2. ~ pqueue_is_full(pq)
    BY QueueFacts, RoomForOneMore
  <2>3. /\ pushed \in QueueType /\ Distinct(pushed)
        /\ ~ pqueue_is_empty(pushed)
        /\ Queued(pushed) = Queued(pq) \cup {current}
    BY <2>2, QueueFacts, PushAdds
  <2>4. /\ pq' \in QueueType /\ Distinct(pq')
        /\ next \in Queued(pushed)
        /\ Queued(pq)' = Queued(pushed) \ {next}
    <3> HIDE DEF pushed
    <3> QED BY <2>1, <2>3, PopRemoves DEF Queued, Occupied
  <2> HIDE DEF next, pushed
  <2>5. /\ current' \in Any
        /\ Queued(pq)' \cup {current'} = Queued(pq) \cup {current}
    BY <2>1, <2>3, <2>4, QueueFacts
  <2>6. TypeOK'
    BY <2>1, <2>4, <2>5, QueueFacts DEF Core, TypeOK, QueueType, Stack
  <2>7. NoDuplicates'
    BY <2>1, <2>4 DEF NoDuplicates
  <2>8. Accounted'
    BY <2>5 DEF Core, Accounted
  <2>9. \A p \in Queued(pq) \cup {current} : esp'[p] = p
    BY <2>1, QueueFacts DEF Core, TypeOK, OwnStacks
  <2>10. OwnStacks'
    BY <2>1, <2>5, <2>9, QueueFacts DEF OwnStacks
  <2>11. (leaked \cap (Queued(pq) \cup {current}) = {})'
    BY <2>5 DEF Core
  <2> QED BY <2>6, <2>7, <2>8, <2>10, <2>11 DEF IInv, Core, OwnStacks
<1> QED BY <1>1, <1>2

\* While a user process runs, Idle is in the queue: it is never killed, never
\* leaked and never dropped.
LEMMA IdleIsQueued ==
    ASSUME Core, Idle \in allocated, current \in ring3
    PROVE  Idle \in Queued(pq) /\ ~ pqueue_is_empty(pq)
<1>1. Idle \in Queued(pq)
  BY ProcessAssumption DEF Core, TypeOK, Accounted
<1>2. PICK i \in Occupied(pq) : TRUE
  BY <1>1 DEF Queued
<1>3. pq.head \in Slots /\ pq.tail \in Slots
  BY DEF Core, TypeOK
<1> QED BY <1>1, <1>2, <1>3 DEF Occupied, pqueue_is_empty, Slots

\* kill_current() preserves the invariant: only the victim disappears.
LEMMA KillPreserves ==
    ASSUME Core, Idle \in allocated, current \in ring3, kill_current,
           UNCHANGED <<leaked, ring3, esp>>, halted' \in BOOLEAN
    PROVE  IInv' /\ Idle \in allocated'
<1> DEFINE next == pqueue_peek(pq)
<1>1. ~ pqueue_is_empty(pq)
  BY IdleIsQueued
<1>2. /\ pq' = pqueue_pop(pq)
      /\ current' = next
      /\ tss_esp0' = IF next # Idle THEN next ELSE tss_esp0
      /\ user_mapped' = FALSE
      /\ allocated' = allocated \ {current}
      /\ cpu_esp' = esp[next]
  BY <1>1 DEF kill_current, tss_set_esp
<1>3. /\ pq' \in QueueType /\ Distinct(pq')
      /\ next \in Queued(pq)
      /\ Queued(pq)' = Queued(pq) \ {next}
  BY <1>1, <1>2, QueueFacts, PopRemoves DEF Queued, Occupied
<1> HIDE DEF next
<1>4. Queued(pq)' \cup {current'} = Queued(pq) /\ current' \in Any
  BY <1>2, <1>3, QueueFacts
<1>5. TypeOK'
  BY <1>2, <1>3, <1>4, QueueFacts, ZenonT(30) DEF Core, TypeOK, QueueType, Stack
<1>6. NoDuplicates'
  BY <1>2, <1>3 DEF NoDuplicates
<1>7. Accounted'
  BY <1>2, <1>4, QueueFacts DEF Core, Accounted
<1>8. OwnStacks'
  BY <1>2, <1>3, <1>4, QueueFacts DEF Core, OwnStacks
<1>9. (leaked \cap (Queued(pq) \cup {current}) = {})'
  BY <1>4 DEF Core
<1>10. Idle \in allocated'
  BY <1>2, QueueFacts
<1> QED BY <1>5, <1>6, <1>7, <1>8, <1>9, <1>10 DEF IInv, Core, OwnStacks

\* create_process() and create_user_process() preserve the invariant.
LEMMA CreatePreserves ==
    ASSUME IInv, NEW p \in Process,
           NEW users \in {ring3 \ {p}, ring3 \cup {p}}, CreateWith(p, users)
    PROVE  IInv'
<1>0. Core
  BY DEF IInv
<1>1. /\ p \notin allocated
      /\ allocated' = allocated \cup {p}
      /\ ring3' = users
      /\ esp' = [esp EXCEPT ![p] = p]
      /\ pq' = pqueue_push(pq, p)
      /\ UNCHANGED <<current, leaked, tss_esp0, cpu_esp, user_mapped, halted>>
  BY DEF CreateWith
<1>2. p \in Any /\ p \notin Queued(pq) /\ p # current /\ p \notin leaked
  BY <1>1 DEF Any, IInv, Core, Accounted
<1>3. ~ pqueue_is_full(pq)
  BY <1>0, <1>2, QueueFacts, RoomForOneMore
<1>4. /\ pq' \in QueueType /\ Distinct(pq')
      /\ Queued(pq)' = Queued(pq) \cup {p}
  BY <1>0, <1>1, <1>2, <1>3, QueueFacts, PushAdds DEF Queued, Occupied
<1>5. TypeOK'
  BY <1>1, <1>2, <1>4 DEF IInv, Core, TypeOK, QueueType, Stack
<1>6. NoDuplicates'
  BY <1>1, <1>2, <1>4 DEF IInv, Core, NoDuplicates
<1>7. Accounted'
  BY <1>1, <1>4 DEF IInv, Core, Accounted
<1>8. OwnStacks'
  BY <1>0, <1>1, <1>2, <1>4, QueueFacts DEF IInv, Core, OwnStacks, TypeOK
<1>9. (leaked \cap (Queued(pq) \cup {current}) = {})'
  BY <1>1, <1>2, <1>4 DEF IInv, Core
<1> QED BY <1>5, <1>6, <1>7, <1>8, <1>9 DEF IInv, Core, OwnStacks

\* Every step preserves the invariant.
LEMMA NextPreserves ==
    ASSUME IInv, Idle \in allocated, [Next]_vars
    PROVE  IInv' /\ Idle \in allocated'
<1> USE DEF TypeOK
<1>0. Core
  BY DEF IInv
<1>1. CASE TimerIrq
  BY <1>0, <1>1, SchedulePreserves DEF TimerIrq, Core
<1>2. CASE SysYield
  BY <1>0, <1>2, SchedulePreserves DEF SysYield, Core
<1>3. CASE SysExitCurr
  <2>1. halted' \in BOOLEAN
    BY <1>3 DEF SysExitCurr, pqueue_is_empty
  <2> QED BY <1>0, <1>3, <2>1, KillPreserves DEF SysExitCurr, InUserCode
<1>4. CASE UserException
  BY <1>0, <1>4, KillPreserves DEF UserException, Core
<1>5. CASE KernelException
  BY <1>5 DEF KernelException, IInv, Core, NoDuplicates, Accounted, OwnStacks
<1>6. ASSUME NEW p \in Process, CreateFails(p)
      PROVE  IInv' /\ Idle \in allocated'
  <2>1. Queued(pq)' = Queued(pq) /\ p \notin Queued(pq) \cup {current}
    BY <1>6 DEF CreateFails, IInv, Core, Accounted
  <2> QED
    BY <1>6, <2>1
       DEF CreateFails, IInv, Core, NoDuplicates, Accounted, OwnStacks, Any
<1>7. ASSUME NEW p \in Process, create_process(p)
      PROVE  IInv' /\ Idle \in allocated'
  BY <1>7, CreatePreserves, ZenonT(30) DEF create_process, CreateWith
<1>8. ASSUME NEW p \in Process, create_user_process(p)
      PROVE  IInv' /\ Idle \in allocated'
  BY <1>8, CreatePreserves, ZenonT(30) DEF create_user_process, CreateWith
<1>9. CASE UNCHANGED vars
  BY <1>9 DEF vars, IInv, Core, NoDuplicates, Accounted, OwnStacks
<1> QED
  BY <1>1, <1>2, <1>3, <1>4, <1>5, <1>6, <1>7, <1>8, <1>9 DEF Next

-----------------------------------------------------------------------------
\* The inductive invariant holds in every reachable state.
LEMMA Invariance == Spec => [](IInv /\ Idle \in allocated)
<1>1. Init => IInv /\ Idle \in allocated
  BY InitIInv DEF Init
<1>2. IInv /\ Idle \in allocated /\ [Next]_vars => (IInv /\ Idle \in allocated)'
  BY NextPreserves
<1> QED BY <1>1, <1>2, PTL DEF Spec

\* However the timer, yields, exits, faults and creations interleave, no
\* process is dropped, duplicated or left reachable after it was freed.
THEOREM ProcessesAccountedFor == Spec => []NoProcessLost
<1>1. IInv => NoProcessLost
  BY DEF IInv, Core, NoProcessLost
<1> QED BY <1>1, Invariance, PTL

\* Every handler resumes a frame on the resumed process's own stack, and
\* interrupts from ring 3 land on the running process's own kernel stack.
THEOREM StackDiscipline == Spec => []OwnStacks
<1>1. IInv => OwnStacks
  BY DEF IInv
<1> QED BY <1>1, Invariance, PTL

\* kill_current() never takes its error branch, so sys_exit_curr() never
\* panics and exception_handler() never loads 0xFFFFFFFF as a stack pointer.
THEOREM KillNeverFails == Spec => []KillFindsSuccessor
<1>1. IInv /\ Idle \in allocated => KillFindsSuccessor
  BY IdleIsQueued DEF IInv, KillFindsSuccessor
<1> QED BY <1>1, Invariance, PTL

\* The queue, the indices, the stacks and the sets of processes keep their
\* types through every handler.
THEOREM TypeCorrect == Spec => []TypeOK
<1>1. IInv => TypeOK
  BY DEF IInv, Core
<1> QED BY <1>1, Invariance, PTL
-----------------------------------------------------------------------------
(* The scheduler implements RoundRobin.                                    *)

\* The ring read from tail to head is a sequence of as many elements as
\* pqueue_size counts.
LEMMA ContentsSeq ==
    ASSUME NEW q \in QueueType
    PROVE  /\ pqueue_size(q) \in Nat
           /\ \A k \in 1 .. pqueue_size(q) : SlotAfterTail(q, k - 1) \in Slots
           /\ Contents(q) \in Seq(Stack)
           /\ Len(Contents(q)) = pqueue_size(q)
           /\ \A k \in 1 .. pqueue_size(q) :
                 Contents(q)[k] = q.queue[SlotAfterTail(q, k - 1)]
<1>1. pqueue_size(q) \in Nat
  BY QueueSizeAssumption DEF QueueType, Slots, pqueue_size
<1>2. pqueue_size(q) < PQUEUE_SIZE_ELEMENTS
  BY QueueSizeAssumption DEF QueueType, Slots, pqueue_size
<1>3. \A k \in 1 .. pqueue_size(q) : SlotAfterTail(q, k - 1) \in Slots
  BY <1>1, <1>2, QueueSizeAssumption DEF QueueType, Slots, SlotAfterTail
<1> QED BY <1>1, <1>3 DEF Contents, QueueType

\* pqueue_push appends at the end.
LEMMA PushAppends ==
    ASSUME NEW q \in QueueType, NEW p \in Any, ~ pqueue_is_full(q)
    PROVE  Contents(pqueue_push(q, p)) = Append(Contents(q), p)
<1> DEFINE r == pqueue_push(q, p)
<1>1. r = [queue |-> [q.queue EXCEPT ![q.head] = p],
           head |-> NextSlot(q.head), tail |-> q.tail]
  BY ZenonT(30) DEF pqueue_push, QueueType
<1>2. r \in QueueType
  BY <1>1, QueueSizeAssumption DEF QueueType, Slots, NextSlot, Stack
<1>3. pqueue_size(r) = pqueue_size(q) + 1
  BY <1>1, QueueSizeAssumption
     DEF QueueType, Slots, NextSlot, pqueue_size, pqueue_is_full
<1>4. SlotAfterTail(q, pqueue_size(q)) = q.head
  BY QueueSizeAssumption DEF QueueType, Slots, SlotAfterTail, pqueue_size
<1>5. \A k \in 1 .. pqueue_size(q) : SlotAfterTail(q, k - 1) # q.head
  BY QueueSizeAssumption DEF QueueType, Slots, SlotAfterTail, pqueue_size
<1>6. \A k \in Int : SlotAfterTail(r, k) = SlotAfterTail(q, k)
  BY <1>1 DEF SlotAfterTail
<1>7. \A k \in 1 .. pqueue_size(q) : Contents(r)[k] = Contents(q)[k]
  <2> TAKE k \in 1 .. pqueue_size(q)
  <2>1. k \in 1 .. pqueue_size(r) /\ k - 1 \in Int
    BY <1>3, ContentsSeq
  <2>2. Contents(r)[k] = r.queue[SlotAfterTail(q, k - 1)]
    BY <1>2, <1>6, <2>1, ContentsSeq
  <2> QED BY <1>1, <1>5, <2>2, ContentsSeq DEF QueueType
<1>8. Contents(r)[pqueue_size(q) + 1] = p
  <2>1. pqueue_size(q) + 1 \in 1 .. pqueue_size(r) /\ pqueue_size(q) \in Int
    BY <1>3, ContentsSeq
  <2>2. Contents(r)[pqueue_size(q) + 1] = r.queue[SlotAfterTail(r, pqueue_size(q) + 1 - 1)]
    BY <1>2, <2>1, ContentsSeq
  <2> QED BY <1>1, <1>4, <1>6, <2>1, <2>2 DEF QueueType
<1>9. /\ Contents(r) \in Seq(Stack) /\ Len(Contents(r)) = pqueue_size(q) + 1
      /\ Contents(q) \in Seq(Stack) /\ Len(Contents(q)) = pqueue_size(q)
  BY <1>2, <1>3, ContentsSeq
<1> HIDE DEF r
<1>10. Contents(r) = Append(Contents(q), p)
  BY <1>7, <1>8, <1>9
<1> QED BY <1>10 DEF r

\* pqueue_pop takes from the front.
LEMMA PopTakesHead ==
    ASSUME NEW q \in QueueType, ~ pqueue_is_empty(q)
    PROVE  /\ Contents(q) # << >>
           /\ pqueue_peek(q) = Head(Contents(q))
           /\ Contents(pqueue_pop(q)) = Tail(Contents(q))
<1> DEFINE r == pqueue_pop(q)
<1>1. r = [queue |-> q.queue, head |-> q.head, tail |-> NextSlot(q.tail)]
  BY DEF pqueue_pop, QueueType
<1>2. r \in QueueType
  BY <1>1, QueueSizeAssumption DEF QueueType, Slots, NextSlot
<1>3. pqueue_size(q) > 0 /\ pqueue_size(r) = pqueue_size(q) - 1
  BY <1>1, QueueSizeAssumption
     DEF QueueType, Slots, NextSlot, pqueue_size, pqueue_is_empty
<1>4. SlotAfterTail(q, 0) = q.tail
  BY QueueSizeAssumption DEF QueueType, Slots, SlotAfterTail
<1>5. \A k \in 1 .. pqueue_size(r) :
         SlotAfterTail(r, k - 1) = SlotAfterTail(q, k + 1 - 1)
  BY <1>1, QueueSizeAssumption
     DEF QueueType, Slots, NextSlot, SlotAfterTail, pqueue_size
<1>6. Contents(q)[1] = q.queue[q.tail]
  BY <1>3, <1>4, ContentsSeq
<1>7. \A k \in 1 .. pqueue_size(r) : Contents(r)[k] = Contents(q)[k + 1]
  <2> TAKE k \in 1 .. pqueue_size(r)
  <2>1. k + 1 \in 1 .. pqueue_size(q)
    BY <1>3, ContentsSeq
  <2>2. Contents(q)[k + 1] = q.queue[SlotAfterTail(q, k + 1 - 1)]
    BY <2>1, ContentsSeq
  <2>3. Contents(r)[k] = r.queue[SlotAfterTail(r, k - 1)]
    BY <1>2, ContentsSeq
  <2> QED BY <1>1, <1>5, <2>2, <2>3
<1>8. /\ Contents(r) \in Seq(Stack) /\ Len(Contents(r)) = pqueue_size(r)
      /\ Contents(q) \in Seq(Stack) /\ Len(Contents(q)) = pqueue_size(q)
  BY <1>2, ContentsSeq
<1>9. pqueue_peek(q) = q.queue[q.tail]
  BY DEF pqueue_peek
<1> HIDE DEF r
<1>10. Contents(q) # << >>
  BY <1>3, <1>8
<1>11. pqueue_peek(q) = Head(Contents(q))
  BY <1>3, <1>6, <1>8, <1>9
<1>12. Contents(r) = Tail(Contents(q))
  BY <1>3, <1>7, <1>8
<1> QED BY <1>10, <1>11, <1>12 DEF r

-----------------------------------------------------------------------------
\* The entries of the sequence are the queued processes.
LEMMA ContentsQueued ==
    ASSUME NEW q \in QueueType, NEW k \in DOMAIN Contents(q)
    PROVE  Contents(q)[k] \in Queued(q)
<1>1. k \in 1 .. pqueue_size(q)
  BY DEF Contents
<1>2. Contents(q)[k] = q.queue[SlotAfterTail(q, k - 1)]
  BY <1>1, ContentsSeq
<1>3. SlotAfterTail(q, k - 1) \in Occupied(q)
  BY <1>1, QueueSizeAssumption
     DEF QueueType, Slots, SlotAfterTail, pqueue_size, Occupied
<1> QED BY <1>2, <1>3 DEF Queued

\* The timer interrupt and sys_yield rotate the line, or find nobody in it.
LEMMA ScheduleRefines ==
    ASSUME Core, schedule(EntryStack)
    PROVE  RR!Rotate \/ UNCHANGED <<current, Contents(pq)>>
<1>1. CASE pqueue_is_empty(pq)
  BY <1>1 DEF schedule
<1>2. CASE ~ pqueue_is_empty(pq)
  <2> DEFINE pushed == pqueue_push(pq, current)
  <2>1. current' = pqueue_peek(pushed) /\ pq' = pqueue_pop(pushed)
    BY <1>2 DEF schedule
  <2>2. ~ pqueue_is_full(pq)
    BY QueueFacts, RoomForOneMore
  <2>3. pushed \in QueueType /\ ~ pqueue_is_empty(pushed)
    BY <2>2, QueueFacts, PushAdds
  <2>4. Contents(pushed) = Append(Contents(pq), current)
    BY <2>2, QueueFacts, PushAppends
  <2>5. /\ current' = Head(Contents(pushed))
        /\ Contents(pq') = Tail(Contents(pushed))
    <3> HIDE DEF pushed
    <3> QED BY <2>1, <2>3, PopTakesHead
  <2>6. Contents(pq) # << >> /\ Contents(pq) \in Seq(Stack)
    BY <1>2, QueueFacts, PopTakesHead, ContentsSeq
  <2>7. /\ Head(Append(Contents(pq), current)) = Head(Contents(pq))
        /\ Tail(Append(Contents(pq), current)) = Append(Tail(Contents(pq)), current)
    <3>1. current \in Stack
      BY QueueFacts DEF Stack
    <3> QED BY <2>6, <3>1
  <2>8. Contents(pq)' = Contents(pq')
    BY DEF Contents, pqueue_size, SlotAfterTail
  <2> QED BY <2>4, <2>5, <2>6, <2>7, <2>8 DEF RR!Rotate
<1> QED BY <1>1, <1>2

\* An exit or a fatal fault retires the running process.
LEMMA KillRefines ==
    ASSUME Core, Idle \in allocated, current \in ring3, kill_current
    PROVE  RR!Retire
<1>1. ~ pqueue_is_empty(pq)
  BY IdleIsQueued
<1>2. current' = pqueue_peek(pq) /\ pq' = pqueue_pop(pq)
  BY <1>1 DEF kill_current
<1>3. /\ Contents(pq) # << >>
      /\ current' = Head(Contents(pq))
      /\ Contents(pq') = Tail(Contents(pq))
  BY <1>1, <1>2, QueueFacts, PopTakesHead
<1>4. Contents(pq)' = Contents(pq')
  BY DEF Contents, pqueue_size, SlotAfterTail
<1>5. current # Idle
  BY QueueFacts
<1> QED BY <1>3, <1>4, <1>5 DEF RR!Retire

\* A creation admits the new process at the end of the line.
LEMMA CreateRefines ==
    ASSUME Core, NEW p \in Process, NEW users, CreateWith(p, users)
    PROVE  RR!Admit(p)
<1>1. p \notin allocated /\ pq' = pqueue_push(pq, p) /\ current' = current
  BY DEF CreateWith
<1>2. p \in Any /\ p \notin Queued(pq) /\ p # current
  BY <1>1 DEF Any, Core, Accounted
<1>3. Contents(pq') = Append(Contents(pq), p)
  BY <1>1, <1>2, QueueFacts, RoomForOneMore, PushAppends
<1>4. Contents(pq)' = Contents(pq')
  BY DEF Contents, pqueue_size, SlotAfterTail
<1>5. \A k \in DOMAIN Contents(pq) : Contents(pq)[k] # p
  BY <1>2, QueueFacts, ContentsQueued
<1> QED BY <1>1, <1>2, <1>3, <1>4, <1>5 DEF RR!Admit

\* The scheduler implements round robin over a first-in first-out line for
\* every queue size: schedule() rotates, kill_current() retires, create_*()
\* admits, and nothing else moves the queue or the running process.
THEOREM ImplementsRoundRobin == Spec => RotatesInOrder
<1>1. Init => RR!Init
  <2> SUFFICES ASSUME Init PROVE RR!Init
    OBVIOUS
  <2>1. pqueue_size(pq) = 0
    BY DEF Init, EmptyQueue, pqueue_size
  <2>2. Contents(pq) = << >>
    BY <2>1 DEF Contents
  <2> QED BY <2>2 DEF Init, RR!Init
<1>2. ASSUME IInv, Idle \in allocated, [Next]_vars
      PROVE  [RR!Next]_<<current, Contents(pq)>>
  <2>0. Core
    BY <1>2 DEF IInv
  <2>1. CASE TimerIrq
    BY <1>2, <2>0, <2>1, ScheduleRefines DEF TimerIrq, RR!Next
  <2>2. CASE SysYield
    BY <1>2, <2>0, <2>2, ScheduleRefines DEF SysYield, RR!Next
  <2>3. CASE SysExitCurr
    BY <1>2, <2>0, <2>3, KillRefines DEF SysExitCurr, InUserCode, RR!Next
  <2>4. CASE UserException
    BY <1>2, <2>0, <2>4, KillRefines DEF UserException, RR!Next
  <2>5. ASSUME NEW p \in Process, create_process(p) \/ create_user_process(p)
        PROVE  RR!Next
    BY <2>0, <2>5, CreateRefines DEF create_process, create_user_process, RR!Next
  <2>6. CASE KernelException \/ (\E p \in Process : CreateFails(p)) \/ UNCHANGED vars
    <3>1. UNCHANGED <<current, pq>>
      BY <2>6 DEF KernelException, CreateFails, vars
    <3> QED BY <3>1
  <2> QED BY <1>2, <2>1, <2>2, <2>3, <2>4, <2>5, <2>6 DEF Next
<1> QED BY <1>1, <1>2, Invariance, PTL DEF Spec, RotatesInOrder, RR!Spec

-----------------------------------------------------------------------------
(* The boot thread.                                                        *)

Steps == {"timer_init", "scheduler_init", "tss_init", "userland_init", "create",
          "push_store", "push_head", "idle", "panic"}

\* Until the boot thread idles nobody else runs, the queue is empty, and the
\* only structures are its own and, half made, the first user process's.
Early ==
    /\ pq = [queue |-> [i \in Slots |-> IF i = 0 /\ pc = "push_head" THEN newp ELSE NULL],
             head |-> 0, tail |-> 0]
    /\ leaked = {}
    /\ IF pc \in {"timer_init", "scheduler_init"} THEN current = NULL /\ allocated = {}
       ELSE current = Idle /\ allocated = {Idle}
    /\ IF pc \in {"push_store", "push_head"} THEN newp \in Process ELSE newp = NULL
    /\ ring3 = {newp} \ {NULL}
    /\ esp = [p \in Any |-> IF p = newp THEN p ELSE NULL]
    /\ tss_esp0 \in {NULL, Idle} /\ cpu_esp \in {NULL, Idle} /\ user_mapped \in BOOLEAN
    /\ pc \in {"userland_init", "create", "push_store", "push_head"} => tss_esp0 = Idle
    /\ pc \in {"create", "push_store", "push_head"} => user_mapped

\* Afterwards the scheduler's own invariant holds, apart from what the last
\* handler returned: there may not have been one.
BootInv ==
    /\ pc \in Steps /\ halted = (pc = "panic")
    /\ pc \notin {"idle", "panic"} => Early
    /\ pc = "idle" => Core /\ Idle \in allocated /\ newp = NULL

-----------------------------------------------------------------------------
(* What the scheduler sees.                                                *)

\* The queue operations of the two views are the same functions.
LEMMA SameQueue ==
    ASSUME NEW q, NEW p
    PROVE  /\ Sched!pqueue_is_empty(q) = pqueue_is_empty(q)
           /\ Sched!pqueue_push(q, p) = pqueue_push(q, p)
           /\ Sched!pqueue_peek(q) = pqueue_peek(q)
           /\ Sched!pqueue_pop(q) = pqueue_pop(q)
<1>1. \A i : Sched!NextSlot(i) = NextSlot(i)
  BY DEF Sched!NextSlot, NextSlot
<1>2. Sched!pqueue_is_empty(q) = pqueue_is_empty(q) /\ Sched!pqueue_is_full(q) = pqueue_is_full(q)
  BY <1>1 DEF Sched!pqueue_is_empty, pqueue_is_empty, Sched!pqueue_is_full, pqueue_is_full
<1> QED
  BY ZenonT(30), <1>1, <1>2 DEF Sched!pqueue_push, pqueue_push, Sched!pqueue_peek, pqueue_peek,
                    Sched!pqueue_pop, pqueue_pop

\* During boot it sees its initial state.
LEMMA EarlyView == Early /\ halted = FALSE => Sched!Init
<1> SUFFICES ASSUME Early, halted = FALSE PROVE Sched!Init
  OBVIOUS
<1>0. NULL \notin Any /\ Idle \notin Process /\ 0 \in Slots
  BY ProcessAssumption, QueueSizeAssumption DEF Any, Slots
<1>1. Owner(current) = Idle /\ allocated \cup {Idle} = {Idle} /\ leaked = {}
  BY DEF Early, Owner
<1>2. Owner(tss_esp0) = Idle /\ Owner(cpu_esp) = Idle
  BY DEF Early, Owner
<1>3. ring3 \ {newp} = {}
  BY DEF Early
<1>4. [p \in Any |-> IF p = newp THEN NULL ELSE esp[p]] = [p \in Any |-> NULL]
  BY DEF Early
<1>5. (user_mapped \/ ring3 = {}) = TRUE
  BY DEF Early
<1>6. Sched!EmptyQueue = [queue |-> [i \in Slots |-> NULL], head |-> 0, tail |-> 0]
  BY DEF Sched!EmptyQueue, Sched!Slots, Slots
<1>7. (IF newp = NULL THEN pq
       ELSE [pq EXCEPT !.queue = [pq.queue EXCEPT ![pq.head] = NULL]]) = Sched!EmptyQueue
  <2>1. CASE newp = NULL
    <3>1. [i \in Slots |-> IF i = 0 /\ pc = "push_head" THEN newp ELSE NULL]
            = [i \in Slots |-> NULL]
      BY <2>1
    <3> QED BY <1>6, <2>1, <3>1 DEF Early
  <2>2. CASE newp # NULL
    <3> DEFINE f == [i \in Slots |-> IF i = 0 /\ pc = "push_head" THEN newp ELSE NULL]
    <3>1. pq = [queue |-> f, head |-> 0, tail |-> 0]
      BY DEF Early
    <3>2. [f EXCEPT ![0] = NULL] = [i \in Slots |-> NULL]
      BY ZenonT(30), <1>0
    <3> HIDE DEF f
    <3>3. [pq EXCEPT !.queue = [pq.queue EXCEPT ![pq.head] = NULL]]
            = [queue |-> [f EXCEPT ![0] = NULL], head |-> 0, tail |-> 0]
      BY <3>1
    <3> QED BY ZenonT(30), <1>6, <2>2, <3>2, <3>3
  <2> QED BY <2>1, <2>2
<1> QED
  BY <1>1, <1>2, <1>3, <1>4, <1>5, <1>7 DEF Sched!Init, Sched!Any, Any

\* Afterwards it sees the state as it is.
LEMMA IdleView ==
    Core /\ newp = NULL =>
        /\ Owner(current) = current /\ Owner(tss_esp0) = tss_esp0
        /\ ring3 \ {newp} = ring3
        /\ [p \in Any |-> IF p = newp THEN NULL ELSE esp[p]] = esp
<1> SUFFICES ASSUME Core, newp = NULL
             PROVE  /\ Owner(current) = current /\ Owner(tss_esp0) = tss_esp0
                    /\ ring3 \ {newp} = ring3
                    /\ [p \in Any |-> IF p = newp THEN NULL ELSE esp[p]] = esp
  OBVIOUS
<1>1. NULL \notin Any
  BY ProcessAssumption DEF Any
<1>2. /\ current \in Any /\ tss_esp0 \in Any /\ ring3 \subseteq Process
      /\ esp \in [Any -> Stack]
  BY DEF Core, TypeOK
<1>3. [p \in Any |-> IF p = newp THEN NULL ELSE esp[p]] = esp
  BY <1>1, <1>2
<1> QED BY <1>1, <1>2, <1>3 DEF Owner, Any

-----------------------------------------------------------------------------
(* The steps of the boot thread.                                           *)

\* A step of boot that goes on to another step of boot is invisible.
LEMMA EarlyStutters ==
    ASSUME Early, halted = FALSE, Early', halted' = FALSE
    PROVE  UNCHANGED Sched!vars
<1>1. Sched!Init
  BY EarlyView
<1>2. (Early /\ halted = FALSE => Sched!Init)'
  BY EarlyView, PTL
<1>3. Sched!Init'
  BY <1>2
<1> QED BY ZenonT(30), <1>1, <1>3 DEF Sched!Init, Sched!vars

\* The steps up to pqueue_push keep the boot state.
LEMMA EarlySteps ==
    ASSUME BootInv,
           \/ TimerInit \/ SchedulerInit \/ TssInit \/ PushStore
           \/ At("userland_init", "create") /\ UserlandInit
           \/ \E p \in Process : ForgeProcess(p)
    PROVE  BootInv' /\ UNCHANGED Sched!vars
<1>0. /\ NULL \notin Any /\ Idle \notin Process /\ Idle # NULL /\ Process \subseteq Any
      /\ NULL \notin Process
  BY ProcessAssumption DEF Any
<1>1. Early /\ halted = FALSE /\ pc \notin {"idle", "panic"}
  BY DEF BootInv, At, TimerInit, SchedulerInit, TssInit, PushStore, UserlandInit, ForgeProcess
<1>2. SUFFICES Early' /\ halted' = FALSE /\ pc' \in Steps \ {"idle", "panic"}
  BY ZenonT(30), <1>1, EarlyStutters DEF BootInv
<1>3. CASE TimerInit
  <2>1. /\ pc = "timer_init" /\ pc' = "scheduler_init" /\ newp' = newp
        /\ UNCHANGED <<current, pq, allocated, leaked, ring3, esp, tss_esp0, cpu_esp,
                       user_mapped, halted>>
    BY <1>3, ZenonT(30) DEF TimerInit, At, vars
  <2> QED BY <1>1, <2>1 DEF Early, Steps
<1>4. CASE SchedulerInit
  <2>1. /\ pc = "scheduler_init" /\ pc' = "tss_init" /\ current' = Idle /\ allocated' = {Idle}
        /\ UNCHANGED <<pq, leaked, ring3, esp, tss_esp0, cpu_esp, user_mapped, halted, newp>>
    BY <1>4, ZenonT(30) DEF SchedulerInit, At
  <2> QED BY <1>1, <2>1 DEF Early, Steps
<1>5. CASE TssInit
  <2>1. /\ pc = "tss_init" /\ pc' = "userland_init" /\ tss_esp0' = Idle
        /\ UNCHANGED <<current, pq, allocated, leaked, ring3, esp, cpu_esp, user_mapped,
                       halted, newp>>
    BY <1>5, ZenonT(30) DEF TssInit, At
  <2> QED BY <1>1, <2>1 DEF Early, Steps
<1>6. CASE At("userland_init", "create") /\ UserlandInit
  <2>1. /\ pc = "userland_init" /\ pc' = "create" /\ user_mapped' = TRUE
        /\ UNCHANGED <<current, pq, allocated, leaked, ring3, esp, tss_esp0, cpu_esp,
                       halted, newp>>
    BY <1>6 DEF UserlandInit, At
  <2> QED BY <1>1, <2>1 DEF Early, Steps
<1>7. ASSUME NEW p \in Process, ForgeProcess(p)
      PROVE  Early' /\ halted' = FALSE /\ pc' \in Steps \ {"idle", "panic"}
  <2>1. /\ pc = "create" /\ pc' = "push_store" /\ newp' = p
        /\ esp' = [esp EXCEPT ![p] = p] /\ ring3' = ring3 \cup {p}
        /\ UNCHANGED <<current, pq, allocated, leaked, tss_esp0, cpu_esp, user_mapped, halted>>
    BY <1>7, ZenonT(30) DEF ForgeProcess, At
  <2>2. newp = NULL /\ ring3 = {} /\ esp = [x \in Any |-> NULL]
    <3>1. newp = NULL
      BY <1>1, <2>1 DEF Early
    <3>2. \A x \in Any : x # newp
      BY <1>0, <3>1
    <3> QED BY <1>1, <3>1, <3>2 DEF Early
  <2>3. esp' = [x \in Any |-> IF x = newp' THEN x ELSE NULL]
    BY <1>0, <2>1, <2>2
  <2>4. ring3' = {newp'} \ {NULL}
    BY <1>0, <2>1, <2>2
  <2>5. pq' = [queue |-> [i \in Slots |-> IF i = 0 /\ pc' = "push_head" THEN newp' ELSE NULL],
               head |-> 0, tail |-> 0]
    BY <1>1, <2>1 DEF Early
  <2> QED BY <1>0, <1>1, <2>1, <2>3, <2>4, <2>5 DEF Early, Steps
<1>8. CASE PushStore
  <2>1. /\ pc = "push_store" /\ pc' = "push_head" /\ newp' = newp
        /\ pq' = [pq EXCEPT !.queue = [pq.queue EXCEPT ![pq.head] = newp]]
        /\ UNCHANGED <<current, allocated, leaked, ring3, esp, tss_esp0, cpu_esp,
                       user_mapped, halted>>
    BY <1>8, ZenonT(30) DEF PushStore, At
  <2> DEFINE f == [i \in Slots |-> NULL]
             g == [i \in Slots |-> IF i = 0 /\ pc' = "push_head" THEN newp' ELSE NULL]
  <2>2. pq = [queue |-> f, head |-> 0, tail |-> 0]
    BY <1>1, <2>1 DEF Early
  <2>3. [f EXCEPT ![0] = newp] = g
    BY <2>1
  <2> HIDE DEF f, g
  <2>4. pq' = [queue |-> g, head |-> 0, tail |-> 0]
    BY <2>1, <2>2, <2>3
  <2> QED BY <1>1, <2>1, <2>4 DEF Early, Steps, g
<1> QED BY ZenonT(30), <1>3, <1>4, <1>5, <1>6, <1>7, <1>8

\* A panic of the boot thread is an exception in the kernel.
LEMMA PanicSteps ==
    ASSUME BootInv, BootPanic \/ (UserlandInit /\ pc' = "panic")
    PROVE  BootInv' /\ Sched!Next
<1>1. Early /\ halted = FALSE /\ pc \notin {"idle", "panic"}
  BY DEF BootInv, At, BootPanic, UserlandInit
<1>2. /\ pc' = "panic" /\ halted' = TRUE
      /\ UNCHANGED <<current, pq, allocated, leaked, ring3, esp, tss_esp0, cpu_esp,
                     user_mapped, newp>>
  BY DEF BootPanic, UserlandInit, At
<1>3. Sched!Init
  BY <1>1, EarlyView
<1>4. Sched!KernelException
  BY <1>1, <1>2, <1>3 DEF Sched!KernelException, Sched!Init
<1> QED BY ZenonT(30), <1>2, <1>4 DEF BootInv, Steps, Sched!Next

\* The boot thread that reaches its idle loop leaves the scheduler a process,
\* and the boot state is one of its states.
LEMMA EarlyIsCore ==
    ASSUME Early, halted \in BOOLEAN, pc \in {"userland_init", "create"}
    PROVE  Core /\ Idle \in allocated /\ newp = NULL
<1>0. NULL \notin Any /\ 0 \in Slots
  BY ProcessAssumption, QueueSizeAssumption DEF Any, Slots
<1>1. /\ current = Idle /\ allocated = {Idle} /\ newp = NULL /\ tss_esp0 = Idle
      /\ leaked = {} /\ cpu_esp \in {NULL, Idle} /\ user_mapped \in BOOLEAN
  BY DEF Early
<1>2. ring3 = {}
  BY <1>1 DEF Early
<1>3. esp \in [Any -> Stack]
  BY <1>0, <1>1 DEF Early, Stack
<1>4. pq \in QueueType /\ pq.head = 0 /\ pq.tail = 0
  BY <1>0, <1>1 DEF Early, QueueType, Stack
<1>5. Occupied(pq) = {} /\ Queued(pq) = {}
  BY <1>4 DEF Occupied, Queued, Slots
<1>6. TypeOK
  BY <1>1, <1>2, <1>3, <1>4, ZenonT(30) DEF TypeOK, QueueType, Any, Stack
<1> QED BY <1>1, <1>2, <1>5, <1>6 DEF Core, NoDuplicates, Accounted, Distinct

\* userland_init without frames, and a creation without memory, leave the
\* kernel idling.
LEMMA IdleSteps ==
    ASSUME BootInv,
           (UserlandInit /\ pc' = "idle") \/ \E p \in Process : ForgeFails(p)
    PROVE  BootInv' /\ [Sched!Next]_(Sched!vars)
<1>1. /\ Early /\ halted = FALSE /\ pc \in {"userland_init", "create"} /\ pc' = "idle"
      /\ newp' = newp
  BY DEF BootInv, At, UserlandInit, ForgeFails
<1>2. Core /\ Idle \in allocated /\ newp = NULL
  BY ZenonT(30), <1>1, EarlyIsCore
<1>3. CASE UserlandInit /\ pc' = "idle"
  <2>1. UNCHANGED <<current, pq, allocated, leaked, ring3, esp, tss_esp0, cpu_esp,
                    user_mapped, halted>>
    BY <1>3 DEF UserlandInit, At
  <2>2. Core'
    BY <1>2, <2>1 DEF Core, TypeOK, NoDuplicates, Accounted
  <2>3. UNCHANGED Sched!vars
    BY <1>1, <2>1 DEF Sched!vars
  <2> QED BY <1>1, <1>2, <2>1, <2>2, <2>3 DEF BootInv, Steps
<1>4. ASSUME NEW p \in Process, ForgeFails(p)
      PROVE  BootInv' /\ [Sched!Next]_(Sched!vars)
  <2>1. CreateFails(p)
    BY <1>4 DEF ForgeFails
  <2>2. /\ p \notin allocated /\ allocated' = allocated \cup {p} /\ leaked' = leaked \cup {p}
        /\ UNCHANGED <<current, pq, ring3, esp, tss_esp0, cpu_esp, user_mapped, halted>>
    BY <2>1 DEF CreateFails
  <2>3. Queued(pq)' = Queued(pq) /\ p \notin Queued(pq) \cup {current}
    BY <1>2, <2>2 DEF Core, Accounted
  <2>4. Core'
    BY <1>2, <2>2, <2>3 DEF Core, TypeOK, NoDuplicates, Accounted, Any
  <2>5. p # Idle
    BY ProcessAssumption
  <2>6. Sched!CreateFails(p)
    BY <1>1, <2>2, <2>5 DEF Sched!CreateFails
  <2> QED BY <1>1, <1>2, <2>2, <2>4, <2>6 DEF BootInv, Steps, Sched!Next
<1> QED BY <1>3, <1>4

\* The second store of pqueue_push makes the process appear, complete.
LEMMA PushHeadStep ==
    ASSUME BootInv, PushHead
    PROVE  BootInv' /\ Sched!Next
<1>0. NULL \notin Any /\ Idle \notin Process /\ Process \subseteq Any /\ NULL \notin Process
  BY ProcessAssumption DEF Any
<1>1. /\ pc = "push_head" /\ pc' = "idle" /\ halted = FALSE /\ Early
      /\ pq' = [pq EXCEPT !.head = NextSlot(pq.head)]
      /\ allocated' = allocated \cup {newp} /\ newp' = NULL
      /\ UNCHANGED <<current, leaked, ring3, esp, tss_esp0, cpu_esp, user_mapped, halted>>
  BY DEF BootInv, PushHead, At
<1>2. /\ newp \in Process /\ current = Idle /\ allocated = {Idle} /\ leaked = {}
      /\ tss_esp0 = Idle /\ cpu_esp \in {NULL, Idle} /\ user_mapped = TRUE
      /\ esp = [p \in Any |-> IF p = newp THEN p ELSE NULL] /\ ring3 = {newp}
  BY <1>0, <1>1 DEF Early
<1>3. EmptyQueue \in QueueType /\ Occupied(EmptyQueue) = {} /\ ~pqueue_is_full(EmptyQueue)
  BY QueueSizeAssumption
     DEF EmptyQueue, QueueType, Slots, Stack, Occupied, pqueue_is_full, NextSlot
<1>4. pq' = pqueue_push(EmptyQueue, newp)
  <2> DEFINE f == [i \in Slots |-> NULL]
             g == [i \in Slots |-> IF i = 0 /\ pc = "push_head" THEN newp ELSE NULL]
  <2>1. pq = [queue |-> g, head |-> 0, tail |-> 0]
    BY <1>1 DEF Early
  <2>2. [f EXCEPT ![0] = newp] = g
    BY <1>1
  <2>3. EmptyQueue = [queue |-> f, head |-> 0, tail |-> 0]
    BY DEF EmptyQueue
  <2> HIDE DEF f, g
  <2>4. pqueue_push(EmptyQueue, newp) = [queue |-> g, head |-> NextSlot(0), tail |-> 0]
    BY ZenonT(30), <1>3, <2>2, <2>3 DEF pqueue_push
  <2> QED BY <1>1, <2>1, <2>4
<1>5. pq' \in QueueType /\ Queued(pq') = {newp} /\ Distinct(pq')
  <2>1. Queued(EmptyQueue) = {} /\ Distinct(EmptyQueue)
    BY <1>3 DEF Queued, Distinct
  <2>2. newp \in Any /\ newp \notin Queued(EmptyQueue)
    BY <1>0, <1>2, <2>1
  <2> HIDE DEF EmptyQueue
  <2> QED BY <1>3, <1>4, <2>1, <2>2, PushAdds
<1>6. Core'
  <2>1. TypeOK'
    <3>1. esp' \in [Any -> Stack]
      BY <1>1, <1>2 DEF Stack
    <3>2. current' \in Any /\ tss_esp0' \in Any /\ cpu_esp' \in Stack \cup {SYSCALL_ERROR}
      BY <1>1, <1>2 DEF Any, Stack
    <3>3. allocated' \subseteq Any /\ leaked' \subseteq Process /\ ring3' \subseteq Process
      BY <1>1, <1>2 DEF Any
    <3>4. user_mapped' \in BOOLEAN /\ halted' \in BOOLEAN
      BY ZenonT(30), <1>1, <1>2
    <3> QED BY <1>5, <3>1, <3>2, <3>3, <3>4, ZenonT(30) DEF TypeOK, QueueType
  <2>2. Queued(pq)' = {newp} /\ Distinct(pq)'
    BY <1>5 DEF Queued, Distinct, Occupied
  <2>3. NoDuplicates' /\ Accounted'
    BY <1>0, <1>1, <1>2, <2>2 DEF NoDuplicates, Accounted
  <2>4. (\A p \in Queued(pq) : esp[p] = p)'
    BY <1>0, <1>1, <1>2, <2>2
  <2>5. (current \in ring3 => tss_esp0 = current)' /\ (leaked \cap (Queued(pq) \cup {current}) = {})'
    BY <1>1, <1>2
  <2> QED BY <2>1, <2>3, <2>4, <2>5 DEF Core
<1>7. Sched!Init
  BY <1>1, EarlyView
<1>8. [p \in Any |-> IF p = newp' THEN NULL ELSE esp'[p]] = [[p \in Any |-> NULL] EXCEPT ![newp] = newp]
  BY <1>0, <1>1, <1>2
<1>9. Sched!EmptyQueue = EmptyQueue
  BY DEF Sched!EmptyQueue, EmptyQueue, Sched!Slots, Slots
<1> PICK c \in Process : c = newp
  BY <1>2
<1>10. Sched!create_user_process(c)
  <2>1. /\ Owner(current) = Idle /\ allocated \cup {Idle} = {Idle}
        /\ (IF newp = NULL THEN pq
            ELSE [pq EXCEPT !.queue = [pq.queue EXCEPT ![pq.head] = NULL]]) = EmptyQueue
        /\ [p \in Any |-> IF p = newp THEN NULL ELSE esp[p]] = [p \in Any |-> NULL]
        /\ ring3 \ {newp} = {}
    BY <1>7, <1>9 DEF Sched!Init, Sched!Any, Any
  <2>2. newp # Idle /\ newp # NULL
    BY <1>0, <1>2
  <2>3. Sched!pqueue_push(EmptyQueue, newp) = pq'
    BY <1>4, SameQueue
  <2> HIDE DEF EmptyQueue
  <2> QED
    BY ZenonT(30), <1>1, <1>2, <1>8, <2>1, <2>2, <2>3
       DEF Sched!create_user_process, Sched!CreateWith, Sched!Any, Any
<1> QED BY <1>1, <1>2, <1>6, <1>10 DEF BootInv, Steps, Sched!Next

-----------------------------------------------------------------------------
(* Interrupts and system calls.                                            *)

\* A tick during boot finds the queue empty and returns where it came from.
LEMMA EarlyTick ==
    ASSUME BootInv, pc # "idle", Irq0
    PROVE  BootInv' /\ UNCHANGED Sched!vars
<1>1. Early /\ halted = FALSE /\ pc \notin {"idle", "panic"}
  BY ZenonT(30) DEF BootInv, Irq0
<1>2. pqueue_is_empty(pq) /\ current \in {NULL, Idle} /\ current \notin ring3
  <2>1. pqueue_is_empty(pq)
    BY <1>1 DEF Early, pqueue_is_empty
  <2> QED BY <1>1, <2>1, ProcessAssumption DEF Early
<1>3. /\ cpu_esp' = current
      /\ UNCHANGED <<current, pq, allocated, leaked, ring3, esp, tss_esp0, user_mapped,
                     halted, pc, newp>>
  BY <1>2 DEF Irq0, schedule, EntryStack, bootvars
<1>4. Early'
  BY <1>1, <1>2, <1>3 DEF Early
<1> QED BY ZenonT(30), <1>1, <1>3, <1>4, EarlyStutters DEF BootInv

\* In the idle phase a tick or a yield is one of the scheduler.
LEMMA IdleSchedule ==
    ASSUME BootInv, pc = "idle", schedule(EntryStack),
           UNCHANGED <<allocated, leaked, ring3, user_mapped, halted, bootvars>>
    PROVE  BootInv' /\ Sched!TimerIrq
<1>1. Core /\ Idle \in allocated /\ newp = NULL /\ halted = FALSE
  BY ZenonT(30) DEF BootInv
<1>2. UNCHANGED <<allocated, leaked, ring3, user_mapped, halted, pc, newp>>
  BY DEF bootvars
<1>3. IInv'
  BY ZenonT(30), <1>1, <1>2, SchedulePreserves
<1>4. BootInv'
  BY <1>1, <1>2, <1>3 DEF BootInv, IInv
<1>5. /\ Owner(current) = current /\ Owner(tss_esp0) = tss_esp0
      /\ ring3 \ {newp} = ring3
      /\ [p \in Any |-> IF p = newp THEN NULL ELSE esp[p]] = esp
  BY <1>1, IdleView
<1>6. (Core /\ newp = NULL =>
        /\ Owner(current) = current /\ Owner(tss_esp0) = tss_esp0
        /\ ring3 \ {newp} = ring3
        /\ [p \in Any |-> IF p = newp THEN NULL ELSE esp[p]] = esp)'
  BY IdleView, PTL
<1>7. /\ Owner(current)' = current' /\ Owner(tss_esp0)' = tss_esp0'
      /\ [p \in Any |-> IF p = newp' THEN NULL ELSE esp'[p]] = esp'
  BY <1>1, <1>2, <1>3, <1>6 DEF IInv
<1>8. Owner(cpu_esp)' = cpu_esp'
  <2>1. cpu_esp' = current' /\ current' \in Any
    BY <1>3 DEF IInv, Core, TypeOK, OwnStacks
  <2> QED BY <2>1, ProcessAssumption DEF Owner, Any
<1>9. EntryStack = current
  BY <1>1, QueueFacts
<1>10. Sched!EntryStack = current
  BY <1>1, <1>5 DEF Sched!EntryStack, Core
<1>11. Sched!schedule(Sched!EntryStack)
  <2>1. CASE pqueue_is_empty(pq)
    <3>1. cpu_esp' = current /\ UNCHANGED <<current, pq, esp, tss_esp0>>
      BY <1>9, <2>1 DEF schedule
    <3> QED BY <1>1, <1>2, <1>5, <1>8, <1>10, <2>1, <3>1, SameQueue DEF Sched!schedule
  <2>2. CASE ~pqueue_is_empty(pq)
    <3> DEFINE pushed == pqueue_push(pq, current)
               next == pqueue_peek(pushed)
    <3>1. /\ esp' = [esp EXCEPT ![current] = current]
          /\ pq' = pqueue_pop(pushed) /\ current' = next
          /\ tss_esp0' = (IF next # Idle THEN next ELSE tss_esp0) /\ cpu_esp' = esp'[next]
      BY <1>9, <2>2 DEF schedule, tss_set_esp
    <3>2. /\ Sched!pqueue_push(pq, current) = pushed /\ Sched!pqueue_peek(pushed) = next
          /\ Sched!pqueue_pop(pushed) = pqueue_pop(pushed) /\ ~Sched!pqueue_is_empty(pq)
      BY <2>2, SameQueue
    <3> HIDE DEF pushed, next
    <3> QED
      BY ZenonT(30), <1>1, <1>2, <1>5, <1>7, <1>8, <1>10, <3>1, <3>2
         DEF Sched!schedule, Sched!tss_set_esp, Sched!Any, Any
  <2> QED BY <2>1, <2>2
<1> QED BY <1>1, <1>2, <1>4, <1>11 DEF Sched!TimerIrq

\* In the idle phase an exit or a fault finds the idle process queued.
LEMMA IdleKill ==
    ASSUME BootInv, pc = "idle", current \in ring3, kill_current,
           UNCHANGED <<leaked, ring3, esp, bootvars>>,
           halted' = halted \/ halted' = pqueue_is_empty(pq)
    PROVE  BootInv' /\ Sched!UserException
<1>1. Core /\ Idle \in allocated /\ newp = NULL /\ halted = FALSE
  BY ZenonT(30) DEF BootInv
<1>2. UNCHANGED <<leaked, ring3, esp, pc, newp>>
  BY DEF bootvars
<1>3. ~pqueue_is_empty(pq)
  BY <1>1, IdleIsQueued
<1>4. halted' = FALSE
  BY <1>1, <1>3
<1>5. IInv' /\ Idle \in allocated'
  BY ZenonT(30), <1>1, <1>2, <1>4, KillPreserves
<1>6. BootInv'
  BY ZenonT(30), <1>1, <1>2, <1>4, <1>5 DEF BootInv, IInv
<1>7. /\ Owner(current) = current /\ Owner(tss_esp0) = tss_esp0
      /\ ring3 \ {newp} = ring3
      /\ [p \in Any |-> IF p = newp THEN NULL ELSE esp[p]] = esp
  BY <1>1, IdleView
<1>8. (Core /\ newp = NULL =>
        /\ Owner(current) = current /\ Owner(tss_esp0) = tss_esp0
        /\ ring3 \ {newp} = ring3
        /\ [p \in Any |-> IF p = newp THEN NULL ELSE esp[p]] = esp)'
  BY IdleView, PTL
<1>9. Owner(current)' = current' /\ Owner(tss_esp0)' = tss_esp0'
  BY <1>1, <1>2, <1>5, <1>8 DEF IInv
<1>10. Owner(cpu_esp)' = cpu_esp'
  <2>1. cpu_esp' = current' /\ current' \in Any
    BY <1>5 DEF IInv, Core, TypeOK, OwnStacks
  <2> QED BY <2>1, ProcessAssumption DEF Owner, Any
<1> DEFINE next == pqueue_peek(pq)
<1>11. /\ pq' = pqueue_pop(pq) /\ current' = next
       /\ tss_esp0' = (IF next # Idle THEN next ELSE tss_esp0)
       /\ user_mapped' = FALSE /\ allocated' = allocated \ {current} /\ cpu_esp' = esp[next]
  BY <1>3 DEF kill_current, tss_set_esp
<1>12. /\ Sched!pqueue_peek(pq) = next /\ Sched!pqueue_pop(pq) = pqueue_pop(pq)
       /\ ~Sched!pqueue_is_empty(pq)
  BY <1>3, SameQueue
<1> HIDE DEF next
<1>13. (user_mapped' \/ ring3' = {}) = FALSE
  BY <1>2, <1>11
<1>14. allocated' \cup {Idle} = (allocated \cup {Idle}) \ {current}
  BY <1>1, <1>11, QueueFacts
<1>15. Sched!kill_current
  BY <1>1, <1>2, <1>7, <1>9, <1>10, <1>11, <1>12, <1>13, <1>14
     DEF Sched!kill_current, Sched!tss_set_esp
<1> QED BY ZenonT(30), <1>1, <1>2, <1>4, <1>6, <1>7, <1>15 DEF Sched!UserException

-----------------------------------------------------------------------------
\* Every step of the boot thread, the timer and the shell is one of the
\* scheduler, or does not show.
LEMMA StepRefines ==
    ASSUME BootInv, [BootNext]_allvars
    PROVE  BootInv' /\ [Sched!Next]_(Sched!vars)
<1>1. CASE BootThread
  <2>1. CASE UserlandInit
    <3>1. pc' \in {"create", "idle", "panic"}
          /\ (pc' = "create" => At("userland_init", "create"))
      BY <2>1 DEF UserlandInit, At
    <3> QED BY <2>1, <3>1, EarlySteps, PanicSteps, IdleSteps
  <2> QED
    BY <1>1, <2>1, EarlySteps, PanicSteps, IdleSteps, PushHeadStep DEF BootThread
<1>2. CASE Irq0
  <2>1. CASE pc = "idle"
    <3>1. Core /\ current # NULL
      BY <2>1, ProcessAssumption DEF BootInv, Core, TypeOK, Any
    <3>2. schedule(EntryStack) /\ UNCHANGED <<allocated, leaked, ring3, user_mapped, halted, bootvars>>
      BY <1>2, <3>1 DEF Irq0
    <3> QED BY <2>1, <3>2, IdleSchedule DEF Sched!Next
  <2> QED BY <1>2, <2>1, EarlyTick
<1>3. CASE UserStep
  <2>1. pc = "idle" /\ current \in ring3
    <3>1. current \in ring3 /\ halted = FALSE
      BY <1>3 DEF UserStep, SysYield, SysExitCurr, UserException, InUserCode, BootInv
    <3>2. pc # "panic"
      BY ZenonT(30), <3>1 DEF BootInv
    <3>3. ~Early
      BY <3>1, ProcessAssumption DEF Early
    <3> QED BY <3>1, <3>2, <3>3 DEF BootInv
  <2>2. CASE SysYield
    BY <1>3, <2>1, <2>2, IdleSchedule DEF UserStep, SysYield, Sched!Next
  <2>3. CASE SysExitCurr \/ UserException
    BY <1>3, <2>1, <2>3, IdleKill DEF UserStep, SysExitCurr, UserException, Sched!Next
  <2> QED BY <1>3, <2>2, <2>3 DEF UserStep
<1>4. CASE UNCHANGED allvars
  <2>1. UNCHANGED <<current, pq, allocated, leaked, ring3, esp, tss_esp0, cpu_esp,
                    user_mapped, halted, pc, newp>>
    BY <1>4, ZenonT(30) DEF allvars, vars, bootvars
  <2>2. UNCHANGED Sched!vars
    BY ZenonT(30), <2>1 DEF Sched!vars
  <2>3. BootInv'
    BY <2>1 DEF BootInv, Early, Core, TypeOK, NoDuplicates, Accounted
  <2> QED BY <2>2, <2>3
<1> QED BY <1>1, <1>2, <1>3, <1>4 DEF BootNext

LEMMA BootInitInv == BootInit => BootInv /\ Sched!Init
<1> SUFFICES ASSUME BootInit PROVE BootInv /\ Sched!Init
  OBVIOUS
<1>1. Early
  <2>1. NULL \notin Any /\ newp = NULL /\ pc = "timer_init"
    BY ProcessAssumption DEF Any, BootInit
  <2>2. esp = [p \in Any |-> IF p = newp THEN p ELSE NULL]
    BY <2>1 DEF BootInit
  <2>3. pq = [queue |-> [i \in Slots |-> IF i = 0 /\ pc = "push_head" THEN newp ELSE NULL],
              head |-> 0, tail |-> 0]
    BY <2>1 DEF BootInit, EmptyQueue
  <2> QED BY ZenonT(30), <2>1, <2>2, <2>3 DEF BootInit, Early
<1>2. BootInv
  BY ZenonT(30), <1>1 DEF BootInit, BootInv, Steps
<1> QED BY <1>1, <1>2, EarlyView DEF BootInit

\* Whatever interrupts arrive while mainInitScript runs, the kernel is only
\* ever halted by a panic of the boot thread itself.
THEOREM BootSurvivesInterrupts == BootSpec => []OnlyBootPanics
<1>1. BootInv => OnlyBootPanics
  BY ZenonT(30) DEF BootInv, OnlyBootPanics
<1>2. BootInv /\ [BootNext]_allvars => BootInv'
  BY StepRefines
<1> QED BY <1>1, <1>2, BootInitInv, PTL DEF BootSpec

\* mainInitScript, interrupted anywhere after timer_init, and the two stores of
\* pqueue_push implement the scheduler with its atomic creation.
THEOREM BootRefinesScheduler == BootSpec => BootImplementsScheduler
<1>1. BootInv /\ [BootNext]_allvars => BootInv'
  BY StepRefines
<1>2. BootInv /\ [BootNext]_allvars => [Sched!Next]_(Sched!vars)
  BY StepRefines
<1> QED BY <1>1, <1>2, BootInitInv, PTL DEF BootSpec, BootImplementsScheduler
=============================================================================
