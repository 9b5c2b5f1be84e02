---------------------------- MODULE ProcessQueue ----------------------------
(***************************************************************************)
(* The ready queue of src/kernel/process/queue/processQueue.c: a ring of   *)
(* PQUEUE_SIZE_ELEMENTS slots addressed by two unsigned char indices.      *)
(* The static variables queue, head and tail are the fields of one record, *)
(* so that schedule() can push and pop within a single atomic step.        *)
(***************************************************************************)
EXTENDS Integers, Sequences

CONSTANTS
    PQUEUE_SIZE_ELEMENTS,   \* 256 in the code, the range of unsigned char
    NULL                    \* the null Process pointer

\* A ring of one slot would be full when it is empty.
ASSUME QueueSizeAssumption ==
    /\ PQUEUE_SIZE_ELEMENTS \in Nat
    /\ PQUEUE_SIZE_ELEMENTS >= 2

Slots == 0 .. (PQUEUE_SIZE_ELEMENTS - 1)

\* head + 1 and tail++ in an unsigned char: the ring has exactly as many slots
\* as the type has values, so the index wraps with the type.
NextSlot(i) == IF i = PQUEUE_SIZE_ELEMENTS - 1 THEN 0 ELSE i + 1

\* The static storage of the queue is zeroed; pqueue_init has no caller and
\* would write the same two zeros.
EmptyQueue == [queue |-> [i \in Slots |-> NULL], head |-> 0, tail |-> 0]

pqueue_is_empty(q) == q.head = q.tail

pqueue_is_full(q) == NextSlot(q.head) = q.tail

\* Returned by pqueue_push, and ignored by all of its callers.
pqueue_push_InFront(q, p) ==
    LET t == IF q.tail = 0 THEN PQUEUE_SIZE_ELEMENTS - 1 ELSE q.tail - 1
    IN IF pqueue_is_full(q)
       THEN q
       ELSE [q EXCEPT !.queue = [q.queue EXCEPT ![t] = p], !.tail = t]

pqueue_push(q, p) ==
    IF pqueue_is_full(q)
    THEN q
    ELSE [q EXCEPT !.queue = [q.queue EXCEPT ![q.head] = p],
                   !.head  = NextSlot(q.head)]

\* The pointer pqueue_pop and pqueue_peek return.
pqueue_peek(q) == IF pqueue_is_empty(q) THEN NULL ELSE q.queue[q.tail]

\* What pqueue_pop leaves behind: the slot keeps its stale pointer.
pqueue_pop(q) ==
    IF pqueue_is_empty(q) THEN q ELSE [q EXCEPT !.tail = NextSlot(q.tail)]

\* (unsigned char)(head - tail).
pqueue_size(q) ==
    IF q.tail <= q.head THEN q.head - q.tail
                        ELSE q.head - q.tail + PQUEUE_SIZE_ELEMENTS

-----------------------------------------------------------------------------
\* The slots that hold a queued process, and the processes they hold.
Occupied(q) ==
    {i \in Slots : IF q.tail <= q.head
                   THEN q.tail <= i /\ i < q.head
                   ELSE q.tail <= i \/ i < q.head}

Queued(q) == {q.queue[i] : i \in Occupied(q)}

Distinct(q) == \A i, j \in Occupied(q) : i # j => q.queue[i] # q.queue[j]

\* The queue as a sequence, oldest entry first.
SlotAfterTail(q, k) ==
    IF q.tail + k < PQUEUE_SIZE_ELEMENTS
    THEN q.tail + k
    ELSE q.tail + k - PQUEUE_SIZE_ELEMENTS

Contents(q) ==
    [k \in 1 .. pqueue_size(q) |-> q.queue[SlotAfterTail(q, k - 1)]]
=============================================================================
