-------------------------------- MODULE Heap --------------------------------
(***************************************************************************)
(* The kernel heap (src/kernel/memory/heap/kernelHeap.c) on top of frames  *)
(* and pages: a chain of blocks, each a header and a payload, that tiles   *)
(* the heap.  kmalloc takes the first free block that is large enough,     *)
(* splits it, and doubles the heap when there is none; kfree merges the    *)
(* block with the free ones behind it.                                     *)
(*                                                                         *)
(* Sizes and addresses are in words, relative to heap_start.  Each call is *)
(* one step: system calls run with interrupts off, and the handlers that   *)
(* may interrupt the boot thread do not use the heap.                      *)
(***************************************************************************)
EXTENDS Memory

CONSTANTS
    Header,     \* sizeof(BlockHeader), in words
    Page,       \* FRAME_SIZE_BYTES, in words
    Requests,   \* sizes asked for, rounded up to words
    MaxHeld     \* bound: pointers held at a time

ASSUME HeapAssumption ==
    /\ Header \in Nat \ {0} /\ Page \in Nat /\ Page > Header
    /\ Requests \subseteq Nat /\ MaxHeld \in Nat

Ceiling == KERNEL_CEILING - HEAP_START

VARIABLES
    blocks,     \* the headers, [size, is_free], by address
    pages,      \* heap_end, in pages
    held        \* what callers hold: a size for each pointer handed out

heapVars == <<blocks, pages, held>>
vars == <<memoryVars, heapVars>>

Block == [size : Nat, is_free : BOOLEAN]

\* Where block a ends: the walks look for the next header there.
End(bs, a) == a + Header + bs[a].size

Fits(bs, wanted) == {a \in DOMAIN bs : bs[a].is_free /\ bs[a].size >= wanted}

\* Block a is cut after wanted words, and what is left becomes a free block.
Cut(bs, a, wanted, left) ==
    LET rest == a + Header + wanted
    IN  [x \in DOMAIN bs \cup {rest} |->
            IF x = rest THEN [size |-> left, is_free |-> TRUE]
            ELSE IF x = a THEN [size |-> wanted, is_free |-> FALSE] ELSE bs[x]]

\* Block a taken for wanted words, split when more than a header remains.
Taken_NoHeader(bs, a, wanted) ==
    IF bs[a].size - wanted > Header
    THEN Cut(bs, a, wanted, bs[a].size - wanted)
    ELSE [bs EXCEPT ![a].is_free = FALSE]

Taken(bs, a, wanted) ==
    IF bs[a].size - wanted > Header
    THEN Cut(bs, a, wanted, bs[a].size - wanted - Header)
    ELSE [bs EXCEPT ![a].is_free = FALSE]

\* The heap as kmalloc sees it: the chain, its pages and the memory below.
CanGrow(h) == h.pages < Ceiling - 1 /\ h.mem.free # {}

\* New words at the end extend the last block if it is free.
Extend(bs, end, words) ==
    IF bs[Max(DOMAIN bs)].is_free
    THEN [bs EXCEPT ![Max(DOMAIN bs)].size = @ + words]
    ELSE [x \in DOMAIN bs \cup {end} |->
            IF x = end THEN [size |-> words - Header, is_free |-> TRUE] ELSE bs[x]]

\* One page of the growth: spare is the frame for it, end the pages so far.
Mapped(m, i) == [mem |-> Take(m), spare |-> Lowest(m), end |-> i + 1]

\* The page is counted before a frame was found for it.
GrowPage_Early(g, i) ==
    IF g.spare = 0 THEN [g EXCEPT !.end = i + 1]
    ELSE Mapped(map_page(g.mem, HEAP_START + i, g.spare), i)

GrowPage(g, i) ==
    IF g.spare = 0 THEN g ELSE Mapped(map_page(g.mem, HEAP_START + i, g.spare), i)

\* Doubling, as far as the ceiling and the frames allow; the frame that was
\* taken for the page after the last one goes back.
Doubled(m, n) ==
    LET done[k \in 0 .. n] ==
            IF k = 0 THEN Mapped(m, n - 1) ELSE GrowPage(done[k - 1], n + k - 1)
    IN  done[Min({n, Ceiling - n})]

Grew(h, g) ==
    [blocks |-> Extend(h.blocks, h.pages * Page, (g.end - h.pages) * Page), pages |-> g.end,
     mem |-> IF g.spare = 0 THEN g.mem ELSE free_frame(g.mem, g.spare)]

Grow(h) == IF CanGrow(h) THEN Grew(h, Doubled(h.mem, h.pages)) ELSE h

\* One call of kmalloc: it grows the heap if nothing fits, and calls itself.
GrowFor(h, wanted) == IF Fits(h.blocks, wanted) = {} THEN Grow(h) ELSE h

\* The heap in the last of the recursive calls: the request fits or no growth
\* is possible any more, after Ceiling calls at most.
Grown(h, wanted) ==
    LET call[k \in 0 .. Ceiling] == IF k = 0 THEN h ELSE GrowFor(call[k - 1], wanted)
    IN  call[Ceiling]

\* The pages of the words from first to first + n - 1.
PagesOf(first, n) == {HEAP_START + w \div Page : w \in first .. first + n - 1}

\* Headers are written in the heap itself, and the caller writes to its block:
\* the kernel panics on a page that is not there.
Faults(m, bs, ptr, n) ==
    \E v \in PagesOf(ptr, n) \cup UNION {PagesOf(a, Header) : a \in DOMAIN bs} :
        m.pte[v] = NotPresent

-----------------------------------------------------------------------------
Init ==
    /\ MemoryInit
    /\ blocks = [x \in {} |-> 0] /\ pages = 0 /\ held = [x \in {} |-> 0]

heap_init ==
    /\ Step("heap", "fb")
    /\ mem' = map_page(Take(mem), HEAP_START, Lowest(mem))
    /\ blocks' = [x \in {0} |-> [size |-> Page - Header, is_free |-> TRUE]] /\ pages' = 1
    /\ UNCHANGED held

\* kmalloc on the grown heap h.
Serve(h, wanted) ==
    LET a == Min(Fits(h.blocks, wanted))
        ptr == a + Header
    IN
    /\ pages' = h.pages /\ mem' = h.mem
    /\ IF Fits(h.blocks, wanted) = {}
       THEN /\ blocks' = h.blocks /\ UNCHANGED held      \* returns 0
            /\ panicked' = Faults(h.mem, h.blocks, 0, 0)
       ELSE /\ blocks' = Taken(h.blocks, a, wanted)
            /\ held' = [x \in DOMAIN held \cup {ptr} |-> IF x = ptr THEN wanted ELSE held[x]]
            /\ panicked' = Faults(h.mem, blocks', ptr, wanted)

Kmalloc(wanted) ==
    /\ pc = "running" /\ ~panicked /\ Cardinality(DOMAIN held) < MaxHeld
    /\ Serve(Grown([blocks |-> blocks, pages |-> pages, mem |-> mem], wanted), wanted)
    /\ UNCHANGED <<map, pc, user>>

\* Where the free blocks behind block a end.
FreeUpTo(a) == Min({pages * Page} \cup {x \in DOMAIN blocks : x > a /\ ~blocks[x].is_free})

\* kfree: merge with the run of free blocks behind.
Kfree(ptr) ==
    LET a == ptr - Header
        e == FreeUpTo(a)
    IN
    /\ ~panicked
    /\ blocks' = [x \in {y \in DOMAIN blocks : y <= a \/ y >= e} |->
                    IF x = a THEN [size |-> e - ptr, is_free |-> TRUE] ELSE blocks[x]]
    /\ held' = [x \in DOMAIN held \ {ptr} |-> held[x]]
    /\ UNCHANGED <<pages, memoryVars>>

Next ==
    \/ (FrameAllocInit \/ PagingInit \/ FbInit \/ UserlandInit \/ userland_teardown)
         /\ UNCHANGED heapVars
    \/ heap_init
    \/ \E wanted \in Requests : Kmalloc(wanted)
    \/ \E ptr \in DOMAIN held : Kfree(ptr)

Spec == Init /\ [][Next]_vars
-----------------------------------------------------------------------------
TypeOK ==
    /\ pages \in 0 .. Ceiling
    /\ DOMAIN blocks \subseteq 0 .. Ceiling * Page /\ blocks \in [DOMAIN blocks -> Block]
    /\ DOMAIN held \subseteq 0 .. Ceiling * Page

(* What callers hold never overlaps, neither another caller's memory nor a
   header, and lies inside the heap: each pointer is the payload of a block in
   use that is large enough, and every block in use is somebody's.  The blocks
   follow each other from heap_start to heap_end after any splits, merges and
   growths: the walks of kmalloc and kfree, which stop there, never run past it
   or read a header out of the middle of a block. *)
HeldIsDisjoint ==
    /\ TypeOK
    /\ pages > 0 => 0 \in DOMAIN blocks
    /\ \A a \in DOMAIN blocks :
         /\ End(blocks, a) \in DOMAIN blocks \cup {pages * Page}
         /\ End(blocks, a) <= pages * Page
         /\ \A b \in DOMAIN blocks : a < b => End(blocks, a) <= b
    /\ DOMAIN held = {a + Header : a \in {x \in DOMAIN blocks : ~blocks[x].is_free}}
    /\ \A a \in DOMAIN blocks : ~blocks[a].is_free => blocks[a].size >= held[a + Header]

(* Every page below heap_end is mapped, however a growth was cut short by the
   ceiling or by the frames, as long as map_page found a frame for each table
   it needed; the kernel then never faults on its own heap. *)
HeapBacked ==
    ~mem.refused =>
        /\ \A p \in HEAP_START .. HEAP_START + pages - 1 : mem.pte[p] # NotPresent
        /\ \A p \in HEAP_START + pages .. KERNEL_CEILING - 1 : mem.pte[p] = NotPresent
=============================================================================
