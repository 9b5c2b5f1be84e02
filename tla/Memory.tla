-------------------------------- MODULE Memory --------------------------------
(***************************************************************************)
(* Physical memory and its mapping: the frame bitmap filled from the       *)
(* multiboot memory map (frameAllocator.c, memoryMap.c), the one page      *)
(* directory whose tables are frames too (paging.c), the pages of the      *)
(* framebuffer and those of the user program (userland.c).                 *)
(*                                                                         *)
(* Frames and pages are numbers; addresses in the memory map are in units  *)
(* of which a page has Unit, and wrap at AddrSpace.  alloc_frame returns 0 *)
(* when there is no frame left.  The page tables are one function from     *)
(* pages to frames, since a table starts out empty and is never given back.*)
(***************************************************************************)
EXTENDS Integers, Sequences, FiniteSets, FiniteSetsExt, Functions

CONSTANTS
    Pages,          \* pages of the address space, and frames of the bitmap
    Unit,           \* addresses in a page
    Span,           \* pages that one table maps
    HEAP_START, KERNEL_CEILING,
    MISC_PAGE_CNT,
    KernelPages,    \* pages up to _ebss
    FbFirst, FbLast,    \* the pages of the framebuffer
    MemoryMaps      \* what the boot loader may report

AddrSpace == Pages * Unit
CODE_ADDR == KERNEL_CEILING
STACK_ADDR == KERNEL_CEILING + MISC_PAGE_CNT + 1
UserPages == CODE_ADDR .. STACK_ADDR
HeapPages == HEAP_START .. KERNEL_CEILING - 1

(* The heap and the user program do not share a table, and neither shares one
   with the framebuffer. *)
ASSUME MemoryAssumption ==
    /\ {Pages, Unit, Span, KernelPages, HEAP_START, KERNEL_CEILING,
        FbFirst, FbLast} \subseteq Nat \ {0}
    /\ KernelPages < HEAP_START /\ HEAP_START < KERNEL_CEILING
    /\ HEAP_START % Span = 0 /\ KERNEL_CEILING % Span = 0
    /\ STACK_ADDR < Pages /\ MISC_PAGE_CNT \in Nat
    /\ STACK_ADDR < FbFirst /\ FbFirst <= FbLast /\ FbLast < Pages

VARIABLES
    mem,        \* the frame bitmap, the page tables and frames[]
    map,        \* the memory map of this machine
    pc,         \* what mainInitScript calls next
    user,       \* the user program: none yet, alive, or gone
    panicked

memoryVars == <<mem, map, pc, user, panicked>>

NotPresent == -1
Dirs == 0 .. (Pages - 1) \div Span

-----------------------------------------------------------------------------
(* The memory map. *)

MapEntry == [base : 0 .. AddrSpace - 1, len : 0 .. AddrSpace - 1,
             baseHi : BOOLEAN, lenHi : BOOLEAN, usable : BOOLEAN]

\* The length that mmap_walk passes on: it ends at the end of 32 bits at most.
Length(e) ==
    IF e.lenHi \/ (e.base + e.len) % AddrSpace < e.base
    THEN (AddrSpace - e.base) % AddrSpace ELSE e.len

Entries(mp) == {e \in Range(mp) : ~e.baseHi /\ e.usable}

\* Frames of an entry, first and last not rounded the same way.
Region(e) ==
    ((e.base + Unit - 1) % AddrSpace) \div Unit
        .. ((e.base + Length(e)) % AddrSpace) \div Unit - 1

track_ram_top(e) ==
    LET top == (e.base + Length(e)) % AddrSpace
    IN  Min({HEAP_START * Unit, IF top < e.base THEN AddrSpace - 1 ELSE top})

ram_top(mp) == Max({0} \cup {track_ram_top(e) : e \in Entries(mp)})

\* The last page that paging_init maps to itself.
TopPage(mp) == (ram_top(mp) - 1) \div Unit

Marked(mp) == (UNION {Region(e) : e \in Entries(mp)}) \ (0 .. KernelPages - 1)

(* What the boot loader reports are entries of 32 bits; no memory starts in the
   last page of the address space; and there is room in low memory for the page
   directory and the tables that map low memory. *)
ASSUME MapsAssumption ==
    \A mp \in MemoryMaps :
        /\ mp \in Seq(MapEntry)
        /\ \A e \in Entries(mp) : e.base <= AddrSpace - Unit
        /\ Cardinality({f \in Marked(mp) : f < HEAP_START}) > TopPage(mp) \div Span + 1

-----------------------------------------------------------------------------
(* Frames and tables. *)

Lowest(m) == IF m.free = {} THEN 0 ELSE Min(m.free)
Take(m) == [m EXCEPT !.free = @ \ {Lowest(m)}]
free_frame(m, f) == [m EXCEPT !.free = @ \cup {f}]

\* Without a table, and without a frame that can be one, nothing is mapped.
map_page(m, virt, phys) ==
    IF m.dir[virt \div Span] # 0
    THEN [m EXCEPT !.pte[virt] = phys]
    ELSE IF Lowest(m) = 0 \/ Lowest(m) >= HEAP_START
         THEN [m EXCEPT !.refused = TRUE]
         ELSE [Take(m) EXCEPT !.dir[virt \div Span] = Lowest(m), !.pte[virt] = phys]

\* n pages from first on are mapped to the frames phys, in order.
MapPages(m, first, n, phys) ==
    LET done[k \in 0 .. n] ==
            IF k = 0 THEN m ELSE map_page(done[k - 1], first + k - 1, phys[k])
    IN  done[n]

Identity(m, first, last) ==
    MapPages(m, first, last - first + 1, [i \in 1 .. last - first + 1 |-> first + i - 1])

Unmapped(m, virt) == [m EXCEPT !.pte[virt] = NotPresent]

-----------------------------------------------------------------------------
MemoryInit ==
    /\ map \in MemoryMaps
    /\ mem = [free |-> {}, kernel_dir |-> 0, dir |-> [d \in Dirs |-> 0],
              pte |-> [p \in 0 .. Pages - 1 |-> NotPresent],
              frames |-> [i \in 1 .. MISC_PAGE_CNT |-> 0],
              refused |-> FALSE]        \* ghost: some page could not be mapped
    /\ pc = "frames" /\ user = "none" /\ panicked = FALSE

Step(from, to) ==
    /\ pc = from /\ pc' = to
    /\ UNCHANGED <<map, user, panicked>>

FrameAllocInit == Step("frames", "paging") /\ mem' = [mem EXCEPT !.free = Marked(map)]

PagingInit ==
    /\ Step("paging", "heap")
    /\ mem' = Identity([Take(mem) EXCEPT !.kernel_dir = Lowest(mem)],
                       1, TopPage(map))

FbInit ==
    /\ Step("fb", "running")
    /\ mem' = Identity(mem, FbFirst, FbLast)

-----------------------------------------------------------------------------
(* The user program. *)

\* The frame that the i-th call of alloc_frame returns.
Nth(S, i) == CHOOSE f \in S : Cardinality({g \in S : g < f}) = i - 1

\* map_misc_pages takes all frames before it maps the first one, and gives
\* them back when there are not enough.
MiscTaken(m) ==
    LET taken == [i \in 1 .. MISC_PAGE_CNT |-> Nth(m.free, i)]
    IN  [m EXCEPT !.free = @ \ Range(taken), !.frames = taken]

map_misc_pages(m) ==
    IF Cardinality(m.free) < MISC_PAGE_CNT THEN m
    ELSE MapPages(MiscTaken(m), CODE_ADDR + 1, MISC_PAGE_CNT, MiscTaken(m).frames)

\* The code page, the others and the stack.
UserMapped(m, code, stack) ==
    map_page(map_misc_pages(map_page(m, CODE_ADDR, code)), STACK_ADDR, stack)

\* Copying the program faults, in the kernel, where no page is mapped.
UserlandInit ==
    /\ pc = "running" /\ ~panicked /\ user = "none"
    /\ IF Cardinality(mem.free) < 2
       THEN user' = "gone" /\ UNCHANGED <<mem, panicked>>
       ELSE /\ mem' = UserMapped(Take(Take(mem)), Lowest(mem), Lowest(Take(mem)))
            /\ panicked' = (\E v \in CODE_ADDR .. STACK_ADDR - 1 : mem'.pte[v] = NotPresent)
            /\ user' = "alive"
    /\ UNCHANGED <<map, pc>>

FreePage(m, virt) ==
    IF m.pte[virt] = NotPresent THEN m ELSE free_frame(Unmapped(m, virt), m.pte[virt])

Kept(m) == {i \in 1 .. MISC_PAGE_CNT : m.frames[i] # 0}

UnmappedMisc(m) ==
    [v \in DOMAIN m.pte |-> IF v - CODE_ADDR \in Kept(m) THEN NotPresent ELSE m.pte[v]]

\* The pages are unmapped, and their frames stay taken.
FreeMisc_Leaks(m) == [m EXCEPT !.pte = UnmappedMisc(m)]

FreeMisc(m) ==
    [m EXCEPT !.free = @ \cup {m.frames[i] : i \in Kept(m)}, !.pte = UnmappedMisc(m)]

\* kill_current, when the user program exits or faults; frames[] keeps its values.
userland_teardown ==
    /\ user = "alive" /\ ~panicked /\ user' = "gone"
    /\ mem' = FreeMisc(FreePage(FreePage(mem, CODE_ADDR), STACK_ADDR))
    /\ UNCHANGED <<map, pc, panicked>>

-----------------------------------------------------------------------------
(* The frames that are entirely memory, and not below the end of the kernel. *)
Ram(mp) ==
    {f \in KernelPages .. Pages - 1 :
        \E e \in Entries(mp) :
            e.base <= f * Unit /\ (e.lenHi \/ (f + 1) * Unit <= e.base + e.len)}

\* Who a frame belongs to.
Owners(f) ==
    {<<"free">> : x \in mem.free \cap {f}}
        \cup {<<"directory">> : x \in {mem.kernel_dir} \cap {f}}
        \cup {<<"table", d>> : d \in {x \in Dirs : mem.dir[x] = f}}
        \cup {<<"page", v>> : v \in {x \in HeapPages \cup UserPages : mem.pte[x] = f}}

Tables == {mem.kernel_dir} \cup {mem.dir[d] : d \in {x \in Dirs : mem.dir[x] # 0}}

(* Every frame in the bitmap is memory above the kernel image, and is either
   free or used for one purpose: a table never is somebody's page, and two
   pages never share a frame, whatever failed half way and through the exit of
   the user program.  No frame is lost, unless a page could not be mapped.
   The kernel writes tables at their physical addresses, so the directory and
   every table lie in memory that is mapped to itself. *)
FramesOwnedOnce ==
    /\ pc # "frames" =>
         /\ mem.free \subseteq Ram(map)
         /\ \A f \in Marked(map) : \A x, y \in Owners(f) : x = y
         /\ ~mem.refused => \A f \in Marked(map) : Owners(f) # {}
    /\ pc \notin {"frames", "paging"} =>
         \A f \in Tables : f \in Ram(map) /\ mem.pte[f] = f
=============================================================================
