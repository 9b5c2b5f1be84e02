----------------------------- MODULE FileBlocks -----------------------------
(***************************************************************************)
(* How src/kernel/fs/block/blockController.c stores a file: the block map  *)
(* of one inode, the operations that grow, cut, rewrite and delete it, and *)
(* the way each of them backs out when alloc_block finds no block.         *)
(*                                                                         *)
(* The pointers of the inode are those of "block" 0, which is also the     *)
(* null pointer: slots 0 .. D-1 are dir_block_ptr, then singly, doubly and *)
(* triply_indir_block_ptr.  A system call runs with interrupts disabled    *)
(* and is one action; the functions that make it up pass the partition and *)
(* the kernel's copy of the inode along as one record.                     *)
(***************************************************************************)
EXTENDS Integers, FiniteSetsExt, SequencesExt

CONSTANTS
    D,          \* INODE_BLK_PTR_AMT
    P,          \* BIT_32_PER_BLK: pointers in an indirect block
    BLOCK_SIZE, \* bytes in a data block
    NBlocks,    \* blocks of the partition
    MaxOthers,  \* bound on the blocks of other files that come and go
    Kept,       \* how many blocks the files nobody touches may have
    Byte,       \* the bytes users write
    Buffers,    \* the buffers they pass to the system calls
    Cuts,       \* the sizes they truncate to
    MaxPast,    \* bound on the operations followed past Limit
    ZERO, JUNK, \* a zero byte, and what fresh memory and free blocks hold
    LOST        \* a file nothing is promised of

ASSUME LayoutAssumption ==
    /\ D \in Nat \ {0} /\ P \in Nat \ {0, 1} /\ BLOCK_SIZE \in Nat \ {0}
    /\ NBlocks \in Nat \ {0} /\ {MaxOthers, MaxPast} \subseteq Nat /\ Kept \subseteq 0 .. NBlocks
    /\ ZERO \notin Byte /\ JUNK \notin Byte
    /\ Buffers \subseteq Seq(Byte) /\ Cuts \subseteq Nat

VARIABLES
    s,          \* the partition: used, ptrs, data; and the inode: size, sectors
    exists,     \* the inode is allocated
    others,     \* the blocks of other files that come and go
    kept,       \* the blocks of other files that nobody touches
    past        \* ghost: 0 until the file first has more than Limit bytes, then
                \* counts the operations on it

vars == <<s, exists, others, kept, past>>

\* size_lo has 32 bits, and 2^32 bytes are exactly P * P blocks of 4096: the
\* doubly indirect block is never filled and the triply indirect never used.
MaxSize == P * P * BLOCK_SIZE - 1

Block == 1 .. NBlocks
Slot == 0 .. (P - 1)
Singly == D
Doubly == D + 1
Triply == D + 2
NoPtrs == [i \in Slot |-> 0]
JunkPtrs == [i \in Slot |-> 1]
Bytes(v) == [i \in 1 .. BLOCK_SIZE |-> v]
NoInodePtrs == [i \in 0 .. Triply |-> 0]

\* (size + BLOCK_SIZE - 1) / BLOCK_SIZE in uint32_t: the sum wraps to 0 for the
\* sizes past Limit, those that end within the last of the P * P blocks.
Limit == MaxSize + 1 - BLOCK_SIZE

BlockCnt(size) == ((size + BLOCK_SIZE - 1) % (MaxSize + 1)) \div BLOCK_SIZE

\* BlockCnt(size) - 1.  0 - 1 is 0xFFFFFFFF, an index past what even the triply
\* indirect pointer reaches.
LastIdx(size) ==
    IF BlockCnt(size) = 0 THEN D + P + P * P + P * P * P ELSE BlockCnt(size) - 1

\* alloc_block and free_block of bitmapController.c.  What a free block holds
\* is not kept: it counts as JUNK bytes, or as pointers to block 1, until it is
\* written again.
alloc_block(t) == IF Block \ t.used = {} THEN 0 ELSE Min(Block \ t.used)

Mark(t, b) == IF b = 0 THEN t ELSE [t EXCEPT !.used = t.used \cup {b}]

free_block(t, b) ==
    IF b = 0 THEN t
    ELSE [t EXCEPT !.used = t.used \ {b},
                   !.ptrs = [t.ptrs EXCEPT ![b] = JunkPtrs],
                   !.data = [t.data EXCEPT ![b] = Bytes(JUNK)]]

Point(t, b, i, to) == [t EXCEPT !.ptrs = [t.ptrs EXCEPT ![b] = [t.ptrs[b] EXCEPT ![i] = to]]]
Zeroed(t, b) == IF b = 0 THEN t ELSE [t EXCEPT !.ptrs = [t.ptrs EXCEPT ![b] = NoPtrs]]
write_block(t, b, bytes) == [t EXCEPT !.data = [t.data EXCEPT ![b] = bytes]]

-----------------------------------------------------------------------------
\* map_file_block: the slots to follow from the inode to a block of the file.
Path(idx) ==
    LET q == idx - D - P
        r == q - P * P
    IN CASE idx < D         -> <<idx>>
         [] idx < D + P     -> <<Singly, idx - D>>
         [] q < P * P       -> <<Doubly, q \div P, q % P>>
         [] OTHER           -> <<Triply, r \div (P * P), (r \div P) % P, r % P>>

\* LOOKUP_MODE: the block, or 0 for EMPTY_BLOCK.
RECURSIVE Follow(_, _, _)
Follow(t, b, path) ==
    LET next == t.ptrs[b][Head(path)]
    IN IF next = 0 \/ Len(path) = 1 THEN next ELSE Follow(t, next, Tail(path))

Lookup(t, idx) == Follow(t, 0, Path(idx))

\* ALLOC_MODE: missing blocks are allocated on the way down, indirect ones
\* zeroed; when the partition is full the ones minted by this call are freed
\* again on the way up and the pointer to the first of them is cleared.
RECURSIVE Grow(_, _, _)
Grow(t, b, path) ==
    LET old   == t.ptrs[b][Head(path)]
        fresh == alloc_block(t)
        leaf  == Len(path) = 1
        t1    == Point(Mark(t, fresh), b, Head(path), fresh)
        below == Grow(Zeroed(t1, fresh), fresh, Tail(path))
    IN IF old # 0
       THEN IF leaf THEN [t |-> t, out |-> old, cnt |-> 0]
                    ELSE Grow(t, old, Tail(path))
       ELSE IF fresh = 0 THEN [t |-> t, out |-> 0, cnt |-> 0]
       ELSE IF leaf THEN [t |-> t1, out |-> fresh, cnt |-> 1]
       ELSE IF below.out # 0 THEN [below EXCEPT !.cnt = below.cnt + 1]
       ELSE [below EXCEPT !.t = Point(free_block(below.t, fresh), b, Head(path), 0)]

MapAlloc(t, idx) == Grow(t, 0, Path(idx))

\* FREE_MODE: the pointer to the block is cleared (the caller frees the block),
\* an indirect block left without pointers is freed.
RECURSIVE Prune(_, _, _)
Prune(t, b, path) ==
    LET old   == t.ptrs[b][Head(path)]
        below == Prune(t, old, Tail(path))
        freed == free_block(below.t, old)
    IN IF old = 0 THEN [t |-> t, out |-> 0, cnt |-> 0]
       ELSE IF Len(path) = 1
       THEN [t |-> Point(t, b, Head(path), 0), out |-> old, cnt |-> 1]
       ELSE IF below.out # 0 /\ below.t.ptrs[old] = NoPtrs
       THEN [t |-> Point(freed, b, Head(path), 0), out |-> below.out,
             cnt |-> below.cnt + 1]
       ELSE below

MapFree(t, idx) == Prune(t, 0, Path(idx))

\* indir_free_block: a block and, below the layer of data blocks, all that it
\* points to.
RECURSIVE indir_free_block(_, _, _)
indir_free_block(t, b, layer) ==
    IF b = 0 THEN t
    ELSE IF layer = 0 THEN free_block(t, b)
    ELSE free_block(FoldLeft(LAMBDA u, i : indir_free_block(u, t.ptrs[b][i - 1], layer - 1),
                             t, [i \in 1 .. P |-> i]), b)

\* Every block of the inode.
FreeTree(t, ptrs) ==
    LET direct == FoldLeft(LAMBDA u, i : indir_free_block(u, ptrs[i - 1], 0),
                           t, [i \in 1 .. D |-> i])
    IN indir_free_block(indir_free_block(indir_free_block(
           direct, ptrs[Singly], 1), ptrs[Doubly], 2), ptrs[Triply], 3)

-----------------------------------------------------------------------------
\* Block k of a buffer, padded with zeros (zero_block_buf) or with whatever the
\* heap held.
Chunk(buf, k, pad) ==
    [i \in 1 .. BLOCK_SIZE |-> IF k * BLOCK_SIZE + i <= Len(buf)
                               THEN buf[k * BLOCK_SIZE + i] ELSE pad]

\* write_inode keeps in hand, besides the inode: the next block of the buffer,
\* the singly indirect block being filled and its buffer, the doubly indirect
\* one and its buffer, and a block for a triply indirect one.
Work(t) ==
    [t |-> t, ok |-> TRUE, ino |-> NoInodePtrs, sectors |-> 0, k |-> 0,
     indir |-> 0, curr_indir |-> NoPtrs, doubly |-> 0, curr_doubly |-> NoPtrs,
     triple |-> 0]

\* Each alloc_block of write_inode that fails frees all of that; the parts not
\* reached yet are null.
FreeEach(t, ptrs, layer) ==
    FoldLeft(LAMBDA u, i : indir_free_block(u, ptrs[i - 1], layer),
             t, [i \in 1 .. P |-> i])

Unwind_KeepingDoubly(w) ==
    LET held  == FreeEach(FreeEach(FreeTree(w.t, w.ino), w.curr_doubly, 1),
                          w.curr_indir, 0)
    IN [w EXCEPT !.ok = FALSE,
                 !.t = free_block(free_block(held, w.indir), w.triple)]

Unwind(w) ==
    LET held  == FreeEach(FreeEach(FreeTree(w.t, w.ino), w.curr_doubly, 1),
                          w.curr_indir, 0)
    IN [w EXCEPT !.ok = FALSE,
                 !.t = free_block(free_block(free_block(held, w.indir),
                                             w.doubly), w.triple)]

\* One data block: allocate, fill, write.
PutChunk(w, buf, b) ==
    [w EXCEPT !.t = write_block(Mark(w.t, b), b, Chunk(buf, w.k, ZERO)),
              !.k = w.k + 1, !.sectors = w.sectors + 1]

RECURSIVE WriteDirect(_, _)
WriteDirect(w, buf) ==
    LET b == alloc_block(w.t)
    IN IF ~w.ok \/ w.k = BlockCnt(Len(buf)) \/ w.k = D THEN w
       ELSE IF b = 0 THEN Unwind(w)
       ELSE WriteDirect([PutChunk(w, buf, b) EXCEPT !.ino[w.k] = b], buf)

\* The innermost loop: the data blocks of one singly indirect block.
RECURSIVE FillIndirect(_, _, _)
FillIndirect(w, buf, i) ==
    LET b == alloc_block(w.t)
    IN IF w.k = BlockCnt(Len(buf)) \/ i = P THEN w
       ELSE IF b = 0 THEN Unwind(w)
       ELSE FillIndirect([PutChunk(w, buf, b) EXCEPT !.curr_indir[i] = b], buf, i + 1)

\* The loop around it: the first indirect block is the inode's own, the others
\* go to the doubly indirect block.
StoreIndirect(w, b, j) ==
    LET done == [w EXCEPT !.t.ptrs[b] = w.curr_indir, !.indir = 0, !.curr_indir = NoPtrs]
    IN IF ~w.ok THEN w
       ELSE IF j = 0 THEN [done EXCEPT !.ino[Singly] = b]
       ELSE [done EXCEPT !.curr_doubly[j - 1] = b]

RECURSIVE WriteIndirect(_, _, _)
WriteIndirect(w, buf, j) ==
    LET b     == alloc_block(w.t)
        start == [w EXCEPT !.t = Mark(w.t, b), !.indir = b, !.curr_indir = NoPtrs,
                           !.sectors = w.sectors + 1]
    IN IF ~w.ok \/ w.k = BlockCnt(Len(buf)) \/ j = P THEN w
       ELSE IF b = 0 THEN Unwind(w)
       ELSE WriteIndirect(StoreIndirect(FillIndirect(start, buf, 0), b, j), buf, j + 1)

\* The doubly indirect block is kept, and counted, if it points to anything.
KeepDoubly(w, b) ==
    IF ~w.ok THEN w
    ELSE IF w.curr_doubly = NoPtrs THEN [w EXCEPT !.t = free_block(w.t, b)]
    ELSE [w EXCEPT !.t.ptrs[b] = w.curr_doubly, !.ino[Doubly] = b,
                   !.sectors = w.sectors + 1]

\* The body of the outermost loop, which a file below MaxSize enters once.
WriteDoubly(w, buf) ==
    LET b == alloc_block(w.t)
    IN IF ~w.ok \/ w.k = BlockCnt(Len(buf)) THEN w
       ELSE IF b = 0 THEN Unwind(w)
       ELSE KeepDoubly(WriteIndirect([w EXCEPT !.t = Mark(w.t, b), !.doubly = b],
                                     buf, 0), b)

\* The block for a triply indirect one: taken before the loop, and given back
\* because it stays empty.
TakeTriple(w) ==
    LET b == alloc_block(w.t)
    IN IF ~w.ok THEN w
       ELSE IF b = 0 THEN Unwind(w)
       ELSE [w EXCEPT !.t = Mark(w.t, b), !.triple = b]

DropTriple(w) == IF w.ok THEN [w EXCEPT !.t = free_block(w.t, w.triple)] ELSE w

\* A failed step has unwound everything, and the steps after it are skipped.
write_inode(t, buf) ==
    DropTriple(WriteDoubly(TakeTriple(WriteDirect(Work(t), buf)), buf))

\* set_inode.
set_inode(t, ino, size, sectors) ==
    [t EXCEPT !.ptrs[0] = ino, !.size = size, !.sectors = sectors]

-----------------------------------------------------------------------------
\* append_to_inode, after the last block was topped up: one block at a time.
\* a = [t, cnt, ok, panic]; on failure the blocks from first on are given back.
GiveBack(a, idx) ==
    LET r == MapFree(a.t, idx)
    IN [a EXCEPT !.t = free_block(r.t, r.out), !.panic = a.panic \/ r.out = 0]

RECURSIVE AppendBlocks(_, _, _, _)
AppendBlocks(a, buf, first, n) ==
    LET r == MapAlloc(a.t, first + n)
    IN IF n * BLOCK_SIZE >= Len(buf) THEN a
       ELSE IF r.out = 0
       THEN FoldLeft(LAMBDA u, i : GiveBack(u, first + i - 1),
                     [a EXCEPT !.t = r.t, !.ok = FALSE], [i \in 1 .. n |-> i])
       ELSE AppendBlocks([a EXCEPT !.t = write_block(r.t, r.out, Chunk(buf, n, JUNK)),
                                   !.cnt = a.cnt + r.cnt], buf, first, n + 1)

\* What the last block held: zeros if it was a hole and had to be allocated.
Slack_Unzeroed(t, b) == IF b = 0 THEN Bytes(JUNK) ELSE t.data[b]

Slack(t, b) == IF b = 0 THEN Bytes(ZERO) ELSE t.data[b]

\* The last block of the file if it has room, allocated if it is a hole.
TopUp(t, buf) ==
    LET idx  == LastIdx(t.size)
        off  == t.size % BLOCK_SIZE
        b    == Lookup(t, idx)
        r    == IF b = 0 THEN MapAlloc(t, idx) ELSE [t |-> t, out |-> b, cnt |-> 0]
        old  == Slack(t, b)
        new  == [i \in 1 .. BLOCK_SIZE |->
                   IF i > off /\ i - off <= Len(buf) THEN buf[i - off] ELSE old[i]]
    IN [t |-> IF r.out = 0 THEN r.t ELSE write_block(r.t, r.out, new),
        cnt |-> r.cnt, ok |-> r.out # 0, panic |-> FALSE]

\* size_needed < old_size: the sum of the sizes has wrapped.
SizeWraps(t, buf) == t.size + Len(buf) > MaxSize

\* map_file_block, asked for block 0xFFFFFFFF, allocates the triply indirect
\* block and then indexes far past the buffer it read it into: what follows is
\* undefined, and s says nothing any more (past > 0 by then).
OutOfBounds(t, buf) ==
    t.size > Limit /\ ~SizeWraps(t, buf) /\ alloc_block(t) # 0

append_to_inode(t, buf) ==
    LET slack   == t.size % BLOCK_SIZE # 0
        hole    == slack /\ Lookup(t, LastIdx(t.size)) = 0
        top     == IF slack THEN TopUp(t, buf)
                   ELSE [t |-> t, cnt |-> 0, ok |-> TRUE, panic |-> FALSE]
        spliced == IF slack THEN Min({Len(buf), BLOCK_SIZE - (t.size % BLOCK_SIZE)}) ELSE 0
        a       == AppendBlocks(top, SubSeq(buf, spliced + 1, Len(buf)), BlockCnt(t.size), 0)
        undone  == IF hole THEN GiveBack(a, LastIdx(t.size)) ELSE a
    IN IF SizeWraps(t, buf) \/ OutOfBounds(t, buf) THEN t
       ELSE IF ~top.ok THEN set_inode(top.t, t.ptrs[0], t.size, t.sectors)
       ELSE IF ~a.ok THEN [set_inode(undone.t, t.ptrs[0], t.size, t.sectors)
                             EXCEPT !.panic = undone.panic]
       ELSE set_inode(a.t, a.t.ptrs[0], t.size + Len(buf), t.sectors + a.cnt)

\* remove_start: the first block to free.
RemoveStart_OffByOne(new_size) == BlockCnt(new_size) + 1

RemoveStart(new_size) == BlockCnt(new_size)

\* truncate_inode, for new_size <= size: free the blocks past the end, clear
\* the rest of the last one.
truncate_inode(t, new_size) ==
    LET from   == RemoveStart(new_size)
        drop(u, i) == LET r == MapFree(u.t, from + i - 1)
                      IN IF r.out = 0 THEN u
                         ELSE [t |-> free_block(r.t, r.out), cnt |-> u.cnt + r.cnt]
        cut    == FoldLeft(drop, [t |-> t, cnt |-> 0],
                           [i \in 1 .. (BlockCnt(t.size) - from) |-> i])
        off    == new_size % BLOCK_SIZE
        b      == Lookup(cut.t, new_size \div BLOCK_SIZE)
        tail   == IF off = 0 \/ b = 0 THEN cut.t
                  ELSE write_block(cut.t, b, [i \in 1 .. BLOCK_SIZE |->
                                                IF i > off THEN ZERO ELSE t.data[b][i]])
    IN set_inode(tail, tail.ptrs[0], new_size, t.sectors - cut.cnt)

\* replace_inode: the old blocks are freed first; when the new ones do not fit
\* the file is left empty.
replace_inode_FreeingLast(t, buf) ==
    LET w == write_inode(t, buf)
    IN IF w.ok THEN set_inode(FreeTree(w.t, t.ptrs[0]), w.ino, Len(buf), w.sectors)
               ELSE set_inode(FreeTree(w.t, t.ptrs[0]), NoInodePtrs, 0, 0)

replace_inode(t, buf) ==
    LET w == write_inode(FreeTree(t, t.ptrs[0]), buf)
    IN IF w.ok THEN set_inode(w.t, w.ino, Len(buf), w.sectors)
               ELSE set_inode(w.t, NoInodePtrs, 0, 0)

\* delete_inode.  The pointers it leaves in the inode are not kept: mint_inode
\* starts from zeros.
delete_inode(t) ==
    set_inode(IF t.sectors # 0 THEN FreeTree(t, t.ptrs[0]) ELSE t, NoInodePtrs, 0, 0)
-----------------------------------------------------------------------------
\* The file operations are counted, and no longer followed, past Limit.
Watch ==
    /\ past < MaxPast
    /\ past' = IF past > 0 \/ s'.size > Limit THEN past + 1 ELSE 0

\* put_inode, called for an empty file (make_file) or one block (make_dir).
PutInode(buf) ==
    LET w == write_inode(s, buf)
    IN /\ ~exists
       /\ Len(buf) \in {0, BLOCK_SIZE}
       /\ exists' = w.ok
       /\ s' = IF w.ok THEN set_inode(w.t, w.ino, Len(buf), w.sectors) ELSE w.t
       /\ Watch /\ UNCHANGED <<others, kept>>

\* sys_append_to_inode returns before append_to_inode when there is nothing to
\* append.
AppendToInode(buf) ==
    /\ exists
    /\ buf # <<>>
    /\ s' = append_to_inode(s, buf)
    /\ Watch /\ UNCHANGED <<exists, others, kept>>

TruncateInode(new_size) ==
    /\ exists
    /\ new_size <= s.size
    /\ s' = truncate_inode(s, new_size)
    /\ Watch /\ UNCHANGED <<exists, others, kept>>

ReplaceInode(buf) ==
    /\ exists
    /\ s' = replace_inode(s, buf)
    /\ Watch /\ UNCHANGED <<exists, others, kept>>

DeleteInode ==
    /\ exists
    /\ exists' = FALSE
    /\ s' = delete_inode(s)
    /\ Watch /\ UNCHANGED <<others, kept>>

\* Another file takes a block, or gives one back.
OtherAlloc ==
    LET b == alloc_block(s)
    IN /\ b # 0
       /\ Cardinality(others) < MaxOthers
       /\ others' = others \cup {b}
       /\ s' = Mark(s, b)
       /\ UNCHANGED <<exists, kept, past>>

OtherFree(b) ==
    /\ others' = others \ {b}
    /\ s' = free_block(s, b)
    /\ UNCHANGED <<exists, kept, past>>

\* A partition without the file, or with one that another system made and left
\* full of holes: size bytes of which only the blocks in mapped exist.
Blank ==
    [used |-> kept, ptrs |-> [b \in 0 .. NBlocks |-> IF b = 0 THEN NoInodePtrs ELSE JunkPtrs],
     data |-> [b \in Block |-> Bytes(JUNK)],
     size |-> 0, sectors |-> 0, panic |-> FALSE]

Sparse(size, mapped) ==
    LET add(u, i) ==
          LET r == MapAlloc(u, i - 1)
          IN IF i - 1 \notin mapped THEN u
             ELSE [write_block(r.t, r.out, Bytes(ZERO))
                     EXCEPT !.sectors = u.sectors + r.cnt]
    IN [FoldLeft(add, Blank, [i \in 1 .. (P * P) |-> i]) EXCEPT !.size = size]

Next ==
    \/ \E buf \in Buffers : PutInode(buf) \/ AppendToInode(buf) \/ ReplaceInode(buf)
    \/ \E n \in Cuts : TruncateInode(n)
    \/ DeleteInode
    \/ OtherAlloc
    \/ \E b \in others : OtherFree(b)
    \/ past = MaxPast /\ UNCHANGED vars

\* Holes: the sizes and block sets of the files Init starts from.
CONSTANT Holes

Init ==
    /\ others = {}
    /\ \E n \in Kept : kept = (NBlocks - n + 1) .. NBlocks
    /\ \/ exists = FALSE /\ s = Blank
       \/ exists = TRUE /\ \E h \in Holes : s = Sparse(h[1], h[2])
    /\ past = IF s.size > Limit THEN 1 ELSE 0

Spec == Init /\ [][Next]_vars
-----------------------------------------------------------------------------
\* The blocks below b, down to the data blocks, one entry per pointer.
RECURSIVE Below(_, _, _)
Below(t, b, layer) ==
    IF b = 0 THEN <<>>
    ELSE <<b>> \o (IF layer = 0 THEN <<>>
                   ELSE FlattenSeq([i \in 1 .. P |-> Below(t, t.ptrs[b][i - 1], layer - 1)]))

Layer(i) == IF i < D THEN 0 ELSE i - D + 1

References ==
    FlattenSeq([i \in 1 .. (D + 3) |-> Below(s, s.ptrs[0][i - 1], Layer(i - 1))])

FileBlocksUsed == IF exists THEN ToSet(References) ELSE {}

TypeOK ==
    /\ s.used \subseteq Block /\ others \subseteq Block /\ kept \subseteq Block
    /\ s.ptrs[0] \in [0 .. Triply -> 0 .. NBlocks]
    /\ \A b \in Block : s.ptrs[b] \in [Slot -> 0 .. NBlocks]
    /\ s.data \in [Block -> [1 .. BLOCK_SIZE -> Byte \cup {ZERO, JUNK}]]
    /\ s.size \in 0 .. MaxSize /\ s.sectors \in 0 .. NBlocks
    /\ exists \in BOOLEAN

\* Up to Limit, that is as long as no file ever ended in the last of the 2^32
\* bytes' blocks: every block in use belongs to exactly one place of one file.
\* Whichever alloc_block of a growing, rewritten or minted file was the first to
\* fail, nothing leaks, nothing is freed that is still pointed to, and no block
\* is pointed to twice.  disk_sectors, kept by counting allocations and frees, is
\* what a walk over the inode would find.  No pointer leaves the partition
\* (TypeOK).  "Inode free block operation failed when attempting to free block
\* after append failure" is never raised.
BlocksAccountedFor ==
    past = 0 =>
        /\ TypeOK /\ ~s.panic
        /\ exists => IsInjective(References) /\ s.sectors = Len(References)
        /\ s.used = FileBlocksUsed \cup others \cup kept
        /\ FileBlocksUsed \cap (others \cup kept) = {}

RECURSIVE LeadsToData(_, _)
LeadsToData(b, layer) ==
    \/ layer = 0
    \/ /\ s.ptrs[b] # NoPtrs
       /\ \A i \in Slot : s.ptrs[b][i] # 0 => LeadsToData(s.ptrs[b][i], layer - 1)

\* Up to Limit, nothing is mapped past the end of the file, and every indirect
\* block of every layer leads to some data block.
NothingPastEnd ==
    exists /\ past = 0 =>
        /\ \A idx \in 0 .. (D + P + P * P - 1) : idx * BLOCK_SIZE >= s.size => Lookup(s, idx) = 0
        /\ \A i \in 0 .. Triply : s.ptrs[0][i] # 0 => LeadsToData(s.ptrs[0][i], Layer(i))

\* The file as sys_read_chunk shows it; a hole reads as zeros.
Content ==
    [o \in 1 .. Min({s.size, BlockCnt(s.size) * BLOCK_SIZE}) |->
       LET b == Lookup(s, (o - 1) \div BLOCK_SIZE)
       IN IF b = 0 THEN ZERO ELSE s.data[b][((o - 1) % BLOCK_SIZE) + 1]]

\* The file behaves like a plain sequence of bytes; the block map, its
\* indirection and the rollbacks do not show.  Nothing is promised of a file
\* that was appended to past Limit.
File == INSTANCE ByteFile WITH file <- IF past > 0 THEN LOST
                                       ELSE IF exists THEN <<Content>> ELSE <<>>

ActsAsByteFile == File!Spec

\* The pointers that are null on the way to the given blocks of the file.
NullPointers(idxs) ==
    {p \in UNION {{SubSeq(Path(i), 1, n) : n \in 1 .. Len(Path(i))} : i \in idxs} :
        Follow(s, 0, p) = 0}

\* replace_inode needs, besides the blocks the file will occupy, one block that
\* it gives back (the triply indirect one), and a second when the file is too
\* large for the direct pointers and too small for the doubly indirect block.
RewriteNeeds(n) ==
    n + 1 + (IF n > D THEN 1 + ((n - D + P - 1) \div P) ELSE 0)

\* Up to Limit, writes fail only for lack of blocks.  append_to_inode succeeds
\* when the new data blocks, the hole it tops up and the indirect blocks that
\* lead to them are free, even if that takes the file past Limit; replace_inode
\* when what it needs is free or the file's own.
FailsOnlyWhenFull ==
    exists /\ past = 0 => \A buf \in Buffers :
        LET end   == s.size + Len(buf)
            idxs  == (s.size \div BLOCK_SIZE) .. ((end - 1) \div BLOCK_SIZE)
        IN /\ /\ end <= MaxSize
              /\ Cardinality(NullPointers(idxs)) <= Cardinality(Block \ s.used)
              => append_to_inode(s, buf).size = end
           /\ RewriteNeeds(BlockCnt(Len(buf))) <= Cardinality(Block \ (others \cup kept))
              => replace_inode(s, buf).size = Len(buf)
=============================================================================
