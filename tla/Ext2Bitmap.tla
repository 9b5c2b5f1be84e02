----------------------------- MODULE Ext2Bitmap -----------------------------
(***************************************************************************)
(* The block and inode allocators of                                       *)
(* src/kernel/fs/ext2/bitmapController.c on one partition, one disk write  *)
(* at a time, with the clean flag of src/kernel/fs/mount/mount.c and power *)
(* failures between any two writes.                                        *)
(*                                                                         *)
(* A block or an inode is a pair <<group, index>>: the numbers of the code *)
(* are group * per_group + index + first.  The descriptor table and the    *)
(* superblock are cached in struct fs_info from boot on and written whole; *)
(* the bitmaps are read from disk every time.                              *)
(***************************************************************************)
EXTENDS Integers, FiniteSets

CONSTANTS
    Groups,     \* the number of block groups
    PerGroup,   \* the number of bits of a group's bitmap
    MaxCrashes  \* bound on the number of power failures

ASSUME SizeAssumption ==
    /\ Groups \in Nat \ {0}
    /\ PerGroup \in Nat \ {0}
    /\ MaxCrashes \in Nat

VARIABLES
    bits,       \* on disk: the items whose bit is set, for each kind
    cnt,        \* on disk: unalloc_block_cnt, unalloc_inode_cnt of each group
    total,      \* on disk: unalloc_blocks, unalloc_inodes of the superblock
    valid,      \* on disk: FS_STATE_VALID_BIT of the superblock
    mcnt,       \* fs->bgdt
    mtotal,     \* fs->superblk
    mvalid,     \* fs->superblk->fs_state
    power,      \* "off", "on" (booted, not mounted), "mounted"
    op,         \* the call in progress and its next write
    held,       \* items handed to the file system and not given back
    panicked,   \* alloc_* found a count above zero and no clear bit
    crashes,    \* the number of power failures so far
    dirtyMount  \* some mount found the flag already cleared

disk == <<bits, cnt, total, valid>>
memory == <<mcnt, mtotal, mvalid>>
vars == <<disk, memory, power, op, held, panicked, crashes, dirtyMount>>

Kind == {"block", "inode"}
Group == 0 .. (Groups - 1)
Index == 0 .. (PerGroup - 1)
Item == Group \X Index

\* The free items, in one group and in all.
FreeIn(used, g) == {i \in Index : <<g, i>> \notin used}
FreeItems(used) == Item \ used

\* A call that is under way: its next write, and the bitmap it will leave.
Call == [write : {"bgdt", "superblk", "bitmap"}, call : {"alloc", "free"},
         kind : Kind, item : Item, bitmap : SUBSET Item]
Idle == [write |-> "none"]

\* A file system as mke2fs leaves it: some items in use, counters exact,
\* flag set, machine off.
Init ==
    /\ bits \in [Kind -> SUBSET Item]
    /\ cnt = [k \in Kind |-> [g \in Group |-> Cardinality(FreeIn(bits[k], g))]]
    /\ total = [k \in Kind |-> Cardinality(FreeItems(bits[k]))]
    /\ valid = TRUE
    /\ mcnt = cnt
    /\ mtotal = total
    /\ mvalid = valid
    /\ power = "off"
    /\ op = Idle
    /\ held = bits
    /\ panicked = FALSE
    /\ crashes = 0
    /\ dirtyMount = FALSE

-----------------------------------------------------------------------------
\* fill_partition_entry reads the superblock and the descriptor table.
BlockInit ==
    /\ power = "off"
    /\ power' = "on"
    /\ mcnt' = cnt
    /\ mtotal' = total
    /\ mvalid' = valid
    /\ UNCHANGED <<disk, op, held, panicked, crashes, dirtyMount>>

\* mark_fs_state: the flag changes in memory and the superblock is written.
mark_fs_state_InMemory(set_valid) ==
    /\ mvalid' = set_valid
    /\ UNCHANGED <<disk, mcnt, mtotal>>

mark_fs_state(set_valid) ==
    /\ mvalid' = set_valid
    /\ valid' = set_valid
    /\ total' = mtotal
    /\ UNCHANGED <<bits, cnt, mcnt, mtotal>>

\* mount_fs and mount_init end with mark_fs_state(fs, false), which only warns
\* when the flag is already clear.
Mount ==
    /\ power = "on"
    /\ power' = "mounted"
    /\ mark_fs_state(FALSE)
    /\ dirtyMount' = (dirtyMount \/ ~mvalid)
    /\ UNCHANGED <<op, held, panicked, crashes>>

\* umount_fs, and sys_halt for the root partition and every mounted one, call
\* mark_fs_state(fs, true); after sys_halt only the power switch is left.
Release(then) ==
    /\ power = "mounted"
    /\ op = Idle
    /\ ~panicked
    /\ power' = then
    /\ mark_fs_state(TRUE)
    /\ UNCHANGED <<op, held, panicked, crashes, dirtyMount>>

Umount == Release("on")

SysHalt == Release("off")

\* The machine loses power; memory is gone, the disk is as written.
Crash ==
    /\ power # "off"
    /\ crashes < MaxCrashes
    /\ crashes' = crashes + 1
    /\ power' = "off"
    /\ op' = Idle
    /\ panicked' = FALSE
    /\ UNCHANGED <<disk, memory, held, dirtyMount>>

Ready == power = "mounted" /\ op = Idle /\ ~panicked

\* unalloc_*_cnt and unalloc_* change in memory.  The totals are never
\* compared with anything, so their wrapping at 2^32 is left out.
Adjust(k, g, d) ==
    /\ mcnt' = [mcnt EXCEPT ![k] = [mcnt[k] EXCEPT ![g] = mcnt[k][g] + d]]
    /\ mtotal' = [mtotal EXCEPT ![k] = mtotal[k] + d]
    /\ UNCHANGED mvalid

\* The group alloc_* settles on: the first that counts free items.
FirstGroup_FromZero(k, g) ==
    /\ mcnt[k][g] >= 0
    /\ \A h \in Group : mcnt[k][h] >= 0 => g <= h

FirstGroup(k, g) ==
    /\ mcnt[k][g] > 0
    /\ \A h \in Group : mcnt[k][h] > 0 => g <= h

\* The first clear bit of its bitmap.
FirstClear(k, g, i) ==
    /\ i \in FreeIn(bits[k], g)
    /\ \A j \in FreeIn(bits[k], g) : i <= j

\* alloc_inode, alloc_block.  Without a group the call fails and changes
\* nothing; a group that counts free items and has none is a kernel panic.
Alloc_MaskForgotten(k) ==
    /\ Ready
    /\ \E g \in Group, i \in Index :
         /\ FirstGroup(k, g)
         /\ FirstClear(k, g, i)
         /\ op' = [write |-> "bgdt", call |-> "alloc", kind |-> k,
                   item |-> <<g, i>>, bitmap |-> bits[k]]
         /\ Adjust(k, g, -1)
    /\ UNCHANGED <<disk, power, held, panicked, crashes, dirtyMount>>

Alloc(k) ==
    /\ Ready
    /\ \E g \in Group :
         /\ FirstGroup(k, g)
         /\ \/ /\ FreeIn(bits[k], g) = {}
               /\ panicked' = TRUE
               /\ UNCHANGED <<memory, op>>
            \/ \E i \in Index :
                 /\ FirstClear(k, g, i)
                 /\ op' = [write |-> "bgdt", call |-> "alloc", kind |-> k,
                           item |-> <<g, i>>, bitmap |-> bits[k] \cup {<<g, i>>}]
                 /\ Adjust(k, g, -1)
                 /\ UNCHANGED panicked
    /\ UNCHANGED <<disk, power, held, crashes, dirtyMount>>

AllocInode == Alloc("inode")

AllocBlock == Alloc("block")

\* free_inode, free_block, for an item the caller owns or one that is free
\* already, for which nothing is written.
Free(k, item) ==
    /\ Ready
    /\ item \in held[k] \/ item \notin bits[k]
    /\ held' = [held EXCEPT ![k] = held[k] \ {item}]
    /\ IF item \in bits[k]
       THEN /\ op' = [write |-> "bgdt", call |-> "free", kind |-> k,
                      item |-> item, bitmap |-> bits[k] \ {item}]
            /\ Adjust(k, item[1], 1)
       ELSE UNCHANGED <<memory, op>>
    /\ UNCHANGED <<disk, power, panicked, crashes, dirtyMount>>

FreeInode(item) == Free("inode", item)

FreeBlock(item) == Free("block", item)

\* write_block(fs, bgdt_blk_n, fs->bgdt).
WriteBgdt ==
    /\ op.write = "bgdt"
    /\ cnt' = mcnt
    /\ op' = [op EXCEPT !.write = "superblk"]
    /\ UNCHANGED <<bits, total, valid, memory, power, held, panicked,
                   crashes, dirtyMount>>

\* ata_write48_part(..., fs->sprblk_buf): the counters and the flag.
WriteSuperblk ==
    /\ op.write = "superblk"
    /\ total' = mtotal
    /\ valid' = mvalid
    /\ op' = [op EXCEPT !.write = "bitmap"]
    /\ UNCHANGED <<bits, cnt, memory, power, held, panicked,
                   crashes, dirtyMount>>

\* write_block(..., bitmap); the call returns and the caller owns the item.
WriteBitmap ==
    /\ op.write = "bitmap"
    /\ bits' = [bits EXCEPT ![op.kind] = op.bitmap]
    /\ held' = IF op.call = "alloc"
               THEN [held EXCEPT ![op.kind] = held[op.kind] \cup {op.item}]
               ELSE held
    /\ op' = Idle
    /\ UNCHANGED <<cnt, total, valid, memory, power, panicked, crashes, dirtyMount>>

Next ==
    \/ BlockInit \/ Mount \/ Umount \/ SysHalt \/ Crash
    \/ AllocInode \/ AllocBlock
    \/ \E item \in Item : FreeInode(item) \/ FreeBlock(item)
    \/ WriteBgdt \/ WriteSuperblk \/ WriteBitmap

Spec == Init /\ [][Next]_vars
-----------------------------------------------------------------------------
TypeOK ==
    /\ bits \in [Kind -> SUBSET Item]
    /\ held \in [Kind -> SUBSET Item]
    /\ cnt \in [Kind -> [Group -> Nat]]
    /\ mcnt \in [Kind -> [Group -> Nat]]
    /\ total \in [Kind -> Int]
    /\ mtotal \in [Kind -> Int]
    /\ valid \in BOOLEAN /\ mvalid \in BOOLEAN
    /\ crashes \in 0 .. MaxCrashes
    /\ panicked \in BOOLEAN /\ dirtyMount \in BOOLEAN
    /\ power \in {"off", "on", "mounted"}
    /\ op = Idle \/ (op \in Call /\ power = "mounted")

Marked == \A k \in Kind : held[k] \subseteq bits[k]

\* What alloc_block and alloc_inode hand out stays marked on disk until it is
\* given back, whatever the order of the writes and wherever the power fails:
\* no item is ever handed out twice.
HeldIsMarked == TypeOK /\ Marked

\* The counters describe the bitmaps.
Exact(c, t, b) ==
    \A k \in Kind : /\ \A g \in Group : c[k][g] = Cardinality(FreeIn(b[k], g))
                    /\ t[k] = Cardinality(FreeItems(b[k]))

\* The flag protects the counters as long as no dirty partition was mounted: a
\* partition that says it is clean has exact counters on disk, although every
\* operation writes them before the bitmap and any write may be the last.
CleanIsConsistent == valid /\ ~dirtyMount => Exact(cnt, total, bits)

\* Without a mount after a crash, "CORRUPTED UNALLOC_BLOCK_CNT" and
\* "CORRUPTED UNALLOC_INODE_CNT" are never raised.
NoPanic == panicked => dirtyMount

=============================================================================
