# A verification of DeprecatOS in TLA+

DeprecatOS is an x86-32 kernel with a round-robin scheduler, a kernel heap on
paged memory, a read-write ext2 file system over ATA disks, a mount table, a
text console, and a shell with a text editor that runs in ring 3.  This
directory models its stateful parts in TLA+, checks them with TLC on small
instances, and proves the central ones with TLAPS for all instances.  Names
follow the C source; `PROJECT.json` maps every definition to the lines it models.

## The system

The kernel is uniprocessor.  All IDT entries are interrupt gates, so a handler
(timer, keyboard, exception, system call) runs to its `iret` with interrupts
disabled.  Real interleaving exists in four places:

- between processes, at every timer tick;
- between the boot thread and interrupts, because `timer_init` executes `sti`
  as the third of seventeen initialisation steps;
- between the system calls of a program and the keyboard interrupt, which
  scrolls the screen by itself;
- between disk writes and the power switch.

| part | state | operations | what is hard about it |
|---|---|---|---|
| process queue, scheduler | ring of pointers, `current`, saved `esp`s, `info.esp0` | `schedule`, `kill_current`, `create_*` from irq0, `sys_yield`, `sys_exit_curr`, exceptions | results of `pqueue_push` ignored; the victim's stack is freed while in use; `esp0` is left stale for the idle process |
| boot | step of `mainInitScript`, interrupt flag | the initialisers | ticks before `current` exists, and inside `pqueue_push` |
| kernel heap | chain of block headers | `kmalloc`, `kfree` | splitting and merging, growth with frames running out |
| ext2 bitmaps | bitmaps, group counters, superblock; cached copies | `alloc_*`, `free_*`, `mark_fs_state` | three writes per operation, power failures |
| file block map | inode pointers, indirect blocks, size, sectors | mint, write, append, truncate, replace, delete | running out of blocks anywhere in a five-level roll-back |
| directories | chains of variable-sized entries | `dir_insert`, `dir_remove`, `dir_set_parent_entry` | the chain must tile its block after any history |
| name space | inode types, link counts, entries, mountpoints | the name-changing system calls | link counts against names, renames against cycles, half-failed `make_dir` |
| path resolution | two splice buffers | `lookup_path` | symbolic links, loops, mountpoints |
| mount table | `fs_entries`, clean bits | `mount_fs`, `umount_fs`, `sys_halt` | selection by label, mountpoints remembered by number |
| keyboard | decoder state, `keys_down`, ring | irq1, `sys_read_char` | multi-byte codes, a full ring |
| frames, paging, memory map, userland pages | frame bitmap, page tables, `frames[]` | `alloc_frame`, `map_page`, `userland_init`, `userland_teardown` | 32-bit wrap in the memory map, silent failures, tables that are frames themselves |
| console | shadow, history ring, view, cursor | the drawing calls, scroll-back keys | three copies of the text that differ while the view is scrolled back |
| shell line editor | line, `anchor`, history, draft | the keys of `read_line` | believes to know where its line is on a screen that others scroll |
| `cp`, `rm` | recursion over directories | one system call at a time | directories change while they are read, any call may fail |
| text editor | gap buffer, window, screen | keys in three modes, saving | redraws only what a key damaged |
| ATA, serial, clock, IDT, GDT | device state | port I/O | (not modelled, see the end) |

The components interact as follows.  The heap and the user program take frames
and map pages; the scheduler takes heap memory.  The shell draws on the console
and its commands change the name space.  Directories are files of the block
layer, the block layer takes blocks from the bitmaps, and the name space is built
of directories.  Path
resolution and the name space ask the mount table where a directory leads.
The timer and the system calls drive the scheduler.

## Modules

| module | models | abstract specification, runs |
|---|---|---|
| `ProcessQueue` | `processQueue.c`: the ring with its stale slots | used by `Scheduler` |
| `Scheduler` | `scheduler.c`, TSS, exception and timer entry | implements `RoundRobin`; run `scheduler` |
| `Boot` | `mainInitScript` from `sti` on, `pqueue_push` in two stores | implements `Scheduler`; run `boot` |
| `SchedulerProofs` | | theorems on `Scheduler` and `Boot` |
| `Memory` | `memoryMap.c`, `frameAllocator.c`, `paging.c`, `userland.c` | used by `Heap` |
| `Heap` | `kernelHeap.c`, on `Memory` | run `memory` |
| `Ext2Bitmap` | `bitmapController.c`, one disk write per step, and the clean bit | run `bitmaps` |
| `Ext2BitmapProofs` | | theorems on `Ext2Bitmap` |
| `FileBlocks` | `blockController.c`, one file | implements `ByteFile`; run `file_blocks` |
| `Directory` | the entry chains of one directory | implements `DirMap`; run `directory` |
| `DirectoryProofs` | | theorems on `Directory` |
| `Namespace` | the tree of the root partition | used by `Commands` |
| `NamespaceSteps` | | the invariant of names and counts, preserved by the calls on directories |
| `NamespaceProofs` | | the calls on files; theorems on `Namespace` |
| `Commands` | `cp.c` and `rm.c` as clients of `Namespace` | run `namespace` |
| `Lookup` | `lookup_path` | compared with the recursive `Walk`; run `lookup` |
| `Mount` | `mount.c`, end of `block_init`, `sys_halt` | run `mount` |
| `MountProofs` | | theorems on `Mount` |
| `Keyboard` | `keyboard.c`, `ringBuffer.c` | run `keyboard` |
| `KeyboardProofs` | | theorems on `Keyboard` |
| `Console` | `fbController.c`, the text console | used by `Shell` |
| `Shell` | `shell.c`, the line editor, on `Console` | run `terminal` |
| `Editor` | `dinv.c` | implements `TextBuffer`; run `editor` |

The `MC*` modules give the constants their values.  Definitions with a suffix,
such as `schedule_WithoutPush`, stand before the definition they vary; they are
the code with a plausible mistake and show that the property listed for them in
`PROJECT.json` would notice it.

### Correspondence

*Scheduler.*  A stack pointer is the process whose kernel stack it points into,
so "resumes its own frame" is an equation between processes.  `halted` stands
for `for (;;) hlt` with interrupts off.  `EntryStack` is where the processor
puts the interrupt frame: the TSS stack from ring 3, the current one from ring
0.  `user_mapped` becomes false at the first `userland_teardown`; afterwards
user code can only fault, not make system calls.  The kernel itself creates one
process; the model lets any number be created at any time.

*Boot.*  Each action is one step of the boot thread, and `Irq0` may happen
between any two.  The panics of `fb_init`, `ata_init` and `block_init`, a null
pointer from `kmalloc` in `scheduler_init`, and the fault that follows when
`map_misc_pages` has no frames, all lead to `pc = "panic"`.

*Ext2Bitmap.*  Inode and block allocation are the same code with other names
and share their actions.  A call is three steps, one per disk write in the
order of the code; `Crash` may fall anywhere.  The descriptor table and the
superblock are cached from boot on, the bitmaps are re-read.

*FileBlocks.*  The block map is a function from blocks to pointer arrays, and
"block 0" holds the inode's pointers.  Functions that call each other pass one
record.  Because `size_lo` has 32 bits and 2^32 bytes are exactly 1024 * 1024
blocks, the triply indirect block never stays allocated; `MaxSize` keeps that
ratio in the small layouts.  The number of blocks is computed as
`(size + BLOCK_SIZE - 1) / BLOCK_SIZE` in 32 bits, so for the sizes past `Limit`,
which end in the last of the 2^32 bytes' blocks, it is 0 (`BlockCnt`).  `past` is
a ghost that counts the operations on a file since it first was that large, and
`MaxPast` bounds how many are followed.  Free blocks and fresh buffers hold
`JUNK`.  The blocks of other files are those `kept` throughout and those in
`others`, which come and go between the calls.

*Directory* works in units of four bytes.  A block is a function from the cursors
at which its chain has an entry to the entries, so that the position of an entry
and the size it claims are two things that have to agree.  Removed names stay in
their entries as on disk.  *Namespace* takes a directory to be the map that
`Directory` implements and keeps `hard_link_cnt` as the code counts it.  An
allocation may fail at any call; a call the code refuses or undoes changes
nothing and is no action.

*Commands* adds a command in progress to `Namespace`: a stack of frames, one per
level of the recursion, each with what has been read of its directory.  Every
step makes one system call, which may fail where something is allocated.  A
path is the inode it resolves to, so the textual test of `cp` for a copy into
itself is left out.  A mountpoint may be what is copied, or the directory in which
`rm -r` removes: `Shown` gives any entries for what lies across it, and their
inode numbers are used on the near partition, as the code does.  A copy into a
mounted partition changes nothing on this one and is left out; so are files whose
bytes would pass for directory entries.  Single calls (`OneCall`) and commands start from different
states: calls build every tree from an empty partition, commands are given
trees with a symbolic link, hard links, a mountpoint and nesting.

*Lookup* keeps components, the trailing slash and both limits
(`SYMLINK_MAX_DEPTH`, `PATH_LEN`) on splicing.  Three refusals
that only look at the text are left out: of a caller's path without a leading
slash or without an end within `PATH_LEN`, and of a component, the caller's or a
link's, of `NAME_LEN` characters or more.  *Mount* keeps volume names, labels and clean
bits for every slot.  *Keyboard* has one code per case of the tables.

*Memory* and *Heap*.  Frames and pages are numbers; addresses in the memory map
are finer than pages and wrap at the end of the address space, as 32-bit
addresses do.  The frame bitmap, the directory, the page tables and `frames[]`
are one record `mem`, which functions take and return.  `refused` records that
`map_page` gave up; it is a ghost and changes nothing.  `Owners` says what a
frame is used for; the heap is a function from the addresses of its headers to
the headers, so that where a block lies and the size it claims are two things
that have to agree, and `Faults` is the page fault of a walk over a page that is
not there.  Loops that call `map_page` or double the heap are recursive
functions over their counter; `map_misc_pages` takes the lowest frames at once
(`Nth`), which is what its calls of `alloc_frame` return in turn.
`MemoryAssumption` fixes the order of the regions: kernel image, heap, user
program, framebuffer.  `MapsAssumption` says of the machine that no memory starts
in the last page of the address space, where rounding a base up would wrap, and
that low memory has room for the page directory and the tables that map it;
`paging_init` does not notice when it has not.

*Console*.  The state is one record: `shadow`, the history ring, the view and
`pixels`, what is visible.  A cell is a glyph and whether it is inverted.
*Shell* handles a key in several steps: `todo` holds the system calls still to
be made, and `KeyboardIrq` may scroll the view between any two of them.

*Editor*.  One step is one turn of the main loop: the handler of the mode,
`check_scroll`, `gap_render`.  What a key damaged decides which rows are
painted.  The buffer keeps the gap and what lies stale in it.

## What is checked

| run | shows | bounds and why they are enough |
|---|---|---|
| `scheduler` | no process lost or duplicated, every frame resumed on its own stack, a successor for every exit, strict rotation, every ready process runs | ring of 5 with Idle and 3 others: the fullest legal ring, indices wrap, slots go stale |
| `boot` | an early `sti` is harmless: boot stops only by its own panics, creation looks atomic, the shell starts | the real ring size and the one process the kernel creates |
| `bitmaps` | nothing handed out twice, clean means exact counters, no corrupted-counter panic | 2 groups of 2 items, 2 power failures, every initial bitmap: first-group search crosses a full group, a crash follows a crash |
| `file_blocks` | every block accounted for, exact sector counts, nothing mapped past the end, no panic in the roll-back, growth and rewriting fail only for lack of blocks, reads as a sequence of bytes | 1 direct pointer, 3 per indirect block, 2 bytes per block, 13 blocks: files reach several indirect blocks below the doubly indirect one; other files leave 13, 8 or 5 blocks, so that each level is where the partition runs full; cuts to nothing and to the middle of a block; sparse files of 15 bytes to start from, from which an append reaches `MaxSize`, past `Limit`, where 2 more operations are followed.  With 2 bytes per block no other size is past `Limit`, so every append there is refused and `OutOfBounds` does not occur |
| `directory` | chains tile their blocks, the room of a removed name is used again, acts as a map | 4 names of 3 sizes, 3 blocks of 10 units: slack fits some names and not others |
| `namespace` | no dangling or lost inode, exact link counts, one parent, rooted tree, mountpoints stay; away from mountpoints `cp -r` copies and `rm -r` removes exactly what it was given, or stops half way; `cp` never touches what was there before, nor does `rm` anything outside what it was given; at a mountpoint the tree stays sound (observation 9) | single calls: root and 4 inodes (symmetric), 2 names, depth 3, so that renames cross levels, cycles are possible to attempt and `is_ancestor` reaches its limit; commands: 4 trees of 3 inodes besides the root, with 4 inodes for the copy |
| `lookup` | rewriting the path agrees with following links in place; terminates | 9 inodes on 2 partitions, 3 links with 7 targets each, 4 splices |
| `mount` | crossing a mountpoint and back is the identity, partitions in use are marked, halting cleans all | 4 slots, all arrangements of 4 volume names |
| `memory` | every frame has one owner and none is lost, tables are addressable, callers' memory is disjoint and inside the heap, every heap page is mapped | 36 pages, 4 per table, a heap of up to 8 pages and 2 tables, 1 extra user page; 7 memory maps, from one too small for the user program to one with an entry past the end of the address space: frames run out in every loop |
| `keyboard` | key state follows the keyboard, the ring is a queue | 5 keys of different kinds, ring of 3 |
| `terminal` | the screen is the window on the transcript that the view says, the line stands where the shell believes, the history recalls what was entered | 2 rows of 3 columns, 2 history rows, lines of up to 3 characters, 2 remembered lines: lines wrap, the screen scrolls in the middle of a key, both rings wrap |
| `editor` | partial redrawing equals full redrawing, the gap buffer is a text with a cursor, saving keeps everything | texts of up to 4 characters on 2 rows of 2 columns: the window moves in both directions, the gap is empty, lines are longer than the window |

Type invariants are a conjunct of the structural invariant of their module
(`WellFormed`, `LinksExact`, ...).

`CHECK_DEADLOCK FALSE` is used where the system may stop: a halted kernel, a
machine without power after the last allowed failure, a finished lookup.

### Fairness

- `WF(TimerIrq)`, `WF(Irq0)`: the interval timer is periodic, and user code,
  kernel processes and the idle loop all run with interrupts enabled.
- `WF(BootThread)`: the boot thread executes whenever it is scheduled.
- `Lookup` assumes weak fairness of its single sequential loop.

Nothing else is assumed fair: user programs, disks and keys need not act.

### Observations

No property fails.  Translating the code showed limits that a reader of the
properties should know, since some of them carry a premise because of one:

1. The process ring holds one process fewer than its size, and `schedule()`
   ignores a refused push: with as many processes as slots the preempted one
   would be dropped.  `CapacityAssumption` excludes it; the kernel creates Idle and the
   shell.
2. `mark_fs_state(fs, true)` marks a partition clean that was mounted dirty and
   never repaired.  `CleanIsConsistent` and `NoPanic` have the premise that no
   dirty partition was mounted.
3. When a page is the first of its page table and no frame below
   `HEAP_START` is left, `map_page` gives up silently, the page's frame is lost
   and `heap_end` covers a page that is not mapped (`refused` in
   `FramesOwnedOnce` and `HeapBacked`).
4. A memory-map entry that reaches 2^32 wraps in `mark_free_region`, and none of
   it becomes free; `track_ram_top` handles the same case.
5. `make_dir` does not undo itself when its last insertion fails: the directory
   is lost and its parent's link count stays one too high (`leaked`).
6. `cp -r` reads a symbolic link as if it were a file; the copy is a file with
   arbitrary content.  Its test for a copy into itself compares texts, which
   `..` or a link defeats: the copy then ends when the inodes run out.
7. `rm -r d/.` and `rm -r d/..` empty the directory before they fail.
8. In the editor, a save that cannot make the file prints a message, which
   scrolls the screen under it; the next full redraw repairs it.
9. `rm -r` below a mountpoint resolves its argument on the mounted partition but
   passes `parent_fs`, the partition of the mountpoint, to `rm_tree`, which empties
   the directory that happens to have the same inode number there.  `cp -r` of a
   mountpoint reads the names of the mounted partition and the files of the
   near one.  `RemovesExactly` has the premise that the parent is no mountpoint,
   and the second half of `CopiesExactly` that the source is none.
10. A file of more than 2^32 - 4096 bytes has a block count of 0.  It reads as
   empty, `truncate_inode` frees none of its blocks, and `append_to_inode` asks
   for block 0xFFFFFFFF, for which `map_file_block` indexes past its buffer.  The
   properties of `FileBlocks` have the premise `past = 0`: no file was that large
   so far.  An append that makes one is still required to succeed, and one
   past 2^32 to be refused.

## What is proved

TLAPS checks the following for every value of the constants.

**Scheduler** (`SchedulerProofs`), from `QueueSizeAssumption`,
`ProcessAssumption` and `CapacityAssumption`: the processes, Idle included, are
fewer than the slots, said in the form in which it is used: whatever fills the
ring with processes other than Idle holds one of them twice.  With one process more a push is refused and the property
is false.

- `ProcessesAccountedFor`: `NoProcessLost` and `NoDuplicates`;
- `StackDiscipline`: `OwnStacks`;
- `KillNeverFails`: `KillFindsSuccessor`;
- `TypeCorrect`.

The inductive invariant `Core` joins types, the partition of the allocated
processes, distinctness of the ring and the stacks of waiting processes; `IInv`
adds `OwnStacks`, which boot does not have yet.  They need each other: a push
keeps the ring distinct only if the running process is not in it, and has room
only by counting distinct processes against the slots (`RoomForOneMore`), which
is the pigeonhole of `CapacityAssumption`.  `KillNeverFails` also needs that Idle is never
freed: it is not in ring 3, so while a user process runs Idle is in the queue.
The ring lemmas `PushAdds` and `PopRemoves` say what the queue operations do to
the set of queued processes.

`ImplementsRoundRobin` (`RotatesInOrder`): the ring read from tail to head is the
line of `RoundRobin`; a push appends, a pop takes the head, and each handler is a
rotation, a retirement, an admission or a stutter.

**Boot** (`SchedulerProofs`), from the same assumptions: `BootSurvivesInterrupts`
(`OnlyBootPanics`) and `BootRefinesScheduler` (`BootImplementsScheduler`).  The
invariant `BootInv` has two halves.  Until the boot thread idles (`Early`) nobody
else runs and the queue is empty: a tick finds no current process before
`scheduler_init` and returns, and afterwards finds nobody to switch to and resumes
Idle.  Between the two stores of `pqueue_push` the new process is in slot 0,
which nothing reads because `head` has not moved; the second store is the step
in which the scheduler sees it created (`PushHeadStep`).  Once the boot thread
idles the state satisfies `Core`, so the lemmas on `schedule` and `kill_current`
apply.

**Bitmaps** (`Ext2BitmapProofs`), from `SizeAssumption`: `AllocationIsExclusive`,
`CleanMeansConsistent`, `CountersNeverPanic`, `TypeCorrect`.  The properties are
not inductive because counters run ahead of bitmaps during a call.  The
invariant speaks of the bitmaps the call in progress will leave (`Target`), says
which single bit it turns (`CallOK`), how far the disk has caught up (`Synced`),
and that memory is exact for the target unless a dirty partition was mounted
(`Accurate`).  `SetBit` and `ClearBit` count free items.

**Name space** (`NamespaceSteps`, `NamespaceProofs`), from `NamespaceAssumption`
(finitely many inodes and names, the dots are not user names), for `Spec` of `Namespace`: single calls from an empty partition.

- `LinkCountsExact`: `LinksExact`;
- `NamesAreLive`: `InUseIsNamed`;
- `MountpointsStay`: `MountpointsPinned`;
- `OneTree`: `TreeRooted`.

Link counts are not inductive alone.  That `unlink_dir` leaves nothing dangling
needs that a directory has one place, in the directory its `..` names
(`OnePlace`): a child of an empty directory would have its place there.  That
`unlink_inode` frees at the right moment needs that the count is exact for files
(`Counted`), that a file in use has one (`Held`), and that an inode that is
handed out is named nowhere (`NoDangling`).  That `rename_inode` keeps the counts
of both parents needs `OnePlace` again, since the old parent must be the one
`..` named.  `Lost` keeps what failed `make_dir` calls left out of reach.
Acyclicity is not needed for any of it.

`OneTree` adds `NoLoop`: no set of directories without the root is closed under
`..`.  Only `rename_inode` can disturb it.  `is_ancestor` climbs by a recursive
function; `ClimbExists` shows that the function is one (by the least number at
which it would fail to be), and `ClimbReachesRoot` that a climb that did not meet
the moved directory and ended within the limit passed through every directory
above the new parent.  A closed set after the rename would then be one before.

`NamespaceSteps` first reduces `dir_insert`, `dir_remove`,
`dir_set_parent_entry`, and the creation and deletion of a directory, to the entries they add and take, and
these to how the number of entries naming an inode changes, by the cardinality
theorems for finite sets.  Each call is then a composition of such changes.
Those theorems, and that a set of numbers has a least element, are hypotheses of
the lemmas (`Counting`, `HasLeast`) and are derived from the library before the
theorems (`EntriesAreCounted`, `LeastOf`).

**Mount table** (`MountProofs`), from `MountAssumption`: `MountpointsInvert`
(`CrossingInverts`), `UseIsRecorded` (`InUseIsDirty`), `HaltIsComplete`
(`HaltCleansAll`).  The invariant adds that a mounted partition is the only one
with its label and that the directory of that name is its mountpoint
(`ByLabel`), and that two names in `/mnt` are two directories (`OneName`).
Hence two mountpoints differ, and unmounting by label reaches the partition
meant: labels change only by a refused mount, to blank, which no mounted
partition has.

**Keyboard** (`KeyboardProofs`), from `KeyboardAssumption`.

- `RingIsQueue`: `BufferIsFifo`.  Both indices wrap at most once (`WrapOnce`), so
  that the characters between them are a sequence to which a push appends
  (`PushedLast`) and from which a pop takes the first (`PoppedFirst`); `RingOK`
  only says that the indices are slots.
- `KeysFollow`: `KeysTracked`.  What holds at every moment is that the bytes on
  the wire, run through the handler from its present state, lead to a settled
  decoder with the keys that are pressed (`Decodes`).  The run is a witness
  sequence of decoder states, not a recursive function: a key appends its codes
  and their run (`RunsCompose`, `SentDecodes`), an interrupt drops the first
  state (`RunShifts`).

**Directories** (`DirectoryProofs`), from `EntryAssumption` (every entry fits into
a block, the dots into one together).

- `ChainsTile`: `WellFormed`;
- `DirectoryIsMap`: `ActsAsMap`;
- `RoomIsReused`: `ReusesRoom`.

`Good` is `WellFormed` for any directory.  It is inductive by itself: each change
is one to a single block, a takeover (`TakeoverFits`), a cut (`CutFits`), a merge
into the predecessor (`MergeFits`) or a written inode number (`RelinkFits`), and
for each the lemma shows both that the block is tiled and which entries it has.
`RoomIsReused` follows because a merge leaves the predecessor with at least the
removed entry's size of slack, the removal of a first entry leaves it unused at
its full size, and `dir_insert` without a new block gives up only if no entry has
room (`RemoveDrops`, `InsertAdds`, `RemovalLeavesRoom`).
To act as a map also needs that a name is there at most once (`Unique`), which
is the callers' `name_in` before `dir_insert`, and that the dots stay (`Dotted`).

Only model-checked: liveness (`EventuallyRuns`, `ShellStarts`, `Terminates`),
which needs fairness and ENABLED; what rests on recursion over data, which is
`Lookup` against `Walk` and the folds of `Console` and `Editor`; and
`Heap`, `FileBlocks`, `Commands` and `Shell`.

## What is not modelled

- The ATA driver: a transfer completes or panics; the file system modules take
  a completed write as a step.
- IDT and PIC, descriptor encodings: constant tables.  That every gate is an
  interrupt gate is why a handler is one action.
- Serial output, `kprintf` and the hex printer: output only.
- Library routines and the clock: pure functions of their arguments.
- The parsing of the MBR and of superblock fields.
- `insert_in_inode` and `unwind_insert`: nothing calls them.
- Power failures inside a file or directory operation: the file-level modules
  take a system call as one step.  The kernel has no repair; it promises only
  that such a partition stays marked (`InUseIsDirty`).
- Checks of user pointers in the system calls, calls that only read, and stale
  inode numbers held by programs, for which the code promises nothing.
- Timestamps, permissions, and the 16-bit wrap of `hard_link_cnt`, which
  `MaxLinks` stays below.
- Sizes that wrap when `kmalloc` rounds them up to a word: no caller has one.
- Before the shell starts: keys that `keyboard_init` forgets, and the keyboard
  interrupt in the middle of a character that the boot thread draws.
- Access rights of pages, colours and pixels of the console.
- The commands of the shell that make a single call or only print, and the
  splitting of their arguments.
