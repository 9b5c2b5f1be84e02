----------------------------- MODULE Directory -----------------------------
(***************************************************************************)
(* How src/kernel/fs/ext2/directoryController.c stores one directory: each *)
(* block is a chain of variable-sized entries that must tile it exactly.   *)
(* Entries are inserted into the slack behind another entry, removed by    *)
(* letting the predecessor grow over them, and the first entry of a block, *)
(* which has no predecessor, is removed by zeroing its inode number.       *)
(*                                                                         *)
(* Sizes and offsets are in units of ALIGN4.  The checks of the code for a *)
(* chain that does not tile its block (return false, or go on to the next  *)
(* block) are not taken apart: WellFormed says that they never fire.       *)
(***************************************************************************)
EXTENDS Integers, Sequences, FiniteSetsExt

CONSTANTS
    Name,       \* the names users give
    Width(_),   \* ALIGN4(8 + len) of a name
    Header,     \* ALIGN4(8), the size of an entry without a name
    BLOCK_SIZE, \* the size of a block
    MaxBlocks,  \* bound on the blocks of the directory
    Inode       \* inode numbers, without 0

Names == Name \cup {".", ".."}
NoName == "no name" \* name_len_lo = 0, which no call accepts

ASSUME EntryAssumption ==
    /\ Header \in Nat \ {0} /\ MaxBlocks \in Nat \ {0} /\ BLOCK_SIZE \in Nat
    /\ \A n \in Names : Width(n) \in Nat /\ Width(n) > Header /\ Width(n) <= BLOCK_SIZE
    /\ Width(".") + Width("..") <= BLOCK_SIZE
    /\ Name \cap {NoName, ".", ".."} = {}
    /\ 0 \notin Inode

\* The blocks of the directory: for every cursor at which the chain of the
\* block has an entry, that entry.
VARIABLE blocks

\* An entry of a removed name keeps the name, and with it its true size.
Entry == [inode : Inode \cup {0}, name : Names \cup {NoName}, size : Nat]

true_size(e) == IF e.name = NoName THEN Header ELSE Width(e.name)

\* The positions <<block, cursor>>, and the order every scan visits them in.
Positions(bs) == UNION {{i} \X DOMAIN bs[i] : i \in DOMAIN bs}
At(bs, p) == bs[p[1]][p[2]]
Live(bs) == {p \in Positions(bs) : At(bs, p).inode # 0}
First(ps) == CHOOSE p \in ps : \A q \in ps : p[1] < q[1] \/ (p[1] = q[1] /\ p[2] <= q[2])

\* name_in, and lookup for lookup_path: the live entries called name.
Found_FirstBlock(bs, name) ==
    {p \in Live(bs) : p[1] = 1 /\ At(bs, p).name = name}

Found(bs, name) == {p \in Live(bs) : At(bs, p).name = name}
name_in(bs, name) == Found(bs, name) # {}

\* Entry e makes room for a new one: an unused one is taken over whole, one
\* with slack is cut to its true size.
HasRoom_SlackOnly(e, needed) == e.size - true_size(e) >= needed

HasRoom(e, needed) ==
    \/ e.inode = 0 /\ e.size >= needed
    \/ e.size - true_size(e) >= needed

\* The block c after the entry at cursor o made room for the name.
Split(c, o, name, n) ==
    LET e == c[o]
        new == o + true_size(e)
    IN IF e.inode = 0 /\ e.size >= Width(name)
       THEN [c EXCEPT ![o] = [inode |-> n, name |-> name, size |-> e.size]]
       ELSE [x \in DOMAIN c \cup {new} |->
               IF x = new
               THEN [inode |-> n, name |-> name, size |-> e.size - true_size(e)]
               ELSE IF x = o THEN [e EXCEPT !.size = true_size(e)] ELSE c[x]]

\* dir_insert: the first entry with room, else a new block if there is one.
NewBlock(name, n) == [x \in {0} |-> [inode |-> n, name |-> name, size |-> BLOCK_SIZE]]

dir_insert(bs, name, n, room) ==
    LET fit == {p \in Positions(bs) : HasRoom(At(bs, p), Width(name))}
        p   == First(fit)
    IN IF fit # {} THEN [bs EXCEPT ![p[1]] = Split(bs[p[1]], p[2], name, n)]
       ELSE IF ~room THEN bs
       ELSE Append(bs, NewBlock(name, n))

\* The block c after the entry at cursor o was absorbed by prev, the entry
\* that the scan visited before it.
Merge(c, o) ==
    LET prev == Max({x \in DOMAIN c : x < o})
    IN [x \in DOMAIN c \ {o} |->
          IF x = prev THEN [c[x] EXCEPT !.size = c[x].size + c[o].size] ELSE c[x]]

\* dir_remove: the first entry of a block becomes unused, any other one is
\* absorbed by its predecessor.
dir_remove_NotFirst(bs, name) ==
    LET p == First(Found(bs, name))
    IN [bs EXCEPT ![p[1]] = [bs[p[1]] EXCEPT ![p[2]] = [At(bs, p) EXCEPT !.inode = 0]]]

dir_remove(bs, name) ==
    LET p == First(Found(bs, name))
    IN [bs EXCEPT ![p[1]] =
          IF p[2] = 0 THEN [bs[p[1]] EXCEPT ![0] = [At(bs, p) EXCEPT !.inode = 0]]
          ELSE Merge(bs[p[1]], p[2])]

\* dir_set_parent_entry.
dir_set_parent_entry(bs, n) ==
    LET p == First(Found(bs, ".."))
    IN [bs EXCEPT ![p[1]] = [bs[p[1]] EXCEPT ![p[2]] = [At(bs, p) EXCEPT !.inode = n]]]

\* make_dir: one block with an unused entry, then "." and "..".
Seed == NewBlock(NoName, 0)
make_dir(self, up) ==
    dir_insert(dir_insert(<<Seed>>, ".", self, FALSE), "..", up, FALSE)

-----------------------------------------------------------------------------
Init == \E self, up \in Inode : blocks = make_dir(self, up)

\* make_file, make_dir, make_symlink, sys_link_inode and rename_inode insert a
\* name after they looked for it; the partition may be full.
InsertName(name, n) ==
    /\ ~name_in(blocks, name)
    /\ \E room \in {TRUE, FALSE} :
         /\ room => Len(blocks) < MaxBlocks
         /\ blocks' = dir_insert(blocks, name, n, room)

\* unlink_inode, unlink_dir and rename_inode remove a name they found, never
\* "." or "..".
RemoveName(name) ==
    /\ name_in(blocks, name)
    /\ blocks' = dir_remove(blocks, name)

\* rename_inode moved this directory.
SetParent(n) == blocks' = dir_set_parent_entry(blocks, n)

Next ==
    \/ \E name \in Name, n \in Inode : InsertName(name, n)
    \/ \E name \in Name : RemoveName(name)
    \/ \E n \in Inode : SetParent(n)

Spec == Init /\ [][Next]_blocks
-----------------------------------------------------------------------------
TypeOK ==
    /\ Len(blocks) \in 1 .. MaxBlocks
    /\ \A i \in DOMAIN blocks : /\ DOMAIN blocks[i] \subseteq 0 .. BLOCK_SIZE - 1
                                /\ blocks[i] \in [DOMAIN blocks[i] -> Entry]

\* Entry after entry, the chain of block c covers it from the first byte to
\* the last: each begins where the one before it ends.
Tiles(c) ==
    /\ 0 \in DOMAIN c
    /\ \A o \in DOMAIN c : o + c[o].size \in DOMAIN c \cup {BLOCK_SIZE}
    /\ \A o \in DOMAIN c \ {0} : \E q \in DOMAIN c : q + c[q].size = o
    /\ \A o, q \in DOMAIN c : o < q => o + c[o].size <= q

\* The chains tile their blocks and no entry is smaller than what it holds,
\* after any sequence of splits, takeovers and merges: the "corrupted chain"
\* branches of name_in, dir_insert, dir_remove and dir_is_empty, after which
\* the callers report that "disk corruption occurred", are never taken.
\* Space is not lost to removed names: an unused entry is the first of its
\* block, so the rest of the block is reachable as somebody's slack, and a
\* block all of whose names were removed is one unused entry again.
WellFormed ==
    /\ TypeOK
    /\ \A i \in DOMAIN blocks :
         /\ Tiles(blocks[i])
         /\ \A o \in DOMAIN blocks[i] : true_size(blocks[i][o]) <= blocks[i][o].size
         /\ \A o \in DOMAIN blocks[i] : blocks[i][o].inode = 0 => o = 0

\* The directory as a map from names to inode numbers.
Entries ==
    [n \in {At(blocks, p).name : p \in Live(blocks)} |->
        At(blocks, First({p \in Live(blocks) : At(blocks, p).name = n})).inode]

Map == INSTANCE DirMap WITH entries <- Entries

\* Whatever the layout, the directory is a map: an insertion adds its name or,
\* on a full partition, nothing; a removal takes away exactly its name; a name
\* is never hidden or brought back by what dir_insert and dir_remove do to its
\* neighbours.
ActsAsMap == Map!Spec

\* The room of a removed name is not lost, wherever its entry stood and whatever
\* was split and merged around it: after dir_remove, dir_insert finds a place for
\* any name that is no longer, without a new block.  Names that come and go do
\* not make a directory grow, and on a full partition they can come back.
ReusesRoom ==
    \A x, y \in Name, n \in Inode :
        name_in(blocks, x) /\ Width(y) <= Width(x) =>
            name_in(dir_insert(dir_remove(blocks, x), y, n, FALSE), y)
=============================================================================
