----------------------------- MODULE Namespace -----------------------------
(***************************************************************************)
(* The directory tree of the root partition: what the system calls of      *)
(* src/kernel/fs/ext2/directoryController.c do to the inodes, their hard   *)
(* link counts, the directories and the mountpoints.  Directory shows that *)
(* a directory acts as a map from names to inode numbers; here it is one.  *)
(*                                                                         *)
(* A system call runs with interrupts off and is one step.  Any allocation *)
(* may find the partition full.  A call refused, or undone, by the code    *)
(* leaves the state as it was and has no action; an operation whose parent *)
(* is a mountpoint is carried out on the partition mounted there.          *)
(***************************************************************************)
EXTENDS Integers, FiniteSets, Functions

CONSTANTS
    Inode,          \* inode numbers of the partition
    ROOT_INODE_N,   \* the root directory
    Name,           \* the names users give, without "." and ".."
    MAX_DIR_DEPTH,  \* how far is_ancestor climbs
    MaxLinks        \* bound on the links of an inode, below 2^16

ASSUME NamespaceAssumption ==
    /\ IsFiniteSet(Inode) /\ ROOT_INODE_N \in Inode
    /\ IsFiniteSet(Name) /\ {".", ".."} \cap Name = {}
    /\ MAX_DIR_DEPTH \in Nat /\ MaxLinks \in Nat /\ MaxLinks >= 2

Names == Name \cup {".", ".."}

VARIABLES
    type,       \* "free", "dir", "file" or "symlink"
    links,      \* hard_link_cnt
    dir,        \* the entries of a directory
    leaked,     \* directories of a make_dir that failed after put_inode
    mounts,     \* the inodes that are mountpoints
    usable      \* the inodes this partition has

vars == <<type, links, dir, leaked, mounts, usable>>

Dirs == {n \in Inode : type[n] = "dir"}

\* The numbers lookup_path hands out: directories somebody can name, and which
\* return_mnt_root does not lead out of.
Parents == (Dirs \ leaked) \ mounts

NoEntries == [x \in {} |-> ROOT_INODE_N]
Dots(self, up) == [x \in {".", ".."} |-> IF x = "." THEN self ELSE up]

\* The directories after dir_insert, dir_remove and dir_set_parent_entry.
dir_insert(d, p, name, n) ==
    [d EXCEPT ![p] = [x \in DOMAIN d[p] \cup {name} |-> IF x = name THEN n ELSE d[p][x]]]
dir_remove(d, p, name) == [d EXCEPT ![p] = Restrict(d[p], DOMAIN d[p] \ {name})]
dir_set_parent_entry(d, c, p) == [d EXCEPT ![c][".."] = p]

dir_is_empty(n) == DOMAIN dir[n] \subseteq {".", ".."}

\* is_ancestor: climb from d until the root; a climb that does not get there
\* within MAX_DIR_DEPTH steps counts as an ancestor.
is_ancestor_Itself(a, d) == a = d

is_ancestor(a, d) ==
    LET up[k \in 0 .. MAX_DIR_DEPTH] ==
            IF k = 0 THEN d ELSE dir[up[k - 1]][".."]
    IN \A k \in 0 .. MAX_DIR_DEPTH - 1 :
           up[k] = ROOT_INODE_N => \E j \in 0 .. k : up[j] = a

\* The return_mnt_root test of unlink_dir and rename_inode.
Busy_Never(n) == FALSE

Busy(n) == n \in mounts

\* The type of an inode mint_inode allocated.
mint_inode(c, t) == [type EXCEPT ![c] = t]

\* The counts of the old and the new parent of a directory that moved.
Reparent_NewForgotten(op, np) == [links EXCEPT ![op] = @ - 1]

Reparent(op, np) == [links EXCEPT ![op] = @ - 1, ![np] = @ + 1]

-----------------------------------------------------------------------------
\* An empty partition, with the inodes S.
Fresh(S) ==
    /\ type = [n \in Inode |-> IF n = ROOT_INODE_N THEN "dir" ELSE "free"]
    /\ links = [n \in Inode |-> IF n = ROOT_INODE_N THEN 2 ELSE 0]
    /\ dir = [n \in Inode |-> IF n = ROOT_INODE_N
                              THEN Dots(ROOT_INODE_N, ROOT_INODE_N) ELSE NoEntries]
    /\ leaked = {} /\ mounts = {} /\ usable = S

Init == Fresh(Inode)

\* make_dir: put_inode, "." and ".." in the new block, then the name in the
\* parent.  Only the last can fail, for want of a block, and is not undone.
MakeDir(p, name, c) ==
    /\ p \in Parents /\ name \notin DOMAIN dir[p]
    /\ c \in usable /\ type[c] = "free" /\ links[p] < MaxLinks
    /\ type' = mint_inode(c, "dir")
    /\ \E inserted \in BOOLEAN :
         LET d == [dir EXCEPT ![c] = Dots(c, p)]
         IN /\ dir' = IF inserted THEN dir_insert(d, p, name, c) ELSE d
            /\ links' = [links EXCEPT ![c] = IF inserted THEN 2 ELSE 1, ![p] = @ + 1]
            /\ leaked' = IF inserted THEN leaked ELSE leaked \cup {c}
    /\ UNCHANGED <<mounts, usable>>

\* make_file: mint the inode, then insert it; an insertion that fails frees it.
MakeFile(p, name, c) ==
    /\ p \in Parents /\ name \notin DOMAIN dir[p]
    /\ c \in usable /\ type[c] = "free"
    /\ type' = mint_inode(c, "file")
    /\ dir' = dir_insert(dir, p, name, c)
    /\ links' = [links EXCEPT ![c] = 1]
    /\ UNCHANGED <<leaked, mounts, usable>>

\* make_symlink, after sys_make_symlink looked for the name; undone alike.
MakeSymlink(p, name, c) ==
    /\ p \in Parents /\ name \notin DOMAIN dir[p]
    /\ c \in usable /\ type[c] = "free"
    /\ type' = mint_inode(c, "symlink")
    /\ dir' = dir_insert(dir, p, name, c)
    /\ links' = [links EXCEPT ![c] = 1]
    /\ UNCHANGED <<leaked, mounts, usable>>

\* sys_link_inode: another name for a file, never for a directory.
LinkInode(n, p, name) ==
    /\ type[n] \in {"file", "symlink"} /\ links[n] < MaxLinks
    /\ p \in Parents /\ name \notin DOMAIN dir[p]
    /\ dir' = dir_insert(dir, p, name, n)
    /\ links' = [links EXCEPT ![n] = @ + 1]
    /\ UNCHANGED <<type, leaked, mounts, usable>>

\* unlink_inode: the inode goes with its last name.
UnlinkInode_Kept(p, name) ==
    LET n == dir[p][name] IN
    /\ p \in Parents /\ name \in DOMAIN dir[p] /\ type[n] # "dir"
    /\ dir' = dir_remove(dir, p, name)
    /\ links' = [links EXCEPT ![n] = @ - 1]
    /\ UNCHANGED <<type, leaked, mounts, usable>>

UnlinkInode(p, name) ==
    LET n == dir[p][name] IN
    /\ p \in Parents /\ name \in DOMAIN dir[p] /\ type[n] # "dir"
    /\ dir' = dir_remove(dir, p, name)
    /\ links' = [links EXCEPT ![n] = @ - 1]
    /\ type' = [type EXCEPT ![n] = IF links[n] = 1 THEN "free" ELSE @]
    /\ UNCHANGED <<leaked, mounts, usable>>

\* unlink_dir: an empty directory that is not a mountpoint.
UnlinkDir(p, name) ==
    LET n == dir[p][name] IN
    /\ name \notin {".", ".."}
    /\ p \in Parents /\ name \in DOMAIN dir[p]
    /\ ~Busy(n) /\ type[n] = "dir" /\ dir_is_empty(n)
    /\ dir' = [dir_remove(dir, p, name) EXCEPT ![n] = NoEntries]
    /\ links' = [links EXCEPT ![p] = @ - 1, ![n] = 0]
    /\ type' = [type EXCEPT ![n] = "free"]
    /\ UNCHANGED <<leaked, mounts, usable>>

\* rename_inode: insert the new name, remove the old one, and for a directory
\* that changes its parent rewrite ".." and both parents' counts.
RenameInode(op, old, np, new) ==
    LET n == dir[op][old]
        moved == dir_remove(dir_insert(dir, np, new, n), op, old)
    IN
    /\ {old, new} \cap {".", ".."} = {}
    /\ op \in Parents /\ np \in Parents
    /\ old \in DOMAIN dir[op] /\ ~Busy(n)
    /\ new \notin DOMAIN dir[np]
    /\ n # ROOT_INODE_N
    /\ type[n] = "dir" => ~is_ancestor(n, np)
    /\ IF type[n] = "dir" /\ op # np
       THEN /\ links[np] < MaxLinks
            /\ dir' = dir_set_parent_entry(moved, n, np)
            /\ links' = Reparent(op, np)
       ELSE dir' = moved /\ UNCHANGED links
    /\ UNCHANGED <<type, leaked, mounts, usable>>

\* mount_fs and umount_fs, as far as they concern this tree: the path
\* /mnt/<label> led to a directory of this partition.
MountFs(n) ==
    /\ n \in Parents
    /\ mounts' = mounts \cup {n}
    /\ UNCHANGED <<type, links, dir, leaked, usable>>

UmountFs(n) ==
    /\ n \in mounts
    /\ mounts' = mounts \ {n}
    /\ UNCHANGED <<type, links, dir, leaked, usable>>

Next ==
    \/ \E p \in Parents, c \in Inode, name \in Names :
         MakeDir(p, name, c) \/ MakeFile(p, name, c) \/ MakeSymlink(p, name, c)
    \/ \E p \in Parents, n \in Inode, name \in Names : LinkInode(n, p, name)
    \/ \E p \in Parents, name \in Names : UnlinkInode(p, name) \/ UnlinkDir(p, name)
    \/ \E op, np \in Parents, old, new \in Names : RenameInode(op, old, np, new)
    \/ \E n \in Inode : MountFs(n) \/ UmountFs(n)

Spec == Init /\ [][Next]_vars
-----------------------------------------------------------------------------
TypeOK ==
    /\ type \in [Inode -> {"free", "dir", "file", "symlink"}]
    /\ links \in [Inode -> 0 .. MaxLinks + 1]
    /\ \A n \in Inode : /\ DOMAIN dir[n] \subseteq Names
                        /\ Range(dir[n]) \subseteq Inode
    /\ leaked \subseteq Dirs
    /\ mounts \subseteq Inode /\ usable \subseteq Inode

\* Where the entries of the directories ds name inode n.
NamesOf(n, ds) ==
    {e \in ds \X Names : e[2] \in DOMAIN dir[e[1]] /\ dir[e[1]][e[2]] = n}

\* The place of a directory in the tree.
Place(n) == NamesOf(n, Dirs \ leaked) \cap (Inode \X Name)

\* No directory that can be reached names a free inode: delete_inode runs only
\* once the last name is gone, whatever links, renames and failed calls came
\* before.  And inodes are not lost: one that is in use has a name a user can
\* reach it by, unless it is a directory whose make_dir failed half way.
InUseIsNamed ==
    /\ \A d \in Dirs \ leaked : \A x \in DOMAIN dir[d] : type[dir[d][x]] # "free"
    /\ \A n \in Inode : type[n] # "free" /\ n \notin leaked =>
         NamesOf(n, Dirs \ leaked) # {}

\* hard_link_cnt, which decides when unlink_inode deletes, is the number of
\* entries naming the inode.  Directories of failed make_dir calls hold their
\* parent's count up, and may outlive that parent.  The
\* count never passes its bound (TypeOK).
LinksExact ==
    /\ TypeOK
    /\ \A n \in Inode : type[n] # "free" =>
         /\ links[n] >= Cardinality(NamesOf(n, Dirs \ leaked))
         /\ links[n] <= Cardinality(NamesOf(n, Dirs))

\* A directory has one place in the tree: exactly one name besides "." and
\* "..", in the directory its ".." leads to.  rename_inode never cuts a subtree
\* off or makes a cycle: no set of directories without the root is closed
\* under "..".
TreeRooted ==
    LET ds == (Dirs \ leaked) \ {ROOT_INODE_N} IN
    /\ \A n \in ds : \E x \in Name : Place(n) = {<<dir[n][".."], x>>}
    /\ \A S \in SUBSET ds : S # {} => \E n \in S : dir[n][".."] \notin S

\* A mountpoint stays the directory it was, under the name it had, while a
\* partition is mounted on it: fs_entries keeps only its inode number, which
\* must not come to mean something else.
MountpointsPinned ==
    [][\A n \in mounts \cap mounts' : n \in Dirs' /\ Place(n)' = Place(n)]_vars
=============================================================================
