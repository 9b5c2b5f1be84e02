------------------------------- MODULE Commands -------------------------------
(***************************************************************************)
(* The shell's cp and rm on the tree: depsh/cmds/cp.c and rm.c.  Both walk *)
(* a directory recursively, one system call at a time, and any call that   *)
(* makes something may fail half way.  cp remembers how far it has read in *)
(* each directory, rm starts over after each removal.                      *)
(*                                                                         *)
(* A path is the inode it resolves to, which for a mountpoint is the one   *)
(* on this side of it.  read_chunk, rm_inode and rm_dir cross, but what    *)
(* the mounted partition holds is not known here: its root may show any    *)
(* entries, and the commands take the inode numbers they read there for    *)
(* numbers of this partition.  The test of cp for a copy into              *)
(* itself compares the texts of the paths, which "..", or a link, makes    *)
(* differ: such a copy is not refused here.  The order of the entries in a *)
(* directory is arbitrary.  The content of a file is a token: what its     *)
(* maker wrote, a part of it, or anything, when cp reads a symbolic link   *)
(* as if it were a file.                                                   *)
(***************************************************************************)
EXTENDS Namespace, SequencesExt

CONSTANTS
    Empty, Partial, Anything,   \* contents besides the inodes' own
    CallInodes,                 \* the inodes when single calls are made
    Trees                       \* the trees that commands are given

VARIABLES
    content,    \* of each file: the inode it was written to first, or a token
    run,        \* what the user does: "calls", or cp and rm: "idle", "cp", "rm",
                \* and how it ended
    stack,      \* the frames of cp_walk or rm_tree, the innermost one last
    copying,    \* what copy_file is at, <<from, to>>, or <<>>
    was         \* ghost: the tree before the command, and its arguments

commandVars == <<content, run, stack, copying, was>>
allVars == <<vars, commandVars>>

Top == Last(stack)

\* The walk climbs out of the tree through "..".
Children_WithDots(d) == DOMAIN dir[d] \ {"."}

Children(d) == DOMAIN dir[d] \cap Name

\* What read_chunk shows of a directory, besides "." and "..": anything, across
\* a mountpoint.  A file read as a directory shows nothing that is followed.
Shown(d) ==
    IF d \in mounts
    THEN [name : Name, n : Inode \ {ROOT_INODE_N}, is_dir : BOOLEAN]
    ELSE {[name |-> x, n |-> dir[d][x], is_dir |-> type[dir[d][x]] = "dir"] : x \in Children(d)}

\* The directories of a tree below d, and d.
Below(t, d) ==
    LET below[k \in 0 .. Cardinality(Inode)] ==
            IF k = 0 THEN {d}
            ELSE LET S == below[k - 1] IN
                 S \cup {n \in Inode : t.type[n] = "dir" /\ \E m \in S :
                            \E x \in DOMAIN t.dir[m] \cap Name : t.dir[m][x] = n}
    IN  below[Cardinality(Inode)]

Tree == [type |-> type, dir |-> dir, content |-> content]

\* A new inode has no content yet, a deleted one has none any more.
Contents == [n \in Inode |-> IF "free" \in {type[n], type'[n]} THEN Empty ELSE content[n]]

Begin(cmd, from, to, leaf) ==
    was' = [cmd |-> cmd, tree |-> Tree, from |-> from, to |-> to, leaf |-> leaf]

Goes(frames, file) ==
    /\ stack' = frames /\ copying' = file
    /\ content' = Contents

\* A command that is over, and well or not.
Ends(outcome) == run' = outcome /\ Goes(<<>>, <<>>)

-----------------------------------------------------------------------------
(* cp, cp -r *)

Frame(src, dst) == [src |-> src, dst |-> dst, passed |-> {}]

\* cmd_cp: the new name must be free.  The source may be a mountpoint.
CpStart(s, np, new, c) ==
    /\ run = "idle" /\ Begin("cp", s, np, new)
    /\ \/ /\ type[s] = "file" /\ MakeFile(np, new, c)
          /\ run' = "cp" /\ Goes(<<>>, <<s, c>>)
       \/ /\ s \in Dirs \ leaked /\ MakeDir(np, new, c)
          /\ IF new \in DOMAIN dir'[np]
             THEN run' = "cp" /\ Goes(<<Frame(s, c)>>, <<>>)
             ELSE Ends("failed")

\* The place in the directory is remembered by what has been passed.
Passed_Chunk(f, x) == [f EXCEPT !.passed = Children(f.src)]

Passed(f, x) == [f EXCEPT !.passed = @ \cup {x}]

\* The entries cp_walk has still to come to.
Ahead == {e \in Shown(Top.src) : e.name \notin Top.passed}

\* A child is looked up on src_fs, also when read_chunk crossed a mountpoint.
CpChild(e, c) ==
    LET frames == Append(Front(stack), Passed(Top, e.name)) IN
    /\ UNCHANGED <<run, was>>
    /\ IF e.is_dir
       THEN /\ e.n \notin mounts
            /\ MakeDir(Top.dst, e.name, c) /\ e.name \in DOMAIN dir'[Top.dst]
            /\ Goes(Append(frames, Frame(e.n, c)), <<>>)
       ELSE MakeFile(Top.dst, e.name, c) /\ Goes(frames, <<e.n, c>>)

\* A child that is a mountpoint, or could not be made.  A directory that could
\* not be inserted stays behind without a name.
CpFails(e, c) ==
    /\ UNCHANGED was
    /\ \/ UNCHANGED vars
       \/ /\ e.is_dir /\ e.n \notin mounts
          /\ MakeDir(Top.dst, e.name, c) /\ e.name \notin DOMAIN dir'[Top.dst]
    /\ Ends("failed")

CpStep ==
    /\ run = "cp" /\ copying = <<>>
    /\ \E e \in Ahead, c \in Inode : CpChild(e, c) \/ CpFails(e, c)

\* copy_file, to its end or until a chunk cannot be read or appended.
CopyFile ==
    /\ run = "cp" /\ copying # <<>> /\ UNCHANGED <<vars, was>>
    /\ copying' = <<>>
    /\ \/ /\ content' = [content EXCEPT ![copying[2]] =
                            IF type[copying[1]] = "file" THEN content[copying[1]] ELSE Anything]
          /\ run' = IF stack = <<>> THEN "ok" ELSE run
          /\ UNCHANGED stack
       \/ /\ content' = [content EXCEPT ![copying[2]] = Partial]
          /\ run' = "failed" /\ stack' = <<>>

CpReturn ==
    /\ run = "cp" /\ copying = <<>> /\ UNCHANGED <<vars, was>>
    /\ Ahead = {} \/ Top.src \in mounts
    /\ \/ /\ run' = IF Len(stack) = 1 THEN "ok" ELSE run
          /\ Goes(Front(stack), <<>>)
       \/ Top.src \notin Dirs /\ Ends("failed")

-----------------------------------------------------------------------------
(* rm -r *)

RmFrame(parent, name, d) == [parent |-> parent, name |-> name, dir |-> d]

\* cmd_rm, also after another command: name is a directory, number n, in p.  If
\* p is a mountpoint, both are those of the mounted partition.
RmStart(p, name, n) ==
    /\ run \in {"idle", "ok", "failed"} /\ p \in Dirs \ leaked
    /\ IF p \in mounts
       THEN name \in Name /\ n # ROOT_INODE_N
       ELSE /\ name \in DOMAIN dir[p] /\ n = dir[p][name]
            /\ type[n] = "dir" /\ n \notin mounts
    /\ Begin("rm", n, p, name) /\ run' = "rm" /\ UNCHANGED vars
    /\ Goes(<<RmFrame(p, name, n)>>, <<>>)

\* rm_inode, on this partition or across a mountpoint.
RmInode(d, x) == IF d \in mounts THEN UNCHANGED vars ELSE UnlinkInode(d, x)

\* The first child that is found: a directory is emptied first.  rm_tree looks
\* everything up on the partition it was given, that of the parent.
RmChild ==
    /\ run = "rm" /\ UNCHANGED was
    /\ \E e \in Shown(Top.dir) :
         \/ /\ ~e.is_dir /\ RmInode(Top.dir, e.name)
            /\ Goes(stack, <<>>) /\ UNCHANGED run
         \/ /\ e.is_dir /\ e.n \notin mounts /\ UNCHANGED vars
            /\ Goes(Append(stack, RmFrame(Top.dir, e.name, e.n)), <<>>) /\ UNCHANGED run
         \/ /\ e.is_dir /\ e.n \in mounts /\ UNCHANGED vars
            /\ Ends("failed")

\* rm_dir, once nothing is left.  "." and ".." are refused, and across a
\* mountpoint it may find the directory full.
RmReturn ==
    /\ run = "rm" /\ UNCHANGED was
    /\ Shown(Top.dir) = {} \/ Top.dir \in mounts
    /\ \/ /\ Top.name \notin {".", ".."}
          /\ IF Top.parent \in mounts THEN UNCHANGED vars ELSE UnlinkDir(Top.parent, Top.name)
          /\ run' = IF Len(stack) = 1 THEN "ok" ELSE run
          /\ Goes(Front(stack), <<>>)
       \/ /\ Top.name \in {".", ".."} \/ Top.parent \in mounts
          /\ UNCHANGED vars /\ Ends("failed")

-----------------------------------------------------------------------------
NoTree == [cmd |-> "none", tree |-> <<>>, from |-> ROOT_INODE_N, to |-> ROOT_INODE_N, leaf |-> "."]

\* A user makes single calls on an empty partition, or runs commands on a tree.
CommandsInit ==
    /\ \/ run = "calls" /\ Fresh(CallInodes)
       \/ \E t \in Trees :
            /\ run = "idle" /\ type = t.type /\ links = t.links /\ dir = t.dir
            /\ leaked = {} /\ mounts = t.mounts /\ usable = Inode
    /\ content = [n \in Inode |-> IF type[n] = "file" THEN n ELSE Empty]
    /\ stack = <<>> /\ copying = <<>> /\ was = NoTree

\* Every other command of the shell is one system call.
OneCall ==
    /\ run = "calls" /\ Next
    /\ UNCHANGED commandVars

\* The prompt again: nothing but further removals are followed.
Prompt == run \in {"ok", "failed"} /\ UNCHANGED allVars

CommandsNext ==
    \/ OneCall \/ Prompt
    \/ \E s, np, c \in Inode, new \in Name : CpStart(s, np, new, c)
    \/ CpStep \/ CopyFile \/ CpReturn
    \/ \E p, n \in Inode, x \in Names : RmStart(p, x, n)
    \/ RmChild \/ RmReturn

CommandsSpec == CommandsInit /\ [][CommandsNext]_allVars
-----------------------------------------------------------------------------
\* What the path s leads to from d in a tree: a set of at most one inode.
At(t, d, s) ==
    LET at[k \in 0 .. Len(s)] ==
            IF k = 0 THEN {d}
            ELSE {t.dir[n][s[k]] : n \in {m \in at[k - 1] : s[k] \in DOMAIN t.dir[m]}}
    IN  at[Len(s)]

CopyOf(m, n) ==
    /\ was.tree.type[n] = "free"
    /\ (type[n] = "dir") = (was.tree.type[m] = "dir")
    /\ was.tree.type[m] = "file" => content[n] = was.tree.content[m]

(* A cp that ended well made a copy, unless its source is a mountpoint: the
   same names in the same places, the content of every file, and no inode shared
   with the original (a symbolic link becomes a file).  Whatever the source, and
   whether it ended well, failed or is still at it, nothing that was there
   before has changed, but for the new name in the directory that holds the
   copy. *)
CopiesExactly ==
    was.cmd = "cp" =>
        /\ \A n \in Inode : was.tree.type[n] # "free" =>
              /\ type[n] = was.tree.type[n] /\ content[n] = was.tree.content[n]
              /\ \A x \in DOMAIN dir[n] :
                    <<n, x>> = <<was.to, was.leaf>> \/ x \in DOMAIN was.tree.dir[n]
              /\ \A x \in DOMAIN was.tree.dir[n] :
                    x \in DOMAIN dir[n] /\ dir[n][x] = was.tree.dir[n][x]
        /\ run = "ok" /\ was.from \notin mounts =>
              \A s \in {<<>>} \cup [1 .. 1 -> Name] \cup [1 .. 2 -> Name] \cup [1 .. 3 -> Name] :
                LET old == At(was.tree, was.from, s)
                    new == At(Tree, dir[was.to][was.leaf], s)
                IN  (old = {}) = (new = {}) /\ \A m \in old, n \in new : CopyOf(m, n)

(* An rm -r in a directory that is no mountpoint removes the directory it was
   given and all below it when it ends well, and otherwise a part of that; it
   never removes or changes a directory elsewhere, nor the content of a file
   that still has a name. *)
RemovesExactly ==
    was.cmd = "rm" /\ was.to \notin mounts =>
        LET gone == Below(was.tree, was.from) IN
        /\ \A d \in Inode \ gone : was.tree.type[d] = "dir" =>
              /\ type[d] = "dir"
              /\ dir[d] = IF run = "ok" /\ d = was.to
                          THEN dir_remove(was.tree.dir, d, was.leaf)[d] ELSE was.tree.dir[d]
        /\ run = "ok" => \A d \in gone : type[d] = "free"
        /\ \A n \in Inode : type[n] = "file" => content[n] = was.tree.content[n]
=============================================================================
