------------------------------- MODULE Lookup -------------------------------
(***************************************************************************)
(* Path resolution (lookup_path in                                         *)
(* src/kernel/fs/ext2/directoryController.c): one pass over the path per   *)
(* splice.  A pass walks the components from the root of the root          *)
(* partition, crossing into mounted partitions; at a symbolic link it      *)
(* rewrites the path (prefix, target, rest) into the spare buffer and      *)
(* starts over.  The result is compared with following each link in place. *)
(*                                                                         *)
(* A path is a sequence of components; empty components are skipped by the *)
(* code and left out here, but a trailing '/' is kept as the flag slash,   *)
(* since it makes the last component a middle one.                         *)
(***************************************************************************)
EXTENDS Integers, SequencesExt

CONSTANTS
    Node,               \* the inodes of all partitions
    Root,               \* root inode of the root partition
    Kind(_),            \* "dir", "file" or "link"
    Entries(_),         \* of a directory: a function from names to nodes
    MountedOn(_),       \* the root of the partition mounted there, or the node
    MountpointOf(_),    \* the mountpoint of a partition's root, or the node
    Targets,            \* what links may hold: [abs : BOOLEAN, to : Seq(name)]
    Paths,              \* the paths asked for
    SYMLINK_MAX_DEPTH,
    PATH_LEN            \* components that fit into a splice buffer

Links == {n \in Node : Kind(n) = "link"}

ASSUME LookupAssumption ==
    /\ Root \in Node /\ SYMLINK_MAX_DEPTH \in Nat /\ PATH_LEN \in Nat
    /\ \A n \in Node : Kind(n) = "dir" => \A x \in DOMAIN Entries(n) : Entries(n)[x] \in Node

VARIABLES
    target,     \* of each link
    asked,      \* the arguments: path, trailing slash, follow_leaf_link
    p,          \* the path of this pass
    splices,    \* passes before this one
    ind,        \* the component the pass has reached
    curr,       \* the node it has reached
    result      \* "busy", "error" or the node found

vars == <<target, asked, p, splices, ind, curr, result>>
tree == <<target, asked>>

FAILED == "error"
BUSY == "busy"

Init ==
    /\ target \in [Links -> Targets]
    /\ asked \in [path : Paths, slash : BOOLEAN, follow : BOOLEAN]
    /\ p = asked.path
    /\ splices = 0 /\ ind = 1 /\ curr = Root /\ result = BUSY

Finish(r) == result' = r /\ UNCHANGED <<tree, p, splices, ind, curr>>

\* The directory a component is looked up in.
Here == MountedOn(curr)

CanStep == Kind(Here) = "dir" /\ p[ind] \in DOMAIN Entries(Here)
Found == Entries(Here)[p[ind]]

\* The last component, which follow_leaf_link is about.
IsLeaf == ind = Len(p) /\ ~asked.slash

\* A component that is missing, or below something that is not a directory.
Missing ==
    /\ result = BUSY /\ ind <= Len(p) /\ ~CanStep
    /\ Finish(FAILED)

\* A component that is not a link, or a leaf not to be followed.
Descend ==
    /\ result = BUSY /\ ind <= Len(p) /\ CanStep
    /\ Kind(Found) = "link" => IsLeaf /\ ~asked.follow
    /\ curr' = MountpointOf(Found)
    /\ ind' = ind + 1
    /\ UNCHANGED <<tree, p, splices, result>>

\* A link: the rewritten path, or an error when it is too long or when the
\* links exceed SYMLINK_MAX_DEPTH.
Spliced_PrefixDropped ==
    LET t == target[Found]
    IN t.to \o SubSeq(p, ind + 1, Len(p))

Spliced ==
    LET t == target[Found]
    IN (IF t.abs THEN <<>> ELSE SubSeq(p, 1, ind - 1)) \o t.to \o SubSeq(p, ind + 1, Len(p))

LastPass == splices = SYMLINK_MAX_DEPTH

NextPass_Uncounted == splices

NextPass == splices + 1

TooLong == Len(Spliced) > PATH_LEN

Splice ==
    /\ result = BUSY /\ ind <= Len(p) /\ CanStep
    /\ Kind(Found) = "link" /\ ~(IsLeaf /\ ~asked.follow)
    /\ IF LastPass \/ TooLong THEN Finish(FAILED)
       ELSE /\ p' = Spliced /\ splices' = NextPass
            /\ ind' = 1 /\ curr' = Root
            /\ UNCHANGED <<tree, result>>

Done ==
    /\ result = BUSY /\ ind > Len(p)
    /\ Finish(curr)

Next == Missing \/ Descend \/ Splice \/ Done

Spec == Init /\ [][Next]_vars /\ WF_vars(Next)
-----------------------------------------------------------------------------
TypeOK ==
    /\ target \in [Links -> Targets]
    /\ Len(p) <= PATH_LEN /\ ind \in 1 .. PATH_LEN + 1
    /\ splices \in 0 .. SYMLINK_MAX_DEPTH
    /\ curr \in Node /\ result \in Node \cup {BUSY, FAILED}

\* Reference: resolve path s from node n, following each link where it is met,
\* with fuel for that many of them.  Gives <<node, fuel left>>.
RECURSIVE Walk(_, _, _)

Walk(n, s, fuel) ==
    IF s = <<>> THEN <<n, fuel>>
    ELSE LET d == MountedOn(n)
             x == Entries(d)[Head(s)]
             leaf == Len(s) = 1 /\ ~asked.slash /\ ~asked.follow
         IN IF Kind(d) # "dir" THEN <<FAILED, fuel>>
            ELSE IF Head(s) \notin DOMAIN Entries(d) THEN <<FAILED, fuel>>
            ELSE IF Kind(x) # "link" \/ leaf THEN Walk(MountpointOf(x), Tail(s), fuel)
            ELSE IF fuel = 0 THEN <<FAILED, fuel>>
            ELSE Walk(IF target[x].abs THEN Root ELSE n, target[x].to \o Tail(s), fuel - 1)

\* Rewriting the path and starting over finds what following the links in
\* place finds: for relative and absolute targets, links to links, links with
\* ".." across a mountpoint, and loops.  Only a path too long for the buffers
\* is given up earlier, and none in work is longer than they are (TypeOK).
AgreesWithWalk ==
    /\ TypeOK
    /\ result # BUSY =>
         \/ result = Walk(Root, asked.path, SYMLINK_MAX_DEPTH)[1]
         \/ result = FAILED /\ CanStep /\ TooLong

\* lookup_path ends, also on links that lead to themselves.
Terminates == <>(result # BUSY)
=============================================================================
