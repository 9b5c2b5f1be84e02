---------------------------- MODULE MCNamespace ----------------------------
(***************************************************************************)
(* Single calls on the root and four more inodes; cp and rm on trees of    *)
(* three other inodes, with the four left for copies.  Two names per       *)
(* directory.                                                              *)
(***************************************************************************)
EXTENDS Commands, TLC

CONSTANTS root, i1, i2, i3, i4, s1, s2, s3

MCCallInodes == {root, i1, i2, i3, i4}
MCInode == MCCallInodes \cup {s1, s2, s3}
Symmetry == Permutations({i1, i2, i3, i4})

\* A tree whose link counts are the numbers of entries.
MCTree(kinds, entries, m) ==
    LET t == kinds @@ (root :> "dir") @@ [n \in MCInode |-> "free"]
        d == entries @@ [n \in MCInode |-> NoEntries]
    IN  [type |-> t, dir |-> d, mounts |-> m,
         links |-> [n \in MCInode |->
                      Cardinality({<<p, x>> \in MCInode \X Names : x \in DOMAIN d[p] /\ d[p][x] = n})]]

MCTrees ==
    LET one == root :> (("a" :> s1) @@ Dots(root, root)) IN
    { MCTree(s1 :> "dir" @@ s2 :> "file" @@ s3 :> "symlink",
             one @@ s1 :> (("a" :> s2) @@ ("b" :> s3) @@ Dots(s1, root)), {}),
      MCTree(s1 :> "dir" @@ s2 :> "dir" @@ s3 :> "file",
             one @@ s1 :> (("a" :> s2) @@ Dots(s1, root))
                 @@ s2 :> (("a" :> s3) @@ ("b" :> s3) @@ Dots(s2, s1)), {}),
      MCTree(s1 :> "dir" @@ s2 :> "dir" @@ s3 :> "file",
             one @@ s1 :> (("a" :> s2) @@ ("b" :> s3) @@ Dots(s1, root))
                 @@ s2 :> Dots(s2, s1), {s2}),
      MCTree(s1 :> "dir" @@ s2 :> "dir" @@ s3 :> "file",
             root :> (("a" :> s1) @@ ("b" :> s3) @@ Dots(root, root))
                 @@ s1 :> (("a" :> s3) @@ ("b" :> s2) @@ Dots(s1, root))
                 @@ s2 :> Dots(s2, s1), {}) }
=============================================================================
