--------------------------- MODULE NamespaceSteps ----------------------------
(***************************************************************************)
(* What the operators of Namespace do to the entries of directories and to *)
(* the number of entries that name an inode; the inductive invariant of    *)
(* names and link counts; and that the calls on directories, rename_inode, *)
(* unlink_dir and make_dir, preserve it.  NamespaceProofs has the other    *)
(* calls and the theorems.                                                 *)
(***************************************************************************)
EXTENDS Namespace, TLAPS

\* Leaves are tried with the SMT solver and then with Zenon, within 30 seconds.
USE SMTT(30), ZenonT(30)

DirType == [Inode -> UNION {[S -> Inode] : S \in SUBSET Names}]

\* Entry x of directory d, in the directories dd, names inode n.
Entry(dd, d, x, n) == x \in DOMAIN dd[d] /\ dd[d][x] = n

\* The entries of the directories ds that name n, in the directories dd.
Refs(dd, n, ds) == {e \in ds \X Names : Entry(dd, e[1], e[2], n)}

Count(dd, n, ds) == Cardinality(Refs(dd, n, ds))

-----------------------------------------------------------------------------
(* Directories, as sets of entries.                                        *)

\* The names and the inode numbers in a directory are names and inode numbers.
LEMMA DirFacts ==
    ASSUME NEW dd \in DirType, NEW d \in Inode
    PROVE  /\ DOMAIN dd[d] \subseteq Names
           /\ \A x \in DOMAIN dd[d] : dd[d][x] \in Inode
<1>1. PICK S \in SUBSET Names : dd[d] \in [S -> Inode]
  BY DEF DirType
<1> QED BY <1>1

\* A directory may be replaced by any other.
LEMMA IsDirectory ==
    ASSUME NEW S \in SUBSET Names, NEW f \in [S -> Inode], NEW dd \in DirType, NEW p \in Inode
    PROVE  [dd EXCEPT ![p] = f] \in DirType
<1>1. f \in UNION {[T -> Inode] : T \in SUBSET Names}
  OBVIOUS
<1> QED BY <1>1 DEF DirType

\* dir_insert adds one entry, dir_remove takes one away.
LEMMA Inserted ==
    ASSUME NEW dd \in DirType, NEW p \in Inode, NEW name \in Names, NEW n \in Inode,
           name \notin DOMAIN dd[p]
    PROVE  /\ dir_insert(dd, p, name, n) \in DirType
           /\ \A d \in Inode, x \in Names, m \in Inode :
                Entry(dir_insert(dd, p, name, n), d, x, m)
                  <=> Entry(dd, d, x, m) \/ (d = p /\ x = name /\ m = n)
<1> DEFINE f == [x \in DOMAIN dd[p] \cup {name} |-> IF x = name THEN n ELSE dd[p][x]]
<1>1. DOMAIN dd[p] \cup {name} \in SUBSET Names /\ f \in [DOMAIN dd[p] \cup {name} -> Inode]
  BY DirFacts
<1>2. dir_insert(dd, p, name, n) = [dd EXCEPT ![p] = f]
  BY DEF dir_insert
<1>3. [dd EXCEPT ![p] = f] \in DirType
  <2> HIDE DEF f
  <2> QED BY <1>1, IsDirectory, ZenonT(30)
<1>4. DOMAIN dd = Inode
  BY DEF DirType
<1>5. ASSUME NEW d \in Inode, NEW x \in Names, NEW m \in Inode
      PROVE  Entry(dir_insert(dd, p, name, n), d, x, m)
               <=> Entry(dd, d, x, m) \/ (d = p /\ x = name /\ m = n)
  BY <1>2, <1>4 DEF Entry
<1>6. dir_insert(dd, p, name, n) \in DirType
  BY <1>2, <1>3
<1> QED BY <1>5, <1>6

\* dir_remove takes one entry away and leaves the others.
LEMMA Removed ==
    ASSUME NEW dd \in DirType, NEW p \in Inode, NEW name \in Names
    PROVE  /\ dir_remove(dd, p, name) \in DirType
           /\ \A d \in Inode, x \in Names, m \in Inode :
                Entry(dir_remove(dd, p, name), d, x, m)
                  <=> Entry(dd, d, x, m) /\ ~(d = p /\ x = name)
<1> DEFINE f == [x \in DOMAIN dd[p] \ {name} |-> dd[p][x]]
<1>1. DOMAIN dd[p] \ {name} \in SUBSET Names /\ f \in [DOMAIN dd[p] \ {name} -> Inode]
  BY DirFacts
<1>2. dir_remove(dd, p, name) = [dd EXCEPT ![p] = f]
  BY DEF dir_remove, Restrict
<1>3. [dd EXCEPT ![p] = f] \in DirType
  <2> HIDE DEF f
  <2> QED BY <1>1, IsDirectory, ZenonT(30)
<1>4. DOMAIN dd = Inode
  BY DEF DirType
<1>5. ASSUME NEW d \in Inode, NEW x \in Names, NEW m \in Inode
      PROVE  Entry([dd EXCEPT ![p] = f], d, x, m)
               <=> Entry(dd, d, x, m) /\ ~(d = p /\ x = name)
  BY <1>4 DEF Entry
<1> HIDE DEF f
<1> QED BY <1>2, <1>3, <1>5, ZenonT(30)

\* dir_set_parent_entry changes what ".." names, and nothing else.
LEMMA ParentSet ==
    ASSUME NEW dd \in DirType, NEW c \in Inode, NEW p \in Inode, ".." \in DOMAIN dd[c]
    PROVE  /\ dir_set_parent_entry(dd, c, p) \in DirType
           /\ \A d \in Inode, x \in Names, m \in Inode :
                Entry(dir_set_parent_entry(dd, c, p), d, x, m)
                  <=> \/ Entry(dd, d, x, m) /\ ~(d = c /\ x = "..")
                      \/ d = c /\ x = ".." /\ m = p
<1> DEFINE f == [dd[c] EXCEPT ![".."] = p]
<1>1. PICK S \in SUBSET Names : dd[c] \in [S -> Inode]
  BY DEF DirType
<1>2. f \in [S -> Inode]
  BY <1>1
<1>3. dir_set_parent_entry(dd, c, p) = [dd EXCEPT ![c] = f]
  BY DEF dir_set_parent_entry
<1>4. [dd EXCEPT ![c] = f] \in DirType
  <2> HIDE DEF f
  <2> QED BY <1>2, IsDirectory
<1>5. DOMAIN dd = Inode
  BY DEF DirType
<1>6. ASSUME NEW d \in Inode, NEW x \in Names, NEW m \in Inode
      PROVE  Entry(dir_set_parent_entry(dd, c, p), d, x, m)
               <=> \/ Entry(dd, d, x, m) /\ ~(d = c /\ x = "..")
                   \/ d = c /\ x = ".." /\ m = p
  BY <1>1, <1>3, <1>5 DEF Entry
<1>7. dir_set_parent_entry(dd, c, p) \in DirType
  BY <1>3, <1>4
<1> QED BY <1>6, <1>7

-----------------------------------------------------------------------------
(* The number of entries that name an inode.                               *)

\* 1 for what is, 0 for what is not.
One(b) == IF b THEN 1 ELSE 0

\* What the library of finite sets says of the entries that name an inode.  The
\* lemmas take it as a hypothesis, and EntriesAreCounted shows it below.
Counting ==
    /\ \A dd, n : \A ds \in SUBSET Inode :
         /\ IsFiniteSet(Refs(dd, n, ds)) /\ Count(dd, n, ds) \in Nat
         /\ Count(dd, n, ds) = 0 <=> Refs(dd, n, ds) = {}
    /\ \A T, e : IsFiniteSet(T) /\ e \notin T => Cardinality(T \cup {e}) = Cardinality(T) + 1

\* What the library of well-founded relations says of the natural numbers:
\* LeastOf below.
HasLeast == \A S \in SUBSET Nat : S # {} => \E x \in S : \A y \in S : x <= y

\* An inode is named by finitely many entries.
LEMMA RefsFinite ==
    ASSUME Counting, NEW dd, NEW n, NEW ds \in SUBSET Inode
    PROVE  IsFiniteSet(Refs(dd, n, ds)) /\ Count(dd, n, ds) \in Nat
BY DEF Counting

\* The same entries, the same count.
LEMMA CountSame ==
    ASSUME NEW dd, NEW ee, NEW n, NEW ds \in SUBSET Inode, NEW es \in SUBSET Inode,
           \A d \in Inode, x \in Names :
             d \in es /\ Entry(ee, d, x, n) <=> d \in ds /\ Entry(dd, d, x, n)
    PROVE  Count(ee, n, es) = Count(dd, n, ds)
<1>1. Refs(ee, n, es) = Refs(dd, n, ds)
  BY DEF Refs
<1> QED BY <1>1 DEF Count

\* One entry more, a count higher by one.
LEMMA CountOneMore ==
    ASSUME Counting, NEW dd, NEW ee, NEW n, NEW ds \in SUBSET Inode, NEW es \in SUBSET Inode,
           NEW p \in Inode, NEW y \in Names,
           ~(p \in ds /\ Entry(dd, p, y, n)),
           \A d \in Inode, x \in Names :
             d \in es /\ Entry(ee, d, x, n)
               <=> (d \in ds /\ Entry(dd, d, x, n)) \/ (d = p /\ x = y)
    PROVE  Count(ee, n, es) = Count(dd, n, ds) + 1
<1>1. Refs(ee, n, es) = Refs(dd, n, ds) \cup {<<p, y>>}
  BY DEF Refs
<1>2. <<p, y>> \notin Refs(dd, n, ds)
  BY DEF Refs
<1>3. IsFiniteSet(Refs(dd, n, ds))
  BY RefsFinite
<1> QED BY <1>1, <1>2, <1>3, ZenonT(30) DEF Count, Counting

\* dir_insert raises the count of the inode it names.
LEMMA CountInserted ==
    ASSUME Counting, NEW dd \in DirType, NEW p \in Inode, NEW name \in Names, NEW n \in Inode,
           name \notin DOMAIN dd[p], NEW ds \in SUBSET Inode, p \in ds, NEW m \in Inode
    PROVE  Count(dir_insert(dd, p, name, n), m, ds) = Count(dd, m, ds) + One(m = n)
<1>1. CASE m = n
  <2>1. ~Entry(dd, p, name, n)
    BY DEF Entry
  <2>2. Count(dir_insert(dd, p, name, n), n, ds) = Count(dd, n, ds) + 1
    BY <2>1, Inserted, CountOneMore
  <2> QED BY <1>1, <2>2 DEF One
<1>2. CASE m # n
  <2>1. Count(dir_insert(dd, p, name, n), m, ds) = Count(dd, m, ds)
    BY <1>2, Inserted, CountSame
  <2> QED BY <1>2, <2>1, RefsFinite DEF One
<1> QED BY <1>1, <1>2

\* dir_remove lowers the count of the inode it named.
LEMMA CountRemoved ==
    ASSUME Counting, NEW dd \in DirType, NEW p \in Inode, NEW name \in Names, NEW n \in Inode,
           Entry(dd, p, name, n), NEW ds \in SUBSET Inode, p \in ds, NEW m \in Inode
    PROVE  Count(dir_remove(dd, p, name), m, ds) + One(m = n) = Count(dd, m, ds)
<1>1. CASE m = n
  <2>1. ~Entry(dir_remove(dd, p, name), p, name, n)
    BY Removed
  <2>2. Count(dd, n, ds) = Count(dir_remove(dd, p, name), n, ds) + 1
    BY <2>1, Removed, CountOneMore
  <2> QED BY <1>1, <2>2 DEF One
<1>2. CASE m # n
  <2>0. ~Entry(dd, p, name, m)
    BY <1>2 DEF Entry
  <2>1. \A d \in Inode, x \in Names :
          Entry(dir_remove(dd, p, name), d, x, m) <=> Entry(dd, d, x, m)
    BY <2>0, Removed
  <2>2. Count(dir_remove(dd, p, name), m, ds) = Count(dd, m, ds)
    BY <2>1, CountSame
  <2> QED BY <1>2, <2>2, RefsFinite DEF One
<1> QED BY <1>1, <1>2

\* dir_set_parent_entry moves one link from the old parent to the new one.
LEMMA CountParentSet ==
    ASSUME Counting, NEW dd \in DirType, NEW c \in Inode, NEW p \in Inode, NEW q \in Inode, p # q,
           Entry(dd, c, "..", q), NEW ds \in SUBSET Inode, c \in ds, NEW m \in Inode
    PROVE  Count(dir_set_parent_entry(dd, c, p), m, ds) + One(m = q)
             = Count(dd, m, ds) + One(m = p)
<1>0. ".." \in DOMAIN dd[c] /\ ".." \in Names
  BY DEF Entry, Names
<1>1. \A d \in Inode, x \in Names :
        Entry(dir_set_parent_entry(dd, c, p), d, x, m)
          <=> \/ Entry(dd, d, x, m) /\ ~(d = c /\ x = "..")
              \/ d = c /\ x = ".." /\ m = p
  BY <1>0, ParentSet
<1>2. CASE m = p
  <2>1. ~Entry(dd, c, "..", m)
    BY <1>2 DEF Entry
  <2>2. Count(dir_set_parent_entry(dd, c, p), m, ds) = Count(dd, m, ds) + 1
    BY <1>0, <1>1, <1>2, <2>1, CountOneMore
  <2> QED BY <1>2, <2>2, RefsFinite DEF One
<1>3. CASE m = q
  <2>1. ~Entry(dir_set_parent_entry(dd, c, p), c, "..", m)
    BY <1>0, <1>1, <1>3
  <2>2. Count(dd, m, ds) = Count(dir_set_parent_entry(dd, c, p), m, ds) + 1
    BY <1>0, <1>1, <1>3, <2>1, CountOneMore
  <2> QED BY <1>3, <2>2, RefsFinite DEF One
<1>4. CASE m # p /\ m # q
  <2>1. ~Entry(dd, c, "..", m)
    BY <1>4 DEF Entry
  <2>2. Count(dir_set_parent_entry(dd, c, p), m, ds) = Count(dd, m, ds)
    BY <1>1, <1>4, <2>1, CountSame
  <2> QED BY <1>4, <2>2, RefsFinite DEF One
<1> QED BY <1>2, <1>3, <1>4

-----------------------------------------------------------------------------
(* The inductive invariant.                                                *)

Types == {"free", "dir", "file", "symlink"}

\* The directories that a path can lead to.
Live == Dirs \ leaked

Typed ==
    /\ type \in [Inode -> Types] /\ links \in [Inode -> Nat] /\ dir \in DirType
    /\ leaked \subseteq Dirs /\ mounts \subseteq Live /\ usable \subseteq Inode
    /\ ROOT_INODE_N \in Live

\* A directory names itself; the root is its own parent.
Dotted ==
    /\ \A d \in Live : Entry(dir, d, ".", d)
    /\ Entry(dir, ROOT_INODE_N, "..", ROOT_INODE_N)

\* Nothing leads to what failed make_dir calls left.
Lost == \A d \in Live, x \in Names, n \in leaked : ~Entry(dir, d, x, n)

NoDangling ==
    \A d \in Live, x \in Names, n \in Inode : Entry(dir, d, x, n) => type[n] # "free"

\* A directory has one place, in the parent it names; the root has none.
OnePlace ==
    /\ \A d \in Live, x \in Name : ~Entry(dir, d, x, ROOT_INODE_N)
    /\ \A n \in Live \ {ROOT_INODE_N} :
         \E p \in Live, x \in Name :
            /\ Entry(dir, n, "..", p)
            /\ \A q \in Live, y \in Name : Entry(dir, q, y, n) <=> q = p /\ y = x

\* A file is counted exactly; the count of a directory may include the ".." of
\* directories that were lost.
Counted ==
    \A n \in Inode :
        /\ type[n] \in {"file", "symlink"} => links[n] = Count(dir, n, Live)
        /\ type[n] = "dir" => /\ Count(dir, n, Live) <= links[n]
                              /\ links[n] <= Count(dir, n, Dirs)

\* A file that has lost its last name is free.
Held == \A n \in Inode : type[n] \in {"file", "symlink"} => links[n] > 0

Bounded == \A n \in Inode : links[n] <= MaxLinks

IInv ==
    /\ Typed
    /\ Dotted
    /\ Lost
    /\ NoDangling
    /\ OnePlace
    /\ Counted
    /\ Held
    /\ Bounded

-----------------------------------------------------------------------------
(* What the invariant says of the directories a path can lead to.          *)

\* The dots of a reachable directory lead to reachable directories.
LEMMA LiveFacts ==
    ASSUME IInv
    PROVE  /\ Dirs \in SUBSET Inode /\ Live \in SUBSET Inode /\ Live \subseteq Dirs
           /\ \A d \in Live, m \in Inode : Entry(dir, d, ".", m) => m = d
           /\ \A d \in Live, m \in Inode : Entry(dir, d, "..", m) => m \in Live
           /\ \A d \in Live : \E m \in Live : Entry(dir, d, "..", m)
<1>1. Dirs \in SUBSET Inode /\ Live \in SUBSET Inode /\ Live \subseteq Dirs
  BY DEF Dirs, Live
<1>2. \A d \in Live, m \in Inode : Entry(dir, d, ".", m) => m = d
  BY DEF IInv, Dotted, Entry
<1>3. ASSUME NEW d \in Live
      PROVE  /\ \A m \in Inode : Entry(dir, d, "..", m) => m \in Live
             /\ \E m \in Live : Entry(dir, d, "..", m)
  <2>1. CASE d = ROOT_INODE_N
    BY <2>1 DEF IInv, Typed, Dotted, Entry
  <2>2. CASE d # ROOT_INODE_N
    <3>1. PICK q \in Live : Entry(dir, d, "..", q)
      BY <2>2 DEF IInv, OnePlace
    <3> QED BY <3>1 DEF Entry
  <2> QED BY <2>1, <2>2
<1> QED BY <1>1, <1>2, <1>3

\* A step leaves every mountpoint in its place.
PlacesKept ==
    \A k \in mounts, d \in Inode, x \in Name :
        d \in Live' /\ Entry(dir', d, x, k) <=> d \in Live /\ Entry(dir, d, x, k)

\* What a step must keep of the counts, for one inode.
CountedAt(n, t, l, dd, live, all) ==
    /\ t[n] \in {"file", "symlink"} => l[n] = Count(dd, n, live)
    /\ t[n] = "dir" => Count(dd, n, live) <= l[n] /\ l[n] <= Count(dd, n, all)

-----------------------------------------------------------------------------
(* rename_inode.                                                           *)

\* rename_inode preserves the invariant, within a directory and across two.
LEMMA RenamePreserves ==
    ASSUME Counting, IInv, NEW op \in Parents, NEW np \in Parents, NEW old \in Names, NEW new \in Names,
           RenameInode(op, old, np, new)
    PROVE  IInv' /\ PlacesKept
<1> DEFINE n == dir[op][old]
           dd == dir_insert(dir, np, new, n)
           moved == dir_remove(dd, op, old)
<1>0. /\ type \in [Inode -> Types] /\ dir \in DirType /\ links \in [Inode -> Nat]
      /\ old \in DOMAIN dir[op] /\ new \notin DOMAIN dir[np]
      /\ n # ROOT_INODE_N /\ n \notin mounts /\ UNCHANGED <<type, leaked, mounts, usable>>
  BY DEF IInv, Typed, RenameInode, Busy
<1>1. /\ op \in Live /\ op \in Inode /\ type[op] = "dir" /\ op \notin leaked
      /\ np \in Live /\ np \in Inode /\ type[np] = "dir" /\ np \notin leaked
      /\ old \in Name /\ new \in Name
  BY ZenonT(30) DEF Parents, Live, Dirs, RenameInode, Names
<1>2. n \in Inode /\ Entry(dir, op, old, n) /\ ~(np = op /\ new = old)
  BY <1>0, <1>1, DirFacts DEF Entry
<1>3. /\ "." \in Names /\ ".." \in Names /\ "." # ".."
      /\ \A x \in Name : x # "." /\ x # ".." /\ x \in Names
  BY NamespaceAssumption DEF Names
<1>4. Live \in SUBSET Inode /\ Dirs \in SUBSET Inode /\ Live \subseteq Dirs
  BY LiveFacts
<1>5. Dirs' = Dirs /\ Live' = Live
  BY <1>0 DEF Dirs, Live
<1>6. \/ dir' = moved /\ links' = links /\ ~(type[n] = "dir" /\ op # np)
      \/ /\ dir' = dir_set_parent_entry(moved, n, np) /\ links' = Reparent(op, np)
         /\ links[np] < MaxLinks /\ type[n] = "dir" /\ op # np
  BY DEF RenameInode
<1> HIDE DEF n
<1>7. /\ dd \in DirType
      /\ \A d \in Inode, x \in Names, m \in Inode :
           Entry(dd, d, x, m) <=> Entry(dir, d, x, m) \/ (d = np /\ x = new /\ m = n)
  BY <1>0, <1>1, <1>2, Inserted
<1>8. \A m \in Inode : /\ Count(dd, m, Live) = Count(dir, m, Live) + One(m = n)
                       /\ Count(dd, m, Dirs) = Count(dir, m, Dirs) + One(m = n)
  BY <1>0, <1>1, <1>2, <1>4, CountInserted
<1> HIDE DEF dd
<1>9. /\ moved \in DirType
      /\ \A d \in Inode, x \in Names, m \in Inode :
           Entry(moved, d, x, m) <=> Entry(dd, d, x, m) /\ ~(d = op /\ x = old)
  BY <1>1, <1>7, Removed
<1>10. \A m \in Inode : /\ Count(moved, m, Live) + One(m = n) = Count(dd, m, Live)
                        /\ Count(moved, m, Dirs) + One(m = n) = Count(dd, m, Dirs)
  <2>1. Entry(dd, op, old, n)
    BY <1>1, <1>2, <1>7
  <2> QED BY <1>1, <1>2, <1>4, <1>7, <2>1, CountRemoved
<1> HIDE DEF moved
<1>11. \A d \in Inode, x \in Names, m \in Inode :
         Entry(moved, d, x, m) <=> \/ Entry(dir, d, x, m) /\ ~(d = op /\ x = old)
                                   \/ d = np /\ x = new /\ m = n
  BY <1>2, <1>7, <1>9
<1>12. \A m \in Inode : /\ Count(moved, m, Live) = Count(dir, m, Live)
                        /\ Count(moved, m, Dirs) = Count(dir, m, Dirs)
                        /\ Count(dir, m, Live) \in Nat /\ Count(dir, m, Dirs) \in Nat
  <2> SUFFICES ASSUME NEW m \in Inode
               PROVE  /\ Count(moved, m, Live) = Count(dir, m, Live)
                      /\ Count(moved, m, Dirs) = Count(dir, m, Dirs)
                      /\ Count(dir, m, Live) \in Nat /\ Count(dir, m, Dirs) \in Nat
    OBVIOUS
  <2>1. /\ Count(dir, m, Live) \in Nat /\ Count(dir, m, Dirs) \in Nat
        /\ Count(moved, m, Live) \in Nat /\ Count(moved, m, Dirs) \in Nat
        /\ One(m = n) \in Nat
    BY <1>4, RefsFinite DEF One
  <2>2. /\ Count(moved, m, Live) + One(m = n) = Count(dir, m, Live) + One(m = n)
        /\ Count(moved, m, Dirs) + One(m = n) = Count(dir, m, Dirs) + One(m = n)
    BY <1>8, <1>10
  <2> QED BY <2>1, <2>2
<1>13. type[n] # "free" /\ n \notin leaked
  BY <1>1, <1>2 DEF IInv, NoDangling, Lost
\* Where a directory that is renamed was, and its parent.
<1>14. ASSUME type[n] = "dir"
       PROVE  /\ n \in Live /\ Entry(dir, n, "..", op)
              /\ \A d \in Live, y \in Name : Entry(dir, d, y, n) <=> d = op /\ y = old
  <2>1. n \in Live
    BY <1>2, <1>13, <1>14 DEF Live, Dirs
  <2>2. PICK q \in Live, x \in Name :
          /\ Entry(dir, n, "..", q)
          /\ \A d \in Live, y \in Name : Entry(dir, d, y, n) <=> d = q /\ y = x
    BY <1>0, <2>1 DEF IInv, OnePlace
  <2>3. op = q /\ old = x
    BY <1>1, <1>2, <2>2
  <2> QED BY <2>1, <2>2, <2>3
<1>15. \A d \in Inode, m \in Inode :
         /\ Entry(moved, d, ".", m) <=> Entry(dir, d, ".", m)
         /\ Entry(moved, d, "..", m) <=> Entry(dir, d, "..", m)
  BY <1>1, <1>3, <1>11
\* Places, whatever ".." says.
<1>16. /\ \A d \in Live, y \in Name, m \in Inode \ {n} : Entry(moved, d, y, m) <=> Entry(dir, d, y, m)
       /\ type[n] = "dir" =>
            \A d \in Live, y \in Name : Entry(moved, d, y, n) <=> d = np /\ y = new
  <2>1. ASSUME NEW m \in Inode \ {n} PROVE ~Entry(dir, op, old, m)
    BY <1>2 DEF Entry
  <2>2. \A d \in Live, y \in Name, m \in Inode \ {n} : Entry(moved, d, y, m) <=> Entry(dir, d, y, m)
    BY <1>3, <1>4, <1>11, <2>1
  <2>3. ASSUME type[n] = "dir", NEW d \in Live, NEW y \in Name
        PROVE  Entry(moved, d, y, n) <=> d = np /\ y = new
    BY <1>2, <1>3, <1>4, <1>11, <1>14, <2>3
  <2> QED BY <2>2, <2>3
<1>17. \A d \in Live, x \in Names, m \in Inode :
         Entry(moved, d, x, m) => type[m] # "free" /\ m \notin leaked
  BY <1>2, <1>4, <1>11, <1>13 DEF IInv, NoDangling, Lost
<1>18. \A k \in mounts : k \in Inode \ {n}
  BY <1>0, <1>4 DEF IInv, Typed
<1>19. CASE dir' = moved /\ links' = links /\ ~(type[n] = "dir" /\ op # np)
  <2>1. Typed'
    BY <1>0, <1>5, <1>9, <1>19 DEF IInv, Typed
  <2>2. Dotted'
    BY <1>4, <1>5, <1>15, <1>19 DEF IInv, Dotted, Typed
  <2>3. Lost' /\ NoDangling'
    BY <1>0, <1>4, <1>5, <1>17, <1>19 DEF Lost, NoDangling, IInv, Typed
  <2>4. OnePlace'
    <3>1. \A d \in Live, x \in Name : ~Entry(dir', d, x, ROOT_INODE_N)
      BY <1>0, <1>4, <1>16, <1>19 DEF IInv, OnePlace, Typed
    <3>2. ASSUME NEW m \in Live \ {ROOT_INODE_N}
          PROVE  \E q \in Live, x \in Name :
                   /\ Entry(dir', m, "..", q)
                   /\ \A d \in Live, y \in Name : Entry(dir', d, y, m) <=> d = q /\ y = x
      <4>1. CASE m = n
        <5>1. type[n] = "dir" /\ op = np
          BY <1>19, <4>1 DEF Live, Dirs
        <5> QED BY <1>1, <1>2, <1>14, <1>15, <1>16, <1>19, <4>1, <5>1
      <4>2. CASE m # n
        <5>1. m \in Inode \ {n}
          BY <1>4, <4>2
        <5>2. PICK q \in Live, x \in Name :
                /\ Entry(dir, m, "..", q)
                /\ \A d \in Live, y \in Name : Entry(dir, d, y, m) <=> d = q /\ y = x
          BY DEF IInv, OnePlace
        <5>3. Entry(dir', m, "..", q)
          BY <1>4, <1>15, <1>19, <5>1, <5>2
        <5>4. \A d \in Live, y \in Name : Entry(dir', d, y, m) <=> d = q /\ y = x
          BY <1>16, <1>19, <5>1, <5>2
        <5> QED BY <5>3, <5>4
      <4> QED BY <4>1, <4>2
    <3> QED BY <1>5, <3>1, <3>2 DEF OnePlace
  <2>5. Counted'
    <3>1. ASSUME NEW m \in Inode PROVE CountedAt(m, type', links', dir', Live', Dirs')
      BY <1>0, <1>5, <1>12, <1>19 DEF CountedAt, IInv, Counted
    <3> QED BY <3>1 DEF CountedAt, Counted
  <2>6. Bounded'
    BY <1>19 DEF IInv, Bounded
  <2>7. Held'
    BY <1>0, <1>19 DEF IInv, Held
  <2>8. PlacesKept
    BY <1>5, <1>16, <1>19, <1>18 DEF PlacesKept
  <2> QED BY <2>1, <2>2, <2>3, <2>4, <2>5, <2>6, <2>7, <2>8 DEF IInv
<1>20. CASE /\ dir' = dir_set_parent_entry(moved, n, np) /\ links' = Reparent(op, np)
            /\ links[np] < MaxLinks /\ type[n] = "dir" /\ op # np
  <2>1. n \in Live /\ n \in Dirs /\ Entry(moved, n, "..", op) /\ ".." \in DOMAIN moved[n]
    <3>1. n \in Live /\ Entry(dir, n, "..", op)
      BY <1>14, <1>20
    <3>2. Entry(moved, n, "..", op)
      BY <1>1, <1>2, <1>15, <3>1
    <3> QED BY <1>4, <3>1, <3>2 DEF Entry
  <2>2. /\ dir' \in DirType
        /\ \A d \in Inode, x \in Names, m \in Inode :
             Entry(dir', d, x, m) <=> \/ Entry(moved, d, x, m) /\ ~(d = n /\ x = "..")
                                      \/ d = n /\ x = ".." /\ m = np
    BY <1>1, <1>2, <1>9, <1>20, <2>1, ParentSet
  <2>3. \A m \in Inode :
          /\ Count(dir', m, Live) + One(m = op) = Count(dir, m, Live) + One(m = np)
          /\ Count(dir', m, Dirs) + One(m = op) = Count(dir, m, Dirs) + One(m = np)
          /\ Count(dir', m, Live) \in Nat /\ Count(dir', m, Dirs) \in Nat
    <3>1. ASSUME NEW m \in Inode, NEW ds \in SUBSET Inode, n \in ds
          PROVE  /\ Count(dir', m, ds) + One(m = op) = Count(moved, m, ds) + One(m = np)
                 /\ Count(dir', m, ds) \in Nat
      <4>1. Count(dir_set_parent_entry(moved, n, np), m, ds) + One(m = op)
              = Count(moved, m, ds) + One(m = np)
        BY <1>1, <1>2, <1>9, <1>20, <2>1, <3>1, CountParentSet
      <4>2. Count(dir', m, ds) \in Nat
        BY RefsFinite
      <4> QED BY <1>20, <4>1, <4>2
    <3> QED BY <1>4, <1>12, <2>1, <3>1
  <2>4. links' = [links EXCEPT ![op] = @ - 1, ![np] = @ + 1]
    BY <1>20 DEF Reparent
  <2>5. /\ Count(dir, op, Live) <= links[op] /\ links[op] <= Count(dir, op, Dirs)
        /\ Count(dir, np, Live) <= links[np] /\ links[np] <= Count(dir, np, Dirs)
    BY <1>1 DEF IInv, Counted
  <2>6. /\ Count(dir', op, Live) + 1 = Count(dir, op, Live)
        /\ Count(dir', op, Dirs) + 1 = Count(dir, op, Dirs)
        /\ Count(dir', op, Live) \in Nat /\ Count(dir', op, Dirs) \in Nat
    BY <1>1, <1>12, <1>20, <2>3 DEF One
  <2>7. /\ Count(dir', np, Live) = Count(dir, np, Live) + 1
        /\ Count(dir', np, Dirs) = Count(dir, np, Dirs) + 1
        /\ Count(dir, np, Live) \in Nat /\ Count(dir, np, Dirs) \in Nat
    BY <1>1, <1>12, <1>20, <2>3 DEF One
  <2>8. Typed'
    <3>1. links' \in [Inode -> Nat]
      BY <1>0, <1>1, <1>12, <1>20, <2>3, <2>4, <2>5, <2>6
    <3> QED BY <1>0, <1>5, <2>2, <3>1 DEF IInv, Typed
  <2>9. Dotted'
    BY <1>0, <1>3, <1>4, <1>5, <1>15, <2>2 DEF IInv, Dotted, Typed
  <2>10. Lost' /\ NoDangling'
    BY <1>0, <1>1, <1>4, <1>5, <1>17, <2>2 DEF Lost, NoDangling, IInv, Typed
  <2>11. OnePlace'
    <3>0. \A d \in Live, y \in Name, m \in Inode : Entry(dir', d, y, m) <=> Entry(moved, d, y, m)
      BY <1>3, <1>4, <2>2
    <3>1. \A d \in Live, x \in Name : ~Entry(dir', d, x, ROOT_INODE_N)
      BY <1>0, <1>4, <1>16, <3>0 DEF IInv, OnePlace, Typed
    <3>2. ASSUME NEW m \in Live \ {ROOT_INODE_N}
          PROVE  \E q \in Live, x \in Name :
                   /\ Entry(dir', m, "..", q)
                   /\ \A d \in Live, y \in Name : Entry(dir', d, y, m) <=> d = q /\ y = x
      <4>1. CASE m = n
        <5>1. Entry(dir', n, "..", np)
          BY <1>1, <1>2, <1>3, <2>2
        <5>2. \A d \in Live, y \in Name : Entry(dir', d, y, n) <=> d = np /\ y = new
          BY <1>2, <1>16, <1>20, <3>0
        <5> QED BY <1>1, <4>1, <5>1, <5>2
      <4>2. CASE m # n
        <5>1. m \in Inode \ {n}
          BY <1>4, <4>2
        <5>2. PICK q \in Live, x \in Name :
                /\ Entry(dir, m, "..", q)
                /\ \A d \in Live, y \in Name : Entry(dir, d, y, m) <=> d = q /\ y = x
          BY DEF IInv, OnePlace
        <5>3. Entry(dir', m, "..", q)
          BY <1>3, <1>4, <1>15, <2>2, <5>1, <5>2
        <5>4. \A d \in Live, y \in Name : Entry(dir', d, y, m) <=> d = q /\ y = x
          BY <1>16, <3>0, <5>1, <5>2
        <5> QED BY <5>3, <5>4
      <4> QED BY <4>1, <4>2
    <3> QED BY <1>5, <3>1, <3>2 DEF OnePlace
  <2>12. Counted'
    <3>1. ASSUME NEW m \in Inode PROVE CountedAt(m, type', links', dir', Live', Dirs')
      <4>1. CASE m = op
        <5>1. links'[op] = links[op] - 1 /\ type'[op] = "dir" /\ links[op] \in Nat
          BY <1>0, <1>1, <1>20, <2>4
        <5>2. Count(dir', op, Live) <= links'[op] /\ links'[op] <= Count(dir', op, Dirs)
          BY <2>5, <2>6, <5>1
        <5> QED BY <1>5, <4>1, <5>1, <5>2 DEF CountedAt
      <4>2. CASE m = np
        <5>1. links'[np] = links[np] + 1 /\ type'[np] = "dir" /\ links[np] \in Nat
          BY <1>0, <1>1, <1>20, <2>4
        <5>2. Count(dir', np, Live) <= links'[np] /\ links'[np] <= Count(dir', np, Dirs)
          BY <2>5, <2>7, <5>1
        <5> QED BY <1>5, <4>2, <5>1, <5>2, ZenonT(30) DEF CountedAt
      <4>3. CASE m # op /\ m # np
        <5>1. Count(dir', m, Live) = Count(dir, m, Live) /\ Count(dir', m, Dirs) = Count(dir, m, Dirs)
          BY <1>12, <2>3, <4>3 DEF One
        <5>2. links'[m] = links[m] /\ type'[m] = type[m]
          BY <1>0, <2>4, <4>3
        <5> QED BY <1>5, <5>1, <5>2, ZenonT(30) DEF CountedAt, IInv, Counted
      <4> QED BY <4>1, <4>2, <4>3
    <3> QED BY <3>1 DEF CountedAt, Counted
  <2>13. Bounded'
    <3>1. MaxLinks \in Nat
      BY NamespaceAssumption
    <3> QED BY <1>0, <1>1, <1>20, <2>4, <3>1 DEF IInv, Bounded
  <2>14. Held'
    BY <1>0, <1>1, <2>4 DEF IInv, Held
  <2>15. PlacesKept
    <3>1. \A d \in Live, y \in Name, m \in Inode : Entry(dir', d, y, m) <=> Entry(moved, d, y, m)
      BY <1>3, <1>4, <2>2
    <3> QED BY <1>5, <1>16, <1>18, <3>1 DEF PlacesKept
  <2> QED BY <2>8, <2>9, <2>10, <2>11, <2>12, <2>13, <2>14, <2>15 DEF IInv
<1> QED BY <1>6, <1>19, <1>20

-----------------------------------------------------------------------------
(* unlink_dir.                                                             *)

\* The two entries of a new directory, and none of a deleted one.
LEMMA Replaced ==
    ASSUME NEW dd \in DirType, NEW c \in Inode, NEW p \in Inode
    PROVE  /\ [dd EXCEPT ![c] = Dots(c, p)] \in DirType
           /\ \A d \in Inode, x \in Names, m \in Inode :
                Entry([dd EXCEPT ![c] = Dots(c, p)], d, x, m)
                  <=> \/ d # c /\ Entry(dd, d, x, m)
                      \/ d = c /\ x = "." /\ m = c
                      \/ d = c /\ x = ".." /\ m = p
           /\ [dd EXCEPT ![c] = NoEntries] \in DirType
           /\ \A d \in Inode, x \in Names, m \in Inode :
                Entry([dd EXCEPT ![c] = NoEntries], d, x, m) <=> d # c /\ Entry(dd, d, x, m)
<1>1. {".", ".."} \in SUBSET Names /\ Dots(c, p) \in [{".", ".."} -> Inode]
  BY DEF Names, Dots
<1>2. {} \in SUBSET Names /\ NoEntries \in [{} -> Inode]
  BY DEF NoEntries
<1>3. /\ [dd EXCEPT ![c] = Dots(c, p)] \in DirType
      /\ [dd EXCEPT ![c] = NoEntries] \in DirType
  BY <1>1, <1>2, IsDirectory, ZenonT(30)
<1>4. DOMAIN dd = Inode
  BY DEF DirType
<1> QED BY <1>3, <1>4 DEF Entry, Dots, NoEntries

\* So did an empty one that is deleted.
LEMMA CountDeleted ==
    ASSUME Counting, NEW dd \in DirType, NEW c \in Inode, NEW p \in Inode, c # p,
           NEW ds \in SUBSET Inode, c \in ds, NEW m \in Inode,
           DOMAIN dd[c] \subseteq {".", ".."},
           Entry(dd, c, ".", c), Entry(dd, c, "..", p)
    PROVE  Count([dd EXCEPT ![c] = NoEntries], m, ds \ {c}) + One(m = c) + One(m = p)
             = Count(dd, m, ds)
<1> DEFINE ee == [dd EXCEPT ![c] = NoEntries]
<1>0. "." \in Names /\ ".." \in Names /\ "." # ".."
  BY DEF Names
<1>1. \A d \in Inode, x \in Names : Entry(ee, d, x, m) <=> d # c /\ Entry(dd, d, x, m)
  <2>1. \A d \in Inode, x \in Names, k \in Inode :
          Entry(ee, d, x, k) <=> d # c /\ Entry(dd, d, x, k)
    BY Replaced, ZenonT(30)
  <2> QED BY <2>1, ZenonT(30)
<1>2. \A x \in Names :
        Entry(dd, c, x, m) <=> (x = "." /\ m = c) \/ (x = ".." /\ m = p)
  BY <1>0 DEF Entry
<1> HIDE DEF ee
<1>3. CASE m = c
  <2>1. Count(dd, m, ds) = Count(ee, m, ds \ {c}) + 1
    BY <1>0, <1>1, <1>2, <1>3, CountOneMore
  <2> QED BY <1>3, <2>1, RefsFinite DEF One, ee
<1>4. CASE m = p
  <2>1. Count(dd, m, ds) = Count(ee, m, ds \ {c}) + 1
    BY <1>0, <1>1, <1>2, <1>4, CountOneMore
  <2> QED BY <1>4, <2>1, RefsFinite DEF One, ee
<1>5. CASE m # c /\ m # p
  <2>1. Count(ee, m, ds \ {c}) = Count(dd, m, ds)
    BY <1>1, <1>2, <1>5, CountSame
  <2> QED BY <1>5, <2>1, RefsFinite DEF One, ee
<1> QED BY <1>3, <1>4, <1>5

\* unlink_dir preserves the invariant: nothing leads to an empty directory but
\* its place in its parent.
LEMMA UnlinkDirPreserves ==
    ASSUME Counting, IInv, NEW p \in Parents, NEW name \in Names, UnlinkDir(p, name)
    PROVE  IInv' /\ PlacesKept
<1> DEFINE n == dir[p][name]
           dd == dir_remove(dir, p, name)
<1>0. /\ type \in [Inode -> Types] /\ dir \in DirType /\ links \in [Inode -> Nat]
      /\ name \in DOMAIN dir[p] /\ type[n] = "dir" /\ DOMAIN dir[n] \subseteq {".", ".."}
      /\ n \notin mounts
      /\ dir' = [dd EXCEPT ![n] = NoEntries]
      /\ links' = [links EXCEPT ![p] = @ - 1, ![n] = 0]
      /\ type' = [type EXCEPT ![n] = "free"]
      /\ UNCHANGED <<leaked, mounts, usable>>
  BY DEF IInv, Typed, UnlinkDir, Busy, dir_is_empty
<1>1. p \in Live /\ p \in Inode /\ type[p] = "dir" /\ p \notin leaked /\ name \in Name
  BY DEF Parents, Live, Dirs, UnlinkDir, Names
<1>2. n \in Inode /\ Entry(dir, p, name, n)
  BY <1>0, <1>1, DirFacts DEF Entry
<1>3. n # p
  BY <1>0, <1>1, NamespaceAssumption
<1> HIDE DEF n
<1>4. /\ "." \in Names /\ ".." \in Names /\ "." # ".."
      /\ \A x \in Name : x # "." /\ x # ".." /\ x \in Names
  BY NamespaceAssumption DEF Names
<1>5. Live \in SUBSET Inode /\ Dirs \in SUBSET Inode /\ Live \subseteq Dirs
  BY LiveFacts
<1>6. n \in Live /\ n \in Dirs /\ n \notin leaked /\ n # ROOT_INODE_N
  <2>1. n \in Dirs
    BY <1>0, <1>2 DEF Dirs
  <2>2. n \notin leaked
    BY <1>1, <1>2 DEF IInv, Lost
  <2>3. n # ROOT_INODE_N
    BY <1>1, <1>2 DEF IInv, OnePlace
  <2> QED BY <2>1, <2>2, <2>3 DEF Live
<1>7. /\ Entry(dir, n, ".", n) /\ Entry(dir, n, "..", p)
      /\ \A d \in Live, y \in Name : Entry(dir, d, y, n) <=> d = p /\ y = name
  <2>1. PICK q \in Live, x \in Name :
          /\ Entry(dir, n, "..", q)
          /\ \A d \in Live, y \in Name : Entry(dir, d, y, n) <=> d = q /\ y = x
    BY <1>6 DEF IInv, OnePlace
  <2>2. p = q /\ name = x
    BY <1>1, <1>2, <2>1
  <2>3. Entry(dir, n, ".", n)
    BY <1>6 DEF IInv, Dotted
  <2> QED BY <2>1, <2>2, <2>3
<1>8. Dirs' = Dirs \ {n} /\ Live' = Live \ {n}
  BY <1>0, <1>2 DEF Dirs, Live
<1>9. /\ dd \in DirType
      /\ \A d \in Inode, x \in Names, m \in Inode :
           Entry(dd, d, x, m) <=> Entry(dir, d, x, m) /\ ~(d = p /\ x = name)
  BY <1>0, <1>1, Removed
<1>10. DOMAIN dd[n] \subseteq {".", ".."} /\ Entry(dd, n, ".", n) /\ Entry(dd, n, "..", p)
  <2>1. dd[n] = dir[n]
    BY <1>0, <1>2, <1>3 DEF dir_remove, DirType
  <2> QED BY <1>0, <1>7, <2>1 DEF Entry
<1>11. \A m \in Inode : /\ Count(dd, m, Live) + One(m = n) = Count(dir, m, Live)
                        /\ Count(dd, m, Dirs) + One(m = n) = Count(dir, m, Dirs)
  BY <1>0, <1>1, <1>2, <1>5, CountRemoved
<1> HIDE DEF dd
<1>12. /\ dir' \in DirType
       /\ \A d \in Inode, x \in Names, m \in Inode :
            Entry(dir', d, x, m) <=> d # n /\ Entry(dir, d, x, m) /\ ~(d = p /\ x = name)
  <2>1. /\ dir' \in DirType
        /\ \A d \in Inode, x \in Names, m \in Inode :
             Entry(dir', d, x, m) <=> d # n /\ Entry(dd, d, x, m)
    <3>1. \A k \in Inode :
            /\ [dd EXCEPT ![k] = NoEntries] \in DirType
            /\ \A d \in Inode, x \in Names, m \in Inode :
                 Entry([dd EXCEPT ![k] = NoEntries], d, x, m) <=> d # k /\ Entry(dd, d, x, m)
      BY <1>9, Replaced, ZenonT(30)
    <3> QED BY <1>0, <1>2, <3>1, ZenonT(30)
  <2> QED BY <1>9, <2>1
<1>13. \A m \in Inode :
         /\ Count(dir', m, Live \ {n}) + One(m = n) + One(m = p) = Count(dd, m, Live)
         /\ Count(dir', m, Dirs \ {n}) + One(m = n) + One(m = p) = Count(dd, m, Dirs)
  <2>1. ASSUME NEW m \in Inode, NEW ds \in SUBSET Inode, n \in ds
        PROVE  Count([dd EXCEPT ![n] = NoEntries], m, ds \ {n}) + One(m = n) + One(m = p)
                 = Count(dd, m, ds)
    BY <1>1, <1>2, <1>3, <1>9, <1>10, <2>1, CountDeleted
  <2> QED BY <1>0, <1>5, <1>6, <2>1, ZenonT(30)
<1>14. \A m \in Inode : /\ Count(dir', m, Live') \in Nat /\ Count(dir', m, Dirs') \in Nat
                        /\ Count(dd, m, Live) \in Nat /\ Count(dd, m, Dirs) \in Nat
  BY <1>5, <1>8, RefsFinite
<1>15. /\ Count(dir', p, Live') + 1 = Count(dir, p, Live)
       /\ Count(dir', p, Dirs') + 1 = Count(dir, p, Dirs)
  <2>1. Count(dir', p, Live') + 0 + 1 = Count(dd, p, Live) /\ Count(dd, p, Live) + 0 = Count(dir, p, Live)
    BY <1>1, <1>3, <1>8, <1>11, <1>13 DEF One
  <2>2. Count(dir', p, Dirs') + 0 + 1 = Count(dd, p, Dirs) /\ Count(dd, p, Dirs) + 0 = Count(dir, p, Dirs)
    BY <1>1, <1>3, <1>8, <1>11, <1>13 DEF One
  <2> QED BY <1>1, <1>14, <2>1, <2>2
<1>16. Count(dir, p, Live) <= links[p] /\ links[p] <= Count(dir, p, Dirs)
  BY <1>1 DEF IInv, Counted
<1>17. Typed'
  <2>1. links' \in [Inode -> Nat]
    BY <1>0, <1>1, <1>2, <1>14, <1>15, <1>16
  <2>2. type' \in [Inode -> Types]
    BY <1>0, ZenonT(30) DEF Types
  <2> QED BY <1>0, <1>6, <1>8, <1>12, <2>1, <2>2 DEF IInv, Typed
<1>18. Dotted'
  BY <1>1, <1>4, <1>5, <1>6, <1>8, <1>12 DEF IInv, Dotted, Typed
<1>19. Lost'
  BY <1>0, <1>5, <1>8, <1>12, ZenonT(30) DEF IInv, Lost, Typed
<1>20. NoDangling'
  <2> SUFFICES ASSUME NEW d \in Live', NEW x \in Names, NEW m \in Inode, Entry(dir', d, x, m)
               PROVE  type'[m] # "free"
    BY DEF NoDangling
  <2>1. d \in Live /\ d \in Inode /\ d # n /\ Entry(dir, d, x, m) /\ ~(d = p /\ x = name)
    BY <1>5, <1>8, <1>12
  <2>2. m # n
    <3>1. CASE x \in Name
      BY <1>7, <2>1, <3>1
    <3>2. CASE x = "."
      BY <2>1, <3>2, LiveFacts
    <3>3. CASE x = ".." /\ d = ROOT_INODE_N
      BY <1>6, <2>1, <3>3 DEF IInv, Dotted, Entry
    <3>4. CASE x = ".." /\ d # ROOT_INODE_N
      <4>1. PICK q \in Live, y \in Name : Entry(dir, d, "..", q) /\ Entry(dir, q, y, d)
        BY <2>1, <3>4 DEF IInv, OnePlace
      <4>2. q = m
        BY <2>1, <3>4, <4>1 DEF Entry
      <4>3. ~Entry(dir, n, y, d)
        BY <1>0, <1>4 DEF Entry
      <4> QED BY <4>1, <4>2, <4>3
    <3> QED BY <3>1, <3>2, <3>3, <3>4 DEF Names
  <2> QED BY <1>0, <2>1, <2>2 DEF IInv, NoDangling
<1>21. OnePlace'
  <2>1. \A d \in Live', x \in Name : ~Entry(dir', d, x, ROOT_INODE_N)
    BY <1>4, <1>5, <1>8, <1>12 DEF IInv, OnePlace, Typed
  <2>2. ASSUME NEW m \in Live' \ {ROOT_INODE_N}
        PROVE  \E q \in Live', x \in Name :
                 /\ Entry(dir', m, "..", q)
                 /\ \A d \in Live', y \in Name : Entry(dir', d, y, m) <=> d = q /\ y = x
    <3>1. m \in Live /\ m # n /\ m \in Inode
      BY <1>5, <1>8
    <3>2. PICK q \in Live, x \in Name :
            /\ Entry(dir, m, "..", q)
            /\ \A d \in Live, y \in Name : Entry(dir, d, y, m) <=> d = q /\ y = x
      BY <3>1 DEF IInv, OnePlace
    <3>3. q # n
      <4>1. Entry(dir, q, x, m)
        BY <3>2
      <4> QED BY <1>0, <1>4, <4>1 DEF Entry
    <3>4. ~(q = p /\ x = name)
      BY <1>2, <3>1, <3>2 DEF Entry
    <3>5. Entry(dir', m, "..", q)
      BY <1>1, <1>4, <1>5, <1>12, <3>1, <3>2
    <3>6. \A d \in Live', y \in Name : Entry(dir', d, y, m) <=> d = q /\ y = x
      BY <1>4, <1>5, <1>8, <1>12, <3>1, <3>2, <3>3, <3>4
    <3> QED BY <1>8, <3>3, <3>5, <3>6
  <2> QED BY <2>1, <2>2 DEF OnePlace
<1>22. Counted'
  <2>1. ASSUME NEW m \in Inode PROVE CountedAt(m, type', links', dir', Live', Dirs')
    <3>1. CASE m = n
      BY <1>0, <3>1 DEF CountedAt
    <3>2. CASE m = p
      <4>1. links'[p] = links[p] - 1 /\ type'[p] = "dir" /\ links[p] \in Nat
        BY <1>0, <1>1, <1>3
      <4>2. Count(dir', p, Live') <= links'[p] /\ links'[p] <= Count(dir', p, Dirs')
        BY <1>1, <1>14, <1>15, <1>16, <4>1
      <4> QED BY <3>2, <4>1, <4>2 DEF CountedAt
    <3>3. CASE m # n /\ m # p
      <4>1. Count(dir', m, Live') + 0 + 0 = Count(dd, m, Live) /\ Count(dd, m, Live) + 0 = Count(dir, m, Live)
        BY <1>8, <1>11, <1>13, <3>3 DEF One
      <4>2. Count(dir', m, Dirs') + 0 + 0 = Count(dd, m, Dirs) /\ Count(dd, m, Dirs) + 0 = Count(dir, m, Dirs)
        BY <1>8, <1>11, <1>13, <3>3 DEF One
      <4>3. Count(dir', m, Live') = Count(dir, m, Live) /\ Count(dir', m, Dirs') = Count(dir, m, Dirs)
        BY <1>14, <4>1, <4>2
      <4>4. links'[m] = links[m] /\ type'[m] = type[m]
        BY <1>0, <3>3
      <4> QED BY <4>3, <4>4 DEF CountedAt, IInv, Counted
    <3> QED BY <3>1, <3>2, <3>3
  <2> QED BY <2>1 DEF CountedAt, Counted
<1>23. Bounded'
  <2>1. MaxLinks \in Nat
    BY NamespaceAssumption
  <2> QED BY <1>0, <1>1, <2>1 DEF IInv, Bounded
<1>24. Held'
  BY <1>0, <1>1 DEF IInv, Held
<1>25. PlacesKept
  <2>1. \A x \in Name, k \in Inode : ~Entry(dir, n, x, k)
    BY <1>0, <1>4 DEF Entry
  <2>2. \A k \in mounts : k \in Inode /\ ~Entry(dir, p, name, k)
    BY <1>0, <1>2, <1>5 DEF IInv, Typed, Entry
  <2> QED BY <1>4, <1>5, <1>8, <1>12, <2>1, <2>2 DEF PlacesKept
<1> QED BY <1>17, <1>18, <1>19, <1>20, <1>21, <1>22, <1>23, <1>24, <1>25 DEF IInv

-----------------------------------------------------------------------------
(* make_dir.                                                               *)

\* The count is zero exactly when no entry names the inode.
LEMMA CountNone ==
    ASSUME Counting, NEW dd, NEW n, NEW ds \in SUBSET Inode
    PROVE  Count(dd, n, ds) = 0 <=> \A d \in ds, x \in Names : ~Entry(dd, d, x, n)
<1>1. Count(dd, n, ds) = 0 <=> Refs(dd, n, ds) = {}
  BY DEF Counting
<1>2. ASSUME Refs(dd, n, ds) = {}, NEW d \in ds, NEW x \in Names
      PROVE  ~Entry(dd, d, x, n)
  <2>1. <<d, x>> \notin Refs(dd, n, ds)
    BY <1>2
  <2> QED BY <2>1 DEF Refs
<1>3. ASSUME \A d \in ds, x \in Names : ~Entry(dd, d, x, n)
      PROVE  Refs(dd, n, ds) = {}
  BY <1>3 DEF Refs
<1> QED BY <1>1, <1>2, <1>3

\* mint_inode hands out an inode that nothing names.
LEMMA FreeIsUnnamed ==
    ASSUME Counting, IInv, NEW c \in Inode, type[c] = "free"
    PROVE  Count(dir, c, Live) = 0
<1>1. \A d \in Live, x \in Names : ~Entry(dir, d, x, c)
  BY DEF IInv, NoDangling
<1> QED BY <1>1, LiveFacts, CountNone

\* A new directory names itself and its parent.
LEMMA CountNewDir ==
    ASSUME Counting, NEW dd \in DirType, NEW c \in Inode, NEW p \in Inode, c # p,
           NEW ds \in SUBSET Inode, c \notin ds, NEW m \in Inode
    PROVE  Count([dd EXCEPT ![c] = Dots(c, p)], m, ds \cup {c})
             = Count(dd, m, ds) + One(m = c) + One(m = p)
<1> DEFINE ee == [dd EXCEPT ![c] = Dots(c, p)]
<1> DEFINE es == ds \cup {c}
<1>5. es \in SUBSET Inode /\ \A d \in Inode : d \in es <=> d \in ds \/ d = c
  OBVIOUS
<1>0. "." \in Names /\ ".." \in Names /\ "." # ".."
  BY DEF Names
<1>1. \A d \in Inode, x \in Names :
        Entry(ee, d, x, m) <=> \/ d # c /\ Entry(dd, d, x, m)
                               \/ d = c /\ x = "." /\ m = c
                               \/ d = c /\ x = ".." /\ m = p
  <2>1. \A d \in Inode, x \in Names, k \in Inode :
          Entry(ee, d, x, k) <=> \/ d # c /\ Entry(dd, d, x, k)
                                 \/ d = c /\ x = "." /\ k = c
                                 \/ d = c /\ x = ".." /\ k = p
    BY Replaced, ZenonT(30)
  <2> QED BY <2>1, ZenonT(30)
<1> HIDE DEF ee, es
<1>2. CASE m = c
  <2>0. \A d \in Inode, x \in Names :
          d \in es /\ Entry(ee, d, x, m)
            <=> (d \in ds /\ Entry(dd, d, x, m)) \/ (d = c /\ x = ".")
    BY <1>0, <1>1, <1>2, <1>5
  <2>1. "." \in Names /\ es \in SUBSET Inode /\ ~(c \in ds /\ Entry(dd, c, ".", m))
    BY <1>0, <1>5
  <2>2. Refs(ee, m, es) = Refs(dd, m, ds) \cup {<<c, ".">>} /\ <<c, ".">> \notin Refs(dd, m, ds)
    BY <1>5, <2>0, <2>1 DEF Refs
  <2>3. Count(ee, m, es) = Count(dd, m, ds) + 1
    <3>1. IsFiniteSet(Refs(dd, m, ds))
      BY RefsFinite
    <3> QED BY <2>2, <3>1, ZenonT(30) DEF Count, Counting
  <2> QED BY <1>2, <2>3, RefsFinite DEF One, ee, es
<1>3. CASE m = p
  <2>0. \A d \in Inode, x \in Names :
          d \in es /\ Entry(ee, d, x, m)
            <=> (d \in ds /\ Entry(dd, d, x, m)) \/ (d = c /\ x = "..")
    BY <1>0, <1>1, <1>3, <1>5
  <2>1. ".." \in Names /\ es \in SUBSET Inode /\ ~(c \in ds /\ Entry(dd, c, "..", m))
    BY <1>0, <1>5
  <2>2. Refs(ee, m, es) = Refs(dd, m, ds) \cup {<<c, "..">>} /\ <<c, "..">> \notin Refs(dd, m, ds)
    BY <1>5, <2>0, <2>1 DEF Refs
  <2>3. Count(ee, m, es) = Count(dd, m, ds) + 1
    <3>1. IsFiniteSet(Refs(dd, m, ds))
      BY RefsFinite
    <3> QED BY <2>2, <3>1, ZenonT(30) DEF Count, Counting
  <2> QED BY <1>3, <2>3, RefsFinite DEF One, ee, es
<1>4. CASE m # c /\ m # p
  <2>1. Count(ee, m, es) = Count(dd, m, ds)
    BY <1>1, <1>4, <1>5, CountSame
  <2> QED BY <1>4, <2>1, RefsFinite DEF One, ee, es
<1> QED BY <1>2, <1>3, <1>4

\* A name that can be inserted is not a dot, and neither is one of a file.
LEMMA GivenName ==
    ASSUME IInv, NEW p \in Live, NEW x \in Names,
           \/ x \notin DOMAIN dir[p]
           \/ x \in DOMAIN dir[p] /\ type[dir[p][x]] # "dir"
    PROVE  x \in Name
<1>1. SUFFICES ASSUME x = "." \/ x = ".." PROVE FALSE
  BY DEF Names
<1>2. Entry(dir, p, ".", p)
  BY DEF IInv, Dotted
<1>3. PICK m \in Live : Entry(dir, p, "..", m)
  BY LiveFacts
<1>4. type[p] = "dir" /\ type[m] = "dir"
  BY DEF Live, Dirs
<1> QED BY <1>1, <1>2, <1>3, <1>4 DEF Entry

\* make_dir preserves the invariant, whether or not the last insertion succeeds.
LEMMA MakeDirPreserves ==
    ASSUME Counting, IInv, NEW p \in Parents, NEW name \in Names, NEW c \in Inode, MakeDir(p, name, c)
    PROVE  IInv' /\ PlacesKept
<1> DEFINE dd == [dir EXCEPT ![c] = Dots(c, p)]
<1>0. /\ type \in [Inode -> Types] /\ dir \in DirType /\ links \in [Inode -> Nat]
      /\ type[c] = "free" /\ name \notin DOMAIN dir[p] /\ links[p] < MaxLinks
      /\ type' = [type EXCEPT ![c] = "dir"] /\ UNCHANGED <<mounts, usable>>
      /\ MaxLinks \in Nat /\ 2 <= MaxLinks
  BY NamespaceAssumption DEF IInv, Typed, MakeDir, mint_inode
<1>1. /\ p \in Live /\ p \in Inode /\ type[p] = "dir" /\ name \in Name
      /\ c \notin Dirs /\ c \notin Live /\ c # p /\ c # ROOT_INODE_N
      /\ c \notin leaked /\ c \notin mounts
  <2>1. p \in Live /\ p \in Inode /\ type[p] = "dir" /\ c \notin Dirs /\ c \notin Live /\ c # p
    BY <1>0 DEF Parents, Live, Dirs
  <2>2. c # ROOT_INODE_N /\ c \notin leaked /\ c \notin mounts
    BY <2>1 DEF IInv, Typed
  <2> QED BY <1>0, <2>1, <2>2, GivenName
<1>2. Live \in SUBSET Inode /\ Dirs \in SUBSET Inode /\ Live \subseteq Dirs
  BY LiveFacts
<1>3. Dirs' = Dirs \cup {c}
  BY <1>0 DEF Dirs
<1>4. /\ "." \in Names /\ ".." \in Names /\ "." # ".."
      /\ \A x \in Name : x # "." /\ x # ".." /\ x \in Names
  BY NamespaceAssumption DEF Names
<1>5. /\ dd \in DirType
      /\ \A d \in Inode, x \in Names, m \in Inode :
           Entry(dd, d, x, m) <=> \/ d # c /\ Entry(dir, d, x, m)
                                  \/ d = c /\ x = "." /\ m = c
                                  \/ d = c /\ x = ".." /\ m = p
  BY <1>0, <1>1, Replaced, ZenonT(30)
<1>6. name \notin DOMAIN dd[p]
  BY <1>0, <1>1 DEF DirType
<1>7. \A m \in Inode :
        /\ Count(dd, m, Live \cup {c}) = Count(dir, m, Live) + One(m = c) + One(m = p)
        /\ Count(dd, m, Dirs \cup {c}) = Count(dir, m, Dirs) + One(m = c) + One(m = p)
        /\ Count(dir, m, Live) \in Nat /\ Count(dir, m, Dirs) \in Nat
  BY <1>0, <1>1, <1>2, CountNewDir, RefsFinite
<1>8. Count(dir, c, Live) = 0
  BY <1>0, FreeIsUnnamed
<1>9. ASSUME NEW d \in Live, NEW x \in Names PROVE ~Entry(dir, d, x, c)
  BY <1>0 DEF IInv, NoDangling
<1> HIDE DEF dd
<1>10. CASE /\ dir' = dir_insert(dd, p, name, c)
            /\ links' = [links EXCEPT ![c] = 2, ![p] = @ + 1]
            /\ leaked' = leaked
  <2>1. Live' = Live \cup {c}
    BY <1>1, <1>3, <1>10 DEF Live
  <2>2. /\ dir' \in DirType
        /\ \A d \in Inode, x \in Names, m \in Inode :
             Entry(dir', d, x, m) <=> Entry(dd, d, x, m) \/ (d = p /\ x = name /\ m = c)
    BY <1>1, <1>5, <1>6, <1>10, Inserted
  <2>3. \A d \in Inode, x \in Names, m \in Inode :
          Entry(dir', d, x, m) <=> \/ d # c /\ Entry(dir, d, x, m)
                                   \/ d = c /\ x = "." /\ m = c
                                   \/ d = c /\ x = ".." /\ m = p
                                   \/ d = p /\ x = name /\ m = c
    BY <1>5, <2>2
  <2>4. \A m \in Inode :
          /\ Count(dir', m, Live \cup {c}) = Count(dd, m, Live \cup {c}) + One(m = c)
          /\ Count(dir', m, Dirs \cup {c}) = Count(dd, m, Dirs \cup {c}) + One(m = c)
    <3>1. Live \cup {c} \in SUBSET Inode /\ Dirs \cup {c} \in SUBSET Inode
          /\ p \in Live \cup {c} /\ p \in Dirs \cup {c}
      BY <1>1, <1>2
    <3>2. dd \in DirType /\ dir' = dir_insert(dd, p, name, c)
      BY <1>5, <1>10
    <3>3. ASSUME NEW m \in Inode, NEW ds \in SUBSET Inode, p \in ds
          PROVE  Count(dir', m, ds) = Count(dd, m, ds) + One(m = c)
      BY <1>1, <1>6, <3>2, <3>3, CountInserted
    <3> QED BY <3>1, <3>3, ZenonT(30)
  <2>5. Typed'
    <3>1. links' \in [Inode -> Nat]
      BY <1>0, <1>1, <1>10
    <3> QED BY <1>0, <1>1, <1>3, <1>10, <2>1, <2>2, <3>1 DEF IInv, Typed, Types
  <2>6. Dotted'
    BY <1>1, <1>2, <1>4, <2>1, <2>3 DEF IInv, Dotted, Typed
  <2>7. Lost'
    <3>1. p \notin leaked /\ leaked \subseteq Inode
      BY <1>1, <1>2 DEF IInv, Typed, Live
    <3> QED BY <1>1, <1>2, <1>10, <2>1, <2>3, <3>1 DEF IInv, Lost
  <2>8. NoDangling'
    BY <1>0, <1>1, <1>2, <2>1, <2>3 DEF IInv, NoDangling
  <2>9. OnePlace'
    <3>1. \A d \in Live \cup {c}, x \in Name : ~Entry(dir', d, x, ROOT_INODE_N)
      BY <1>1, <1>2, <1>4, <2>3 DEF IInv, OnePlace, Typed
    <3>2. ASSUME NEW n \in (Live \cup {c}) \ {ROOT_INODE_N}
          PROVE  \E q \in Live \cup {c}, x \in Name :
                   /\ Entry(dir', n, "..", q)
                   /\ \A d \in Live \cup {c}, y \in Name : Entry(dir', d, y, n) <=> d = q /\ y = x
      <4>1. CASE n = c
        <5>1. Entry(dir', n, "..", p)
          BY <1>1, <1>4, <2>3, <4>1
        <5>2. \A d \in Live \cup {c}, y \in Name : Entry(dir', d, y, n) <=> d = p /\ y = name
          BY <1>1, <1>2, <1>4, <1>9, <2>3, <4>1
        <5> QED BY <1>1, <5>1, <5>2
      <4>2. CASE n # c
        <5>1. PICK q \in Live, x \in Name :
                /\ Entry(dir, n, "..", q)
                /\ \A d \in Live, y \in Name : Entry(dir, d, y, n) <=> d = q /\ y = x
          BY <4>2 DEF IInv, OnePlace
        <5>2. Entry(dir', n, "..", q)
          BY <1>2, <1>4, <2>3, <4>2, <5>1
        <5>3. \A d \in Live \cup {c}, y \in Name : Entry(dir', d, y, n) <=> d = q /\ y = x
          BY <1>1, <1>2, <1>4, <2>3, <4>2, <5>1
        <5> QED BY <5>2, <5>3
      <4> QED BY <4>1, <4>2
    <3> QED BY <2>1, <3>1, <3>2 DEF OnePlace
  <2>10. Counted'
    <3> SUFFICES ASSUME NEW m \in Inode
                 PROVE  /\ type'[m] \in {"file", "symlink"} => links'[m] = Count(dir', m, Live')
                        /\ type'[m] = "dir" => /\ Count(dir', m, Live') <= links'[m]
                                               /\ links'[m] <= Count(dir', m, Dirs')
      BY DEF Counted
    <3>1. /\ Count(dir', m, Live') = Count(dir, m, Live) + One(m = c) + One(m = p) + One(m = c)
          /\ Count(dir', m, Dirs') = Count(dir, m, Dirs) + One(m = c) + One(m = p) + One(m = c)
          /\ Count(dir, m, Live) \in Nat /\ Count(dir, m, Dirs) \in Nat
      <4>1. /\ Count(dir', m, Live') = Count(dd, m, Live \cup {c}) + One(m = c)
            /\ Count(dir', m, Dirs') = Count(dd, m, Dirs \cup {c}) + One(m = c)
        BY <1>3, <2>1, <2>4
      <4> QED BY <1>7, <4>1, ZenonT(30)
    <3>2. CASE m = c
      BY <1>0, <1>1, <1>8, <1>10, <3>1, <3>2 DEF One
    <3>3. CASE m = p
      <4>1. Count(dir, p, Live) <= links[p] /\ links[p] <= Count(dir, p, Dirs)
        BY <1>1 DEF IInv, Counted
      <4> QED BY <1>0, <1>1, <1>10, <3>1, <3>3, <4>1 DEF One
    <3>4. CASE m # c /\ m # p
      BY <1>0, <1>10, <3>1, <3>4 DEF One, IInv, Counted
    <3> QED BY <3>2, <3>3, <3>4
  <2>11. Bounded'
    BY <1>0, <1>1, <1>10 DEF IInv, Bounded
  <2>12. Held'
    BY <1>0, <1>1, <1>10 DEF IInv, Held
  <2>13. PlacesKept
    BY <1>1, <1>2, <1>4, <2>1, <2>3 DEF IInv, Typed, PlacesKept
  <2> QED BY <2>5, <2>6, <2>7, <2>8, <2>9, <2>10, <2>11, <2>12, <2>13 DEF IInv
<1>11. CASE /\ dir' = dd
            /\ links' = [links EXCEPT ![c] = 1, ![p] = @ + 1]
            /\ leaked' = leaked \cup {c}
  <2>1. Live' = Live
    BY <1>1, <1>3, <1>11 DEF Live
  <2>2. \A d \in Live, x \in Names, m \in Inode : Entry(dir', d, x, m) <=> Entry(dir, d, x, m)
    BY <1>1, <1>2, <1>5, <1>11
  <2>3. Typed'
    <3>1. links' \in [Inode -> Nat]
      BY <1>0, <1>1, <1>11
    <3> QED BY <1>0, <1>3, <1>5, <1>11, <2>1, <3>1 DEF IInv, Typed, Types
  <2>4. Dotted'
    BY <1>2, <1>4, <2>1, <2>2 DEF IInv, Dotted, Typed
  <2>5. Lost'
    BY <1>2, <1>9, <1>11, <2>1, <2>2 DEF IInv, Lost, Typed
  <2>6. NoDangling'
    BY <1>0, <2>1, <2>2 DEF IInv, NoDangling
  <2>7. OnePlace'
    BY <1>2, <1>4, <2>1, <2>2 DEF IInv, OnePlace, Typed
  <2>8. Counted'
    <3> SUFFICES ASSUME NEW m \in Inode
                 PROVE  /\ type'[m] \in {"file", "symlink"} => links'[m] = Count(dir', m, Live')
                        /\ type'[m] = "dir" => /\ Count(dir', m, Live') <= links'[m]
                                               /\ links'[m] <= Count(dir', m, Dirs')
      BY DEF Counted
    <3>1. Count(dir', m, Live') = Count(dir, m, Live)
      <4>1. \A d \in Inode, x \in Names :
              d \in Live /\ Entry(dir', d, x, m) <=> d \in Live /\ Entry(dir, d, x, m)
        BY <2>2
      <4>2. Count(dir', m, Live) = Count(dir, m, Live)
        BY <1>2, <4>1, CountSame
      <4> QED BY <2>1, <4>2
    <3>2. /\ Count(dir', m, Dirs') = Count(dir, m, Dirs) + One(m = c) + One(m = p)
          /\ Count(dir, m, Live) \in Nat /\ Count(dir, m, Dirs) \in Nat
      BY <1>3, <1>7, <1>11, ZenonT(30)
    <3>3. CASE m = c
      BY <1>0, <1>1, <1>8, <1>11, <3>1, <3>2, <3>3 DEF One
    <3>4. CASE m = p
      <4>1. Count(dir, p, Live) <= links[p] /\ links[p] <= Count(dir, p, Dirs)
        BY <1>1 DEF IInv, Counted
      <4> QED BY <1>0, <1>1, <1>11, <3>1, <3>2, <3>4, <4>1 DEF One
    <3>5. CASE m # c /\ m # p
      BY <1>0, <1>11, <3>1, <3>2, <3>5 DEF One, IInv, Counted
    <3> QED BY <3>3, <3>4, <3>5
  <2>9. Bounded'
    BY <1>0, <1>1, <1>11 DEF IInv, Bounded
  <2>10. Held'
    BY <1>0, <1>1, <1>11 DEF IInv, Held
  <2>11. PlacesKept
    BY <1>2, <1>4, <2>1, <2>2 DEF IInv, Typed, PlacesKept
  <2> QED BY <2>3, <2>4, <2>5, <2>6, <2>7, <2>8, <2>9, <2>10, <2>11 DEF IInv
<1> QED BY <1>10, <1>11, ZenonT(30) DEF MakeDir, dd
=============================================================================
