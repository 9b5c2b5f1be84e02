--------------------------- MODULE NamespaceProofs ---------------------------
(***************************************************************************)
(* Theorems about names and link counts for every number of inodes, every  *)
(* set of names and every sequence of system calls, and that the           *)
(* directories form one tree: rename_inode makes no cycle because          *)
(* is_ancestor saw the climb from the new parent reach the root.           *)
(*                                                                         *)
(* The lemmas take as a hypothesis what the libraries say of counting and  *)
(* of the natural numbers; the libraries come in after them.               *)
(***************************************************************************)
EXTENDS NamespaceSteps

\* Leaves are tried with the SMT solver and then with Zenon, within 30 seconds.
USE SMTT(30), ZenonT(30)

-----------------------------------------------------------------------------
(* The calls on files, and all steps.                                      *)

\* MakeFile and MakeSymlink.
LEMMA MintPreserves ==
    ASSUME Counting, IInv, NEW p \in Parents, NEW name \in Names, NEW c \in Inode,
           NEW t \in {"file", "symlink"},
           name \notin DOMAIN dir[p], type[c] = "free",
           type' = mint_inode(c, t),
           dir' = dir_insert(dir, p, name, c),
           links' = [links EXCEPT ![c] = 1],
           UNCHANGED <<leaked, mounts, usable>>
    PROVE  IInv' /\ PlacesKept
<1>1. /\ p \in Live /\ p \in Inode /\ type[p] = "dir" /\ name \in Name
      /\ c \notin Dirs /\ c # p /\ c # ROOT_INODE_N
  <2>1. p \in Live /\ p \in Inode /\ type[p] = "dir" /\ c \notin Dirs /\ c # p
    BY DEF Parents, Live, Dirs
  <2>2. c # ROOT_INODE_N
    BY DEF IInv, Typed, Live, Dirs
  <2> QED BY <2>1, <2>2, GivenName
<1>2. type \in [Inode -> Types] /\ type' = [type EXCEPT ![c] = t] /\ dir \in DirType
      /\ links \in [Inode -> Nat]
  BY DEF IInv, Typed, mint_inode
<1>3. Dirs' = Dirs /\ Live' = Live
  BY <1>2 DEF Dirs, Live
<1>4. /\ dir' \in DirType
      /\ \A d \in Inode, x \in Names, m \in Inode :
           Entry(dir', d, x, m) <=> Entry(dir, d, x, m) \/ (d = p /\ x = name /\ m = c)
  BY <1>1, <1>2, Inserted
<1>5. Live \in SUBSET Inode /\ Dirs \in SUBSET Inode /\ Live \subseteq Dirs
  BY LiveFacts
<1>6. \A m \in Inode : /\ Count(dir', m, Live) = Count(dir, m, Live) + One(m = c)
                       /\ Count(dir', m, Dirs) = Count(dir, m, Dirs) + One(m = c)
  BY <1>1, <1>2, <1>5, CountInserted
<1>7. Typed'
  BY <1>2, <1>3, <1>4 DEF IInv, Typed, Types
<1>8. Dotted'
  BY <1>3, <1>4, <1>5, <1>7, ZenonT(30) DEF IInv, Dotted, Typed, Names
<1>9. Lost'
  BY <1>1, <1>3, <1>4, <1>5 DEF IInv, Lost, Typed
<1>10. NoDangling'
  BY <1>1, <1>2, <1>3, <1>4, <1>5 DEF IInv, NoDangling, Types
<1>11. OnePlace'
  BY <1>1, <1>3, <1>4, <1>5, <1>7 DEF IInv, OnePlace, Typed, Names
<1>12. Counted'
  <2> SUFFICES ASSUME NEW n \in Inode
               PROVE  /\ type'[n] \in {"file", "symlink"} => links'[n] = Count(dir', n, Live)
                      /\ type'[n] = "dir" => /\ Count(dir', n, Live) <= links'[n]
                                             /\ links'[n] <= Count(dir', n, Dirs)
    BY <1>3 DEF Counted
  <2>1. CASE n = c
    BY <1>2, <1>6, <2>1, FreeIsUnnamed DEF One
  <2>2. CASE n # c
    <3>1. Count(dir', n, Live) = Count(dir, n, Live) /\ Count(dir', n, Dirs) = Count(dir, n, Dirs)
      BY <1>5, <1>6, <2>2, RefsFinite DEF One
    <3> QED BY <1>2, <2>2, <3>1 DEF IInv, Counted
  <2> QED BY <2>1, <2>2
<1>13. Bounded'
  BY <1>2, NamespaceAssumption DEF IInv, Bounded
<1>14. Held'
  BY <1>2 DEF IInv, Held
<1>15. PlacesKept
  BY <1>1, <1>3, <1>4, <1>5 DEF IInv, Typed, PlacesKept, Names
<1> QED BY <1>7, <1>8, <1>9, <1>10, <1>11, <1>12, <1>13, <1>14, <1>15 DEF IInv

\* sys_link_inode preserves the invariant.
LEMMA LinkPreserves ==
    ASSUME Counting, IInv, NEW p \in Parents, NEW n \in Inode, NEW name \in Names, LinkInode(n, p, name)
    PROVE  IInv' /\ PlacesKept
<1>1. /\ p \in Live /\ p \in Inode /\ n \notin Dirs /\ name \in Name
      /\ type[n] \in {"file", "symlink"} /\ n # ROOT_INODE_N
  <2>1. p \in Live /\ p \in Inode /\ n \notin Dirs
    BY DEF Parents, Live, Dirs, LinkInode
  <2>2. n # ROOT_INODE_N
    BY <2>1 DEF IInv, Typed, Live
  <2> QED BY <2>1, <2>2, GivenName DEF LinkInode
<1>2. /\ type \in [Inode -> Types] /\ dir \in DirType /\ links \in [Inode -> Nat]
      /\ dir' = dir_insert(dir, p, name, n) /\ name \notin DOMAIN dir[p]
      /\ links' = [links EXCEPT ![n] = @ + 1] /\ links[n] < MaxLinks
      /\ UNCHANGED <<type, leaked, mounts, usable>>
  BY DEF IInv, Typed, LinkInode
<1>3. Dirs' = Dirs /\ Live' = Live
  BY <1>2 DEF Dirs, Live
<1>4. /\ dir' \in DirType
      /\ \A d \in Inode, x \in Names, m \in Inode :
           Entry(dir', d, x, m) <=> Entry(dir, d, x, m) \/ (d = p /\ x = name /\ m = n)
  BY <1>1, <1>2, Inserted
<1>5. Live \in SUBSET Inode /\ Dirs \in SUBSET Inode /\ Live \subseteq Dirs
  BY LiveFacts
<1>6. \A m \in Inode : /\ Count(dir', m, Live) = Count(dir, m, Live) + One(m = n)
                       /\ Count(dir', m, Dirs) = Count(dir, m, Dirs) + One(m = n)
  BY <1>1, <1>2, <1>5, CountInserted
<1>7. Typed'
  BY <1>2, <1>3, <1>4 DEF IInv, Typed, Types
<1>8. Dotted'
  BY <1>3, <1>4, <1>5, <1>7, ZenonT(30) DEF IInv, Dotted, Typed, Names
<1>9. Lost'
  BY <1>1, <1>2, <1>3, <1>4, <1>5 DEF IInv, Lost, Typed
<1>10. NoDangling'
  BY <1>1, <1>2, <1>3, <1>4, <1>5 DEF IInv, NoDangling
<1>11. OnePlace'
  BY <1>1, <1>3, <1>4, <1>5, <1>7 DEF IInv, OnePlace, Typed, Names
<1>12. Counted'
  <2> SUFFICES ASSUME NEW m \in Inode
               PROVE  /\ type[m] \in {"file", "symlink"} => links'[m] = Count(dir', m, Live)
                      /\ type[m] = "dir" => /\ Count(dir', m, Live) <= links'[m]
                                            /\ links'[m] <= Count(dir', m, Dirs)
    BY <1>2, <1>3 DEF Counted
  <2>1. CASE m = n
    BY <1>1, <1>2, <1>6, <2>1 DEF One, IInv, Counted
  <2>2. CASE m # n
    <3>1. Count(dir', m, Live) = Count(dir, m, Live) /\ Count(dir', m, Dirs) = Count(dir, m, Dirs)
      BY <1>5, <1>6, <2>2, RefsFinite DEF One
    <3> QED BY <1>2, <2>2, <3>1 DEF IInv, Counted
  <2> QED BY <2>1, <2>2
<1>13. Bounded'
  BY <1>2, NamespaceAssumption DEF IInv, Bounded
<1>14. Held'
  BY <1>2 DEF IInv, Held
<1>15. PlacesKept
  BY <1>1, <1>3, <1>4, <1>5 DEF IInv, Typed, PlacesKept, Names
<1> QED BY <1>7, <1>8, <1>9, <1>10, <1>11, <1>12, <1>13, <1>14, <1>15 DEF IInv

\* unlink_inode preserves the invariant: the inode is freed with its last name.
LEMMA UnlinkPreserves ==
    ASSUME Counting, IInv, NEW p \in Parents, NEW name \in Names, UnlinkInode(p, name)
    PROVE  IInv' /\ PlacesKept
<1> DEFINE n == dir[p][name]
<1>0. /\ type \in [Inode -> Types] /\ dir \in DirType /\ links \in [Inode -> Nat]
      /\ dir' = dir_remove(dir, p, name) /\ name \in DOMAIN dir[p] /\ type[n] # "dir"
      /\ links' = [links EXCEPT ![n] = @ - 1]
      /\ type' = [type EXCEPT ![n] = IF links[n] = 1 THEN "free" ELSE @]
      /\ UNCHANGED <<leaked, mounts, usable>>
  BY DEF IInv, Typed, UnlinkInode
<1>1. p \in Live /\ p \in Inode
  BY DEF Parents, Live, Dirs
<1>2. n \in Inode /\ Entry(dir, p, name, n) /\ name \in Name
  BY <1>0, <1>1, DirFacts, GivenName DEF Entry
<1> HIDE DEF n
<1>3. type[n] \in {"file", "symlink"} /\ n \notin Dirs /\ n # ROOT_INODE_N
  <2>1. type[n] \in {"file", "symlink"}
    BY <1>0, <1>1, <1>2 DEF IInv, NoDangling, Types
  <2> QED BY <2>1 DEF IInv, Typed, Live, Dirs
<1>4. Dirs' = Dirs /\ Live' = Live
  BY <1>0, <1>2, <1>3 DEF Dirs, Live
<1>5. /\ dir' \in DirType
      /\ \A d \in Inode, x \in Names, m \in Inode :
           Entry(dir', d, x, m) <=> Entry(dir, d, x, m) /\ ~(d = p /\ x = name)
  BY <1>0, <1>1, Removed
<1>6. Live \in SUBSET Inode /\ Dirs \in SUBSET Inode /\ Live \subseteq Dirs
  BY LiveFacts
<1>7. \A m \in Inode : /\ Count(dir', m, Live) + One(m = n) = Count(dir, m, Live)
                       /\ Count(dir', m, Dirs) + One(m = n) = Count(dir, m, Dirs)
                       /\ Count(dir', m, Live) \in Nat /\ Count(dir', m, Dirs) \in Nat
  BY <1>0, <1>1, <1>2, <1>6, CountRemoved, RefsFinite
<1>8. links[n] = Count(dir', n, Live) + 1 /\ links'[n] = Count(dir', n, Live)
  <2>1. links[n] = Count(dir, n, Live)
    BY <1>2, <1>3 DEF IInv, Counted
  <2>2. links[n] = Count(dir', n, Live) + 1
    BY <1>2, <1>7, <2>1 DEF One
  <2> QED BY <1>0, <1>2, <1>7, <2>2
<1>9. Typed'
  <2>1. links' \in [Inode -> Nat]
    BY <1>0, <1>2, <1>7, <1>8
  <2> QED BY <1>0, <1>4, <1>5, <2>1 DEF IInv, Typed, Types
<1>10. Dotted'
  <2>1. name # "." /\ name # ".."
    BY <1>2, NamespaceAssumption
  <2> QED BY <1>4, <1>5, <1>6, <1>9, <2>1, ZenonT(30) DEF IInv, Dotted, Typed, Names
<1>11. Lost'
  BY <1>0, <1>4, <1>5, <1>6 DEF IInv, Lost, Typed
<1>12. NoDangling'
  <2> SUFFICES ASSUME NEW d \in Live, NEW x \in Names, NEW m \in Inode, Entry(dir', d, x, m)
               PROVE  type'[m] # "free"
    BY <1>4 DEF NoDangling
  <2>1. d \in Inode /\ Entry(dir, d, x, m)
    BY <1>5, <1>6
  <2>2. CASE m = n
    <3>1. Count(dir', n, Live) # 0
      BY <1>6, <2>2, CountNone
    <3> QED BY <1>0, <1>2, <1>3, <1>7, <1>8, <2>2, <3>1
  <2>3. CASE m # n
    BY <1>0, <2>1, <2>3 DEF IInv, NoDangling
  <2> QED BY <2>2, <2>3
<1>13. OnePlace'
  <2>1. ASSUME NEW d \in Live, NEW x \in Names, NEW m \in Live, Entry(dir, d, x, m)
        PROVE  Entry(dir', d, x, m)
    <3>1. ~(d = p /\ x = name)
      BY <1>2, <1>3, <1>6, <2>1 DEF Entry
    <3> QED BY <1>5, <1>6, <2>1, <3>1
  <2>2. \A d \in Live, x \in Names, m \in Live : Entry(dir', d, x, m) <=> Entry(dir, d, x, m)
    BY <1>5, <1>6, <2>1
  <2> QED BY <1>4, <1>9, <2>2 DEF IInv, OnePlace, Typed, Names
<1>14. Counted'
  <2> SUFFICES ASSUME NEW m \in Inode
               PROVE  /\ type'[m] \in {"file", "symlink"} => links'[m] = Count(dir', m, Live)
                      /\ type'[m] = "dir" => /\ Count(dir', m, Live) <= links'[m]
                                             /\ links'[m] <= Count(dir', m, Dirs)
    BY <1>4 DEF Counted
  <2>1. CASE m = n
    BY <1>0, <1>2, <1>3, <1>8, <2>1
  <2>2. CASE m # n
    <3>1. Count(dir', m, Live) = Count(dir, m, Live) /\ Count(dir', m, Dirs) = Count(dir, m, Dirs)
      BY <1>7, <2>2 DEF One
    <3> QED BY <1>0, <2>2, <3>1 DEF IInv, Counted
  <2> QED BY <2>1, <2>2
<1>15. Bounded'
  <2>1. MaxLinks \in Nat
    BY NamespaceAssumption
  <2> QED BY <1>0, <1>2, <2>1 DEF IInv, Bounded
<1>16. Held'
  BY <1>0, <1>2, <1>7, <1>8 DEF IInv, Held
<1>17. PlacesKept
  <2>1. ASSUME NEW k \in mounts PROVE ~Entry(dir, p, name, k)
    BY <1>2, <1>3, <1>6, <2>1 DEF IInv, Typed, Entry
  <2> QED BY <1>4, <1>5, <1>6, <2>1 DEF IInv, Typed, PlacesKept, Names
<1> QED BY <1>9, <1>10, <1>11, <1>12, <1>13, <1>14, <1>15, <1>16, <1>17 DEF IInv

\* Mounting changes no directory.
LEMMA MountPreserves ==
    ASSUME IInv, NEW n \in Inode, MountFs(n) \/ UmountFs(n)
    PROVE  IInv' /\ PlacesKept
<1>1. UNCHANGED <<type, links, dir, leaked, usable>> /\ mounts' \subseteq mounts \cup Live
  BY DEF MountFs, UmountFs, Parents, Live
<1>2. Dirs' = Dirs /\ Live' = Live
  BY <1>1 DEF Dirs, Live
<1>3. Typed'
  BY <1>1, <1>2 DEF IInv, Typed
<1>4. Dotted' /\ Lost' /\ NoDangling' /\ OnePlace'
  BY <1>1, <1>2 DEF IInv, Dotted, Lost, NoDangling, OnePlace
<1>5. Counted' /\ Held' /\ Bounded'
  BY <1>1, <1>2 DEF IInv, Counted, Held, Bounded
<1> QED BY <1>1, <1>2, <1>3, <1>4, <1>5 DEF IInv, PlacesKept

\* Every step preserves the invariant, and the places of the mountpoints.
LEMMA StepPreserves ==
    ASSUME Counting, IInv, [Next]_vars
    PROVE  IInv' /\ PlacesKept
<1>1. ASSUME NEW p \in Parents, NEW c \in Inode, NEW name \in Names, MakeDir(p, name, c)
      PROVE  IInv' /\ PlacesKept
  BY <1>1, MakeDirPreserves
<1>2. ASSUME NEW p \in Parents, NEW c \in Inode, NEW name \in Names,
             MakeFile(p, name, c) \/ MakeSymlink(p, name, c)
      PROVE  IInv' /\ PlacesKept
  <2>1. PICK t \in {"file", "symlink"} : type' = mint_inode(c, t)
    BY <1>2 DEF MakeFile, MakeSymlink
  <2> QED BY <1>2, <2>1, MintPreserves DEF MakeFile, MakeSymlink
<1>3. ASSUME NEW p \in Parents, NEW n \in Inode, NEW name \in Names, LinkInode(n, p, name)
      PROVE  IInv' /\ PlacesKept
  BY <1>3, LinkPreserves
<1>4. ASSUME NEW p \in Parents, NEW name \in Names, UnlinkInode(p, name)
      PROVE  IInv' /\ PlacesKept
  BY <1>4, UnlinkPreserves
<1>5. ASSUME NEW p \in Parents, NEW name \in Names, UnlinkDir(p, name)
      PROVE  IInv' /\ PlacesKept
  BY <1>5, UnlinkDirPreserves
<1>6. ASSUME NEW op \in Parents, NEW np \in Parents, NEW old \in Names, NEW new \in Names,
             RenameInode(op, old, np, new)
      PROVE  IInv' /\ PlacesKept
  BY <1>6, RenamePreserves
<1>7. ASSUME NEW n \in Inode, MountFs(n) \/ UmountFs(n)
      PROVE  IInv' /\ PlacesKept
  BY <1>7, MountPreserves
<1>8. ASSUME UNCHANGED vars
      PROVE  IInv' /\ PlacesKept
  <2>1. UNCHANGED <<type, links, dir, leaked, mounts, usable>> /\ Dirs' = Dirs /\ Live' = Live
    BY <1>8 DEF vars, Dirs, Live
  <2> QED BY <2>1 DEF IInv, Typed, Dotted, Lost, NoDangling, OnePlace, Counted, Held, Bounded,
                      PlacesKept
<1> QED BY <1>1, <1>2, <1>3, <1>4, <1>5, <1>6, <1>7, <1>8 DEF Next
-----------------------------------------------------------------------------
(* The tree of directories.                                                *)

\* No set of reachable directories without the root is closed under "..".
NoLoop ==
    \A S \in SUBSET (Live \ {ROOT_INODE_N}) :
        S # {} => \E m \in S : dir[m][".."] \notin S

-----------------------------------------------------------------------------
(* The climb of is_ancestor.                                               *)

\* f climbs from directory d, in the directories dd, for m steps.
Climbs(f, dd, d, m) ==
    f = [k \in 0 .. m |-> IF k = 0 THEN d ELSE dd[f[k - 1]][".."]]

\* There is a climb of every length.
LEMMA ClimbExists ==
    ASSUME HasLeast, NEW dd, NEW d, NEW n \in Nat
    PROVE  \E f : Climbs(f, dd, d, n)
<1> DEFINE bad == {m \in Nat : ~\E f : Climbs(f, dd, d, m)}
<1>1. SUFFICES ASSUME bad # {} PROVE FALSE
  OBVIOUS
<1>2. bad \in SUBSET Nat
  OBVIOUS
<1> HIDE DEF bad
<1>3. PICK m \in bad : \A y \in bad : m <= y
  BY <1>1, <1>2, ZenonT(30) DEF HasLeast
<1>4. m \in Nat /\ ~\E f : Climbs(f, dd, d, m)
  BY <1>3 DEF bad
<1>5. CASE m = 0
  <2> DEFINE f == [k \in 0 .. 0 |-> d]
  <2>1. f = [k \in 0 .. 0 |-> IF k = 0 THEN d ELSE dd[f[k - 1]][".."]]
    OBVIOUS
  <2> QED BY ZenonT(30), <1>4, <1>5, <2>1 DEF Climbs
<1>6. CASE m # 0
  <2>1. m - 1 \in Nat /\ ~(m <= m - 1)
    BY <1>4, <1>6
  <2>2. m - 1 \notin bad
    BY <1>3, <2>1
  <2>3. PICK f : Climbs(f, dd, d, m - 1)
    BY <2>1, <2>2 DEF bad
  <2>4. PICK g : g = [k \in 0 .. m |-> IF k = m THEN dd[f[m - 1]][".."] ELSE f[k]]
    BY ZenonT(30)
  <2>5. /\ \A k \in 0 .. m - 1 : g[k] = f[k]
        /\ g[m] = dd[f[m - 1]][".."]
    BY <1>4, <2>4
  <2>6. f = [k \in 0 .. m - 1 |-> IF k = 0 THEN d ELSE dd[f[k - 1]][".."]]
    BY ZenonT(30), <2>3 DEF Climbs
  <2>7. ASSUME NEW k \in 0 .. m
        PROVE  g[k] = IF k = 0 THEN d ELSE dd[g[k - 1]][".."]
    <3>1. CASE k = m
      <4>1. k # 0 /\ k - 1 \in 0 .. m - 1 /\ k - 1 = m - 1
        BY <1>4, <1>6, <3>1
      <4> QED BY <2>5, <3>1, <4>1
    <3>2. CASE k # m
      <4>1. k \in 0 .. m - 1 /\ (k # 0 => k - 1 \in 0 .. m - 1)
        BY <1>4, <3>2
      <4>2. f[k] = IF k = 0 THEN d ELSE dd[f[k - 1]][".."]
        BY <2>6, <4>1
      <4> QED BY <2>5, <4>1, <4>2
    <3> QED BY <3>1, <3>2
  <2>8. g = [k \in 0 .. m |-> g[k]]
    BY <2>4
  <2>9. g = [k \in 0 .. m |-> IF k = 0 THEN d ELSE dd[g[k - 1]][".."]]
    BY <2>7, <2>8
  <2> QED BY <1>4, <2>9 DEF Climbs
<1> QED BY <1>5, <1>6

\* When is_ancestor says no, the climb reached the root without meeting a.
LEMMA ClimbReachesRoot ==
    ASSUME HasLeast, NEW a, NEW d, ~is_ancestor(a, d)
    PROVE  \E f : \E k \in Nat :
              /\ f[0] = d /\ f[k] = ROOT_INODE_N
              /\ \A j \in 0 .. k : f[j] # a
              /\ \A j \in 1 .. k : f[j] = dir[f[j - 1]][".."]
<1> DEFINE M == MAX_DIR_DEPTH
<1>1. M \in Nat
  BY NamespaceAssumption
<1>2. PICK up : /\ up = [k \in 0 .. M |-> IF k = 0 THEN d ELSE dir[up[k - 1]][".."]]
                /\ \E k \in 0 .. M - 1 : up[k] = ROOT_INODE_N /\ \A j \in 0 .. k : up[j] # a
  <2> DEFINE climb[k \in 0 .. M] == IF k = 0 THEN d ELSE dir[climb[k - 1]][".."]
  <2>1. \E f : Climbs(f, dir, d, M)
    BY <1>1, ClimbExists, ZenonT(30)
  <2>2. \E f : f = [k \in 0 .. M |-> IF k = 0 THEN d ELSE dir[f[k - 1]][".."]]
    BY ZenonT(30), <2>1 DEF Climbs
  <2>3. climb = [k \in 0 .. M |-> IF k = 0 THEN d ELSE dir[climb[k - 1]][".."]]
    BY ZenonT(30), <2>2
  <2>4. \E k \in 0 .. M - 1 : climb[k] = ROOT_INODE_N /\ \A j \in 0 .. k : climb[j] # a
    BY ZenonT(30) DEF is_ancestor
  <2> HIDE DEF climb
  <2> QED BY ZenonT(30), <2>3, <2>4
<1>3. PICK k \in 0 .. M - 1 : up[k] = ROOT_INODE_N /\ \A j \in 0 .. k : up[j] # a
  BY ZenonT(30), <1>2
<1>4. k \in Nat /\ 0 \in 0 .. M /\ \A j \in 1 .. k : j \in 0 .. M /\ j # 0
  BY <1>1
<1>5. up[0] = d /\ \A j \in 1 .. k : up[j] = dir[up[j - 1]][".."]
  BY <1>2, <1>4
<1> QED BY <1>3, <1>4, <1>5

-----------------------------------------------------------------------------
(* What each call does to the parents.                                     *)

\* Parents that stay what they were, of no more directories, make no loop.
LEMMA SameParents ==
    ASSUME NoLoop, Live' \subseteq Live, \A d \in Live' : dir'[d][".."] = dir[d][".."]
    PROVE  NoLoop'
<1> SUFFICES ASSUME NEW S \in SUBSET (Live' \ {ROOT_INODE_N}), S # {}
             PROVE  \E m \in S : dir'[m][".."] \notin S
  BY DEF NoLoop
<1>1. PICK m \in S : dir[m][".."] \notin S
  BY DEF NoLoop
<1> QED BY <1>1

\* make_dir hangs the new directory below one that is there.
LEMMA MakeDirNoLoop ==
    ASSUME IInv, NoLoop, NEW p \in Parents, NEW c \in Inode, NEW name \in Names,
           MakeDir(p, name, c)
    PROVE  NoLoop'
<1>1. PICK inserted \in BOOLEAN :
         LET d == [dir EXCEPT ![c] = Dots(c, p)]
         IN /\ dir' = IF inserted THEN dir_insert(d, p, name, c) ELSE d
            /\ leaked' = IF inserted THEN leaked ELSE leaked \cup {c}
  BY DEF MakeDir
<1>2. /\ p \in Live /\ p \in Inode /\ p # c /\ c \notin Live /\ dir \in DirType
      /\ type \in [Inode -> Types] /\ type' = [type EXCEPT ![c] = "dir"]
  BY ZenonT(30) DEF MakeDir, mint_inode, Parents, Live, Dirs, IInv, Typed
<1>3. name \in Name /\ name # ".."
  <2>1. name \in Name
    BY <1>2, GivenName DEF MakeDir
  <2> QED BY <2>1, NamespaceAssumption
<1>4. /\ dir'[c][".."] = p
      /\ \A d \in Live : dir'[d][".."] = dir[d][".."]
  <2> DEFINE d == [dir EXCEPT ![c] = Dots(c, p)]
  <2>1. DOMAIN d = Inode /\ d[c] = Dots(c, p) /\ \A x \in Live : d[x] = dir[x] /\ x \in Inode
    BY <1>2, LiveFacts DEF DirType
  <2>2. d[c][".."] = p
    BY <2>1 DEF Dots
  <2> HIDE DEF d
  <2>3. CASE ~inserted
    BY <1>1, <2>1, <2>2, <2>3 DEF d
  <2>4. CASE inserted
    <3>1. dir' = dir_insert(d, p, name, c)
      BY <1>1, <2>4 DEF d
    <3>2. \A x \in Inode \ {p} : dir'[x] = d[x]
      BY <2>1, <3>1 DEF dir_insert
    <3>3. ".." \in DOMAIN d[p]
      <4>1. \E m \in Live : Entry(dir, p, "..", m)
        BY <1>2, LiveFacts
      <4> QED BY <1>2, <2>1, <4>1 DEF Entry
    <3>4. dir'[p] = [x \in DOMAIN d[p] \cup {name} |-> IF x = name THEN c ELSE d[p][x]]
      BY <1>2, <2>1, <3>1 DEF dir_insert
    <3>5. dir'[p][".."] = d[p][".."]
      BY <1>3, <3>3, <3>4
    <3> QED BY <1>2, <2>1, <2>2, <3>2, <3>5
  <2> QED BY <2>3, <2>4
<1>5. Live' \subseteq Live \cup {c}
  BY <1>1, <1>2 DEF Live, Dirs
<1> SUFFICES ASSUME NEW S \in SUBSET (Live' \ {ROOT_INODE_N}), S # {}
             PROVE  \E m \in S : dir'[m][".."] \notin S
  BY DEF NoLoop
<1>6. CASE S \subseteq {c}
  BY <1>2, <1>4, <1>6
<1>7. CASE ~(S \subseteq {c})
  <2> DEFINE T == S \ {c}
  <2>1. T \in SUBSET (Live \ {ROOT_INODE_N}) /\ T # {}
    BY <1>5, <1>7
  <2>2. PICK m \in T : dir[m][".."] \notin T
    BY ZenonT(30), <2>1 DEF NoLoop
  <2>3. PICK q \in Live : Entry(dir, m, "..", q)
    BY <2>1, <2>2, LiveFacts
  <2>4. dir[m][".."] # c
    BY <1>2, <2>3 DEF Entry
  <2> QED BY <1>4, <2>1, <2>2, <2>4
<1> QED BY <1>6, <1>7

\* What the entries say about the parents.
LEMMA ParentByEntry ==
    ASSUME NEW dd, NEW ee, NEW d, NEW m, Entry(dd, d, "..", m), Entry(ee, d, "..", m)
    PROVE  ee[d][".."] = dd[d][".."]
  BY DEF Entry

\* The calls on names other than directories leave the parents alone.
LEMMA FileCallsNoLoop ==
    ASSUME IInv, NoLoop, NEW p \in Parents, NEW name \in Names, NEW n \in Inode,
           \/ MakeFile(p, name, n) \/ MakeSymlink(p, name, n)
           \/ LinkInode(n, p, name) \/ UnlinkInode(p, name)
    PROVE  NoLoop'
<1>1. /\ p \in Live /\ p \in Inode /\ dir \in DirType /\ type \in [Inode -> Types]
      /\ leaked' = leaked /\ ".." \in Names
  BY ZenonT(30) DEF MakeFile, MakeSymlink, LinkInode, UnlinkInode, Parents, Live, Dirs, IInv, Typed,
     Names
<1>2. name \in Name /\ name # ".."
  <2>1. name \in Name
    BY <1>1, GivenName DEF MakeFile, MakeSymlink, LinkInode, UnlinkInode
  <2> QED BY <2>1, NamespaceAssumption
<1>3. Live' = Live
  <2>1. CASE MakeFile(p, name, n) \/ MakeSymlink(p, name, n)
    <3>1. PICK t \in {"file", "symlink"} : type' = [type EXCEPT ![n] = t] /\ type[n] = "free"
      BY <2>1 DEF MakeFile, MakeSymlink, mint_inode
    <3> QED BY <1>1, <3>1 DEF Live, Dirs
  <2>2. CASE LinkInode(n, p, name)
    BY <1>1, <2>2 DEF LinkInode, Live, Dirs
  <2>3. CASE UnlinkInode(p, name)
    <3> DEFINE m == dir[p][name]
    <3>1. type' = [type EXCEPT ![m] = IF links[m] = 1 THEN "free" ELSE @] /\ type[m] # "dir"
      BY <2>3 DEF UnlinkInode
    <3> HIDE DEF m
    <3> QED BY <1>1, <3>1 DEF Live, Dirs
  <2> QED BY <2>1, <2>2, <2>3
<1>4. \A d \in Inode, m \in Inode : Entry(dir, d, "..", m) => Entry(dir', d, "..", m)
  <2>1. CASE UnlinkInode(p, name)
    <3>1. dir' = dir_remove(dir, p, name)
      BY <2>1 DEF UnlinkInode
    <3> QED BY <1>1, <1>2, <3>1, Removed
  <2>2. CASE ~UnlinkInode(p, name)
    <3>1. dir' = dir_insert(dir, p, name, n) /\ name \notin DOMAIN dir[p]
      BY <2>2 DEF MakeFile, MakeSymlink, LinkInode
    <3> QED BY <1>1, <1>2, <3>1, Inserted
  <2> QED BY <2>1, <2>2
<1>5. ASSUME NEW d \in Live PROVE dir'[d][".."] = dir[d][".."]
  <2>1. PICK m \in Live : Entry(dir, d, "..", m)
    BY LiveFacts
  <2>2. d \in Inode /\ m \in Inode
    BY LiveFacts
  <2> QED BY <1>4, <2>1, <2>2, ParentByEntry
<1> QED BY <1>3, <1>5, SameParents

\* unlink_dir takes away one directory and its name.
LEMMA UnlinkDirNoLoop ==
    ASSUME IInv, NoLoop, NEW p \in Parents, NEW name \in Names, UnlinkDir(p, name)
    PROVE  NoLoop'
<1> DEFINE n == dir[p][name]
           dd == dir_remove(dir, p, name)
<1>1. /\ p \in Live /\ p \in Inode /\ dir \in DirType /\ type \in [Inode -> Types]
      /\ leaked' = leaked /\ ".." \in Names /\ name # ".." /\ type[n] = "dir"
      /\ type' = [type EXCEPT ![n] = "free"] /\ dir' = [dd EXCEPT ![n] = NoEntries]
  BY ZenonT(30) DEF UnlinkDir, Parents, Live, Dirs, IInv, Typed, Names
<1>2. n \in Inode
  BY <1>1, DirFacts DEF UnlinkDir
<1> HIDE DEF n
<1>3. Live' \subseteq Live \ {n}
  BY <1>1, <1>2 DEF Live, Dirs
<1>4. ASSUME NEW d \in Live' PROVE dir'[d][".."] = dir[d][".."]
  <2>1. d \in Live /\ d # n
    BY <1>3
  <2>2. PICK m \in Live : Entry(dir, d, "..", m)
    BY <2>1, LiveFacts
  <2>3. d \in Inode /\ m \in Inode
    BY <2>1, LiveFacts
  <2>4. dd \in DirType /\ Entry(dd, d, "..", m)
    BY <1>1, <2>2, <2>3, Removed
  <2> HIDE DEF dd
  <2>5. dir'[d] = dd[d]
    BY <1>1, <2>1, <2>3, <2>4 DEF DirType
  <2> QED BY <2>2, <2>4, <2>5 DEF Entry
<1> QED BY <1>3, <1>4, SameParents

\* rename_inode: a set closed under the new parents holds the new parent, and
\* then all of the climb from it, which ended at the root.
LEMMA RenameNoLoop ==
    ASSUME HasLeast, IInv, NoLoop, NEW op \in Parents, NEW np \in Parents, NEW old \in Names,
           NEW new \in Names, RenameInode(op, old, np, new)
    PROVE  NoLoop'
<1> DEFINE n == dir[op][old]
           dd == dir_insert(dir, np, new, n)
           moved == dir_remove(dd, op, old)
<1>1. /\ op \in Live /\ op \in Inode /\ np \in Live /\ np \in Inode
      /\ dir \in DirType /\ ".." \in Names /\ old # ".." /\ new # ".."
      /\ type' = type /\ leaked' = leaked /\ new \notin DOMAIN dir[np]
  BY ZenonT(30) DEF RenameInode, Parents, Live, Dirs, IInv, Typed, Names
<1>2. n \in Inode
  BY <1>1, DirFacts DEF RenameInode
<1>3. Live' = Live
  BY <1>1 DEF Live, Dirs
<1>4. \/ dir' = moved
      \/ dir' = dir_set_parent_entry(moved, n, np) /\ ~is_ancestor(n, np) /\ type[n] = "dir"
  BY DEF RenameInode
<1> HIDE DEF n
<1>5. /\ moved \in DirType
      /\ \A d \in Inode, m \in Inode : Entry(moved, d, "..", m) <=> Entry(dir, d, "..", m)
  <2>1. /\ dd \in DirType
        /\ \A d \in Inode, x \in Names, m \in Inode :
              Entry(dd, d, x, m) <=> Entry(dir, d, x, m) \/ (d = np /\ x = new /\ m = n)
    BY <1>1, <1>2, Inserted
  <2> HIDE DEF dd
  <2>2. /\ moved \in DirType
        /\ \A d \in Inode, x \in Names, m \in Inode :
              Entry(moved, d, x, m) <=> Entry(dd, d, x, m) /\ ~(d = op /\ x = old)
    <3>1. dd \in DirType /\ op \in Inode
      BY <1>1, <2>1
    <3> QED BY <3>1, Removed
  <2> HIDE DEF moved
  <2> QED BY <1>1, <2>1, <2>2
<1> HIDE DEF moved
<1>6. ASSUME NEW d \in Live PROVE moved[d][".."] = dir[d][".."]
  <2>1. PICK m \in Live : Entry(dir, d, "..", m)
    BY LiveFacts
  <2>2. d \in Inode /\ m \in Inode
    BY LiveFacts
  <2> QED BY <1>5, <2>1, <2>2, ParentByEntry
<1>7. CASE dir' = moved
  BY <1>3, <1>6, <1>7, SameParents
<1>8. CASE dir' = dir_set_parent_entry(moved, n, np) /\ ~is_ancestor(n, np) /\ type[n] = "dir"
  <2>1. \A d \in Live \ {n} : dir'[d][".."] = dir[d][".."]
    <3>1. \A d \in Inode \ {n} : dir'[d] = moved[d]
      BY <1>2, <1>5, <1>8 DEF dir_set_parent_entry, DirType
    <3> QED BY <1>6, <3>1, LiveFacts
  <2>2. n \in Live => dir'[n][".."] = np
    <3> SUFFICES ASSUME n \in Live PROVE dir'[n][".."] = np
      OBVIOUS
    <3>1. PICK m \in Live : Entry(dir, n, "..", m)
      BY LiveFacts
    <3>2. m \in Inode
      BY LiveFacts
    <3>3. ".." \in DOMAIN moved[n]
      BY <1>2, <1>5, <3>1, <3>2 DEF Entry
    <3>4. Entry(dir', n, "..", np)
      BY <1>1, <1>2, <1>5, <1>8, <3>3, ParentSet
    <3> QED BY <3>4 DEF Entry
  <2> SUFFICES ASSUME NEW S \in SUBSET (Live \ {ROOT_INODE_N}), S # {},
                      \A m \in S : dir'[m][".."] \in S
               PROVE  FALSE
    BY <1>3 DEF NoLoop
  <2>3. n \in S
    <3>1. PICK m \in S : dir[m][".."] \notin S
      BY DEF NoLoop
    <3> QED BY <2>1, <3>1
  <2>4. np \in S
    BY <2>2, <2>3
  <2>5. PICK f : \E k \in Nat :
           /\ f[0] = np /\ f[k] = ROOT_INODE_N
           /\ \A j \in 0 .. k : f[j] # n
           /\ \A j \in 1 .. k : f[j] = dir[f[j - 1]][".."]
    BY <1>8, ClimbReachesRoot
  <2>6. PICK k \in Nat :
           /\ f[0] = np /\ f[k] = ROOT_INODE_N
           /\ \A j \in 0 .. k : f[j] # n
           /\ \A j \in 1 .. k : f[j] = dir[f[j - 1]][".."]
    BY <2>5
  <2> DEFINE out == {j \in 0 .. k : f[j] \notin S}
  <2>7. out \in SUBSET Nat /\ k \in out
    BY <2>6
  <2> HIDE DEF out
  <2>8. PICK j \in out : \A i \in out : j <= i
    BY ZenonT(30), <2>7 DEF HasLeast
  <2>9. j \in 0 .. k /\ f[j] \notin S
    BY <2>8 DEF out
  <2>10. j # 0
    BY <2>4, <2>6, <2>9
  <2>11. j \in 1 .. k /\ j - 1 \in 0 .. k /\ ~(j <= j - 1)
    BY <2>9, <2>10
  <2>12. f[j - 1] \in S /\ f[j - 1] # n
    BY <2>6, <2>8, <2>11 DEF out
  <2>13. dir[f[j - 1]][".."] \in S
    BY <2>1, <2>12
  <2> QED BY <2>6, <2>9, <2>11, <2>13
<1> QED BY <1>4, <1>7, <1>8

\* No step makes a loop.
LEMMA StepNoLoop ==
    ASSUME HasLeast, IInv, NoLoop, [Next]_vars
    PROVE  NoLoop'
<1>1. ASSUME NEW p \in Parents, NEW c \in Inode, NEW name \in Names,
             MakeDir(p, name, c) \/ MakeFile(p, name, c) \/ MakeSymlink(p, name, c)
      PROVE  NoLoop'
  BY <1>1, MakeDirNoLoop, FileCallsNoLoop
<1>2. ASSUME NEW p \in Parents, NEW n \in Inode, NEW name \in Names, LinkInode(n, p, name)
      PROVE  NoLoop'
  BY <1>2, FileCallsNoLoop
<1>3. ASSUME NEW p \in Parents, NEW name \in Names, UnlinkInode(p, name) \/ UnlinkDir(p, name)
      PROVE  NoLoop'
  BY <1>3, NamespaceAssumption, FileCallsNoLoop, UnlinkDirNoLoop
<1>4. ASSUME NEW op \in Parents, NEW np \in Parents, NEW old \in Names, NEW new \in Names,
             RenameInode(op, old, np, new)
      PROVE  NoLoop'
  BY <1>4, RenameNoLoop
<1>5. ASSUME UNCHANGED <<type, dir, leaked>> PROVE NoLoop'
  BY <1>5, SameParents DEF Live, Dirs
<1>6. ASSUME NEW n \in Inode, MountFs(n) \/ UmountFs(n) PROVE NoLoop'
  BY <1>5, <1>6, ZenonT(30) DEF MountFs, UmountFs
<1>7. CASE UNCHANGED vars
  BY <1>5, <1>7, ZenonT(30) DEF vars
<1> QED BY <1>1, <1>2, <1>3, <1>4, <1>6, <1>7, ZenonT(30) DEF Next

-----------------------------------------------------------------------------
(* What the libraries say.                                                 *)

INSTANCE FiniteSetTheorems

\* There are finitely many names.
LEMMA NamesFinite == IsFiniteSet(Names)
<1>1. IsFiniteSet(Name)
  BY NamespaceAssumption
<1>2. IsFiniteSet({".", ".."})
  <2>1. {".", ".."} = {"."} \cup {".."}
    OBVIOUS
  <2>2. IsFiniteSet({"."}) /\ IsFiniteSet({".."})
    BY FS_Singleton, ZenonT(30)
  <2> QED BY <2>1, <2>2, FS_Union, ZenonT(30)
<1> QED BY <1>1, <1>2, FS_Union, ZenonT(30) DEF Names

\* The entries that name an inode can be counted.
LEMMA EntriesAreCounted == Counting
<1>1. ASSUME NEW dd, NEW n, NEW ds \in SUBSET Inode
      PROVE  /\ IsFiniteSet(Refs(dd, n, ds)) /\ Count(dd, n, ds) \in Nat
             /\ Count(dd, n, ds) = 0 <=> Refs(dd, n, ds) = {}
  <2>1. IsFiniteSet(ds)
    BY NamespaceAssumption, FS_Subset
  <2>2. IsFiniteSet(ds \X Names)
    BY <2>1, NamesFinite, FS_Product
  <2>3. IsFiniteSet(Refs(dd, n, ds))
    BY <2>2, FS_Subset DEF Refs
  <2> QED BY <2>3, FS_CardinalityType, FS_EmptySet DEF Count
<1>2. ASSUME NEW T, NEW e, IsFiniteSet(T), e \notin T
      PROVE  Cardinality(T \cup {e}) = Cardinality(T) + 1
  BY <1>2, FS_AddElement
<1> QED BY <1>1, <1>2 DEF Counting

\* A set of natural numbers has a least element.
LEMMA LeastOf == HasLeast
<1> SUFFICES ASSUME NEW S \in SUBSET Nat, S # {}
             PROVE  \E x \in S : \A y \in S : x <= y
  BY DEF HasLeast
<1>1. PICK x \in S : \A y \in S : ~(<<y, x>> \in OpToRel(<, Nat))
  BY NatLessThanWellFounded, WFMin
<1>2. ASSUME NEW y \in S PROVE x <= y
  <2>1. x \in Nat /\ y \in Nat
    OBVIOUS
  <2>2. ~(y < x)
    <3>1. y < x => <<y, x>> \in {ss \in Nat \X Nat : ss[1] < ss[2]}
      BY <2>1
    <3> QED BY <1>1, <3>1 DEF OpToRel
  <2> QED BY <2>1, <2>2
<1> QED BY <1>2

\* More directories name an inode at least as often.
LEMMA CountMore ==
    ASSUME NEW dd, NEW n, NEW ds \in SUBSET Inode, NEW es \in SUBSET ds
    PROVE  Count(dd, n, es) <= Count(dd, n, ds)
<1>1. Refs(dd, n, es) \subseteq Refs(dd, n, ds)
  BY DEF Refs
<1> QED BY <1>1, EntriesAreCounted, RefsFinite, FS_Subset DEF Count

\* The empty partition satisfies the invariant.
LEMMA InitIInv == Init => IInv
<1> SUFFICES ASSUME Init PROVE IInv
  OBVIOUS
<1> DEFINE r == ROOT_INODE_N
<1>1. r \in Inode /\ MaxLinks \in Nat /\ 2 <= MaxLinks
  BY NamespaceAssumption
<1>2. Dirs = {r} /\ Live = {r}
  BY <1>1 DEF Init, Fresh, Dirs, Live
<1>3. dir \in DirType
  <2> DEFINE all == UNION {[S -> Inode] : S \in SUBSET Names}
  <2>1. {".", ".."} \in SUBSET Names /\ Dots(r, r) \in [{".", ".."} -> Inode]
    BY <1>1 DEF Names, Dots
  <2>2. {} \in SUBSET Names /\ NoEntries \in [{} -> Inode]
    BY DEF NoEntries
  <2>3. Dots(r, r) \in all /\ NoEntries \in all
    BY <2>1, <2>2, ZenonT(30)
  <2> HIDE DEF all
  <2>4. dir \in [Inode -> all]
    BY <2>3 DEF Init, Fresh
  <2> QED BY <2>4 DEF all, DirType
<1>4. \A d \in {r}, x \in Names, n \in Inode : Entry(dir, d, x, n) <=> x \in {".", ".."} /\ n = r
  BY <1>1 DEF Init, Fresh, Entry, Dots
<1>5. Typed
  BY <1>1, <1>2, <1>3 DEF Typed, Types, Init, Fresh
<1>6. "." \in Names /\ ".." \in Names /\ "." # ".." /\ \A x \in Name : x \notin {".", ".."} /\ x \in Names
  BY NamespaceAssumption DEF Names
<1>7. Dotted /\ Lost /\ NoDangling /\ OnePlace
  BY <1>1, <1>2, <1>4, <1>6 DEF Dotted, Lost, NoDangling, OnePlace, Init, Fresh
<1>8. Count(dir, r, {r}) = 2
  <2> DEFINE T == {<<r, ".">>}
             e == <<r, "..">>
  <2>0. \A x \in Names : Entry(dir, r, x, r) <=> x \in {".", ".."}
    BY <1>1, <1>4
  <2>1. Refs(dir, r, {r}) = T \cup {e}
    BY <1>6, <2>0 DEF Refs
  <2>2. IsFiniteSet(T) /\ Cardinality(T) = 1
    BY FS_Singleton, ZenonT(30)
  <2>3. e \notin T
    BY <1>6
  <2> HIDE DEF T, e
  <2>4. Cardinality(T \cup {e}) = 2
    BY <2>2, <2>3, FS_AddElement
  <2> QED BY <2>1, <2>4 DEF Count
<1>9. Counted /\ Held /\ Bounded
  BY <1>1, <1>2, <1>8 DEF Counted, Held, Bounded, Init, Fresh
<1> QED BY <1>5, <1>7, <1>9 DEF IInv
\* The invariant holds throughout.
LEMMA Invariance == Spec => []IInv
<1>1. IInv /\ [Next]_vars => IInv'
  BY EntriesAreCounted, StepPreserves
<1> QED BY <1>1, InitIInv, PTL DEF Spec

-----------------------------------------------------------------------------
\* What Namespace counts is what the lemmas count.
LEMMA NamesAreRefs ==
    ASSUME NEW n, NEW ds
    PROVE  NamesOf(n, ds) = Refs(dir, n, ds)
  BY DEF NamesOf, Refs, Entry

(* hard_link_cnt of every inode in use is the number of entries that name it,
   counting or not counting the directories that a failed make_dir lost: for
   every number of inodes and names, and every order of make, link, unlink,
   rename, mount and umount.  unlink_inode therefore deletes an inode with its
   last name, neither earlier nor later. *)
THEOREM LinkCountsExact == Spec => []LinksExact
<1>1. ASSUME IInv PROVE LinksExact
  <2>1. MaxLinks \in Nat
    BY NamespaceAssumption
  <2>2. TypeOK
    <3>1. links \in [Inode -> 0 .. MaxLinks + 1]
      BY <1>1, <2>1 DEF IInv, Typed, Bounded
    <3>2. \A n \in Inode : DOMAIN dir[n] \subseteq Names /\ Range(dir[n]) \subseteq Inode
      BY <1>1, DirFacts DEF IInv, Typed, Range
    <3>3. mounts \subseteq Inode
      BY <1>1 DEF IInv, Typed, Live, Dirs
    <3> QED BY <1>1, <3>1, <3>2, <3>3 DEF IInv, Typed, Types, TypeOK
  <2>3. ASSUME NEW n \in Inode, type[n] # "free"
        PROVE  /\ links[n] >= Cardinality(NamesOf(n, Dirs \ leaked))
               /\ links[n] <= Cardinality(NamesOf(n, Dirs))
    <3>1. /\ Cardinality(NamesOf(n, Dirs \ leaked)) = Count(dir, n, Live)
          /\ Cardinality(NamesOf(n, Dirs)) = Count(dir, n, Dirs)
      BY NamesAreRefs DEF Count, Live
    <3>2. Count(dir, n, Live) <= Count(dir, n, Dirs)
      BY <1>1, LiveFacts, CountMore
    <3>3. links[n] \in Nat /\ Count(dir, n, Live) \in Nat /\ Count(dir, n, Dirs) \in Nat
      BY <1>1, LiveFacts, EntriesAreCounted, RefsFinite DEF IInv, Typed
    <3>4. CASE type[n] = "dir"
      BY <1>1, <3>1, <3>3, <3>4 DEF IInv, Counted
    <3>5. CASE type[n] \in {"file", "symlink"}
      <4>1. links[n] = Count(dir, n, Live)
        BY <1>1, <3>5 DEF IInv, Counted
      <4> QED BY <3>1, <3>2, <3>3, <4>1
    <3> QED BY <1>1, <2>3, <3>4, <3>5 DEF IInv, Typed, Types
  <2> QED BY <2>2, <2>3 DEF LinksExact
<1> QED BY <1>1, Invariance, PTL

(* No directory entry that a path can reach names an inode that delete_inode
   freed, and no inode in use is without a name, except the directory of a
   make_dir that failed half way. *)
THEOREM NamesAreLive == Spec => []InUseIsNamed
<1>1. ASSUME IInv PROVE InUseIsNamed
  <2>1. ASSUME NEW d \in Dirs \ leaked, NEW x \in DOMAIN dir[d]
        PROVE  type[dir[d][x]] # "free"
    <3>1. d \in Live /\ d \in Inode /\ dir \in DirType
      BY <1>1 DEF Live, Dirs, IInv, Typed
    <3>2. x \in Names /\ dir[d][x] \in Inode
      BY <3>1, DirFacts
    <3>3. Entry(dir, d, x, dir[d][x])
      BY DEF Entry
    <3> QED BY <1>1, <3>1, <3>2, <3>3 DEF IInv, NoDangling
  <2>2. ASSUME NEW n \in Inode, type[n] # "free", n \notin leaked
        PROVE  NamesOf(n, Dirs \ leaked) # {}
    <3>1. CASE type[n] = "dir"
      <4>1. n \in Live /\ "." \in Names
        BY <2>2, <3>1 DEF Live, Dirs, Names
      <4>2. Entry(dir, n, ".", n)
        BY <1>1, <4>1 DEF IInv, Dotted
      <4>3. <<n, ".">> \in Refs(dir, n, Live)
        BY <4>1, <4>2 DEF Refs
      <4> QED BY <4>3, NamesAreRefs DEF Live
    <3>2. CASE type[n] \in {"file", "symlink"}
      <4>1. Count(dir, n, Live) > 0
        BY <1>1, <3>2 DEF IInv, Counted, Held
      <4>2. Refs(dir, n, Live) # {}
        BY <4>1, FS_EmptySet DEF Count
      <4> QED BY <4>2, NamesAreRefs DEF Live
    <3> QED BY <1>1, <2>2, <3>1, <3>2 DEF IInv, Typed, Types
  <2> QED BY <2>1, <2>2 DEF InUseIsNamed
<1> QED BY <1>1, Invariance, PTL

(* The directory a partition is mounted on keeps its name and its place in the
   tree until umount_fs, whatever else is created, renamed or deleted. *)
THEOREM MountpointsStay == Spec => MountpointsPinned
<1> DEFINE Stay == \A n \in mounts \cap mounts' : n \in Dirs' /\ Place(n)' = Place(n)
<1>1. ASSUME IInv, IInv', [Next]_vars PROVE Stay
  <2> SUFFICES ASSUME NEW n \in mounts, n \in mounts'
               PROVE  n \in Dirs' /\ Place(n)' = Place(n)
    OBVIOUS
  <2>1. n \in Dirs'
    BY <1>1 DEF IInv, Typed, Live
  <2>2. PlacesKept
    BY <1>1, EntriesAreCounted, StepPreserves
  <2>3. Place(n) = {e \in Inode \X Name : e[1] \in Live /\ Entry(dir, e[1], e[2], n)}
    BY DEF Place, NamesOf, Entry, Live, Dirs, Names
  <2>4. Place(n)' = {e \in Inode \X Name : e[1] \in Live' /\ Entry(dir', e[1], e[2], n)}
    BY DEF Place, NamesOf, Entry, Live, Dirs, Names
  <2>5. \A e \in Inode \X Name : e[1] \in Live' /\ Entry(dir', e[1], e[2], n)
                                   <=> e[1] \in Live /\ Entry(dir, e[1], e[2], n)
    BY <2>2 DEF PlacesKept
  <2> QED BY <2>1, <2>3, <2>4, <2>5
<1>2. IInv /\ IInv' /\ [Next]_vars => [Stay]_vars
  BY <1>1
<1> QED BY <1>2, Invariance, PTL DEF Spec, MountpointsPinned
\* rename_inode, make_dir and unlink_dir keep the directories one tree below
\* the root, each with one name in the parent that its ".." leads to.
THEOREM OneTree == Spec => []TreeRooted
<1>1. ASSUME Init PROVE NoLoop
  <2>1. Live \subseteq {ROOT_INODE_N}
    BY <1>1 DEF Init, Fresh, Live, Dirs
  <2> QED BY <2>1 DEF NoLoop
<1>2. ASSUME IInv, NoLoop PROVE TreeRooted
  <2>1. ASSUME NEW n \in Live \ {ROOT_INODE_N}
        PROVE  \E x \in Name : Place(n) = {<<dir[n][".."], x>>}
    <3>1. PICK p \in Live, x \in Name :
             /\ Entry(dir, n, "..", p)
             /\ \A q \in Live, y \in Name : Entry(dir, q, y, n) <=> q = p /\ y = x
      BY <1>2, <2>1 DEF IInv, OnePlace
    <3>2. dir[n][".."] = p /\ p \in Inode
      BY <1>2, <3>1, LiveFacts DEF Entry
    <3>3. Place(n) = {e \in Inode \X Name : e[1] \in Live /\ Entry(dir, e[1], e[2], n)}
      BY DEF Place, NamesOf, Entry, Live, Dirs, Names
    <3>4. \A e \in Inode \X Name : e[1] \in Live /\ Entry(dir, e[1], e[2], n) <=> e = <<p, x>>
      BY <3>1
    <3>5. <<p, x>> \in Inode \X Name
      BY <3>1, <3>2
    <3> QED BY <3>2, <3>3, <3>4, <3>5
  <2> QED BY <1>2, <2>1 DEF TreeRooted, NoLoop, Live
<1>3. IInv /\ NoLoop /\ [Next]_vars => NoLoop'
  BY LeastOf, StepNoLoop
<1>4. IInv /\ NoLoop => TreeRooted
  BY <1>2
<1> QED BY <1>1, <1>3, <1>4, Invariance, PTL DEF Spec
=============================================================================
