----------------------------- MODULE MountProofs -----------------------------
(***************************************************************************)
(* Proofs about the mount table for every number of slots, every set of    *)
(* volume names and every arrangement of partitions.                       *)
(***************************************************************************)
EXTENDS Mount, WellFoundedInduction, TLAPS

\* Leaves are tried with the SMT solver and then with Zenon, within 30 seconds.
USE SMTT(30), ZenonT(30)

Roots == {i \in Slot : present[i] /\ vol_name[i] = "deprecatOS"}

\* block_init found a root partition.
RootFound == Roots # {}

\* Two names in /mnt lead to two directories.
OneName ==
    \A k, l \in Label : mnt[k] # 0 /\ mnt[k] = mnt[l] => k = l

\* A mounted partition is the only one with its label, and the directory of
\* that name is its mountpoint.
ByLabel ==
    \A i \in Mounted :
        /\ label[i] # "" /\ Selected(label[i]) = {i}
        /\ mountpoint[i] = mnt[label[i]]

IInv ==
    /\ TypeOK
    /\ RootFound
    /\ OneName
    /\ ByLabel
    /\ InUseIsDirty

-----------------------------------------------------------------------------
\* The least element that Min chooses is there, for slots.
LEMMA MinSlot ==
    ASSUME NEW S \in SUBSET Slot, S # {}
    PROVE  Min(S) \in S /\ \A y \in S : Min(S) <= y
<1>1. MAX_MOUNTS \in Nat
  BY MountAssumption
<1>2. \A i \in Slot : i \in Nat
  BY <1>1 DEF Slot
<1>3. S \subseteq Nat
  BY <1>2
<1>4. PICK x \in S : \A y \in S : ~(<<y, x>> \in OpToRel(<, Nat))
  BY <1>3, NatLessThanWellFounded, WFMin
<1>5. ASSUME NEW y \in S PROVE x <= y
  <2>1. x \in Nat /\ y \in Nat
    BY <1>3
  <2>2. ~(y < x)
    <3>1. y < x => <<y, x>> \in {ss \in Nat \X Nat : ss[1] < ss[2]}
      BY <2>1
    <3> QED BY <1>4, <3>1 DEF OpToRel
  <2> QED BY <2>1, <2>2
<1> QED BY <1>5 DEF Min

LEMMA MinSingle ==
    ASSUME NEW i \in Slot
    PROVE  Min({i}) = i
BY MinSlot

\* The root partition is a slot, and stays the same one.
LEMMA RootSlot ==
    ASSUME RootFound
    PROVE  root \in Slot /\ present[root]
BY MinSlot DEF RootFound, Roots, root

LEMMA SameRoot ==
    ASSUME UNCHANGED disk
    PROVE  root' = root /\ Roots' = Roots
BY DEF disk, root, Roots

LEMMA SelectedSlots ==
    ASSUME NEW l, Selected(l) # {}
    PROVE  /\ Min(Selected(l)) \in Slot
           /\ Min(Selected(l)) \in Selected(l)
BY MinSlot DEF Selected

LEMMA Behind ==
    ASSUME RootFound, NEW l, NEW i \in Selected(l)
    PROVE  i # root
<1>1. MAX_MOUNTS \in Nat
  BY MountAssumption
<1>2. \A k \in Slot : ~(k > k)
  BY <1>1 DEF Slot
<1>3. i \in Slot /\ i > root
  BY DEF Selected
<1> QED BY <1>2, <1>3

-----------------------------------------------------------------------------
LEMMA InitIInv == Init => IInv
<1> SUFFICES ASSUME Init PROVE IInv
  OBVIOUS
<1>1. RootFound
  BY DEF Init, RootFound, Roots
<1>2. Mounted = {}
  BY DEF Init, Mounted
<1>3. TypeOK
  BY MountAssumption DEF Init, TypeOK, mark_fs_state
<1>4. OneName /\ ByLabel
  BY <1>2 DEF Init, OneName, ByLabel
<1>5. ~valid[root]
  BY <1>1, RootSlot DEF Init, mark_fs_state
<1> QED BY <1>1, <1>2, <1>3, <1>4, <1>5 DEF IInv, InUseIsDirty

\* mount_fs: the new mountpoint is the directory of the label, which no other
\* partition has; a label with a '/' only loses its text.
LEMMA MountPreserves ==
    ASSUME IInv, NEW l \in Label, MountFs(l)
    PROVE  IInv'
<1> DEFINE i == Min(Selected(l))
<1>1. i \in Slot /\ i \in Selected(l) /\ mountpoint[i] = 0 /\ label[i] = l
  BY SelectedSlots DEF MountFs, Selected
<1>2. root' = root /\ Roots' = Roots /\ root \in Slot
  BY SameRoot, RootSlot DEF MountFs, IInv
<1>3. RootFound' /\ OneName'
  BY <1>2 DEF IInv, RootFound, OneName, MountFs, disk
<1>4. CASE vol_name[i] \in Slashed
  <2>1. /\ label' = [label EXCEPT ![i] = ""]
        /\ UNCHANGED <<present, vol_name, valid, mountpoint, mnt, halted>>
    BY <1>4 DEF MountFs, Blanked, disk
  <2>2. TypeOK'
    BY <1>1, <2>1, MountAssumption DEF IInv, TypeOK
  <2>3. Mounted' = Mounted /\ i \notin Mounted
    BY <1>1, <2>1 DEF Mounted
  <2>4. ASSUME NEW j \in Mounted
        PROVE  /\ label'[j] = label[j] /\ label[j] # ""
               /\ Selected(label[j])' = Selected(label[j])
    <3>1. j # i /\ j \in Slot /\ label[j] # "" /\ Selected(label[j]) = {j}
      BY <2>3 DEF IInv, ByLabel, Mounted
    <3>2. label'[j] = label[j]
      BY <2>1, <3>1 DEF IInv, TypeOK
    <3>3. \A k \in Slot : (label'[k] = label[j]) => (label[k] = label[j])
      BY <2>1, <3>1 DEF IInv, TypeOK
    <3>4. Selected(label[j])' = {j}
      BY <1>2, <2>1, <3>1, <3>2, <3>3 DEF Selected
    <3> QED BY <3>1, <3>2, <3>4
  <2>5. ByLabel'
    BY <2>1, <2>3, <2>4 DEF IInv, ByLabel
  <2>6. InUseIsDirty'
    BY <1>2, <2>1, <2>3 DEF IInv, InUseIsDirty
  <2> QED BY <1>3, <2>2, <2>5, <2>6 DEF IInv
<1>5. CASE vol_name[i] \notin Slashed
  <2>1. /\ mountpoint' = [mountpoint EXCEPT ![i] = mnt[l]]
        /\ valid' = [valid EXCEPT ![i] = FALSE]
        /\ l # "" /\ Selected(l) = {i} /\ mnt[l] # 0
        /\ UNCHANGED <<present, vol_name, label, mnt, halted>>
    BY <1>5 DEF MountFs, mark_fs_state, disk
  <2>2. TypeOK'
    BY <1>1, <2>1 DEF IInv, TypeOK
  <2>3. Mounted' = Mounted \cup {i}
    BY <1>1, <2>1 DEF IInv, TypeOK, Mounted
  <2>4. \A k : Selected(k)' = Selected(k)
    BY <1>2, <2>1 DEF Selected
  <2>5. ByLabel'
    <3>1. ASSUME NEW j \in Mounted'
          PROVE  /\ label[j] # "" /\ Selected(label[j]) = {j}
                 /\ mountpoint'[j] = mnt[label[j]]
      <4>1. CASE j = i
        BY <1>1, <2>1, <4>1 DEF IInv, TypeOK
      <4>2. CASE j # i
        BY <2>1, <2>3, <4>2 DEF IInv, TypeOK, ByLabel, Mounted
      <4> QED BY <4>1, <4>2
    <3>2. ASSUME NEW j \in Mounted'
          PROVE  Selected(label[j])' = {j} /\ label'[j] = label[j]
      BY <2>1, <2>4, <3>1
    <3> QED BY <2>1, <3>1, <3>2 DEF ByLabel
  <2>6. InUseIsDirty'
    BY <1>1, <1>2, <2>1, <2>3, ZenonT(30) DEF IInv, InUseIsDirty, TypeOK, Mounted
  <2> QED BY <1>3, <2>2, <2>5, <2>6 DEF IInv
<1> QED BY <1>4, <1>5

\* umount_fs takes away one mountpoint, and leaves the root alone.
LEMMA UmountPreserves ==
    ASSUME IInv, NEW l \in Label, UmountFs(l)
    PROVE  IInv'
<1> DEFINE i == Min(Selected(l))
<1>1. i \in Slot /\ i \in Selected(l)
  BY SelectedSlots DEF UmountFs
<1>2. root' = root /\ Roots' = Roots /\ root \in Slot
  BY SameRoot, RootSlot DEF UmountFs, IInv
<1>3. i # root
  BY <1>1, Behind DEF IInv
<1>4. /\ mountpoint' = [mountpoint EXCEPT ![i] = 0]
      /\ valid' = [valid EXCEPT ![i] = TRUE]
      /\ UNCHANGED <<present, vol_name, label, mnt, halted>>
  BY DEF UmountFs, mark_fs_state, disk
<1>5. TypeOK'
  BY <1>1, <1>4 DEF IInv, TypeOK
<1>6. Mounted' = Mounted \ {i}
  BY <1>1, <1>4 DEF IInv, TypeOK, Mounted
<1>7. RootFound' /\ OneName'
  BY <1>2, <1>4 DEF IInv, RootFound, OneName
<1>8. \A k : Selected(k)' = Selected(k)
  BY <1>2, <1>4 DEF Selected
<1>9. ByLabel'
  <2>1. ASSUME NEW j \in Mounted'
        PROVE  /\ label[j] # "" /\ Selected(label[j]) = {j}
               /\ mountpoint'[j] = mnt[label[j]]
    BY <1>4, <1>6 DEF IInv, TypeOK, ByLabel, Mounted
  <2>2. ASSUME NEW j \in Mounted'
        PROVE  Selected(label[j])' = {j} /\ label'[j] = label[j]
    BY <1>4, <1>8, <2>1
  <2> QED BY <1>4, <2>1, <2>2 DEF ByLabel
<1>10. InUseIsDirty'
  BY <1>2, <1>3, <1>4, <1>6 DEF IInv, InUseIsDirty, TypeOK, Mounted
<1> QED BY <1>5, <1>7, <1>9, <1>10 DEF IInv

\* sys_halt reaches exactly the mounted partitions through their labels.
LEMMA HaltReachesMounted ==
    ASSUME IInv
    PROVE  Unmounts = Mounted
<1>1. ASSUME NEW i \in Mounted PROVE Min(Selected(label[i])) = i
  BY MinSingle DEF IInv, ByLabel, Mounted
<1> QED BY <1>1 DEF Unmounts

LEMMA HaltPreserves ==
    ASSUME IInv, SysHalt
    PROVE  IInv'
<1>1. Unmounts = Mounted
  BY HaltReachesMounted
<1>2. /\ valid' = [i \in Slot |-> i \in Unmounts \cup {root} \/ valid[i]]
      /\ mountpoint' = [i \in Slot |-> IF i \in Unmounts THEN 0 ELSE mountpoint[i]]
      /\ halted' = TRUE
      /\ UNCHANGED <<present, vol_name, label, mnt>>
  BY DEF SysHalt, disk
<1>3. Mounted' = {}
  BY <1>1, <1>2 DEF Mounted
<1>4. TypeOK'
  <2>1. valid' \in [Slot -> BOOLEAN]
    BY <1>2 DEF IInv, TypeOK
  <2>2. mountpoint' \in [Slot -> Inode \cup {0}]
    BY <1>2 DEF IInv, TypeOK
  <2> QED BY <1>2, <2>1, <2>2 DEF IInv, TypeOK
<1>5. RootFound' /\ OneName'
  BY <1>2, SameRoot DEF IInv, RootFound, OneName, disk
<1> QED BY <1>2, <1>3, <1>4, <1>5 DEF IInv, ByLabel, InUseIsDirty

LEMMA RestartPreserves ==
    ASSUME IInv, Restart
    PROVE  IInv'
<1>1. root' = root /\ Roots' = Roots /\ root \in Slot
  BY SameRoot, RootSlot DEF Restart, IInv
<1>2. Mounted' = {}
  BY DEF Restart, Mounted
<1>3. TypeOK'
  BY MountAssumption DEF IInv, TypeOK, Restart, mark_fs_state, disk
<1>4. RootFound' /\ OneName' /\ ByLabel'
  BY <1>1, <1>2 DEF IInv, RootFound, OneName, ByLabel, Restart, disk
<1>5. InUseIsDirty'
  BY <1>1, <1>2 DEF IInv, TypeOK, InUseIsDirty, Restart, mark_fs_state
<1> QED BY <1>3, <1>4, <1>5 DEF IInv

\* Directories come and go in /mnt, but not the ones in use.
LEMMA MntDirPreserves ==
    ASSUME IInv, NEW l \in Label,
           \/ \E n \in Inode : MakeMntDir(l, n)
           \/ UnlinkMntDir(l)
    PROVE  IInv'
<1>1. UNCHANGED <<present, vol_name, valid, label, mountpoint, halted>>
  BY DEF MakeMntDir, UnlinkMntDir
<1>2. root' = root /\ Roots' = Roots /\ Mounted' = Mounted
  BY <1>1 DEF root, Roots, Mounted
<1>3. \A k : Selected(k)' = Selected(k)
  BY <1>1, <1>2 DEF Selected
<1>4. TypeOK' /\ OneName'
  <2>1. CASE \E n \in Inode : MakeMntDir(l, n)
    <3>1. PICK n \in Inode : MakeMntDir(l, n)
      BY <2>1
    <3>2. mnt' = [mnt EXCEPT ![l] = n] /\ \A k \in Label : mnt[k] # n
      BY <3>1 DEF MakeMntDir
    <3> QED BY <1>1, <3>2 DEF IInv, TypeOK, OneName
  <2>2. CASE UnlinkMntDir(l)
    <3>1. mnt' = [mnt EXCEPT ![l] = 0]
      BY <2>2 DEF UnlinkMntDir
    <3> QED BY <1>1, <3>1 DEF IInv, TypeOK, OneName
  <2> QED BY <2>1, <2>2
<1>5. ASSUME NEW i \in Mounted PROVE mnt'[label[i]] = mountpoint[i]
  <2>1. i \in Slot /\ mountpoint[i] # 0 /\ mountpoint[i] = mnt[label[i]] /\ label[i] \in Label
    BY DEF IInv, TypeOK, ByLabel, Mounted
  <2>2. CASE \E n \in Inode : MakeMntDir(l, n)
    BY <2>1, <2>2 DEF IInv, TypeOK, MakeMntDir
  <2>3. CASE UnlinkMntDir(l)
    <3>1. label[i] # l
      <4> DEFINE on == {k \in Slot : mountpoint[k] = mnt[l]}
      <4>1. SUFFICES ASSUME i \in on PROVE FALSE
        BY <2>1
      <4>2. return_mnt_root(root, mnt[l]) = <<Min(on), "root">>
        BY <4>1 DEF return_mnt_root
      <4>3. Min(on) \in on
        BY <4>1, MinSlot
      <4>4. Min(on) \in Selected(label[Min(on)])
        BY <2>1, <4>1, <4>3 DEF IInv, ByLabel, Mounted
      <4>5. Min(on) # root
        BY <4>4, Behind DEF IInv
      <4> HIDE DEF on
      <4> QED BY <2>3, <4>2, <4>5 DEF UnlinkMntDir
    <3> QED BY <2>1, <2>3, <3>1 DEF IInv, TypeOK, UnlinkMntDir
  <2> QED BY <2>2, <2>3
<1>6. ByLabel'
  <2>1. ASSUME NEW i \in Mounted'
        PROVE  label'[i] = label[i] /\ Selected(label[i])' = {i}
    BY <1>1, <1>2, <1>3 DEF IInv, ByLabel
  <2> QED BY <1>1, <1>2, <1>5, <2>1 DEF IInv, ByLabel
<1>7. RootFound' /\ InUseIsDirty'
  BY <1>1, <1>2 DEF IInv, RootFound, InUseIsDirty
<1> QED BY <1>4, <1>6, <1>7 DEF IInv

LEMMA Invariance == Spec => []IInv
<1>1. ASSUME IInv, UNCHANGED vars PROVE IInv'
  <2>1. root' = root /\ Roots' = Roots /\ Mounted' = Mounted
    BY <1>1 DEF vars, root, Roots, Mounted
  <2>2. ASSUME NEW i \in Mounted PROVE Selected(label[i])' = Selected(label[i])
    BY <1>1, <2>1 DEF vars, Selected
  <2> QED BY <1>1, <2>1, <2>2 DEF IInv, vars, TypeOK, RootFound, OneName, ByLabel, InUseIsDirty
<1>2. ASSUME IInv, [Next]_vars PROVE IInv'
  BY <1>1, <1>2, MountPreserves, UmountPreserves, HaltPreserves, RestartPreserves,
     MntDirPreserves DEF Next
<1> QED BY <1>2, InitIInv, PTL DEF Spec

\* For any number of slots and any labels: the mountpoint of a mounted partition
\* leads into it and out of it again.  Its label, unique since it was mounted,
\* ties the partition to one name in /mnt, and that name to one directory.
THEOREM MountpointsInvert == Spec => []CrossingInverts
<1>1. ASSUME IInv PROVE CrossingInverts
  <2>1. SUFFICES ASSUME NEW i \in Mounted
                 PROVE  /\ return_mnt_root(root, mountpoint[i]) = <<i, "root">>
                        /\ return_mnt_mountpoint(i, "root") = <<root, mountpoint[i]>>
    BY <1>1 DEF IInv, CrossingInverts
  <2>2. i \in Slot /\ mountpoint[i] = mnt[label[i]] /\ Selected(label[i]) = {i}
    BY <1>1 DEF IInv, ByLabel, Mounted
  <2>3. i # root
    BY <1>1, <2>2, Behind DEF IInv
  <2>4. ASSUME NEW k \in Slot, mountpoint[k] = mountpoint[i] PROVE k = i
    <3>1. k \in Mounted
      BY <2>4 DEF Mounted
    <3>2. /\ label[k] \in Label /\ label[i] \in Label
          /\ mountpoint[i] # 0 /\ mountpoint[k] = mnt[label[k]]
      BY <1>1, <2>2, <3>1 DEF IInv, TypeOK, ByLabel, Mounted
    <3>3. label[k] = label[i]
      BY <1>1, <2>2, <2>4, <3>2, ZenonT(30) DEF IInv, OneName
    <3> QED BY <1>1, <2>2, <3>1, <3>3 DEF IInv, ByLabel
  <2>5. {k \in Slot : mountpoint[k] = mountpoint[i]} = {i}
    BY <2>2, <2>4
  <2> QED BY <2>2, <2>3, <2>5, MinSingle DEF return_mnt_root, return_mnt_mountpoint
<1> QED BY <1>1, Invariance, PTL

\* For any number of slots and any labels: until a halt, every partition in use
\* says on disk that it was not cleanly unmounted.
THEOREM UseIsRecorded == Spec => []InUseIsDirty
BY Invariance, PTL DEF IInv

\* For any number of slots and any labels: sys_halt unmounts every mounted
\* partition, although it goes through the labels, and marks all of them and
\* the root clean.
THEOREM HaltIsComplete == Spec => HaltCleansAll
<1>1. ASSUME IInv, [Next]_vars, halted' /\ ~halted
      PROVE  (\A i \in Mounted \cup {root} : valid'[i]) /\ Mounted' = {}
  <2>1. SysHalt
    BY <1>1 DEF Next, vars, MountFs, UmountFs, Restart, MakeMntDir, UnlinkMntDir
  <2>2. Unmounts = Mounted /\ Mounted \subseteq Slot /\ root \in Slot
    BY <1>1, HaltReachesMounted, RootSlot DEF IInv, Mounted
  <2>3. Mounted' = {}
    BY <2>1, <2>2 DEF SysHalt, Mounted
  <2>4. \A i \in Mounted \cup {root} : valid'[i]
    BY <2>1, <2>2, ZenonT(30) DEF SysHalt
  <2> QED BY <2>3, <2>4
<1> QED BY <1>1, Invariance, PTL DEF Spec, HaltCleansAll
=============================================================================
