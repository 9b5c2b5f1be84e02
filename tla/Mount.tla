------------------------------- MODULE Mount -------------------------------
(***************************************************************************)
(* The partition table fs_entries: which partition is the root, what is    *)
(* mounted where, and the "cleanly unmounted" bit of each partition across *)
(* mounting, halting and power loss (src/kernel/fs/mount/mount.c, the end  *)
(* of block_init and sys_halt).  The directories of /mnt come and go as    *)
(* Namespace describes; only what mount_fs needs of them is kept.          *)
(***************************************************************************)
EXTENDS Integers, FiniteSetsExt

CONSTANTS
    MAX_MOUNTS,     \* the slots of fs_entries
    Label,          \* volume names: "" is blank
    Slashed,        \* the ones that contain a '/'
    Inode           \* inode numbers of the directories in /mnt, without 0

ASSUME MountAssumption ==
    /\ MAX_MOUNTS \in Nat \ {0} /\ "deprecatOS" \in Label /\ "" \in Label
    /\ Slashed \subseteq Label \ {"", ".", "..", "deprecatOS"} /\ 0 \notin Inode

Slot == 0 .. MAX_MOUNTS - 1

VARIABLES
    present,    \* sector_count # 0: an ext2 partition fill_partition_entry took
    vol_name,   \* in the superblock on disk
    valid,      \* FS_STATE_VALID_BIT of fs_state, on disk
    label,      \* of the fs_info
    mountpoint, \* 0 while not mounted
    mnt,        \* the directories of /mnt: 0 where a name is missing
    halted

disk == <<present, vol_name, mnt>>
vars == <<present, vol_name, valid, label, mountpoint, mnt, halted>>

\* block_init: the first partition called deprecatOS.
root == Min({i \in Slot : present[i] /\ vol_name[i] = "deprecatOS"})

\* The partition a label given to mount_fs or umount_fs selects.
Selected(l) == {i \in Slot : i > root /\ present[i] /\ label[i] = l}

Mounted == {i \in Slot : mountpoint[i] # 0}

\* return_mnt_root and return_mnt_mountpoint on <<partition, inode>>; root
\* inodes are written "root".
return_mnt_root(f, n) ==
    LET on == {i \in Slot : mountpoint[i] = n}
    IN IF f = root /\ on # {} THEN <<Min(on), "root">> ELSE <<f, n>>

return_mnt_mountpoint(f, n) ==
    IF f # root /\ n = "root" THEN <<root, mountpoint[f]>> ELSE <<f, n>>

\* mark_fs_state.
mark_fs_state_OnlySets(v, i, set_valid) == [v EXCEPT ![i] = @ \/ set_valid]

mark_fs_state(v, i, set_valid) == [v EXCEPT ![i] = set_valid]

\* A label whose first character mount_fs overwrites with '\0'.
Blanked(i) == [label EXCEPT ![i] = ""]

-----------------------------------------------------------------------------
\* The state block_init and mount_init leave behind, whatever the drives hold.
Init ==
    /\ present \in [Slot -> BOOLEAN]
    /\ vol_name \in [Slot -> Label]
    /\ \E i \in Slot : present[i] /\ vol_name[i] = "deprecatOS"
    /\ \A i \in Slot : ~present[i] => vol_name[i] = ""
    /\ \E v \in BOOLEAN : valid = mark_fs_state([i \in Slot |-> v], root, FALSE)
    /\ label = vol_name
    /\ mountpoint = [i \in Slot |-> 0]
    /\ mnt = [l \in Label |-> 0]
    /\ halted = FALSE

\* mount_fs: every early return leaves the state alone, but a name with a '/'
\* also blanks the label.
MountFs(l) ==
    LET i == Min(Selected(l)) IN
    /\ ~halted /\ Selected(l) # {}
    /\ mountpoint[i] = 0 /\ l \notin {".", ".."}
    /\ IF vol_name[i] \in Slashed
       THEN /\ label' = Blanked(i)
            /\ UNCHANGED <<valid, mountpoint>>
       ELSE /\ l # "" /\ Selected(l) = {i}
            /\ mnt[l] # 0
            /\ mountpoint' = [mountpoint EXCEPT ![i] = mnt[l]]
            /\ valid' = mark_fs_state(valid, i, FALSE)
            /\ UNCHANGED label
    /\ UNCHANGED <<disk, halted>>

UmountFs(l) ==
    LET i == Min(Selected(l)) IN
    /\ ~halted /\ Selected(l) # {} /\ mountpoint[i] # 0
    /\ valid' = mark_fs_state(valid, i, TRUE)
    /\ mountpoint' = [mountpoint EXCEPT ![i] = 0]
    /\ UNCHANGED <<disk, label, halted>>

\* sys_halt: umount_fs by label for every mounted slot, then the root.
Unmounts == {Min(Selected(label[i])) : i \in Mounted}

SysHalt_RootForgotten ==
    /\ ~halted
    /\ valid' = [i \in Slot |-> i \in Unmounts \/ valid[i]]
    /\ mountpoint' = [i \in Slot |-> IF i \in Unmounts THEN 0 ELSE mountpoint[i]]
    /\ halted' = TRUE
    /\ UNCHANGED <<disk, label>>

SysHalt ==
    /\ ~halted
    /\ valid' = [i \in Slot |-> i \in Unmounts \cup {root} \/ valid[i]]
    /\ mountpoint' = [i \in Slot |-> IF i \in Unmounts THEN 0 ELSE mountpoint[i]]
    /\ halted' = TRUE
    /\ UNCHANGED <<disk, label>>

\* Power goes, after a halt or without one, and the kernel boots again.
Restart ==
    /\ valid' = mark_fs_state(valid, root, FALSE)
    /\ label' = vol_name
    /\ mountpoint' = [i \in Slot |-> 0]
    /\ halted' = FALSE
    /\ UNCHANGED disk

\* make_dir, and unlink_dir with its return_mnt_root test, in /mnt.
MakeMntDir(l, n) ==
    /\ ~halted /\ mnt[l] = 0 /\ l \notin {"", ".", ".."} \cup Slashed
    /\ \A k \in Label : mnt[k] # n
    /\ mnt' = [mnt EXCEPT ![l] = n]
    /\ UNCHANGED <<present, vol_name, valid, label, mountpoint, halted>>

UnlinkMntDir_Busy(l) ==
    /\ ~halted /\ mnt[l] # 0
    /\ mnt' = [mnt EXCEPT ![l] = 0]
    /\ UNCHANGED <<present, vol_name, valid, label, mountpoint, halted>>

UnlinkMntDir(l) ==
    /\ ~halted /\ mnt[l] # 0
    /\ return_mnt_root(root, mnt[l]) = <<root, mnt[l]>>
    /\ mnt' = [mnt EXCEPT ![l] = 0]
    /\ UNCHANGED <<present, vol_name, valid, label, mountpoint, halted>>

Next ==
    \/ \E l \in Label : MountFs(l) \/ UmountFs(l)
    \/ SysHalt \/ Restart
    \/ \E l \in Label, n \in Inode : MakeMntDir(l, n)
    \/ \E l \in Label : UnlinkMntDir(l)

Spec == Init /\ [][Next]_vars
-----------------------------------------------------------------------------
TypeOK ==
    /\ present \in [Slot -> BOOLEAN] /\ vol_name \in [Slot -> Label]
    /\ valid \in [Slot -> BOOLEAN] /\ label \in [Slot -> Label]
    /\ mountpoint \in [Slot -> Inode \cup {0}]
    /\ mnt \in [Label -> Inode \cup {0}]
    /\ halted \in BOOLEAN

\* Walking down into a mounted partition and back up gets to where one was:
\* return_mnt_root finds the partition by its mountpoint's inode number, so
\* no two partitions may share one, even after directories of /mnt were
\* removed and their numbers reused.
CrossingInverts ==
    /\ TypeOK
    /\ \A i \in Mounted :
         /\ return_mnt_root(root, mountpoint[i]) = <<i, "root">>
         /\ return_mnt_mountpoint(i, "root") = <<root, mountpoint[i]>>

\* A partition in use is marked as not cleanly unmounted, so that losing power
\* at any time is noticed by the next mount.
InUseIsDirty ==
    ~halted => \A i \in Mounted \cup {root} : ~valid[i]

\* sys_halt reaches every partition in use through its label: none is left
\* mounted or marked as not cleanly unmounted.
HaltCleansAll ==
    [][halted' /\ ~halted =>
         /\ \A i \in Mounted \cup {root} : valid'[i]
         /\ Mounted' = {}]_vars
=============================================================================
