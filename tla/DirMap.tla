------------------------------- MODULE DirMap -------------------------------
(***************************************************************************)
(* What a directory promises: a map from names to inode numbers in which   *)
(* "." and ".." are always present.                                        *)
(***************************************************************************)
EXTENDS Functions

CONSTANTS Name, Inode
VARIABLE entries

Init == entries \in [{".", ".."} -> Inode]

Insert(name, n) ==
    /\ name \notin DOMAIN entries
    /\ entries' = [x \in DOMAIN entries \cup {name} |->
                     IF x = name THEN n ELSE entries[x]]

Remove(name) ==
    /\ name \in DOMAIN entries
    /\ entries' = Restrict(entries, DOMAIN entries \ {name})

SetParent(n) == entries' = [entries EXCEPT ![".."] = n]

Next ==
    \/ \E name \in Name, n \in Inode : Insert(name, n)
    \/ \E name \in Name : Remove(name)
    \/ \E n \in Inode : SetParent(n)

Spec == Init /\ [][Next]_entries
=============================================================================
