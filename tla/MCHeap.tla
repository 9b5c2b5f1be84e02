------------------------------- MODULE MCHeap -------------------------------
(***************************************************************************)
(* 36 pages, 4 to a table: 20 of low memory, 8 for the heap, 3 for the    *)
(* user program and one for the framebuffer.  The memory maps have hardly  *)
(* more memory than booting takes, too little for the user program, none   *)
(* left for a table, more than the low memory, a reserved part in the      *)
(* middle, and an entry that reaches past the end of the address space.    *)
(***************************************************************************)
EXTENDS Heap

Entry(base, len) == [base |-> base, len |-> len, baseHi |-> FALSE, lenHi |-> FALSE, usable |-> TRUE]

MCMaps ==
    { <<Entry(0, 2 * n + 1)>> : n \in {12, 13, 18, 21, 27} }
      \cup { <<Entry(0, 15), [Entry(15, 2) EXCEPT !.usable = FALSE], Entry(17, 23)>>,
             <<Entry(1, 38), [Entry(40, 8) EXCEPT !.lenHi = TRUE],
               [Entry(2, 4) EXCEPT !.baseHi = TRUE]>> }

MCRequests == {2, 22}
=============================================================================
