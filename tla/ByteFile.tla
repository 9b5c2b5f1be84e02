------------------------------ MODULE ByteFile ------------------------------
(***************************************************************************)
(* What the block layer promises of a file: a sequence of bytes that is    *)
(* appended to, cut, or rewritten as a whole.  An operation that runs out  *)
(* of blocks leaves the file as it was, except that a failed rewrite       *)
(* leaves it empty.  An append may take the file past Limit bytes, and     *)
(* from then on nothing is promised.                                       *)
(***************************************************************************)
EXTENDS Sequences, Integers

CONSTANTS Byte, Buffers, ZERO, MaxSize, Limit, LOST

VARIABLE file   \* <<>> when there is no file, <<content>>, or LOST

Init == file = <<>> \/ \E n \in 0 .. Limit : file = << [i \in 1 .. n |-> ZERO] >>

Create(buf) == file = <<>> /\ file' = <<buf>>

Append_(buf) ==
    /\ file \notin {<<>>, LOST}
    /\ Len(file[1]) + Len(buf) <= MaxSize
    /\ file' = IF Len(file[1]) + Len(buf) <= Limit THEN << file[1] \o buf >> ELSE LOST

Truncate(n) ==
    /\ file \notin {<<>>, LOST}
    /\ n <= Len(file[1])
    /\ file' = << SubSeq(file[1], 1, n) >>

Rewrite(buf) ==
    /\ file \notin {<<>>, LOST}
    /\ file' = <<buf>> \/ file' = << <<>> >>

Delete == file \notin {<<>>, LOST} /\ file' = <<>>

Next ==
    \/ \E buf \in Buffers : Create(buf) \/ Append_(buf) \/ Rewrite(buf)
    \/ \E n \in 0 .. Limit : Truncate(n)
    \/ Delete

Spec == Init /\ [][Next]_file
=============================================================================
