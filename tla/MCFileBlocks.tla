---- MODULE MCFileBlocks ----
(***************************************************************************)
(* A small layout: with one direct pointer a few blocks already reach the  *)
(* doubly indirect one, and the partition runs out at every level.         *)
(***************************************************************************)
EXTENDS FileBlocks

CONSTANTS
    Sizes,      \* of the host-made files
    Lengths,    \* the lengths of the buffers
    MaxMapped   \* how many blocks of a host-made file are not holes

\* Buffers in which no byte occurs twice.
MCByte == 1 .. MaxSize
MCBuffers == {[i \in 1 .. n |-> i] : n \in Lengths}

MCHoles == {h \in Sizes \X SUBSET (0 .. (P * P - 1)) :
              /\ Cardinality(h[2]) <= MaxMapped
              /\ \A i \in h[2] : i < BlockCnt(h[1])}
====
