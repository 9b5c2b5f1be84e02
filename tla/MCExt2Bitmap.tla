---- MODULE MCExt2Bitmap ----
(***************************************************************************)
(* Two groups of two bits and two power failures: the search moves on to   *)
(* a second group, and a failure can hit a partition that an earlier one   *)
(* left dirty.                                                             *)
(***************************************************************************)
EXTENDS Ext2Bitmap
====
