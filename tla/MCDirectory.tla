---------------------------- MODULE MCDirectory ----------------------------
(***************************************************************************)
(* Names with entries of 12, 16 and 24 bytes (3, 4 and 6 units) in blocks  *)
(* of 10 units: "." and ".." leave 4, the other blocks hold two or three   *)
(* names, and the slack left over fits some names and not others.          *)
(***************************************************************************)
EXTENDS Directory

MCName == {"a", "b", "medium", "quite long name"}
MCWidth(n) == CASE n = "medium" -> 4 [] n = "quite long name" -> 6 [] OTHER -> 3
=============================================================================
