------------------------------ MODULE MCMount ------------------------------
(***************************************************************************)
(* Four slots, every choice of present partitions and of volume names,     *)
(* duplicates, blank ones and ones with a '/' included.                    *)
(***************************************************************************)
EXTENDS Mount

MCLabel == {"deprecatOS", "data", "", "a/b"}
MCSlashed == {"a/b"}
=============================================================================
