------------------------------ MODULE MCEditor ------------------------------
(***************************************************************************)
(* A text of at most four characters in a window of two rows and two       *)
(* columns: the text can be longer than the window in both directions, and *)
(* the gap can close.                                                      *)
(***************************************************************************)
EXTENDS Editor
=============================================================================
