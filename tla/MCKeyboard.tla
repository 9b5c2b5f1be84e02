---------------------------- MODULE MCKeyboard -----------------------------
(***************************************************************************)
(* A letter, a shift key, an extended key, a lock key and Pause; a buffer  *)
(* of three slots, so that it fills and its indices wrap.                  *)
(***************************************************************************)
EXTENDS Keyboard

MCUsed == {"A", "LSHIFT", "UP", "CAPSLOCK", "PAUSE"}
=============================================================================
