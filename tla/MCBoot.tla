---- MODULE MCBoot ----
(***************************************************************************)
(* One boot with the queue at its real size and the one process the kernel *)
(* creates.                                                                *)
(***************************************************************************)
EXTENDS Boot
====
