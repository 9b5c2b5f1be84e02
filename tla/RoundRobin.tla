----------------------------- MODULE RoundRobin -----------------------------
(***************************************************************************)
(* What the scheduler promises: one process runs, the others wait in line. *)
(* "currently uses a round-robin scheduling algorithm"                     *)
(* (docs/process/README.md).                                               *)
(***************************************************************************)
EXTENDS Sequences

CONSTANTS Process, Idle

VARIABLES running, ready

Init == running = Idle /\ ready = << >>

\* The running process goes to the end of the line.
Rotate ==
    /\ ready # << >>
    /\ running' = Head(ready)
    /\ ready' = Append(Tail(ready), running)

\* A new process joins at the end.
Admit(p) ==
    /\ p # running
    /\ \A k \in DOMAIN ready : ready[k] # p
    /\ ready' = Append(ready, p)
    /\ UNCHANGED running

\* The running process leaves for good; the idle process never does.
Retire ==
    /\ running # Idle
    /\ ready # << >>
    /\ running' = Head(ready)
    /\ ready' = Tail(ready)

Next == Rotate \/ Retire \/ \E p \in Process : Admit(p)

Spec == Init /\ [][Next]_<<running, ready>>
=============================================================================
