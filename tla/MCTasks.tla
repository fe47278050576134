------------------------------ MODULE MCTasks ------------------------------
(* The workloads of Tasks' runs: which system calls the programs make.      *)
(* A run leaves out a call only where that call is known to break the       *)
(* property (see the divergences in README.md).                             *)
EXTENDS Tasks

AllCalls == AllOps

\* Without the calls whose divergences would hide everything else: wait
\* (saved registers) and execve of a rejected file (page tables).
Contained == AllOps \ {"wait", "badexec"}

\* Parents, children and signals, without returning from a handler.
Families == {"exit", "fork", "execve", "wait", "read", "sigreg", "other"}

\* Programs that only fork, read and exit: each gives up the CPU.
Yielding == {"exit", "fork", "read"}
=============================================================================
