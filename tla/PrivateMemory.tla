--------------------------- MODULE PrivateMemory ---------------------------
(***************************************************************************)
(* What fork, execve and the page-fault handler promise to programs: every *)
(* program has a memory of its own.  Fork copies it, execve replaces it by *)
(* the pages of the executable, and nothing else but the program's own      *)
(* stores (and the kernel's copies into its buffers) changes it.           *)
(***************************************************************************)
CONSTANTS Proc,   \* address spaces
          Page,   \* virtual pages of a program
          Val,    \* what a page can hold
          Blank,  \* a page never written
          Image   \* page contents of a loaded executable

VARIABLES mem,    \* per address space, what the program sees
          live    \* the address spaces in use

pmvars == <<mem, live>>

NoMemory == [p \in Page |-> Blank]

PMInit == /\ \E t \in Proc : live = {t}
          /\ mem = [t \in Proc |-> IF t \in live THEN Image ELSE NoMemory]

Store(t, p, v) ==
  /\ t \in live
  /\ mem' = [mem EXCEPT ![t][p] = v]
  /\ live' = live

Copy(t, u) ==
  /\ t \in live /\ u \notin live
  /\ mem' = [mem EXCEPT ![u] = mem[t]]
  /\ live' = live \cup {u}

Replace(t, u) ==
  /\ t \in live /\ u \notin live
  /\ mem' = [mem EXCEPT ![t] = NoMemory, ![u] = Image]
  /\ live' = (live \ {t}) \cup {u}

End(t) ==
  /\ t \in live
  /\ mem' = [mem EXCEPT ![t] = NoMemory]
  /\ live' = live \ {t}

PMNext ==
  \/ \E t \in Proc, p \in Page, v \in Val \ {Blank} : Store(t, p, v)
  \/ \E t, u \in Proc : Copy(t, u) \/ Replace(t, u)
  \/ \E t \in Proc : End(t)

PMSpec == PMInit /\ [][PMNext]_pmvars
=============================================================================
