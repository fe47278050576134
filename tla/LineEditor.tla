----------------------------- MODULE LineEditor -----------------------------
(***************************************************************************)
(* What the keyboard driver promises to read(STD_IN_FD): a line the user    *)
(* types and corrects, handed over when ENTER is pressed (syscall.c, case   *)
(* 0x03: "the task will wait until an enter, and the input will be sent     *)
(* directly to the task").                                                  *)
(***************************************************************************)
EXTENDS Naturals, Sequences

CONSTANTS Capacity,  \* longest line that is kept
          Char,      \* printable characters, Space among them
          Space,
          TabWidth,  \* spaces a tab stands for
          Count      \* byte counts read() is called with

VARIABLES line,      \* the line being typed
          request,   \* byte counts of the read() that waits, <<>> if none
          received   \* what the last read() got

levars == <<line, request, received>>

LEInit == line = <<>> /\ request = <<>> /\ received = <<>>

Ask(n) ==
  /\ request = <<>>
  /\ request' = <<n>>
  /\ UNCHANGED <<line, received>>

Type(c) ==
  /\ Len(line) < Capacity
  /\ line' = Append(line, c)
  /\ UNCHANGED <<request, received>>

Tab ==
  /\ Len(line) + TabWidth <= Capacity
  /\ line' = line \o [i \in 1 .. TabWidth |-> Space]
  /\ UNCHANGED <<request, received>>

Erase ==
  /\ line # <<>>
  /\ line' = SubSeq(line, 1, Len(line) - 1)
  /\ UNCHANGED <<request, received>>

\* The reader gets the line, cut to the length it asked for.
Deliver ==
  /\ request # <<>>
  /\ received' = SubSeq(line, 1, IF Len(line) < request[1] THEN Len(line)
                                 ELSE request[1])
  /\ line' = <<>>
  /\ request' = <<>>

LENext ==
  \/ \E n \in Count : Ask(n)
  \/ \E c \in Char : Type(c)
  \/ Tab \/ Erase \/ Deliver

LESpec == LEInit /\ [][LENext]_levars
=============================================================================
