------------------------------ MODULE Keyboard ------------------------------
(***************************************************************************)
(* The PS/2 keyboard driver's line buffer (Keyboard.c): scan codes come in  *)
(* through IRQ 1, characters collect in key_buffer, and ENTER copies them   *)
(* to the task blocked in read(STD_IN_FD).  Which task that is, and what    *)
(* the interrupt does to saved registers, is modelled in Tasks.             *)
(*                                                                         *)
(* A letter key stands for every key the lookup tables give a character.   *)
(* key_buffer is modelled with TAB more bytes than it has, so that a write  *)
(* past its end would be seen.                                             *)
(***************************************************************************)
EXTENDS Naturals, Sequences

CONSTANTS
  SIZE,        \* bytes of key_buffer (256)
  TAB,         \* spaces written for a tab (4)
  Keys,        \* the keys pressed in this run
  ByteCounts   \* the rcx of the read() calls in this run

\* "backspace_empty" is the backspace key on an empty line.
AllKeys == {"letter", "backspace", "backspace_empty", "tab", "shift",
            "capslock", "enter"}

ASSUME KeyboardAssumption ==
  /\ SIZE \in Nat /\ TAB \in Nat /\ TAB >= 1 /\ SIZE >= TAB
  /\ Keys \subseteq AllKeys
  /\ ByteCounts \subseteq Nat

VARIABLES
  key_buffer, key_buffer_pos,
  upper, capslock,  \* the shift and caps lock flags
  reader,           \* <<rcx>> of the waiting task, <<>> when there is none
  buffer            \* what the last reader's buffer was given

kbvars == <<key_buffer, key_buffer_pos, upper, capslock, reader, buffer>>

Letters == {"a", "A"}
Bytes == Letters \cup {"nul", "space", "bs", "ht"}
Index == 0 .. SIZE + TAB

\* KeyCode_To_Char of a letter key.
Letter == IF upper # capslock THEN "A" ELSE "a"

\* The first n bytes of key_buffer.
Prefix(n) == [i \in 1 .. n |-> key_buffer[i - 1]]

----------------------------------------------------------------------------

KbInit ==
  /\ key_buffer = [i \in Index |-> "nul"]
  /\ key_buffer_pos = 0
  /\ upper = FALSE
  /\ capslock = FALSE
  /\ reader = <<>>
  /\ buffer = <<>>

\* read(STD_IN_FD).
StdinRead(n) ==
  /\ reader = <<>>
  /\ reader' = <<n>>
  /\ UNCHANGED <<key_buffer, key_buffer_pos, upper, capslock, buffer>>

Shift(release) ==
  /\ "shift" \in Keys
  /\ upper' = ~release
  /\ UNCHANGED <<key_buffer, key_buffer_pos, capslock, reader, buffer>>

\* Press and release alike.
CapsLock ==
  /\ "capslock" \in Keys
  /\ capslock' = ~capslock
  /\ UNCHANGED <<key_buffer, key_buffer_pos, upper, reader, buffer>>

\* Mutant of Put: the end of the buffer is not looked at.
Put_Unchecked(c) ==
  /\ key_buffer_pos < SIZE + TAB
  /\ key_buffer' = [key_buffer EXCEPT ![key_buffer_pos] = c]
  /\ key_buffer_pos' = key_buffer_pos + 1

\* The last branch for a printable key.
Put(c) ==
  /\ key_buffer_pos < SIZE
  /\ key_buffer' = [key_buffer EXCEPT ![key_buffer_pos] = c]
  /\ key_buffer_pos' = key_buffer_pos + 1

PressLetter ==
  /\ "letter" \in Keys
  /\ Put(Letter)
  /\ UNCHANGED <<upper, capslock, reader, buffer>>

\* On an empty line the backspace is stored.
PressBackspace ==
  /\ \/ /\ "backspace" \in Keys
        /\ key_buffer_pos > 0
        /\ key_buffer_pos' = key_buffer_pos - 1
        /\ UNCHANGED key_buffer
     \/ /\ "backspace_empty" \in Keys
        /\ key_buffer_pos = 0
        /\ Put("bs")
  /\ UNCHANGED <<upper, capslock, reader, buffer>>

\* Mutant of RoomForTab: one byte too many.
RoomForTab_OffByOne == key_buffer_pos <= SIZE - TAB

RoomForTab == key_buffer_pos < SIZE - TAB

\* memset(&key_buffer[key_buffer_pos+1], ' ', 4); near the end of the buffer
\* the tab is stored.
PressTab ==
  /\ "tab" \in Keys
  /\ \/ /\ RoomForTab
        /\ key_buffer' = [i \in Index |->
                            IF i \in key_buffer_pos + 1 .. key_buffer_pos + TAB
                            THEN "space" ELSE key_buffer[i]]
        /\ key_buffer_pos' = key_buffer_pos + TAB
     \/ ~RoomForTab /\ Put("ht")
  /\ UNCHANGED <<upper, capslock, reader, buffer>>

\* Mutant of PressEnter: the next line is not started empty.
PressEnter_KeepsPos ==
  /\ "enter" \in Keys
  /\ reader # <<>>
  /\ buffer' = Prefix(IF key_buffer_pos > reader[1] THEN reader[1]
                      ELSE key_buffer_pos)
  /\ key_buffer' = [i \in Index |-> IF i < SIZE THEN "nul" ELSE key_buffer[i]]
  /\ reader' = <<>>
  /\ UNCHANGED <<key_buffer_pos, upper, capslock>>

\* ENTER with a task waiting; without one it changes nothing.
PressEnter ==
  /\ "enter" \in Keys
  /\ reader # <<>>
  /\ buffer' = Prefix(IF key_buffer_pos > reader[1] THEN reader[1]
                      ELSE key_buffer_pos)
  /\ key_buffer' = [i \in Index |-> IF i < SIZE THEN "nul" ELSE key_buffer[i]]
  /\ key_buffer_pos' = 0
  /\ reader' = <<>>
  /\ UNCHANGED <<upper, capslock>>

KbNext ==
  \/ \E n \in ByteCounts : StdinRead(n)
  \/ \E release \in BOOLEAN : Shift(release)
  \/ CapsLock
  \/ PressLetter \/ PressBackspace \/ PressTab \/ PressEnter

KbSpec == KbInit /\ [][KbNext]_kbvars

----------------------------------------------------------------------------
(* Properties                                                              *)

\* The position never leaves key_buffer.
KbTypeOK ==
  /\ key_buffer \in [Index -> Bytes]
  /\ key_buffer_pos \in 0 .. SIZE
  /\ upper \in BOOLEAN /\ capslock \in BOOLEAN
  /\ reader = <<>> \/ \E n \in ByteCounts : reader = <<n>>
  /\ buffer \in Seq(Bytes)

\* No sequence of letters, tabs and corrections writes past key_buffer.
NoOverrun == \A i \in Index : i >= SIZE => key_buffer[i] = "nul"

Editor == INSTANCE LineEditor WITH
            Capacity <- SIZE, Char <- Letters, Space <- "space",
            TabWidth <- TAB, Count <- ByteCounts,
            line <- Prefix(key_buffer_pos), request <- reader,
            received <- buffer

\* read(STD_IN_FD) gets the line the user typed and corrected, cut to its
\* byte count, and the next line starts empty.
ImplementsLineEditor == Editor!LESpec
=============================================================================
