------------------------------ MODULE Terminal ------------------------------
(***************************************************************************)
(* The virtual terminals of terminal.c: virtualprint appends a text to a   *)
(* terminal's bytes, and refreshTerminals draws both terminals from their  *)
(* bytes, cell by cell.                                                    *)
(*                                                                         *)
(* handle_syscall turns interrupts on (mem_set_cr3(..., true)), with the   *)
(* timer masked, before it prints.  So a key can be pressed between any    *)
(* two steps of a system call's virtualprint, and the keyboard handler     *)
(* prints the key to the program's terminal; nothing interrupts that one.  *)
(* Colours, and the names in the terminals' first row, are left out;        *)
(* control characters have their names.                                    *)
(***************************************************************************)
EXTENDS Integers, Sequences

CONSTANTS
  VGA_WIDTH, VGA_HEIGHT,
  UINT8,        \* 256: WriteCharacter's column is a uint8_t
  Logged,       \* texts system calls print to the kernel's terminal
  Written,      \* texts programs write
  Echoed,       \* characters the keyboard handler prints
  MaxPrints     \* bound: texts printed

\* The texts are no longer than the 128 characters virtualprint takes.
ASSUME TerminalAssumption ==
  /\ VGA_WIDTH \in Nat \ {0} /\ VGA_WIDTH % 2 = 0 /\ VGA_HEIGHT \in Nat \ {0}
  /\ UINT8 \in Nat /\ UINT8 > VGA_WIDTH
  /\ MaxPrints \in Nat

VARIABLES
  terms,     \* bytes and lastPos of each terminal
  screen,    \* characters of the VGA text page, by their offset
  outer,     \* the virtualprint of a system call
  prints,    \* texts printed so far
  disturbed  \* terminals that have been full, or printed a control character
             \* other than a newline

termvars == <<terms, screen, outer, prints, disturbed>>

KERNEL_T == 0
BASIC_T == 1
Tid == {KERNEL_T, BASIC_T}

NUL == "nul"
Control == {"newline", "backspace", "tab", "return"}
BYTES == VGA_WIDTH * VGA_HEIGHT
Index == 0 .. BYTES - 1

\* initVirtualTerminals(true): two halves of the screen.
Width == VGA_WIDTH \div 2
Left(tid) == IF tid = KERNEL_T THEN VGA_WIDTH \div 2 ELSE 0

\* Where virtualprint starts again from the beginning.
Room == Width * VGA_HEIGHT

\* WriteCharacter's offset: column -1 is far to the right.
Offset(x, y) == (y * VGA_WIDTH) + (x % UINT8)
Offsets == 0 .. Offset(UINT8 - 1, VGA_HEIGHT)
Blank == [o \in Offsets |-> " "]

----------------------------------------------------------------------------
(* refreshTerminals                                                        *)

\* The locals of the loops, at the first cell of terminal i.
Start(i) ==
  [i |-> i, x |-> 0, y |-> 0, curI |-> 0, curX |-> Left(i), skip |-> 0, tlen |-> 0, first |-> 0]

\* The loops are over.
Drawn(d) == d.i \notin Tid

\* The next cell of a terminal, of a row, or of the screen.
Advanced(d) ==
  IF d.x + 1 < Width THEN [d EXCEPT !.x = @ + 1]
  ELSE IF d.y + 1 < VGA_HEIGHT THEN [d EXCEPT !.x = 0, !.y = @ + 1, !.curX = Left(d.i)]
  ELSE Start(d.i + 1)

\* Off: no column of the screen, or a row below it.
Off(d) == d.y + 1 > VGA_HEIGHT \/ d.curX > VGA_WIDTH
Skips(d) == ~Off(d) /\ d.skip > 1
Reads(d) == ~Off(d) /\ d.skip <= 1

\* Mutant of AtCharacter: a newline leaves one column too many.
AtCharacter_LongSkip(d, c) ==
  IF Reads(d) /\ c = "newline"
  THEN [d EXCEPT !.skip = Width - d.x + 1, !.curI = @ + 1, !.tlen = @ + Width - d.x]
  ELSE [d EXCEPT !.curX = @ + 1, !.curI = @ + 1, !.tlen = @ + 1]

\* The locals after character c.
AtCharacter(d, c) ==
  CASE Off(d) -> [d EXCEPT !.curX = @ + 1]
    [] Skips(d) -> [d EXCEPT !.skip = @ - 1, !.curX = @ + 1, !.tlen = @ + 1]
    [] Reads(d) /\ c = "newline" ->
         [d EXCEPT !.skip = Width - d.x, !.curI = @ + 1, !.tlen = @ + Width - d.x,
                   !.first = IF @ = 0 THEN d.curI + 1 ELSE @]
    [] Reads(d) /\ c = "backspace" ->
         [d EXCEPT !.x = @ - 1, !.curX = @ - 1, !.curI = @ + 1, !.tlen = @ - 1]
    [] Reads(d) /\ c = "tab" -> [d EXCEPT !.skip = @ + 4, !.curI = @ + 1, !.tlen = @ + 4]
    [] Reads(d) /\ c = "return" -> d
    [] Reads(d) /\ c = NUL -> [d EXCEPT !.curX = @ + 1, !.curI = @ + 1]
    [] OTHER -> [d EXCEPT !.curX = @ + 1, !.curI = @ + 1, !.tlen = @ + 1]

\* WriteCharacter is called for all but the control characters.
Visible(d, c) == Skips(d) \/ (Reads(d) /\ c \notin Control)
Shown(d, c) == IF Skips(d) THEN NUL ELSE c

\* The terminal is full: its text moves up by a line, again for every cell.
Scrolled(term, first) ==
  [bytes |-> [j \in Index |-> IF j + first < BYTES THEN term.bytes[j + first] ELSE term.bytes[j]],
   lastPos |-> 0]

\* One cell: s is the terminals, the screen and the locals.
Cell(s) ==
  LET d == s.at
      c == s.terms[d.i].bytes[d.curI]
      after == AtCharacter(d, c)
      full == after.tlen > Room
  IN  [terms |-> IF full THEN [s.terms EXCEPT ![d.i] = Scrolled(@, after.first)] ELSE s.terms,
       screen |-> IF Visible(d, c)
                    THEN [s.screen EXCEPT ![Offset(d.curX, d.y + 1)] = Shown(d, c)]
                    ELSE s.screen,
       disturbed |-> IF full THEN s.disturbed \cup {d.i} ELSE s.disturbed,
       at |-> Advanced(after)]

\* The next cell, or nothing when the loops are over.
NextCell(s) == IF Drawn(s.at) THEN s ELSE Cell(s)

\* All of it, when nothing interrupts: a backspace draws its cell again.
Refreshed(s) ==
  LET run[n \in 0 .. 2 * BYTES] ==
        IF n = 0 THEN [s EXCEPT !.screen = Blank, !.at = Start(KERNEL_T)]
        ELSE NextCell(run[n - 1])
  IN  run[2 * BYTES]

----------------------------------------------------------------------------
(* virtualprint                                                            *)

\* Mutant of Overflows: without the length of the text.
Overflows_NoLength(tid, len) == terms[tid].lastPos > Room

\* Mutant of Overflows: the size of bytes, not of the terminal.
Overflows_Bytes(tid, len) == terms[tid].lastPos + len > BYTES

Overflows(tid, len) == terms[tid].lastPos + len > Room

\* The bytes after memcpy of the text to pos.
Appended(bytes, pos, text) ==
  [j \in Index |-> IF j \in pos .. pos + Len(text) - 1 THEN text[j - pos + 1] ELSE bytes[j]]

Disturbs(tid, text, nadd) ==
  IF nadd \/ \E n \in DOMAIN text : text[n] \in Control \ {"newline"}
  THEN disturbed \cup {tid} ELSE disturbed

Idle == [step |-> "idle"]

\* The check, up to the memcpy.
Check(tid, text) ==
  LET nadd == Overflows(tid, Len(text))
  IN  /\ outer.step = "idle" /\ prints < MaxPrints
      /\ terms' = IF nadd THEN [terms EXCEPT ![tid].lastPos = 0] ELSE terms
      /\ disturbed' = Disturbs(tid, text, nadd)
      /\ outer' = [step |-> "copy", tid |-> tid, text |-> text, nadd |-> nadd,
                   pos |-> terms'[tid].lastPos]
      /\ prints' = prints + 1
      /\ UNCHANGED screen

\* terminals is not volatile: the compiler may use the lastPos of the check
\* or read it again.
Copy ==
  /\ outer.step = "copy"
  /\ \E pos \in {outer.pos, terms[outer.tid].lastPos} :
       /\ pos + Len(outer.text) <= BYTES
       /\ terms' = [terms EXCEPT ![outer.tid].bytes = Appended(@, pos, outer.text)]
       /\ outer' = [outer EXCEPT !.step = "add", !.pos = pos]
  /\ UNCHANGED <<screen, prints, disturbed>>

Add ==
  /\ outer.step = "add"
  /\ \E pos \in {outer.pos, terms[outer.tid].lastPos} :
       terms' = IF outer.nadd THEN terms
                ELSE [terms EXCEPT ![outer.tid].lastPos = pos + Len(outer.text)]
  /\ outer' = [step |-> "draw", at |-> Start(KERNEL_T)]
  /\ screen' = Blank
  /\ UNCHANGED <<prints, disturbed>>

Draw ==
  LET s == Cell([terms |-> terms, screen |-> screen, disturbed |-> disturbed, at |-> outer.at])
  IN  /\ outer.step = "draw"
      /\ terms' = s.terms /\ screen' = s.screen /\ disturbed' = s.disturbed
      /\ outer' = IF Drawn(s.at) THEN Idle ELSE [outer EXCEPT !.at = s.at]
      /\ UNCHANGED prints

\* A key: the whole of virtualprint.
Echo(c) ==
  LET nadd == Overflows(BASIC_T, 1)
      pos == IF nadd THEN 0 ELSE terms[BASIC_T].lastPos
      printed == [terms EXCEPT ![BASIC_T] =
                    [bytes |-> Appended(@.bytes, pos, <<c>>),
                     lastPos |-> IF nadd THEN 0 ELSE pos + 1]]
      s == Refreshed([terms |-> printed, screen |-> screen, at |-> Start(KERNEL_T),
                      disturbed |-> Disturbs(BASIC_T, <<c>>, nadd)])
  IN  /\ prints < MaxPrints
      /\ terms' = s.terms /\ screen' = s.screen /\ disturbed' = s.disturbed
      /\ prints' = prints + 1
      /\ UNCHANGED outer

Init ==
  /\ terms = [tid \in Tid |-> [bytes |-> [j \in Index |-> NUL], lastPos |-> 0]]
  /\ screen = Blank
  /\ outer = Idle
  /\ prints = 0
  /\ disturbed = {}

Next ==
  \/ \E text \in Logged : Check(KERNEL_T, text)
  \/ \E text \in Written : Check(BASIC_T, text)
  \/ Copy
  \/ Add
  \/ Draw
  \/ \E c \in Echoed : Echo(c)

Spec == Init /\ [][Next]_termvars

----------------------------------------------------------------------------
(* Properties                                                              *)

\* What the theorems about every screen take for granted of the texts: they
\* are strings and fit half of the screen (128 characters, and 40 * 25).
TextsFit ==
  /\ Logged \cup Written # {} /\ Echoed \subseteq STRING
  /\ \A t \in Logged \cup Written : t \in Seq(STRING) /\ Len(t) <= Room

\* Nothing printed has a backspace: refreshTerminals draws a cell again for
\* each one it reads, and has no test of its own that would stop it.
NoBackspace ==
  /\ "backspace" \notin Echoed
  /\ \A t \in Logged \cup Written : \A n \in DOMAIN t : t[n] # "backspace"

LongestText == CHOOSE n \in {Len(t) : t \in Logged \cup Written} :
                 \A t \in Logged \cup Written : Len(t) <= n

\* lastPos stays within the terminal's part of the screen, or at most one
\* text past it: a key echoed after virtualprint's test can take its place.
\* refreshTerminals, which has no test of its own, stays within bytes.
TermTypeOK ==
  /\ \A tid \in Tid :
       terms[tid].lastPos \in 0 .. Room + LongestText /\ DOMAIN terms[tid].bytes = Index
  /\ DOMAIN screen = Offsets
  /\ outer.step = "draw" => outer.at.curI \in Index

\* virtualprint's memcpy stays within bytes, though a key that is echoed
\* between its test of lastPos and the copy makes the test stale: bytes is
\* for the whole screen and the test for half of it.
CopyInBytes ==
  outer.step = "copy" =>
    \A pos \in {outer.pos, terms[outer.tid].lastPos} : pos + Len(outer.text) <= BYTES

\* The row and column of byte n: characters follow one another in a row of
\* the terminal; a newline and a full row end it.
Position(bytes) ==
  LET at[n \in Index] ==
        IF n = 0 THEN <<1, 0>>
        ELSE LET p == at[n - 1]
             IN  IF bytes[n - 1] = "newline" \/ p[2] + 1 = Width THEN <<p[1] + 1, 0>>
                 ELSE <<p[1], p[2] + 1>>
  IN  at

\* When no print is in progress, the rows below the title show the bytes of
\* each terminal and nothing else, unless it has been disturbed: prints and refreshes that interrupt one
\* another, each with its own locals, leave nothing stale on the screen.
ScreenShows ==
  outer.step = "idle" =>
    \A tid \in Tid \ disturbed :
      LET bytes == terms[tid].bytes
          at == Position(bytes)
      IN  \A row \in 1 .. VGA_HEIGHT - 1, x \in 0 .. Width - 1 :
            LET here == {n \in Index : at[n] = <<row, x>> /\ bytes[n] \notin {"newline", NUL}}
                shown == screen[Offset(Left(tid) + x, row)]
            IN  IF here = {} THEN shown \in {" ", NUL} ELSE {shown} = {bytes[n] : n \in here}
=============================================================================
