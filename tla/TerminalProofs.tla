---------------------------- MODULE TerminalProofs ----------------------------
(***************************************************************************)
(* virtualprint stays within a terminal's bytes on a screen of any size,   *)
(* whichever key is echoed between its test of lastPos and its memcpy, and *)
(* refreshTerminals reads no byte behind them.                             *)
(***************************************************************************)
EXTENDS Terminal, SequenceTheorems, WellFoundedInduction, TLAPS

----------------------------------------------------------------------------
(* Numbers                                                                 *)

\* A set of numbers that is not empty has a smallest one.
LEMMA Smallest ==
  ASSUME NEW T \in SUBSET Nat, T # {}
  PROVE  \E x \in T : \A y \in T : x <= y
<1> DEFINE R == {ss \in Nat \X Nat : ss[1] < ss[2]}
<1>1. IsWellFoundedOn(R, Nat)
  BY NatLessThanWellFounded DEF OpToRel
<1>2. PICK x \in T : \A y \in T : ~(<<y, x>> \in R)
  <2> HIDE DEF R
  <2> QED
    BY <1>1, WFMin
<1>3. ASSUME NEW y \in T PROVE x <= y
  <2>1. ~(y < x)
    BY <1>2
  <2> QED
    BY <2>1
<1> QED
  BY <1>3

\* So a set that has 0, and each number up to n whose predecessor it has, has all.
LEMMA Induction ==
  ASSUME NEW n \in Nat, NEW S, 0 \in S,
         \A k \in 1 .. n : k - 1 \in S => k \in S
  PROVE  \A k \in 0 .. n : k \in S
<1> DEFINE T == {k \in 0 .. n : k \notin S}
<1> SUFFICES ASSUME T # {} PROVE FALSE
  OBVIOUS
<1>1. PICK x \in T : \A y \in T : x <= y
  <2>1. T \in SUBSET Nat
    OBVIOUS
  <2> HIDE DEF T
  <2> QED
    BY <2>1, Smallest
<1>2. x \in 1 .. n /\ x - 1 \in 0 .. n /\ ~(x <= x - 1)
  OBVIOUS
<1>3. x - 1 \in S
  BY <1>1, <1>2
<1> QED
  BY <1>2, <1>3

----------------------------------------------------------------------------
(* Sizes                                                                   *)

\* The screen is two halves of Room cells, and bytes has a place for each.
LEMMA Sizes ==
  /\ Width \in Nat /\ Width > 0 /\ VGA_WIDTH = Width + Width
  /\ Room \in Nat /\ Room > 0
  /\ BYTES \in Nat /\ BYTES = Room + Room
<1>1. Width \in Nat /\ Width > 0 /\ VGA_WIDTH = Width + Width
  BY TerminalAssumption DEF Width
<1>2. VGA_HEIGHT \in Nat /\ VGA_HEIGHT > 0
  BY TerminalAssumption
<1>3. \A w, h \in Nat : w > 0 /\ h > 0 => w * h \in Nat /\ w * h > 0 /\ (w + w) * h = w * h + w * h
  OBVIOUS
<1>4. Room \in Nat /\ Room > 0
  BY <1>1, <1>2, <1>3 DEF Room
<1>5. BYTES = Room + Room
  BY <1>1, <1>2, <1>3 DEF Room, BYTES
<1> QED
  BY <1>1, <1>4, <1>5

\* The longest text is one of the texts, and they are no longer than a half.
LEMMA Longest ==
  ASSUME TextsFit
  PROVE  /\ LongestText \in Nat
         /\ \A t \in Logged \cup Written : Len(t) \in Nat /\ Len(t) <= LongestText
<1> DEFINE T == Logged \cup Written
           S == {Len(t) : t \in T}
<1>1. \A t \in T : Len(t) \in Nat /\ Len(t) <= Room
  BY LenProperties DEF TextsFit
<1>2. \E n \in S : \A t \in T : Len(t) <= n
  <2> DEFINE G == {Room - n : n \in S}
  <2>0. \A t \in T : Room - Len(t) \in Nat
    BY <1>1, Sizes
  <2>5. T # {}
    BY DEF TextsFit
  <2>1. G \subseteq Nat /\ G # {}
    <3> HIDE DEF T
    <3> QED
      BY <2>0, <2>5
  <2>2. PICK g \in G : \A k \in G : g <= k
    <3> HIDE DEF G
    <3> QED
      BY <2>1, Smallest
  <2>3. PICK t0 \in T : g = Room - Len(t0)
    BY <2>2
  <2>4. ASSUME NEW t \in T PROVE Len(t) <= Len(t0)
    <3>1. g <= Room - Len(t)
      BY <2>2
    <3> QED
      BY <1>1, <2>3, <3>1, Sizes
  <2> QED
    BY <2>3, <2>4
<1>3. LongestText \in S /\ \A t \in T : Len(t) <= LongestText
  <2> HIDE DEF S
  <2>1. LongestText = CHOOSE n \in S : \A t \in T : Len(t) <= n
    BY DEF LongestText, S
  <2> QED
    BY <1>2, <2>1
<1> QED
  BY <1>1, <1>3
----------------------------------------------------------------------------
(* One cell                                                                *)

\* A terminal whose characters are in Ch.
Term(Ch) == [bytes : [Index -> Ch], lastPos : 0 .. Room + LongestText]

\* The locals of refreshTerminals.
Locals == [i : 0 .. 2, x : Int, y : 0 .. VGA_HEIGHT - 1, curI : Nat, curX : Int,
           skip : Int, tlen : Int, first : Nat]

\* No more bytes were read than cells were passed.
Inside(d) == d.x \in 0 .. Width - 1 /\ d.curI <= d.y * Width + d.x

\* refreshTerminals starts at the first cell of the kernel's terminal.
LEMMA StartLocals ==
  ASSUME NEW i \in 0 .. 2
  PROVE  Start(i) \in Locals /\ Start(i).i = i /\ Inside(Start(i))
<1>1. Left(i) \in Int
  BY Sizes DEF Left, Width
<1>2. Start(i) \in Locals /\ Start(i).i = i
  BY <1>1, TerminalAssumption DEF Start, Locals
<1>3. Start(i).x = 0 /\ Start(i).y = 0 /\ Start(i).curI = 0
  BY DEF Start
<1>4. 0 * Width = 0
  BY Sizes
<1>5. Inside(Start(i))
  BY <1>3, <1>4, Sizes DEF Inside
<1> QED
  BY <1>2, <1>5

\* Whatever the character, the locals keep their types, and the row.
LEMMA AtCharacterLocals ==
  ASSUME NEW d \in Locals, NEW c
  PROVE  /\ AtCharacter(d, c) \in Locals
         /\ AtCharacter(d, c).i = d.i /\ AtCharacter(d, c).y = d.y
<1> DEFINE a == AtCharacter(d, c)
<1>0. Width \in Int
  BY Sizes
<1>1. CASE Off(d)
  <2>1. a = [d EXCEPT !.curX = @ + 1]
    BY <1>1 DEF AtCharacter, Skips, Reads
  <2> QED
    BY <2>1 DEF Locals
<1>2. CASE Skips(d)
  <2>1. a = [d EXCEPT !.skip = @ - 1, !.curX = @ + 1, !.tlen = @ + 1]
    BY <1>2 DEF AtCharacter, Skips, Reads, Locals
  <2>2. PICK t \in Int, u \in Int, v \in Int : t = d.skip - 1 /\ u = d.curX + 1 /\ v = d.tlen + 1
    BY <1>0 DEF Locals
  <2>3. a = [d EXCEPT !.skip = t, !.curX = u, !.tlen = v]
    BY <2>1, <2>2
  <2> QED
    BY <2>2, <2>3 DEF Locals
<1>3. CASE Reads(d)
  <2>0. ~Off(d) /\ ~Skips(d)
    BY <1>3 DEF Reads, Skips, Locals
  <2>1. CASE c = "newline"
    <3>1. a = [d EXCEPT !.skip = Width - d.x, !.curI = @ + 1, !.tlen = @ + Width - d.x,
                        !.first = IF @ = 0 THEN d.curI + 1 ELSE @]
      BY <1>3, <2>0, <2>1 DEF AtCharacter, NUL
    <3>2. PICK t \in Int, u \in Nat, v \in Int, w \in Nat :
           /\ t = Width - d.x /\ u = d.curI + 1 /\ v = d.tlen + Width - d.x
           /\ w = IF d.first = 0 THEN d.curI + 1 ELSE d.first
      BY <1>0 DEF Locals
    <3>3. a = [d EXCEPT !.skip = t, !.curI = u, !.tlen = v, !.first = w]
      BY <3>1, <3>2
    <3> QED
      BY <3>2, <3>3 DEF Locals
  <2>2. CASE c = "backspace"
    <3>1. a = [d EXCEPT !.x = @ - 1, !.curX = @ - 1, !.curI = @ + 1, !.tlen = @ - 1]
      BY <1>3, <2>0, <2>2 DEF AtCharacter, NUL
    <3>2. PICK t \in Int, u \in Int, v \in Nat, w \in Int :
           t = d.x - 1 /\ u = d.curX - 1 /\ v = d.curI + 1 /\ w = d.tlen - 1
      BY <1>0 DEF Locals
    <3>3. a = [d EXCEPT !.x = t, !.curX = u, !.curI = v, !.tlen = w]
      BY <3>1, <3>2
    <3> QED
      BY <3>2, <3>3 DEF Locals
  <2>3. CASE c = "tab"
    <3>1. a = [d EXCEPT !.skip = @ + 4, !.curI = @ + 1, !.tlen = @ + 4]
      BY <1>3, <2>0, <2>3 DEF AtCharacter, NUL
    <3>2. PICK t \in Int, u \in Nat, v \in Int : t = d.skip + 4 /\ u = d.curI + 1 /\ v = d.tlen + 4
      BY <1>0 DEF Locals
    <3>3. a = [d EXCEPT !.skip = t, !.curI = u, !.tlen = v]
      BY <3>1, <3>2
    <3> QED
      BY <3>2, <3>3 DEF Locals
  <2>4. CASE c = "return"
    <3>1. a = d
      BY <1>3, <2>0, <2>4 DEF AtCharacter, NUL
    <3> QED
      BY <3>1 DEF Locals
  <2>5. CASE c = NUL
    <3>1. a = [d EXCEPT !.curX = @ + 1, !.curI = @ + 1]
      BY <1>3, <2>0, <2>5 DEF AtCharacter, NUL
    <3>2. PICK t \in Int, u \in Nat : t = d.curX + 1 /\ u = d.curI + 1
      BY <1>0 DEF Locals
    <3>3. a = [d EXCEPT !.curX = t, !.curI = u]
      BY <3>1, <3>2
    <3> QED
      BY <3>2, <3>3 DEF Locals
  <2>6. CASE c \notin Control \cup {NUL}
    <3>1. a = [d EXCEPT !.curX = @ + 1, !.curI = @ + 1, !.tlen = @ + 1]
      BY <1>3, <2>0, <2>6 DEF AtCharacter, Control, NUL
    <3>2. PICK t \in Int, u \in Nat, v \in Int : t = d.curX + 1 /\ u = d.curI + 1 /\ v = d.tlen + 1
      BY <1>0 DEF Locals
    <3>3. a = [d EXCEPT !.curX = t, !.curI = u, !.tlen = v]
      BY <3>1, <3>2
    <3> QED
      BY <3>2, <3>3 DEF Locals
  <2> QED
    BY <2>1, <2>2, <2>3, <2>4, <2>5, <2>6 DEF Control
<1> QED
  BY <1>1, <1>2, <1>3 DEF Off, Skips, Reads, Locals

\* A character other than a backspace leaves the column, and one byte is
\* read at most.
LEMMA AtCharacterReads ==
  ASSUME NEW d \in Locals, NEW c, c # "backspace"
  PROVE  AtCharacter(d, c).x = d.x /\ AtCharacter(d, c).curI \in {d.curI, d.curI + 1}
<1> DEFINE a == AtCharacter(d, c)
<1>1. CASE Off(d)
  <2>1. a = [d EXCEPT !.curX = @ + 1]
    BY <1>1 DEF AtCharacter, Skips, Reads
  <2> QED
    BY <2>1 DEF Locals
<1>2. CASE Skips(d)
  <2>1. a = [d EXCEPT !.skip = @ - 1, !.curX = @ + 1, !.tlen = @ + 1]
    BY <1>2 DEF AtCharacter, Skips, Reads, Locals
  <2> QED
    BY <2>1 DEF Locals
<1>3. CASE Reads(d)
  <2>0. ~Off(d) /\ ~Skips(d)
    BY <1>3 DEF Reads, Skips, Locals
  <2>1. CASE c = "newline"
    <3>1. a = [d EXCEPT !.skip = Width - d.x, !.curI = @ + 1, !.tlen = @ + Width - d.x,
                        !.first = IF @ = 0 THEN d.curI + 1 ELSE @]
      BY <1>3, <2>0, <2>1 DEF AtCharacter, NUL
    <3> QED
      BY <3>1 DEF Locals
  <2>3. CASE c = "tab"
    <3>1. a = [d EXCEPT !.skip = @ + 4, !.curI = @ + 1, !.tlen = @ + 4]
      BY <1>3, <2>0, <2>3 DEF AtCharacter, NUL
    <3> QED
      BY <3>1 DEF Locals
  <2>4. CASE c = "return"
    <3>1. a = d
      BY <1>3, <2>0, <2>4 DEF AtCharacter, NUL
    <3> QED
      BY <3>1 DEF Locals
  <2>5. CASE c = NUL
    <3>1. a = [d EXCEPT !.curX = @ + 1, !.curI = @ + 1]
      BY <1>3, <2>0, <2>5 DEF AtCharacter, NUL
    <3> QED
      BY <3>1 DEF Locals
  <2>6. CASE c \notin Control \cup {NUL}
    <3>1. a = [d EXCEPT !.curX = @ + 1, !.curI = @ + 1, !.tlen = @ + 1]
      BY <1>3, <2>0, <2>6 DEF AtCharacter, Control, NUL
    <3> QED
      BY <3>1 DEF Locals
  <2> QED
    BY <2>1, <2>3, <2>4, <2>5, <2>6 DEF Control
<1> QED
  BY <1>1, <1>2, <1>3 DEF Off, Skips, Reads, Locals

\* The loops over x, y and i.
LEMMA AdvancedLocals ==
  ASSUME NEW d \in Locals, d.i \in Tid
  PROVE  Advanced(d) \in Locals
<1>1. CASE d.x + 1 < Width
  <2>1. Advanced(d) = [d EXCEPT !.x = @ + 1]
    BY <1>1 DEF Advanced
  <2> QED
    BY <2>1 DEF Locals
<1>2. CASE ~(d.x + 1 < Width) /\ d.y + 1 < VGA_HEIGHT
  <2>1. Advanced(d) = [d EXCEPT !.x = 0, !.y = @ + 1, !.curX = Left(d.i)]
    BY <1>2 DEF Advanced
  <2>2. PICK t \in Int, u \in 0 .. VGA_HEIGHT - 1, v \in Int :
           t = 0 /\ u = d.y + 1 /\ v = Left(d.i)
    BY <1>2, Sizes, TerminalAssumption DEF Locals, Left, Width
  <2>3. Advanced(d) = [d EXCEPT !.x = t, !.y = u, !.curX = v]
    BY <2>1, <2>2
  <2> QED
    <3>1. ASSUME NEW z \in Int, NEW e, e = [d EXCEPT !.x = z, !.y = u, !.curX = v]
          PROVE  e \in Locals
      BY <3>1 DEF Locals
    <3> QED
      BY <2>3, <3>1
<1>3. CASE ~(d.x + 1 < Width) /\ ~(d.y + 1 < VGA_HEIGHT)
  <2>1. Advanced(d) = Start(d.i + 1)
    BY <1>3 DEF Advanced
  <2>2. d.i + 1 \in 0 .. 2
    BY DEF Tid, KERNEL_T, BASIC_T
  <2> QED
    BY <2>1, <2>2, StartLocals
<1> QED
  BY <1>1, <1>2, <1>3

\* A cell more was passed.
LEMMA AdvancedInside ==
  ASSUME NEW d \in Locals, d.i \in Tid, d.x \in 0 .. Width - 1,
         d.curI <= d.y * Width + d.x + 1
  PROVE  Inside(Advanced(d))
<1>0. d.curI \in Nat /\ d.y \in Nat /\ d.y * Width \in Nat
  <2>1. d.curI \in Nat /\ d.y \in Nat
    BY TerminalAssumption DEF Locals
  <2> QED
    BY <2>1, Sizes
<1>1. CASE d.x + 1 < Width
  <2>1. Advanced(d) = [d EXCEPT !.x = @ + 1]
    BY <1>1 DEF Advanced
  <2>2. Advanced(d).x = d.x + 1 /\ Advanced(d).y = d.y /\ Advanced(d).curI = d.curI
    BY <2>1 DEF Locals
  <2> QED
    BY <1>0, <1>1, <2>2, Sizes DEF Inside
<1>2. CASE ~(d.x + 1 < Width) /\ d.y + 1 < VGA_HEIGHT
  <2>1. Advanced(d) = [d EXCEPT !.x = 0, !.y = @ + 1, !.curX = Left(d.i)]
    BY <1>2 DEF Advanced
  <2>2. Advanced(d).x = 0 /\ Advanced(d).y = d.y + 1 /\ Advanced(d).curI = d.curI
    BY <2>1 DEF Locals
  <2>3. \A y, w \in Nat : (y + 1) * w = y * w + w
    OBVIOUS
  <2>4. (d.y + 1) * Width = d.y * Width + Width
    BY <1>0, <2>3, Sizes
  <2>5. d.x + 1 = Width
    BY <1>2, Sizes
  <2> QED
    BY <1>0, <2>2, <2>4, <2>5, Sizes DEF Inside
<1>3. CASE ~(d.x + 1 < Width) /\ ~(d.y + 1 < VGA_HEIGHT)
  <2>1. Advanced(d) = Start(d.i + 1)
    BY <1>3 DEF Advanced
  <2>2. d.i + 1 \in 0 .. 2
    BY DEF Tid, KERNEL_T, BASIC_T
  <2> QED
    BY <2>1, <2>2, StartLocals
<1> QED
  BY <1>1, <1>2, <1>3
\* What a step of the loops works on: the terminals and the screen.
DrawState(Ch, s) ==
  /\ s.terms \in [Tid -> Term(Ch)]
  /\ DOMAIN s.screen = Offsets
  /\ s.at \in Locals

\* The loops leave a terminal's lastPos alone, or reset it.
OrReset(now, before) ==
  \A tid \in Tid : now[tid].lastPos \in {before[tid].lastPos, 0}

\* A full terminal is moved up within its bytes.
LEMMA ScrolledTerm ==
  ASSUME TextsFit, NEW Ch, NEW term \in Term(Ch), NEW first \in Nat
  PROVE  Scrolled(term, first) \in Term(Ch) /\ Scrolled(term, first).lastPos = 0
<1> DEFINE b == [j \in Index |-> IF j + first < BYTES THEN term.bytes[j + first]
                                                      ELSE term.bytes[j]]
<1>1. term.bytes \in [Index -> Ch]
  BY DEF Term
<1>2. \A j \in Index : j + first < BYTES => j + first \in Index
  BY Sizes DEF Index
<1>3. b \in [Index -> Ch]
  BY <1>1, <1>2
<1>4. 0 \in 0 .. Room + LongestText
  BY Sizes, Longest
<1>5. Scrolled(term, first) = [bytes |-> b, lastPos |-> 0]
  BY DEF Scrolled
<1> HIDE DEF b
<1> QED
  BY <1>3, <1>4, <1>5 DEF Term

\* One cell.
LEMMA CellState ==
  ASSUME TextsFit, NEW Ch, NEW s, DrawState(Ch, s), s.at.i \in Tid
  PROVE  DrawState(Ch, Cell(s)) /\ OrReset(Cell(s).terms, s.terms)
<1> DEFINE d == s.at
           c == s.terms[d.i].bytes[d.curI]
           after == AtCharacter(d, c)
           moved == Scrolled(s.terms[d.i], after.first)
<1>1. after \in Locals /\ after.i = d.i
  BY AtCharacterLocals DEF DrawState
<1>2. Cell(s).at \in Locals
  <2>1. Cell(s).at = Advanced(after)
    BY DEF Cell
  <2> HIDE DEF after
  <2> QED
    BY <1>1, <2>1, AdvancedLocals
<1>3. moved \in Term(Ch) /\ moved.lastPos = 0
  <2>1. s.terms[d.i] \in Term(Ch) /\ after.first \in Nat
    BY <1>1, SMTT(40) DEF DrawState, Locals
  <2> HIDE DEF after
  <2> QED
    BY <2>1, ScrolledTerm, SMTT(40)
<1>4. Cell(s).terms = s.terms \/ Cell(s).terms = [s.terms EXCEPT ![d.i] = moved]
  BY DEF Cell
<1>5. DOMAIN Cell(s).screen = Offsets
  <2>1. Cell(s).screen = IF Visible(d, c)
                           THEN [s.screen EXCEPT ![Offset(d.curX, d.y + 1)] = Shown(d, c)]
                           ELSE s.screen
    BY DEF Cell
  <2> QED
    BY <2>1, Zenon DEF DrawState
<1>6. Cell(s).terms \in [Tid -> Term(Ch)] /\ OrReset(Cell(s).terms, s.terms)
  <2> HIDE DEF moved
  <2>1. CASE Cell(s).terms = s.terms
    BY <2>1 DEF DrawState, OrReset
  <2>2. CASE Cell(s).terms = [s.terms EXCEPT ![d.i] = moved]
    BY <1>3, <2>2 DEF DrawState, OrReset
  <2> QED
    BY <1>4, <2>1, <2>2
<1> QED
  BY <1>2, <1>5, <1>6 DEF DrawState

\* The byte of a cell is one of the terminal's when no backspace moved back.
LEMMA InsideIndex ==
  ASSUME NEW d \in Locals, Inside(d)
  PROVE  d.curI \in Index
<1>1. d.curI \in Nat /\ d.y \in Nat /\ d.y + 1 <= VGA_HEIGHT
  BY TerminalAssumption DEF Locals
<1>2. \A y, w, h \in Nat : y + 1 <= h => y * w + w <= w * h
  <2> TAKE y, w, h \in Nat
  <2> HAVE y + 1 <= h
  <2>1. PICK k \in Nat : h = y + 1 + k
    <3>1. h - (y + 1) \in Nat
      OBVIOUS
    <3> QED
      BY <3>1
  <2>2. w * h = w * y + w + w * k /\ w * k \in Nat /\ w * y = y * w
    BY <2>1
  <2> QED
    BY <2>2
<1>3. d.y * Width + Width <= Room /\ d.y * Width \in Nat
  BY <1>1, <1>2, Sizes, TerminalAssumption DEF Room
<1> QED
  BY <1>1, <1>3, Sizes DEF Inside, Index

\* One cell, of a terminal without backspaces.
LEMMA CellInside ==
  ASSUME TextsFit, NEW Ch, "backspace" \notin Ch, NEW s, DrawState(Ch, s), s.at.i \in Tid,
         Inside(s.at)
  PROVE  Inside(Cell(s).at)
<1> DEFINE d == s.at
           c == s.terms[d.i].bytes[d.curI]
           after == AtCharacter(d, c)
<1>0. d \in Locals
  BY DEF DrawState
<1>1. after \in Locals /\ after.i = d.i /\ after.y = d.y
  BY <1>0, AtCharacterLocals
<1>2. c # "backspace"
  <2>1. d.curI \in Index
    BY <1>0, InsideIndex
  <2>2. s.terms[d.i].bytes \in [Index -> Ch]
    BY SMTT(40) DEF DrawState, Term
  <2> QED
    BY <2>1, <2>2
<1>3. after.x = d.x /\ after.curI \in {d.curI, d.curI + 1}
  BY <1>0, <1>2, AtCharacterReads
<1>4. Cell(s).at = Advanced(after)
  BY DEF Cell
<1>5. d.curI \in Nat /\ d.x \in Int /\ d.y * Width \in Nat
  <2>1. d.curI \in Nat /\ d.x \in Int /\ d.y \in Nat
    BY <1>0, TerminalAssumption DEF Locals
  <2> QED
    BY <2>1, Sizes
<1>6. after.x \in 0 .. Width - 1 /\ after.curI <= after.y * Width + after.x + 1
  <2> HIDE DEF after, d
  <2> QED
    BY <1>1, <1>3, <1>5 DEF Inside, d
<1> HIDE DEF after
<1> QED
  BY <1>1, <1>4, <1>6, AdvancedInside

----------------------------------------------------------------------------
(* The whole refresh                                                       *)

\* The states of the loops, one after the other.
Runs(w, n, s) ==
  w = [k \in 0 .. n |-> IF k = 0 THEN s ELSE NextCell(w[k - 1])]

\* There are such states.
LEMMA RunExists ==
  ASSUME NEW n \in Nat, NEW s
  PROVE  \E w : Runs(w, n, s)
<1> DEFINE S == {k \in 0 .. n : \E w : Runs(w, k, s)}
<1>1. 0 \in S
  <2> DEFINE w == [k \in 0 .. 0 |-> s]
  <2>1. Runs(w, 0, s)
    BY DEF Runs
  <2> QED
    BY <2>1
<1>2. ASSUME NEW m \in 1 .. n, m - 1 \in S
      PROVE  m \in S
  <2>1. PICK w : Runs(w, m - 1, s)
    BY <1>2
  <2> DEFINE v == [k \in 0 .. m |-> IF k = m THEN NextCell(w[m - 1]) ELSE w[k]]
  <2>2. ASSUME NEW k \in 0 .. m
        PROVE  v[k] = IF k = 0 THEN s ELSE NextCell(v[k - 1])
    <3>1. CASE k = m
      BY <3>1
    <3>2. CASE k = 0 /\ k # m
      BY <2>1, <3>2 DEF Runs
    <3>3. CASE k # m /\ k # 0
      <4>1. k \in 0 .. m - 1 /\ k - 1 \in 0 .. m /\ k - 1 # m
        BY <3>3
      <4>2. w[k] = NextCell(w[k - 1])
        BY <2>1, <3>3, <4>1 DEF Runs
      <4> QED
        BY <3>3, <4>1, <4>2
    <3> QED
      BY <3>1, <3>2, <3>3
  <2>3. v = [k \in 0 .. m |-> v[k]]
    OBVIOUS
  <2>4. Runs(v, m, s)
    <3> HIDE DEF v
    <3> QED
      BY <2>2, <2>3 DEF Runs
  <2>5. \E x : Runs(x, m, s)
    <3> HIDE DEF v
    <3> QED
      BY <2>4
  <2> QED
    BY <2>5
<1>3. \A k \in 0 .. n : k \in S
  <2> HIDE DEF S
  <2> QED
    BY <1>1, <1>2, Induction
<1> QED
  BY <1>3

\* refreshTerminals leaves the terminals as they were, or moved up.
LEMMA RefreshedState ==
  ASSUME TextsFit, NEW Ch, NEW t \in [Tid -> Term(Ch)], NEW scr, NEW at, NEW dis
  PROVE  LET r == Refreshed([terms |-> t, screen |-> scr, at |-> at, disturbed |-> dis])
         IN  DrawState(Ch, r) /\ OrReset(r.terms, t)
<1> DEFINE s == [terms |-> t, screen |-> scr, at |-> at, disturbed |-> dis]
           s0 == [s EXCEPT !.screen = Blank, !.at = Start(KERNEL_T)]
           n == 2 * BYTES
<1>1. n \in Nat
  BY Sizes
<1>2. PICK w : Runs(w, n, s0)
  <2> HIDE DEF n, s0
  <2> QED
    BY <1>1, RunExists
<1> DEFINE run == CHOOSE f : f = [k \in 0 .. n |-> IF k = 0 THEN s0 ELSE NextCell(f[k - 1])]
<1>3. run = [k \in 0 .. n |-> IF k = 0 THEN s0 ELSE NextCell(run[k - 1])]
  <2> HIDE DEF n, s0
  <2> QED
    BY <1>2 DEF Runs
<1>4. Refreshed(s) = run[n]
  BY Zenon DEF Refreshed
<1> DEFINE S == {k \in 0 .. n : DrawState(Ch, run[k]) /\ OrReset(run[k].terms, t)}
<1>5. 0 \in S
  <2>1. DrawState(Ch, s0) /\ OrReset(s0.terms, t)
    <3>1. s0.terms = t /\ s0.screen = Blank /\ s0.at = Start(KERNEL_T)
      OBVIOUS
    <3>2. DOMAIN Blank = Offsets
      BY DEF Blank
    <3>3. Start(KERNEL_T) \in Locals
      BY StartLocals DEF KERNEL_T
    <3> HIDE DEF s0
    <3> QED
      BY <3>1, <3>2, <3>3 DEF DrawState, OrReset
  <2> HIDE DEF run, n, s0
  <2>2. 0 \in 0 .. n
    BY <1>1
  <2>3. run[0] = s0
    BY <1>3, <2>2
  <2> QED
    BY <2>1, <2>2, <2>3
<1>6. ASSUME NEW k \in 1 .. n, k - 1 \in S
      PROVE  k \in S
  <2> DEFINE p == run[k - 1]
  <2>1. run[k] = NextCell(p)
    <3> HIDE DEF run, n, s0
    <3>1. k \in 0 .. n /\ k # 0
      BY <1>1
    <3> QED
      BY <1>3, <3>1
  <2>2. DrawState(Ch, p) /\ OrReset(p.terms, t)
    BY <1>6
  <2> HIDE DEF run, n, s0, p
  <2>3. CASE Drawn(p.at)
    BY <2>1, <2>2, <2>3, <1>1 DEF NextCell
  <2>4. CASE ~Drawn(p.at)
    <3>1. run[k] = Cell(p)
      BY <2>1, <2>4 DEF NextCell
    <3>2. DrawState(Ch, run[k]) /\ OrReset(run[k].terms, p.terms)
      BY <2>2, <2>4, <3>1, CellState DEF Drawn
    <3>3. OrReset(run[k].terms, t)
      BY <2>2, <3>2 DEF OrReset
    <3> QED
      BY <1>1, <3>2, <3>3
  <2> QED
    BY <2>3, <2>4
<1>7. n \in S
  <2> HIDE DEF S, n
  <2>1. \A k \in 0 .. n : k \in S
    BY <1>1, <1>5, <1>6, Induction
  <2> QED
    BY <1>1, <2>1
<1> HIDE DEF run, n
<1>8. DrawState(Ch, Refreshed(s)) /\ OrReset(Refreshed(s).terms, t)
  BY <1>4, <1>7
<1> QED
  BY <1>8
----------------------------------------------------------------------------
(* The invariant                                                           *)

\* What is printed consists of characters in Ch.
Characters(Ch) ==
  NUL \in Ch /\ Echoed \subseteq Ch /\ \A t \in Logged \cup Written : t \in Seq(Ch)

\* Between virtualprint's test and its last use of lastPos, both the value
\* it may have kept and the one a key may have changed are within the
\* terminal's half.
Pending ==
  /\ outer \in [step : {"copy", "add"}, tid : Tid, text : Logged \cup Written,
                nadd : BOOLEAN, pos : 0 .. Room]
  /\ terms[outer.tid].lastPos <= Room

PrintInv(Ch) ==
  /\ terms \in [Tid -> Term(Ch)]
  /\ DOMAIN screen = Offsets
  /\ \/ outer = Idle
     \/ Pending
     \/ outer = [step |-> "draw", at |-> outer.at] /\ outer.at \in Locals /\ outer.at.i \in Tid

\* The loops of a refresh that may be interrupted have read no byte more
\* than they have passed cells.
DrawInv == outer.step = "draw" => Inside(outer.at)

\* The three forms of outer exclude one another.
LEMMA Phases ==
  /\ outer = Idle => outer.step = "idle"
  /\ Pending => outer.step \in {"copy", "add"}
  /\ outer = [step |-> "draw", at |-> outer.at] => outer.step = "draw"
BY DEF Idle, Pending

\* The memory starts with two empty terminals.
LEMMA InitPrint ==
  ASSUME TextsFit, NEW Ch, Characters(Ch), Init
  PROVE  PrintInv(Ch) /\ DrawInv
<1>1. 0 \in 0 .. Room + LongestText
  BY Sizes, Longest
<1>2. [j \in Index |-> NUL] \in [Index -> Ch]
  BY DEF Characters
<1>3. [bytes |-> [j \in Index |-> NUL], lastPos |-> 0] \in Term(Ch)
  BY <1>1, <1>2 DEF Term
<1>4. terms \in [Tid -> Term(Ch)]
  BY <1>3 DEF Init
<1>5. DOMAIN screen = Offsets
  BY DEF Init, Blank
<1> QED
  BY <1>4, <1>5, Phases DEF Init, PrintInv, DrawInv

\* A new lastPos within its range leaves a terminal a terminal.
LEMMA NewPos ==
  ASSUME TextsFit, NEW Ch, terms \in [Tid -> Term(Ch)], NEW tid \in Tid,
         NEW n \in 0 .. Room + LongestText
  PROVE  /\ [terms EXCEPT ![tid].lastPos = n] \in [Tid -> Term(Ch)]
         /\ [terms EXCEPT ![tid].lastPos = n][tid].lastPos = n
<1>1. terms[tid] \in Term(Ch)
  OBVIOUS
<1>2. [terms[tid] EXCEPT !.lastPos = n] \in Term(Ch) /\ [terms[tid] EXCEPT !.lastPos = n].lastPos = n
  BY <1>1 DEF Term
<1> QED
  BY <1>2

\* The memcpy of a text into bytes.
LEMMA AppendedBytes ==
  ASSUME NEW Ch, NEW b \in [Index -> Ch], NEW pos \in Nat, NEW text \in Seq(Ch)
  PROVE  Appended(b, pos, text) \in [Index -> Ch]
<1>1. Len(text) \in Nat /\ \A k \in 1 .. Len(text) : text[k] \in Ch
  BY LenProperties, ElementOfSeq
<1>2. \A j \in Index : j \in pos .. pos + Len(text) - 1 => j - pos + 1 \in 1 .. Len(text)
  BY <1>1, Sizes DEF Index
<1>3. \A j \in Index : (IF j \in pos .. pos + Len(text) - 1 THEN text[j - pos + 1] ELSE b[j]) \in Ch
  BY <1>1, <1>2
<1> QED
  BY <1>3 DEF Appended

\* virtualprint's test leaves lastPos where the text fits in the half.
LEMMA CheckPrint ==
  ASSUME TextsFit, NEW Ch, Characters(Ch), PrintInv(Ch), NEW tid \in Tid,
         NEW text \in Logged \cup Written, Check(tid, text)
  PROVE  PrintInv(Ch)' /\ DrawInv'
<1>1. Len(text) \in Nat /\ terms[tid].lastPos \in Nat
  <2>1. terms[tid].lastPos \in 0 .. Room + LongestText
    BY DEF PrintInv, Term
  <2> QED
    BY <2>1, Longest, Sizes
<1>2. 0 \in 0 .. Room + LongestText
  BY Sizes, Longest
<1>3. terms' \in [Tid -> Term(Ch)] /\ terms'[tid].lastPos \in 0 .. Room
  <2>1. CASE Overflows(tid, Len(text))
    <3>1. terms' = [terms EXCEPT ![tid].lastPos = 0]
      BY <2>1 DEF Check
    <3>2. terms \in [Tid -> Term(Ch)]
      BY DEF PrintInv
    <3>3. terms' \in [Tid -> Term(Ch)] /\ terms'[tid].lastPos = 0
      BY <1>2, <3>1, <3>2, NewPos
    <3> QED
      BY <3>3, Sizes
  <2>2. CASE ~Overflows(tid, Len(text))
    <3>1. terms' = terms
      BY <2>2 DEF Check
    <3> QED
      BY <1>1, <2>2, <3>1, Sizes DEF PrintInv, Overflows
  <2> QED
    BY <2>1, <2>2
<1>4. PICK nadd \in BOOLEAN : outer' = [step |-> "copy", tid |-> tid, text |-> text, nadd |-> nadd,
                                        pos |-> terms'[tid].lastPos]
  <2>1. Overflows(tid, Len(text)) \in BOOLEAN
    BY DEF Overflows
  <2> QED
    BY <2>1, Zenon DEF Check
<1>5. Pending'
  <2>1. outer' \in [step : {"copy", "add"}, tid : Tid, text : Logged \cup Written,
                    nadd : BOOLEAN, pos : 0 .. Room]
    BY <1>3, <1>4
  <2>2. outer'.tid = tid
    BY <1>4
  <2> QED
    BY <1>3, <2>1, <2>2, Sizes DEF Pending
<1>6. outer'.step # "draw" /\ screen' = screen
  BY <1>4 DEF Check
<1> QED
  BY <1>3, <1>5, <1>6 DEF PrintInv, DrawInv

\* The memcpy, to either place.
LEMMA CopyPrint ==
  ASSUME TextsFit, NEW Ch, Characters(Ch), PrintInv(Ch), Copy
  PROVE  PrintInv(Ch)' /\ DrawInv'
<1>0. Pending
  BY Phases DEF PrintInv, Copy
<1>1. PICK pos \in {outer.pos, terms[outer.tid].lastPos} :
         /\ terms' = [terms EXCEPT ![outer.tid].bytes = Appended(@, pos, outer.text)]
         /\ outer' = [outer EXCEPT !.step = "add", !.pos = pos]
  BY DEF Copy
<1>2. PICK tid \in Tid : tid = outer.tid
  BY <1>0 DEF Pending
<1>3. terms[tid] \in Term(Ch) /\ terms[tid].lastPos \in 0 .. Room
  <2>1. terms[tid] \in Term(Ch)
    BY DEF PrintInv
  <2>2. terms[tid].lastPos \in 0 .. Room + LongestText
    BY <2>1 DEF Term
  <2> QED
    BY <1>0, <1>2, <2>1, <2>2, Sizes, Longest DEF Pending
<1>4. pos \in 0 .. Room
  BY <1>0, <1>1, <1>2, <1>3 DEF Pending
<1>5. outer.text \in Seq(Ch)
  BY <1>0 DEF Pending, Characters
<1> DEFINE b == Appended(terms[tid].bytes, pos, outer.text)
<1>6. b \in [Index -> Ch]
  <2>1. terms[tid].bytes \in [Index -> Ch] /\ pos \in Nat
    BY <1>3, <1>4, Sizes DEF Term
  <2> QED
    BY <1>5, <2>1, AppendedBytes
<1>7. [terms[tid] EXCEPT !.bytes = b] \in Term(Ch)
      /\ [terms[tid] EXCEPT !.bytes = b].lastPos = terms[tid].lastPos
  <2> HIDE DEF b
  <2> QED
    BY <1>3, <1>6 DEF Term
<1>8. terms' = [terms EXCEPT ![tid] = [terms[tid] EXCEPT !.bytes = b]]
  BY <1>1, <1>2
<1> HIDE DEF b
<1>9. terms' \in [Tid -> Term(Ch)] /\ terms'[tid].lastPos = terms[tid].lastPos
  BY <1>7, <1>8 DEF PrintInv
<1>10. Pending' /\ outer'.step # "draw"
  <2>1. /\ outer' \in [step : {"copy", "add"}, tid : Tid, text : Logged \cup Written,
                       nadd : BOOLEAN, pos : 0 .. Room]
        /\ outer'.tid = outer.tid /\ outer'.step = "add"
    BY <1>0, <1>1, <1>4 DEF Pending
  <2> QED
    BY <1>2, <1>3, <1>9, <2>1, Sizes DEF Pending
<1> QED
  BY <1>9, <1>10 DEF PrintInv, DrawInv, Copy

\* Adding the length: a key may have taken the text one length past the half.
LEMMA AddPrint ==
  ASSUME TextsFit, NEW Ch, Characters(Ch), PrintInv(Ch), Add
  PROVE  PrintInv(Ch)' /\ DrawInv'
<1>0. Pending
  BY Phases DEF PrintInv, Add
<1>1. PICK pos \in {outer.pos, terms[outer.tid].lastPos} :
         terms' = IF outer.nadd THEN terms
                  ELSE [terms EXCEPT ![outer.tid].lastPos = pos + Len(outer.text)]
  BY DEF Add
<1>2. outer.tid \in Tid /\ outer.text \in Logged \cup Written
  BY <1>0 DEF Pending
<1>3. pos \in 0 .. Room
  <2>1. terms[outer.tid].lastPos \in 0 .. Room + LongestText
    BY <1>2 DEF PrintInv, Term
  <2>2. terms[outer.tid].lastPos \in 0 .. Room /\ outer.pos \in 0 .. Room
    BY <1>0, <2>1, Sizes, Longest DEF Pending
  <2> QED
    BY <1>1, <2>2
<1>4. pos + Len(outer.text) \in 0 .. Room + LongestText
  BY <1>2, <1>3, Longest, Sizes
<1>5. terms' \in [Tid -> Term(Ch)]
  BY <1>1, <1>2, <1>4, NewPos DEF PrintInv
<1>6. outer' = [step |-> "draw", at |-> Start(KERNEL_T)] /\ screen' = Blank
  BY DEF Add
<1>7. Start(KERNEL_T) \in Locals /\ Start(KERNEL_T).i \in Tid /\ Inside(Start(KERNEL_T))
  BY StartLocals DEF KERNEL_T, Tid
<1>8. outer'.at = Start(KERNEL_T) /\ DOMAIN Blank = Offsets
  BY <1>6 DEF Blank
<1> QED
  BY <1>5, <1>6, <1>7, <1>8 DEF PrintInv, DrawInv

\* The state a step of the interruptible refresh works on.
Drawing == [terms |-> terms, screen |-> screen, disturbed |-> disturbed, at |-> outer.at]

\* One cell of the refresh.
LEMMA DrawPrint ==
  ASSUME TextsFit, NEW Ch, Characters(Ch), PrintInv(Ch), Draw
  PROVE  /\ PrintInv(Ch)'
         /\ "backspace" \notin Ch /\ DrawInv => DrawInv'
<1>0. outer = [step |-> "draw", at |-> outer.at] /\ outer.at \in Locals /\ outer.at.i \in Tid
  BY Phases DEF PrintInv, Draw
<1>1. DrawState(Ch, Drawing) /\ Drawing.at = outer.at /\ Drawing.terms = terms
  BY <1>0 DEF Drawing, DrawState, PrintInv
<1>2. DrawState(Ch, Cell(Drawing))
  BY <1>0, <1>1, CellState
<1>3. /\ terms' = Cell(Drawing).terms /\ screen' = Cell(Drawing).screen
      /\ outer' = IF Drawn(Cell(Drawing).at) THEN Idle ELSE [outer EXCEPT !.at = Cell(Drawing).at]
  BY DEF Draw, Drawing
<1>4. terms' \in [Tid -> Term(Ch)] /\ DOMAIN screen' = Offsets
  BY <1>2, <1>3 DEF DrawState
<1>5. CASE Drawn(Cell(Drawing).at)
  <2>1. outer' = Idle /\ outer'.step # "draw"
    BY <1>3, <1>5 DEF Idle
  <2> QED
    BY <1>4, <2>1 DEF PrintInv, DrawInv
<1>6. CASE ~Drawn(Cell(Drawing).at)
  <2>1. PICK a : a = Cell(Drawing).at
    OBVIOUS
  <2>2. outer' = [step |-> "draw", at |-> a]
    BY <1>0, <1>3, <1>6, <2>1
  <2>3. outer'.at = a /\ a \in Locals /\ a.i \in Tid
    BY <1>2, <1>6, <2>1, <2>2 DEF DrawState, Drawn
  <2>4. PrintInv(Ch)'
    BY <1>4, <2>2, <2>3 DEF PrintInv
  <2>5. ASSUME "backspace" \notin Ch, DrawInv PROVE DrawInv'
    <3>1. Inside(outer.at)
      BY <1>0, <2>5, Phases DEF DrawInv
    <3>2. Inside(Cell(Drawing).at)
      BY <1>0, <1>1, <2>5, <3>1, CellInside
    <3> QED
      BY <2>1, <2>3, <3>2 DEF DrawInv
  <2> QED
    BY <2>4, <2>5
<1> QED
  BY <1>5, <1>6

\* A key's own virtualprint, whatever it interrupts.
LEMMA EchoPrint ==
  ASSUME TextsFit, NEW Ch, Characters(Ch), PrintInv(Ch), NEW c \in Echoed, Echo(c)
  PROVE  PrintInv(Ch)' /\ (DrawInv => DrawInv')
<1> DEFINE nadd == Overflows(BASIC_T, 1)
           pos == IF nadd THEN 0 ELSE terms[BASIC_T].lastPos
           last == IF nadd THEN 0 ELSE pos + 1
           b == Appended(terms[BASIC_T].bytes, pos, <<c>>)
           printed == [terms EXCEPT ![BASIC_T] = [bytes |-> b, lastPos |-> last]]
           s == Refreshed([terms |-> printed, screen |-> screen, at |-> Start(KERNEL_T),
                           disturbed |-> Disturbs(BASIC_T, <<c>>, nadd)])
<1>0. BASIC_T \in Tid
  BY DEF Tid
<1>1. terms[BASIC_T] \in Term(Ch) /\ terms[BASIC_T].lastPos \in Nat
      /\ terms[BASIC_T].bytes \in [Index -> Ch]
  <2>1. terms[BASIC_T] \in Term(Ch)
    BY <1>0 DEF PrintInv
  <2>2. terms[BASIC_T].lastPos \in 0 .. Room + LongestText /\ terms[BASIC_T].bytes \in [Index -> Ch]
    BY <2>1 DEF Term
  <2> QED
    BY <2>1, <2>2, Sizes, Longest
<1>2. pos \in Nat /\ last \in 0 .. Room
  BY <1>1, Sizes DEF Overflows
<1>3. b \in [Index -> Ch]
  <2>1. <<c>> \in Seq(Ch)
    BY DEF Characters
  <2> HIDE DEF pos
  <2> QED
    BY <1>1, <1>2, <2>1, AppendedBytes
<1> HIDE DEF pos, last, b
<1>4. printed \in [Tid -> Term(Ch)]
      /\ \A tid \in Tid : printed[tid].lastPos = IF tid = BASIC_T THEN last ELSE terms[tid].lastPos
  <2>1. last \in 0 .. Room + LongestText
    BY <1>2, Sizes, Longest
  <2>2. [bytes |-> b, lastPos |-> last] \in Term(Ch)
    BY <1>3, <2>1 DEF Term
  <2>3. terms \in [Tid -> Term(Ch)]
    BY DEF PrintInv
  <2> QED
    BY <1>0, <2>2, <2>3
<1>5. DrawState(Ch, s) /\ OrReset(s.terms, printed)
  <2> HIDE DEF printed
  <2> QED
    BY <1>4, RefreshedState
<1>6. terms' = s.terms /\ screen' = s.screen /\ outer' = outer
  BY DEF Echo, b, last, pos
<1> HIDE DEF s, printed
<1>7. terms' \in [Tid -> Term(Ch)] /\ DOMAIN screen' = Offsets
  BY <1>5, <1>6 DEF DrawState
<1>8. Pending => Pending'
  <2> HAVE Pending
  <2>1. outer.tid \in Tid /\ terms[outer.tid].lastPos <= Room
    BY DEF Pending
  <2>2. printed[outer.tid].lastPos <= Room
    BY <1>2, <1>4, <2>1, Sizes
  <2>3. terms'[outer.tid].lastPos <= Room
    BY <1>5, <1>6, <2>1, <2>2, Sizes DEF OrReset
  <2> QED
    BY <1>6, <2>3 DEF Pending
<1>9. PrintInv(Ch)'
  BY <1>6, <1>7, <1>8 DEF PrintInv
<1>10. DrawInv => DrawInv'
  BY <1>6 DEF DrawInv
<1> QED
  BY <1>9, <1>10
\* Every step.
LEMMA NextPrint ==
  ASSUME TextsFit, NEW Ch, Characters(Ch), PrintInv(Ch), [Next]_termvars
  PROVE  /\ PrintInv(Ch)'
         /\ "backspace" \notin Ch /\ DrawInv => DrawInv'
<1>1. CASE \E text \in Logged : Check(KERNEL_T, text)
  BY <1>1, CheckPrint DEF Tid
<1>2. CASE \E text \in Written : Check(BASIC_T, text)
  BY <1>2, CheckPrint DEF Tid
<1>3. CASE Copy
  BY <1>3, CopyPrint
<1>4. CASE Add
  BY <1>4, AddPrint
<1>5. CASE Draw
  BY <1>5, DrawPrint
<1>6. CASE \E c \in Echoed : Echo(c)
  BY <1>6, EchoPrint
<1>7. CASE UNCHANGED termvars
  BY <1>7 DEF termvars, PrintInv, DrawInv, Pending
<1> QED
  BY <1>1, <1>2, <1>3, <1>4, <1>5, <1>6, <1>7 DEF Next

----------------------------------------------------------------------------
(* The theorems                                                            *)

\* The invariant says more than CopyInBytes: a place in the half, and a text
\* no longer than the half, are within bytes.
LEMMA PrintCopies ==
  ASSUME TextsFit, NEW Ch, PrintInv(Ch)
  PROVE  CopyInBytes
<1> SUFFICES ASSUME outer.step = "copy", NEW pos \in {outer.pos, terms[outer.tid].lastPos}
             PROVE  pos + Len(outer.text) <= BYTES
  BY DEF CopyInBytes
<1>1. Pending
  BY Phases DEF PrintInv
<1>2. outer.tid \in Tid /\ outer.text \in Logged \cup Written /\ outer.pos \in 0 .. Room
  BY <1>1 DEF Pending
<1>3. terms[outer.tid].lastPos \in 0 .. Room
  <2>1. terms[outer.tid].lastPos \in 0 .. Room + LongestText
    BY <1>2 DEF PrintInv, Term
  <2> QED
    BY <1>1, <2>1, Sizes, Longest DEF Pending
<1>4. Len(outer.text) \in Nat /\ Len(outer.text) <= Room
  BY <1>2, Longest DEF TextsFit
<1> QED
  BY <1>2, <1>3, <1>4, Sizes

\* On every screen, and whatever texts that fit half of it are printed,
\* virtualprint's memcpy stays within a terminal's bytes: a key echoed
\* between the test of lastPos and the copy cannot take it past the end.
THEOREM CopyStaysInBytes == Spec /\ TextsFit => []CopyInBytes
<1> DEFINE Ch == STRING \cup {NUL}
<1>1. TextsFit => Characters(Ch)
  <2> SUFFICES ASSUME TextsFit PROVE Characters(Ch)
    OBVIOUS
  <2>1. ASSUME NEW t \in Logged \cup Written PROVE t \in Seq(Ch)
    <3>1. t \in Seq(STRING)
      BY DEF TextsFit
    <3>2. t \in [1 .. Len(t) -> STRING] /\ Len(t) \in Nat
      BY <3>1, LenProperties
    <3> QED
      BY <3>2, SeqDef
  <2> QED
    BY <2>1 DEF Characters, TextsFit
<1> HIDE DEF Ch
<1>2. TextsFit /\ Init => PrintInv(Ch)
  BY <1>1, InitPrint
<1>3. TextsFit /\ PrintInv(Ch) /\ [Next]_termvars => PrintInv(Ch)'
  BY <1>1, NextPrint
<1>4. TextsFit /\ PrintInv(Ch) => CopyInBytes
  BY PrintCopies
<1>5. CASE TextsFit
  BY <1>2, <1>3, <1>4, <1>5, PTL DEF Spec
<1>6. CASE ~TextsFit
  BY <1>6
<1> QED
  BY <1>5, <1>6

\* On every screen, when no text has a backspace: lastPos is at most one
\* text past a terminal's half, and refreshTerminals, which does not test
\* where it reads, stays within bytes however often keys interrupt it.
THEOREM TermTypeCorrect == Spec /\ TextsFit /\ NoBackspace => []TermTypeOK
<1> DEFINE Ch == (STRING \cup {NUL}) \ {"backspace"}
           Inv == PrintInv(Ch) /\ DrawInv
<1>1. TextsFit /\ NoBackspace => Characters(Ch)
  <2> SUFFICES ASSUME TextsFit, NoBackspace PROVE Characters(Ch)
    OBVIOUS
  <2>1. NUL \in Ch
    BY DEF NUL
  <2>2. Echoed \subseteq Ch
    BY DEF TextsFit, NoBackspace
  <2>3. ASSUME NEW t \in Logged \cup Written PROVE t \in Seq(Ch)
    <3>1. t \in Seq(STRING) /\ \A n \in DOMAIN t : t[n] # "backspace"
      BY DEF TextsFit, NoBackspace
    <3>2. t \in [1 .. Len(t) -> STRING] /\ Len(t) \in Nat
      BY <3>1, LenProperties
    <3>3. t \in [1 .. Len(t) -> Ch]
      BY <3>1, <3>2
    <3> QED
      BY <3>2, <3>3, SeqDef
  <2> QED
    BY <2>1, <2>2, <2>3 DEF Characters
<1>2. TextsFit /\ NoBackspace /\ Init => Inv
  BY <1>1, InitPrint
<1>3. TextsFit /\ NoBackspace /\ Inv /\ [Next]_termvars => Inv'
  BY <1>1, NextPrint
<1>4. Inv => TermTypeOK
  <2> SUFFICES ASSUME Inv PROVE TermTypeOK
    OBVIOUS
  <2>1. ASSUME NEW tid \in Tid
        PROVE  terms[tid].lastPos \in 0 .. Room + LongestText /\ DOMAIN terms[tid].bytes = Index
    BY DEF PrintInv, Term
  <2>2. outer.step = "draw" => outer.at.curI \in Index
    BY Phases, InsideIndex DEF PrintInv, DrawInv
  <2> QED
    BY <2>1, <2>2 DEF TermTypeOK, PrintInv
<1> HIDE DEF Inv, Ch
<1>5. CASE TextsFit /\ NoBackspace
  BY <1>2, <1>3, <1>4, <1>5, PTL DEF Spec
<1>6. CASE ~(TextsFit /\ NoBackspace)
  BY <1>6
<1> QED
  BY <1>5, <1>6
=============================================================================
