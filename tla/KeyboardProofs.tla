--------------------------- MODULE KeyboardProofs ---------------------------
(***************************************************************************)
(* The keyboard driver's line buffer, for every buffer size, tab width and  *)
(* set of byte counts: it is never overrun, and without tabs and without    *)
(* backspaces on an empty line it implements LineEditor.                    *)
(***************************************************************************)
EXTENDS Keyboard, SequenceTheorems, TLAPS

KbInv == KbTypeOK /\ NoOverrun

\* A prefix of the buffer is a sequence of its bytes.
LEMMA PrefixIsSeq ==
  ASSUME KbTypeOK, NEW n \in 0 .. SIZE
  PROVE  /\ Prefix(n) \in Seq(Bytes)
         /\ Len(Prefix(n)) = n
         /\ \A i \in 1 .. n : Prefix(n)[i] = key_buffer[i - 1]
<1>1. \A i \in 1 .. n : i - 1 \in Index
  BY KeyboardAssumption DEF Index
<1> QED
  BY <1>1, KeyboardAssumption DEF KbTypeOK, Prefix

\* The buffer is empty at boot.
LEMMA KbInitInv == KbInit => KbInv
BY KeyboardAssumption DEF KbInit, KbInv, KbTypeOK, NoOverrun, Index, Bytes

\* Storing a byte keeps to the buffer: the position is checked first.
LEMMA PutInv ==
  ASSUME KbInv, NEW c \in Bytes, Put(c)
  PROVE  /\ key_buffer' \in [Index -> Bytes]
         /\ key_buffer_pos' \in 0 .. SIZE
         /\ NoOverrun'
BY KeyboardAssumption DEF KbInv, KbTypeOK, NoOverrun, Put, Index

\* Every key and every read() keeps the buffer within its bounds.
LEMMA KbStepInv == KbInv /\ [KbNext]_kbvars => KbInv'
<1> SUFFICES ASSUME KbInv, [KbNext]_kbvars PROVE KbInv'
  OBVIOUS
<1> USE KeyboardAssumption
<1>1. ASSUME NEW n \in ByteCounts, StdinRead(n) PROVE KbInv'
  BY <1>1 DEF StdinRead, KbInv, KbTypeOK, NoOverrun
<1>2. ASSUME NEW release \in BOOLEAN, Shift(release) PROVE KbInv'
  BY <1>2 DEF Shift, KbInv, KbTypeOK, NoOverrun
<1>3. CASE CapsLock
  BY <1>3 DEF CapsLock, KbInv, KbTypeOK, NoOverrun
<1>4. CASE PressLetter
  <2>1. Letter \in Bytes
    BY DEF Letter, Bytes, Letters
  <2> QED
    BY <1>4, <2>1, PutInv DEF PressLetter, KbInv, KbTypeOK
<1>5. CASE PressBackspace
  <2>1. CASE key_buffer_pos > 0
    BY <1>5, <2>1 DEF PressBackspace, KbInv, KbTypeOK, NoOverrun
  <2>2. CASE Put("bs")
    <3>1. "bs" \in Bytes
      BY DEF Bytes
    <3> QED
      BY <1>5, <2>2, <3>1, PutInv DEF PressBackspace, KbInv, KbTypeOK
  <2> QED
    BY <1>5, <2>1, <2>2 DEF PressBackspace
<1>6. CASE PressTab
  <2>1. CASE RoomForTab
    <3>1. key_buffer_pos' \in 0 .. SIZE
      BY <1>6, <2>1 DEF PressTab, RoomForTab, KbInv, KbTypeOK
    <3>2. key_buffer' \in [Index -> Bytes] /\ NoOverrun'
      BY <1>6, <2>1 DEF PressTab, RoomForTab, KbInv, KbTypeOK, NoOverrun, Index,
                        Bytes
    <3> QED
      BY <1>6, <3>1, <3>2 DEF PressTab, KbInv, KbTypeOK
  <2>2. CASE ~RoomForTab
    <3>1. "ht" \in Bytes
      BY DEF Bytes
    <3> QED
      BY <1>6, <2>2, <3>1, PutInv DEF PressTab, KbInv, KbTypeOK
  <2> QED
    BY <2>1, <2>2
<1>7. CASE PressEnter
  <2>1. key_buffer' \in [Index -> Bytes] /\ NoOverrun'
    BY <1>7 DEF PressEnter, KbInv, KbTypeOK, NoOverrun, Index, Bytes
  <2>2. buffer' \in Seq(Bytes)
    <3> DEFINE n == IF key_buffer_pos > reader[1] THEN reader[1]
                    ELSE key_buffer_pos
    <3>1. reader[1] \in Nat
      BY <1>7 DEF PressEnter, KbInv, KbTypeOK
    <3>2. n \in 0 .. SIZE
      BY <3>1 DEF KbInv, KbTypeOK
    <3>3. buffer' = Prefix(n)
      BY <1>7 DEF PressEnter
    <3> HIDE DEF n
    <3> QED
      BY <3>2, <3>3, PrefixIsSeq DEF KbInv
  <2> QED
    BY <1>7, <2>1, <2>2 DEF PressEnter, KbInv, KbTypeOK
<1>8. CASE UNCHANGED kbvars
  BY <1>8 DEF kbvars, KbInv, KbTypeOK, NoOverrun
<1> QED
  BY <1>1, <1>2, <1>3, <1>4, <1>5, <1>6, <1>7, <1>8 DEF KbNext

\* What the driver and read() keep about the line stays so.
LEMMA KbInvariant == KbSpec => []KbInv
BY KbInitInv, KbStepInv, PTL DEF KbSpec

\* The buffer, its position and the reader keep their types.
THEOREM KbTypeCorrect == KbSpec => []KbTypeOK
BY KbInvariant, PTL DEF KbInv

\* No sequence of keys (tabs near the end of the buffer and backspaces on an
\* empty line included) writes past key_buffer, whatever its size.
THEOREM BufferSafe == KbSpec => []NoOverrun
BY KbInvariant, PTL DEF KbInv

----------------------------------------------------------------------------
(* The refinement of LineEditor                                            *)

\* An untouched, empty buffer is an empty line.
LEMMA EditorInit == KbInit => Editor!LEInit
BY DEF KbInit, Editor!LEInit, Prefix

\* A letter is stored after the line, or ignored when the buffer is full.
LEMMA LetterTypes ==
  ASSUME KbInv, KbInv', PressLetter
  PROVE  \E c \in Letters : Editor!Type(c)
<1> USE KeyboardAssumption
<1> DEFINE pos == key_buffer_pos
<1>1. Letter \in Letters
  BY DEF Letter, Letters
<1>2. /\ pos \in 0 .. SIZE /\ pos < SIZE /\ pos' = pos + 1
      /\ key_buffer' = [key_buffer EXCEPT ![pos] = Letter]
      /\ key_buffer \in [Index -> Bytes]
      /\ UNCHANGED <<reader, buffer>>
  BY DEF PressLetter, Put, KbInv, KbTypeOK
<1>3. /\ Prefix(pos) \in Seq(Bytes)
      /\ Len(Prefix(pos)) = pos
      /\ \A i \in 1 .. pos : Prefix(pos)[i] = key_buffer[i - 1]
  BY <1>2, PrefixIsSeq DEF KbInv
<1>4. Prefix(pos)' = [i \in 1 .. pos + 1 |-> key_buffer'[i - 1]]
  BY <1>2 DEF Prefix
<1>5. \A i \in 1 .. pos + 1 :
        key_buffer'[i - 1] = IF i = pos + 1 THEN Letter ELSE Prefix(pos)[i]
  BY <1>2, <1>3 DEF Index
<1>6. Prefix(pos)' = Append(Prefix(pos), Letter)
  <2> DEFINE s == Prefix(pos)
             t == [i \in 1 .. pos + 1 |-> IF i = pos + 1 THEN Letter ELSE s[i]]
  <2>1. Prefix(pos)' = t
    BY <1>4, <1>5
  <2>2. pos \in Nat /\ s \in Seq(Bytes) /\ Len(s) = pos /\ Letter \in Bytes
    BY <1>1, <1>2, <1>3 DEF Bytes
  <2>3. t \in Seq(Bytes) /\ Len(t) = pos + 1
    BY <2>2
  <2>4. \A i \in 1 .. pos + 1 : t[i] = Append(s, Letter)[i]
    BY <2>2
  <2>5. Append(s, Letter) \in Seq(Bytes) /\ Len(Append(s, Letter)) = pos + 1
    BY <2>2
  <2> HIDE DEF s, t
  <2>6. t = Append(s, Letter)
    BY <2>2, <2>3, <2>4, <2>5, SeqEqual
  <2> QED
    BY <2>1, <2>6 DEF s
<1> QED
  BY <1>1, <1>2, <1>3, <1>6 DEF Editor!Type

\* Backspace takes the last character away.
LEMMA BackspaceErases ==
  ASSUME KbInv, KbInv', PressBackspace, "backspace_empty" \notin Keys
  PROVE  Editor!Erase
<1> USE KeyboardAssumption
<1> DEFINE pos == key_buffer_pos
<1>1. /\ pos \in 1 .. SIZE /\ pos' = pos - 1 /\ key_buffer' = key_buffer
      /\ UNCHANGED <<reader, buffer>>
  BY DEF PressBackspace, KbInv, KbTypeOK
<1>2. /\ Prefix(pos) \in Seq(Bytes)
      /\ Len(Prefix(pos)) = pos
      /\ \A i \in 1 .. pos : Prefix(pos)[i] = key_buffer[i - 1]
  BY <1>1, PrefixIsSeq DEF KbInv
<1>3. Prefix(pos)' = [i \in 1 .. pos - 1 |-> key_buffer[i - 1]]
  BY <1>1 DEF Prefix
<1>4. SubSeq(Prefix(pos), 1, pos - 1) = [i \in 1 .. pos - 1 |-> Prefix(pos)[i]]
  BY <1>1, <1>2
<1>5. Prefix(pos)' = SubSeq(Prefix(pos), 1, pos - 1)
  BY <1>1, <1>2, <1>3, <1>4
<1>6. Prefix(pos) # <<>>
  BY <1>1, <1>2
<1> QED
  BY <1>1, <1>2, <1>5, <1>6 DEF Editor!Erase

\* ENTER hands over the line, cut to the reader's byte count.
LEMMA EnterDelivers ==
  ASSUME KbInv, KbInv', PressEnter
  PROVE  Editor!Deliver
<1> USE KeyboardAssumption
<1> DEFINE pos == key_buffer_pos
           n == IF pos > reader[1] THEN reader[1] ELSE pos
<1>1. /\ pos \in 0 .. SIZE /\ pos' = 0 /\ reader # <<>> /\ reader' = <<>>
      /\ buffer' = Prefix(n) /\ reader[1] \in Nat
  BY DEF PressEnter, KbInv, KbTypeOK
<1>2. /\ Prefix(pos) \in Seq(Bytes)
      /\ Len(Prefix(pos)) = pos
      /\ \A i \in 1 .. pos : Prefix(pos)[i] = key_buffer[i - 1]
  BY <1>1, PrefixIsSeq DEF KbInv
<1>3. n \in 0 .. pos /\ n = (IF pos < reader[1] THEN pos ELSE reader[1])
  BY <1>1
<1> HIDE DEF n
<1>4. Prefix(n) = [i \in 1 .. n |-> key_buffer[i - 1]]
  BY DEF Prefix
<1>5. SubSeq(Prefix(pos), 1, n) = [i \in 1 .. n |-> Prefix(pos)[i]]
  BY <1>1, <1>2, <1>3
<1>6. Prefix(n) = SubSeq(Prefix(pos), 1, n)
  <2>1. \A i \in 1 .. n : Prefix(pos)[i] = key_buffer[i - 1]
    BY <1>1, <1>2, <1>3
  <2> QED
    BY <1>4, <1>5, <2>1
<1>7. Prefix(pos)' = <<>>
  BY <1>1 DEF Prefix
<1> QED
  BY <1>1, <1>2, <1>3, <1>6, <1>7 DEF Editor!Deliver

\* Every step of the driver is a step of the line editor, or none.
LEMMA EditorStep ==
  ASSUME "tab" \notin Keys, "backspace_empty" \notin Keys,
         KbInv, KbInv', [KbNext]_kbvars
  PROVE  [Editor!LENext]_(Editor!levars)
<1>1. ASSUME NEW n \in ByteCounts, StdinRead(n) PROVE Editor!LENext
  BY <1>1 DEF StdinRead, Editor!LENext, Editor!Ask, Prefix
<1>2. ASSUME NEW release \in BOOLEAN, Shift(release) PROVE UNCHANGED Editor!levars
  BY <1>2 DEF Shift, Editor!levars, Prefix
<1>3. CASE CapsLock
  BY <1>3 DEF CapsLock, Editor!levars, Prefix
<1>4. CASE PressLetter
  BY <1>4, LetterTypes DEF Editor!LENext
<1>5. CASE PressBackspace
  BY <1>5, BackspaceErases DEF Editor!LENext
<1>6. CASE PressTab
  BY <1>6 DEF PressTab
<1>7. CASE PressEnter
  BY <1>7, EnterDelivers DEF Editor!LENext
<1>8. CASE UNCHANGED kbvars
  BY <1>8 DEF kbvars, Editor!levars, Prefix
<1> QED
  BY <1>1, <1>2, <1>3, <1>4, <1>5, <1>6, <1>7, <1>8 DEF KbNext

\* For programs and users who need no tab and never press backspace on an
\* empty line, read(STD_IN_FD) delivers exactly what LineEditor promises,
\* for every buffer size and byte count.
THEOREM LineDelivered ==
  ASSUME "tab" \notin Keys, "backspace_empty" \notin Keys
  PROVE  KbSpec => ImplementsLineEditor
<1>1. KbInv /\ KbInv' /\ [KbNext]_kbvars => [Editor!LENext]_(Editor!levars)
  BY EditorStep
<1> QED
  BY <1>1, EditorInit, KbInitInv, KbStepInv, PTL
     DEF KbSpec, ImplementsLineEditor, Editor!LESpec
=============================================================================
